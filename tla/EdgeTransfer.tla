----------------------------- MODULE EdgeTransfer -----------------------------
(***************************************************************************)
(* Transfers over a chain of edges: what a request waits for between two   *)
(* nodes, and when it gives it back. Translated from the edge handling of  *)
(* src/src/engine/engine.ts and from src/src/engine/network/.              *)
(*                                                                         *)
(* Edge e leads from node e - 1 to node e. An edge may have a connection   *)
(* pool, whose streams a request holds until its response or its delivery, *)
(* and has in-flight slots, which it holds while in transit; either may    *)
(* make it wait in line. Time is left out: whatever an event would bring   *)
(* may come at any moment, the deadline included. Producer batches, pools  *)
(* of the workload's clients and unreliable protocols are left out.        *)
(***************************************************************************)
EXTENDS SequencesExt, FiniteSetsExt, Functions, Integers

CONSTANTS
  Requests,
  Topologies,    \* sequences of edges: the pool's reuse, connections and streams on
                 \* each, the slots, whether streams are paired with responses, and
                 \* the retry budget of the edge's source, the first attempt included
  Issued(_)      \* the requests that are issued in a topology

Reuses == {"keep-alive", "persistent", "per-request", "none"}
Phases == {"served", "pooling", "lining", "flying", "refused", "ended"}
NoStream == 0

ASSUME EdgeAssumption ==
  /\ IsFiniteSet(Requests)
  /\ \A edges \in Topologies : edges \in Seq(
       [reuse : Reuses, connections : Nat \ {0}, streams : Nat \ {0},
        slots : Nat \ {0}, paired : BOOLEAN, attempts : Nat])

VARIABLES
  edge,     \* the topology's edges; they never change
  hop,      \* the node each request is at, or is leaving
  retries,  \* retries each node has spent on each request
  net       \* the network: a record of
            \*   phase : where each request is about its next edge
            \*   conns : [Edges -> the streams in use on each open connection]
            \*   wait  : [Edges -> the line for a stream]
            \*   lease : [Requests -> [Edges -> the connection it has a stream on]]
            \*   load  : [Edges -> transfers in flight]
            \*   line  : [Edges -> the line for a slot]

vars == <<edge, hop, retries, net>>

Edges == DOMAIN edge
Nodes == 0 .. Len(edge)
NextEdge(r) == hop[r] + 1

-----------------------------------------------------------------------------
(* In-flight slots. lost is the requests the edge's error rate strikes. *)

\* Mutant: the slot is taken before the edge can refuse.
TransmitTakesFirst(lost, n, r, e) ==
  [n EXCEPT !.phase[r] = IF r \in lost THEN "refused" ELSE "flying", !.load[e] = @ + 1]

Transmit(lost, n, r, e) ==
  IF r \in lost THEN [n EXCEPT !.phase[r] = "refused"]
  ELSE [n EXCEPT !.phase[r] = "flying", !.load[e] = @ + 1]

EdgeSlotLineFull(n, e) == Len(n.line[e]) >= edge[e].slots

DispatchEdgeTransfer(lost, n, r, e) ==
  IF n.load[e] < edge[e].slots THEN Transmit(lost, n, r, e)
  ELSE IF EdgeSlotLineFull(n, e) THEN [n EXCEPT !.phase[r] = "refused"]
  ELSE [n EXCEPT !.phase[r] = "lining", !.line[e] = Append(@, r)]

\* Mutant: a free slot is offered once, whatever becomes of the offer.
AdmitHead(lost, n, e) ==
  IF n.line[e] # <<>> /\ n.load[e] < edge[e].slots
  THEN Transmit(lost, [n EXCEPT !.line[e] = Tail(@)], Head(n.line[e]), e)
  ELSE n

\* Free slots go to the head of the line; a transfer the edge refuses leaves
\* its slot to the next.
AdmitEdgeSlotWaiters(lost, n, e) ==
  FoldLeft(LAMBDA m, r :
             IF m.load[e] < edge[e].slots
             THEN Transmit(lost, [m EXCEPT !.line[e] = Tail(@)], r, e)
             ELSE m,
           n, n.line[e])

\* Mutant: a slot is freed and the line not told.
ReleaseQuietly(lost, n, e) == [n EXCEPT !.load[e] = Max({0, @ - 1})]

ReleaseEdgeTransfer(lost, n, e) ==
  IF n.load[e] = 0 THEN n
  ELSE AdmitEdgeSlotWaiters(lost, [n EXCEPT !.load[e] = @ - 1], e)

-----------------------------------------------------------------------------
(* Connection pools *)

Pooled(e) == edge[e].reuse # "none"
Idle(n, e) == {c \in DOMAIN n.conns[e] : n.conns[e][c] = 0}
Unopened(n, e) == edge[e].connections - Cardinality(DOMAIN n.conns[e])

WithFreeStream(n, e) ==
  IF edge[e].reuse = "per-request" THEN {}
  ELSE {c \in DOMAIN n.conns[e] : n.conns[e][c] < edge[e].streams}

\* The busiest connection with a free stream, else one not open yet.
Choice(n, e) ==
  LET free == WithFreeStream(n, e)
  IN IF free # {} THEN CHOOSE c \in free : \A d \in free : n.conns[e][c] >= n.conns[e][d]
     ELSE Min((1 .. edge[e].connections) \ DOMAIN n.conns[e])

\* Mutant: the newest waiter is served first.
EnqueueInFront(n, r, e, front) ==
  [n EXCEPT !.phase[r] = "pooling", !.wait[e] = <<r>> \o @]

EnqueueWaiter(n, r, e, front) ==
  [n EXCEPT !.phase[r] = "pooling",
            !.wait[e] = IF front THEN <<r>> \o @ ELSE Append(@, r)]

\* One more stream on a connection, which is opened by it if it is not open yet.
StreamTaken(used, c) ==
  [d \in DOMAIN used \cup {c} |->
     IF d # c THEN used[d] ELSE IF c \in DOMAIN used THEN used[c] + 1 ELSE 1]

AcquireConnectionAndDispatch(lost, n, r, e, requeued) ==
  IF WithFreeStream(n, e) = {} /\ Unopened(n, e) <= 0
  THEN EnqueueWaiter(n, r, e, requeued)
  ELSE LET c == Choice(n, e)
       IN DispatchEdgeTransfer(lost,
            [n EXCEPT !.conns[e] = StreamTaken(@, c), !.lease[r][e] = c], r, e)

CloseIdle(n, e, expired) ==
  [n EXCEPT !.conns[e] = Restrict(@, DOMAIN @ \ expired)]

StreamFreed(n, e, c) ==
  LET fewer == [n EXCEPT !.conns[e][c] = Max({0, @ - 1})]
  IN IF edge[e].reuse = "per-request" THEN CloseIdle(fewer, e, Idle(fewer, e) \cap {c})
     ELSE fewer

\* The streams nobody uses: a connection not open yet counts for all of its own.
FreeStreams(n, e) ==
  {s \in (1 .. edge[e].connections) \X (1 .. edge[e].streams) :
     s[1] \in DOMAIN n.conns[e] => s[2] > n.conns[e][s[1]]}

\* How many waiters a pool can serve.
Room(n, e) ==
  IF edge[e].reuse = "per-request" THEN Unopened(n, e) ELSE Cardinality(FreeStreams(n, e))

Release(lost, n, r, e) ==
  LET freed == StreamFreed([n EXCEPT !.lease[r][e] = NoStream], e, n.lease[r][e])
      taken == Min({Len(freed.wait[e]), Room(freed, e)})
  IN FoldLeft(LAMBDA m, w : AcquireConnectionAndDispatch(lost, m, w, e, TRUE),
              [freed EXCEPT !.wait[e] = SubSeq(@, taken + 1, Len(@))],
              SubSeq(freed.wait[e], 1, taken))

Leased(n, r) == {e \in Edges : n.lease[r][e] # NoStream}

\* Streams are freed in the order they were acquired, which is along the chain.
ReleaseConnectionLeases(lost, n, r, es) ==
  FoldLeft(LAMBDA m, e : IF e \in es THEN Release(lost, m, r, e) ELSE m,
           n, [e \in Edges |-> e])

\* Mutant: a delivery frees no stream, whatever the protocol.
DeliveredNothing(n, r, e) == {}

Delivered(n, r, e) == {f \in Leased(n, r) \cap {e} : ~edge[f].paired}

-----------------------------------------------------------------------------
(* The handlers. In each, lost strikes requests that are put on an edge. *)

EInit ==
  /\ edge \in Topologies
  /\ hop = [r \in Requests |-> 0]
  /\ retries = [r \in Requests |-> [k \in Nodes |-> 0]]
  /\ net = [phase |-> [r \in Requests |-> IF r \in Issued(edge) THEN "served" ELSE "ended"],
            conns |-> [e \in Edges |-> <<>>], wait |-> [e \in Edges |-> <<>>],
            lease |-> [r \in Requests |-> [e \in Edges |-> NoStream]],
            load |-> [e \in Edges |-> 0], line |-> [e \in Edges |-> <<>>]]

At(r, phase) == net.phase[r] = phase
Waiting == {r \in Requests : net.phase[r] \in {"pooling", "lining"}}

\* A node sends the request on. Connections idle for too long are closed first.
EnqueueEdgeTransfer(r) ==
  /\ At(r, "served") /\ hop[r] < Len(edge)
  /\ \E lost \in SUBSET {r} :
       LET e == NextEdge(r)
       IN IF Pooled(e)
          THEN \E expired \in SUBSET (IF edge[e].reuse = "keep-alive" THEN Idle(net, e) ELSE {}) :
                 net' = AcquireConnectionAndDispatch(lost, CloseIdle(net, e, expired), r, e, FALSE)
          ELSE net' = DispatchEdgeTransfer(lost, net, r, e)
  /\ UNCHANGED <<edge, hop, retries>>

\* A transfer arrives: it gives back its slot, then a stream not paired with a response.
HandleRequestArrival(r) ==
  /\ At(r, "flying")
  /\ \E lost \in SUBSET Waiting :
       LET e == NextEdge(r)
           n == ReleaseEdgeTransfer(lost, [net EXCEPT !.phase[r] = "served"], e)
       IN net' = ReleaseConnectionLeases(lost, n, r, Delivered(n, r, e))
  /\ hop' = [hop EXCEPT ![r] = NextEdge(r)]
  /\ UNCHANGED <<edge, retries>>

\* What a failure or a terminal does to the network: every stream is given back.
Settle(r, phase, n) ==
  \E lost \in SUBSET Waiting :
    net' = ReleaseConnectionLeases(lost, [n EXCEPT !.phase[r] = phase], r, Leased(n, r))

\* The request completes, or fails at its node or on the edge with no retry left.
MarkRequestTerminal(r) ==
  /\ At(r, "served") \/ At(r, "refused")
  /\ Settle(r, "ended", net)
  /\ UNCHANGED <<edge, hop, retries>>

\* The callers of the failed attempt that may still retry; a backoff beyond the
\* deadline passes one over.
RetryOwners(r) ==
  {k \in 0 .. (IF At(r, "refused") THEN hop[r] ELSE hop[r] - 1) :
     retries[r][k] + 1 < edge[k + 1].attempts}

\* An attempt fails at its node or on the edge, and a caller starts it over.
MaybeScheduleRetryAttempt(r) ==
  /\ At(r, "served") \/ At(r, "refused")
  /\ \E k \in RetryOwners(r) :
       /\ hop' = [hop EXCEPT ![r] = k]
       /\ retries' = [retries EXCEPT ![r] =
                        [j \in Nodes |-> IF j < k THEN @[j] ELSE IF j = k THEN @[k] + 1 ELSE 0]]
  /\ Settle(r, "served", net)
  /\ UNCHANGED edge

\* The deadline passes while the request is in a line or in transit.
HandleRequestTimeout(r) ==
  LET e == NextEdge(r)
  IN /\ \/ /\ At(r, "pooling")
           /\ Settle(r, "ended", [net EXCEPT !.wait[e] = RemoveFirst(@, r)])
        \/ /\ At(r, "lining")
           /\ Settle(r, "ended", [net EXCEPT !.line[e] = RemoveFirst(@, r)])
        \/ /\ At(r, "flying")
           /\ \E lost \in SUBSET Waiting :
                net' = ReleaseConnectionLeases(lost,
                         ReleaseEdgeTransfer(lost, [net EXCEPT !.phase[r] = "ended"], e),
                         r, Leased(net, r))
     /\ UNCHANGED <<edge, hop, retries>>

HandleRequest(r) ==
  \/ EnqueueEdgeTransfer(r)
  \/ HandleRequestArrival(r)
  \/ MarkRequestTerminal(r)
  \/ MaybeScheduleRetryAttempt(r)

Finished ==
  /\ \A r \in Requests : At(r, "ended")
  /\ UNCHANGED vars

ENext ==
  \/ \E r \in Requests : HandleRequest(r) \/ HandleRequestTimeout(r)
  \/ Finished

\* Whatever is in transit arrives and whatever is at a node leaves it; nobody
\* need run into its deadline. This is WF_vars(HandleRequest(r)), written with
\* the condition that enables the handlers.
Fair(r) ==
  \/ []<>(At(r, "pooling") \/ At(r, "lining") \/ At(r, "ended"))
  \/ []<><<HandleRequest(r)>>_vars

ESpec == EInit /\ [][ENext]_vars /\ \A r \in Requests : Fair(r)

-----------------------------------------------------------------------------
(* Properties *)

InFlight(e) == {r \in Requests : At(r, "flying") /\ NextEdge(r) = e}
Standing(r, e) == net.phase[r] \in {"lining", "flying", "refused"} /\ NextEdge(r) = e

\* Types: no pool is wider, no edge busier and no line for slots longer than the
\* edge allows (acquire, edgeSlotLineFull), and no request waits in a line twice.
TypeOK ==
  /\ edge \in Topologies
  /\ hop \in [Requests -> Nodes] /\ retries \in [Requests -> [Nodes -> Nat]]
  /\ net.phase \in [Requests -> Phases]
  /\ net.lease \in [Requests -> [Edges -> Nat]]
  /\ \A e \in Edges :
       /\ net.load[e] \in 0 .. edge[e].slots
       /\ DOMAIN net.conns[e] \subseteq 1 .. edge[e].connections
       /\ \A c \in DOMAIN net.conns[e] : net.conns[e][c] \in 0 .. edge[e].streams
       /\ Len(net.line[e]) <= edge[e].slots
       /\ IsInjective(net.wait[e]) /\ IsInjective(net.line[e])

\* The counters of activeTransfersByEdgeId and of the pools are exact: a slot
\* for each transfer in flight, a stream for each lease. A unit given back
\* twice, or by a transfer that never had one, would let the edge carry more
\* than it may; one never given back would narrow it for good.
CountersExact ==
  TypeOK /\ \A e \in Edges :
    /\ net.load[e] = Cardinality(InFlight(e))
    /\ \A c \in DOMAIN net.conns[e] :
         net.conns[e][c] = Cardinality({r \in Requests : net.lease[r][e] = c})

\* A request holds a stream from its grant to its delivery, or while its
\* response may still come where the two are paired, and no longer: an ended
\* one, one that waits for a stream and one that retries from before hold none.
StreamsHeldInUse ==
  \A r \in Requests, e \in Edges :
    /\ net.lease[r][e] # NoStream =>
         /\ net.lease[r][e] \in DOMAIN net.conns[e]
         /\ Standing(r, e) \/ (~At(r, "ended") /\ hop[r] >= e /\ edge[e].paired)
    /\ Standing(r, e) /\ Pooled(e) => net.lease[r][e] # NoStream

\* Nobody waits for a stream while a connection has one free or may be opened
\* (release hands over what it frees), nor beside a free slot
\* (admitEdgeSlotWaiters goes on past transfers the edge refuses).
NoIdleStream ==
  \A e \in Edges : Pooled(e) /\ net.wait[e] # <<>> =>
    WithFreeStream(net, e) = {} /\ Unopened(net, e) = 0

NoIdleSlot ==
  \A e \in Edges : net.line[e] # <<>> => net.load[e] = edge[e].slots

NoIdleUnit == NoIdleStream /\ NoIdleSlot

\* Both lines are first in, first out, whatever leaves them and however many at
\* once: only those who stood before a waiter go on standing before it, and nobody,
\* whether behind in the line or not in it yet, is given a unit in a step that
\* leaves an earlier waiter in line.
FirstInFirstOut(line, after, served) ==
  /\ \A i \in DOMAIN after, k \in DOMAIN line : after[i] = line[k] =>
       \A j \in 1 .. i - 1 : \E l \in 1 .. k - 1 : after[j] = line[l]
  /\ \A k \in DOMAIN line : line[k] \in Range(after) =>
       served \subseteq {line[l] : l \in 1 .. k}

LinesAreFair ==
  [][\A e \in Edges :
       /\ FirstInFirstOut(net.wait[e], net'.wait[e],
            {r \in Requests : net.lease[r][e] = NoStream /\ net'.lease[r][e] # NoStream})
       /\ FirstInFirstOut(net.line[e], net'.line[e], InFlight(e)' \ InFlight(e))]_vars

\* No wake-up is lost: every request ends though no deadline need ever fire.
EveryTransferEnds == \A r \in Requests : <>At(r, "ended")

=============================================================================
