--------------------------- MODULE ConsistencyModel ---------------------------
(***************************************************************************)
(* Read consistency on a replicated datastore: the versions of one key,    *)
(* the followers that apply them late, what each consistency model makes a *)
(* read wait for, and the ledger that counts what reads got wrong.         *)
(* Translated from traits/consistencyModel.ts.                             *)
(*                                                                         *)
(* Keys are independent of each other, so there is one. Service and hops   *)
(* may take any time, service at least a tick. An attempt may fail at any  *)
(* point, before its operation took effect or after, and be retried at the *)
(* same node or another. One that timed out in service leaves its          *)
(* completion event behind, which completes a later attempt if that is in  *)
(* service at the same node when it comes. A degraded node is slower: its  *)
(* multiplier, which applies to waits as well, is at least 1.              *)
(***************************************************************************)
EXTENDS Linearizability

CONSTANTS
  Reads, Writes,    \* the requests
  Leader, Followers,
  Lag,              \* [Followers -> the replication lag]
  HeldAtCommit,     \* sets of followers that may hold a version as it commits
  Session,          \* [Reads \cup Writes -> the client session, or NoSession]
  NoSession,
  Models,           \* consistency models that may be configured
  Hops,             \* how long before its first arrival a request is created
  MaxAttempts,      \* [Requests -> bound on the attempts]
  MayFreeze,        \* nodes that a request may find frozen
  MayTimeOut,       \* nodes with a timeout
  MaxTime           \* bound on the clock

Requests == Reads \cup Writes
Nodes == {Leader} \cup Followers
Never == MaxTime + 1   \* a response that has not come

ASSUME ConsistencyAssumption ==
  /\ Reads \cap Writes = {} /\ Leader \notin Followers
  /\ Lag \in [Followers -> Nat] /\ HeldAtCommit \subseteq SUBSET Followers
  /\ Models \subseteq {"eventual", "monotonic-reads", "read-your-writes", "strong"}
  /\ MaxAttempts \in [Requests -> Nat] /\ MaxTime \in Nat /\ Hops \subseteq Nat
  /\ MayFreeze \subseteq Nodes /\ MayTimeOut \subseteq Nodes

VARIABLES
  model, now,
  request,    \* where each request is
  commits,    \* versions of the key in commit order: when, and at which followers
  newest,     \* [Requests -> [Nodes -> the version stamped at arrival, or Unstamped]]
  pending,    \* [Requests -> [Nodes -> the operation whose answer is not back]]
  history,    \* the operations recorded for the linearizability check
  writeAcks, readAcks,  \* acknowledged operations by session
  counted     \* read attempts counted as stale, or against a session guarantee

ledger == <<commits, newest, pending, history, writeAcks, readAcks, counted>>
consistencyVars == <<model, now, request, ledger>>

Unstamped == -1
NoPending == [version |-> 0, op |-> 0]

-----------------------------------------------------------------------------
(* Versions *)

NewestOf(versions) == CHOOSE v \in versions : \A w \in versions : w <= v

LatestCommitted(at) ==
  NewestOf({0} \cup {v \in DOMAIN commits : commits[v].at <= at})

ApplyAt(v, n) ==
  IF n \in commits[v].holders THEN commits[v].at ELSE commits[v].at + Lag[n]

AppliedOnFollower(n) ==
  NewestOf({0} \cup {v \in DOMAIN commits : ApplyAt(v, n) <= now})

\* The newest version this session had an acknowledgement of before it issued r.
FloorBefore(acks, r, created) ==
  NewestOf({0} \cup {a.version : a \in {b \in acks :
    b.session = Session[r] /\ b.session # NoSession /\ b.at < created}})

\* Mutant: a strong read waits for what it has applied already.
RequiredOfApplied(r, n, created) ==
  IF model = "strong" THEN AppliedOnFollower(n)
  ELSE IF model = "read-your-writes" THEN FloorBefore(writeAcks, r, created)
  ELSE FloorBefore(readAcks, r, created)

\* What a read must find applied at the follower before it may answer.
Required(r, n, created) ==
  CASE model = "eventual" -> 0
    [] model = "strong" -> LatestCommitted(now)
    [] model = "read-your-writes" -> FloorBefore(writeAcks, r, created)
    [] model = "monotonic-reads" -> FloorBefore(readAcks, r, created)

-----------------------------------------------------------------------------
(* A request's way through the store *)

\* On its way, a request is at no node and waits for nothing.
Between(r, state) ==
  [request[r] EXCEPT !.state = state, !.node = Leader, !.arrived = 0,
                     !.waitUntil = 0, !.seen = TRUE]

\* When the request was created: that shows only once it is at a node.
Created(r) ==
  IF request[r].state = "new" THEN {now - hop : hop \in {h \in Hops : h <= now}}
  ELSE {request[r].created}

\* seen, for the properties: did the trait look at the arrival?
ArriveAt(r, n, created, waitUntil, seen) ==
  /\ request[r].state \in {"new", "sent"} /\ created \in Created(r) /\ now < MaxTime
  /\ request' = [request EXCEPT ![r] =
       [@ EXCEPT !.state = "serving", !.created = created, !.node = n,
                 !.arrived = now, !.waitUntil = waitUntil, !.seen = seen]]

\* beforeArrival: a read is stamped with what the leader has committed by now, and
\* at a follower it may have to wait for the replication.
ArriveRead(r, n) ==
  /\ r \in Reads
  /\ \E created \in Created(r) :
       LET required == Required(r, n, created)
           waits == n \in Followers /\ required > 0
       IN  ArriveAt(r, n, created, IF waits THEN ApplyAt(required, n) ELSE 0, TRUE)
  /\ newest' = [newest EXCEPT ![r][n] = LatestCommitted(now)]
  /\ UNCHANGED <<model, now, commits, pending, history, writeAcks, readAcks, counted>>

ArriveWrite(r, n) ==
  /\ r \in Writes
  /\ \E created \in Created(r) : ArriveAt(r, n, created, 0, TRUE)
  /\ UNCHANGED <<model, now, ledger>>

\* A failed node runs no arrival trait. If it is frozen it serves a read later,
\* as if it had nothing to wait for.
ArriveFrozen(r, n) ==
  /\ n \in MayFreeze /\ r \in Reads
  /\ \E created \in Created(r) : ArriveAt(r, n, created, 0, FALSE)
  /\ UNCHANGED <<model, now, ledger>>

\* The completion event of the attempt in service. It comes no sooner than the wait
\* and a service of a tick allow.
Completion(r) ==
  LET at == request[r]
  IN  [node |-> at.node, attempt |-> at.attempts,
       from |-> IF at.waitUntil > at.arrived THEN at.waitUntil ELSE at.arrived + 1]

\* Service ends with that event, or with what an earlier attempt left behind: cancelRequest
\* and a retry leave completionSeq, by which stale completions are told, as it was.
ServiceEnds(r) ==
  /\ request[r].state = "serving"
  /\ LET coming == request[r].left \cup {Completion(r)}
     IN  \E c \in coming :
           /\ c.node = request[r].node /\ c.from <= now
           /\ request' = [request EXCEPT ![r] =
                [Between(r, "answered") EXCEPT !.left = coming \ {c}]]

Dropped == [kind |-> "read", start |-> 0, end |-> Never, value |-> 0, dropped |-> TRUE]

\* Mutant: a write without an answer is taken not to have happened.
DropAny(h, p) == IF p.op = 0 THEN h ELSE [h EXCEPT ![p.op] = Dropped]

\* What got no answer: a read returned nothing, a write may have happened.
DropOperation(h, p) ==
  IF p.op = 0 \/ h[p.op].kind = "write" THEN h ELSE [h EXCEPT ![p.op] = Dropped]

\* The operation is recorded, without a response so far. One of an earlier attempt
\* of this request at this node has none to come.
Record(r, kind, version) ==
  LET n == request[r].node
      kept == DropOperation(history, pending[r][n])
  IN  /\ history' = Append(kept, [kind |-> kind, start |-> request[r].created,
                                  end |-> Never, value |-> version, dropped |-> FALSE])
      /\ pending' = [pending EXCEPT ![r][n] =
                       [version |-> version, op |-> Len(history) + 1]]

Attempt(r) == <<r, request[r].attempts>>

ObserveRead(r) ==
  LET n == request[r].node
      observed == IF n = Leader THEN LatestCommitted(now) ELSE AppliedOnFollower(n)
      baseline == IF newest[r][n] = Unstamped
                    THEN LatestCommitted(request[r].arrived) ELSE newest[r][n]
      Floor(acks) == FloorBefore(acks, r, request[r].created)
      Count(reads, wrong) == IF wrong THEN reads \cup {Attempt(r)} ELSE reads
  IN  /\ r \in Reads
      /\ ServiceEnds(r)
      /\ newest' = [newest EXCEPT ![r][n] = Unstamped]
      /\ counted' = [stale |-> Count(counted.stale, observed < baseline),
                     ryw |-> Count(counted.ryw, observed < Floor(writeAcks)),
                     monotonic |-> Count(counted.monotonic, observed < Floor(readAcks))]
      /\ Record(r, "read", observed)
      /\ UNCHANGED <<model, now, commits, writeAcks, readAcks>>

\* A follower passes a write on and commits nothing.
CommitWrite(r) ==
  /\ r \in Writes
  /\ ServiceEnds(r)
  /\ IF request[r].node = Leader
       THEN /\ \E holders \in HeldAtCommit :
                 commits' = Append(commits, [at |-> now, holders |-> holders])
            /\ Record(r, "write", Len(commits) + 1)
       ELSE UNCHANGED <<commits, history, pending>>
  /\ UNCHANGED <<model, now, newest, writeAcks, readAcks, counted>>

\* The completion that an attempt leaves behind if it times out in service.
LeftBehind(r) ==
  IF request[r].state = "serving" /\ request[r].node \in MayTimeOut THEN {Completion(r)} ELSE {}

\* The attempt fails, before its operation or after, and is retried. It leaves nothing
\* behind if it still waited in line, or was reset.
Retry(r) ==
  /\ request[r].state \in {"sent", "serving", "answered"}
  /\ request[r].attempts < MaxAttempts[r]
  /\ \E more \in SUBSET LeftBehind(r) :
       request' = [request EXCEPT ![r] =
         [Between(r, "sent") EXCEPT !.attempts = @ + 1, !.left = @ \cup more]]
  /\ UNCHANGED <<model, now, ledger>>

-----------------------------------------------------------------------------
(* Terminals *)

Fresh == [state |-> "new", created |-> 0, node |-> Leader, arrived |-> 0,
          waitUntil |-> 0, attempts |-> 1, seen |-> TRUE, left |-> {}]
\* The request is gone, with its metadata.
Terminate(r) ==
  /\ request' = [request EXCEPT ![r] = [Fresh EXCEPT !.state = "terminal"]]
  /\ newest' = [newest EXCEPT ![r] = [n \in Nodes |-> Unstamped]]
  /\ pending' = [pending EXCEPT ![r] = [n \in Nodes |-> NoPending]]

Acks(r) ==
  {[session |-> Session[r], at |-> now, version |-> pending[r][n].version] :
     n \in {m \in Nodes : pending[r][m] # NoPending /\ Session[r] # NoSession}}

\* The response is back: each operation pending at a node the request has been to
\* ends now, and is acknowledged to the session.
Succeed(r) ==
  /\ request[r].state = "answered"
  /\ history' = [i \in DOMAIN history |->
       IF \E n \in Nodes : pending[r][n].op = i THEN [history[i] EXCEPT !.end = now] ELSE history[i]]
  /\ IF r \in Writes
       THEN writeAcks' = writeAcks \cup Acks(r) /\ UNCHANGED readAcks
       ELSE readAcks' = readAcks \cup Acks(r) /\ UNCHANGED writeAcks
  /\ Terminate(r)
  /\ UNCHANGED <<model, now, commits, counted>>

\* A failed read returned nothing. A committed write whose response failed stays
\* open: its client never learned the outcome.
GiveUp(r) ==
  /\ request[r].state \in {"sent", "serving", "answered"}
  /\ history' = [i \in DOMAIN history |->
       IF \E n \in Nodes : pending[r][n].op = i
         THEN DropOperation(history, [version |-> 0, op |-> i])[i] ELSE history[i]]
  /\ Terminate(r)
  /\ UNCHANGED <<model, now, commits, writeAcks, readAcks, counted>>

Tick ==
  /\ now < MaxTime /\ now' = now + 1
  /\ UNCHANGED <<model, request, ledger>>

Over == now = MaxTime /\ UNCHANGED consistencyVars

Init ==
  /\ model \in Models /\ now = 0
  /\ request = [r \in Requests |-> Fresh]
  /\ commits = <<>> /\ history = <<>> /\ writeAcks = {} /\ readAcks = {}
  /\ newest = [r \in Requests |-> [n \in Nodes |-> Unstamped]]
  /\ pending = [r \in Requests |-> [n \in Nodes |-> NoPending]]
  /\ counted = [stale |-> {}, ryw |-> {}, monotonic |-> {}]

Next ==
  \/ \E r \in Requests :
       \/ ObserveRead(r) \/ CommitWrite(r) \/ Retry(r) \/ Succeed(r) \/ GiveUp(r)
       \/ \E n \in Nodes : ArriveRead(r, n) \/ ArriveWrite(r, n) \/ ArriveFrozen(r, n)
  \/ Tick \/ Over

Spec == Init /\ [][Next]_consistencyVars

-----------------------------------------------------------------------------
(* Properties *)

CountedNow(wrong) == {r \in Reads : Attempt(r) \in counted'[wrong] \ counted[wrong]}

\* What an earlier attempt left behind completes this one inside its wait.
CutShort(r) ==
  /\ now < request[r].waitUntil
  /\ \E c \in request[r].left : c.node = request[r].node /\ c.from <= now

\* Each model keeps its promise, whatever commits, fails and is retried meanwhile: a
\* strong read is never stale ("the newest version committed on the leader when the
\* read arrived"), a session reads its own acknowledged writes and never goes back
\* in time, and "reads served by the leader are never stale" in any model. Excepted
\* are reads that reached a frozen follower, which the trait does not see, and reads
\* that the completion of an attempt that timed out at that follower cut short.
Promised ==
  [][\A r \in Reads :
       LET Kept(wrong, promise) ==
             r \in CountedNow(wrong) =>
               /\ request[r].node \in Followers
               /\ model = promise => ~request[r].seen \/ CutShort(r)
       IN  /\ Kept("stale", "strong")
           /\ Kept("ryw", "read-your-writes")
           /\ Kept("monotonic", "monotonic-reads")]_consistencyVars

\* Reads still in flight at the cutoff never returned.
Finished(op) == ~op.dropped /\ (op.kind = "read" => op.end # Never)
Returned == {i \in DOMAIN history : Finished(history[i])}

\* The two oracles agree: if no read was counted as stale, what the clients saw is
\* linearizable, across retries that committed twice and writes whose outcome no
\* client learned. Under the strong model it always is while the followers neither
\* freeze nor let a read that is retried time out.
OraclesAgree == counted.stale = {} => Linearizable(history, Returned)

=============================================================================
