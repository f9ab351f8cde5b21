------------------------------ MODULE HeldRequests ------------------------------
(***************************************************************************)
(* Requests that a node holds back behind another: a miss for a key that   *)
(* is being fetched parks behind the fetch and shares its result (request  *)
(* collapsing, traits/cache.ts), and a change of an ordered stream waits   *)
(* in its lane until the change before it has finished (ordering lanes,    *)
(* traits/changeStream.ts). Both are held and let go by engine.ts.         *)
(*                                                                         *)
(* The node is a cache with collapsing on, which may be a consumer of the  *)
(* stream too. What it has cached, whether it is up, and what is behind it *)
(* are left out: an arrival may or may not be a miss, and a request that   *)
(* works there may succeed or fail. Time is left out: a deadline may pass  *)
(* at any moment.                                                          *)
(***************************************************************************)
EXTENDS Integers, Sequences, SequencesExt

CONSTANTS
  Requests,
  Keys, NoKey,      \* what requests ask for; a request may have no key
  Lanes, NoLane,    \* the ordering lanes of this consumer
  Key,              \* [Requests -> Keys or NoKey]
  Lane,             \* [Requests -> Lanes or NoLane]: NoLane but for ordered deliveries
  Change,           \* the position a change has among those of its key, from 1
  MaxRetries,       \* retries that the callers of a request have
  None

\* "failed" is a failure that callers retry; "final" one that they do not: a refusal,
\* or a deadline that has passed.
Statuses == {"success", "failed", "final"}

\* A delivery of a stream has no caller that would retry it (engine.ts:3425).
ASSUME HeldAssumption ==
  /\ NoKey \notin Keys /\ NoLane \notin Lanes /\ None \notin Requests \cup Statuses
  /\ Key \in [Requests -> Keys \cup {NoKey}] /\ Lane \in [Requests -> Lanes \cup {NoLane}]
  /\ Change \in [Requests -> Nat] /\ MaxRetries \in [Requests -> Nat]
  /\ \A r \in Requests : Lane[r] # NoLane => MaxRetries[r] = 0

VARIABLES
  at,           \* where a request is
  outcome,      \* how it ended
  retries,      \* the retries it has had
  timeoutSeq,   \* the generation of its timeouts
  timers,       \* its collapse timeouts still to come: the leader and the generation
  leader,       \* whom it is parked behind, or whose end it has yet to hear of
  fate,         \* what its leader's end has made of it
  inFlight,     \* the request that fetches a key
  misses,       \* the requests whose end the cache wants to hear of
  holder,       \* the delivery that holds a lane
  waiting,      \* those waiting for it
  applied,      \* the newest change applied of a key
  reordered,    \* the changes applied after a newer one
  arrived       \* history: the deliveries of a lane in the order they came

requestVars == <<at, outcome, retries, timeoutSeq, timers, leader, fate>>
streamVars == <<applied, reordered>>
laneVars == <<holder, waiting, arrived>>
vars == <<requestVars, inFlight, misses, laneVars, streamVars>>

-----------------------------------------------------------------------------
HeldInit ==
  /\ at = [r \in Requests |-> "coming"]
  /\ outcome = [r \in Requests |-> None]
  /\ retries = [r \in Requests |-> 0]
  /\ timeoutSeq = [r \in Requests |-> 0]
  /\ timers = [r \in Requests |-> {}]
  /\ leader = [r \in Requests |-> None]
  /\ fate = [r \in Requests |-> None]
  /\ inFlight = [k \in Keys |-> None]
  /\ misses = {}
  /\ holder = [l \in Lanes |-> None]
  /\ waiting = [l \in Lanes |-> <<>>]
  /\ applied = [k \in Keys |-> 0]
  /\ reordered = {}
  /\ arrived = [l \in Lanes |-> <<>>]

-----------------------------------------------------------------------------
(* Arriving *)

\* With the fetches under way as in f: a miss of r has someone to park behind, or
\* makes r the one who fetches.
Follows(r, missed, f) == missed /\ Key[r] # NoKey /\ f[Key[r]] \notin {None, r}
Leads(r, missed, f) == missed /\ Key[r] # NoKey /\ f[Key[r]] \in {None, r}

\* The arrival traits and the queue. A request that is no miss works too: it is a
\* hit, or it comes to a node that is down and whose traits do not look at it.
Continued(r, missed, f) == IF Follows(r, missed, f) THEN "parked" ELSE "working"

\* r arrives (None: nobody does) as done is over, which leaves the maps of the held.
ContinueArrival(r, done, missed, f) ==
  /\ inFlight' = [k \in Keys |-> IF r # None /\ Leads(r, missed, f) /\ k = Key[r]
                                THEN r ELSE f[k]]
  /\ misses' = (misses \ {done}) \cup {q \in Requests : q = r /\ Leads(q, missed, f)}
  /\ leader' = [q \in Requests |-> IF q = r /\ Follows(q, missed, f) THEN f[Key[q]]
                                   ELSE IF q = done THEN None ELSE leader[q]]
  /\ timers' = [q \in Requests |->
                  IF q = r /\ Follows(q, missed, f)
                    THEN timers[q] \cup {<<f[Key[q]], timeoutSeq[q]>>}
                  ELSE IF q = done THEN {} ELSE timers[q]]

\* Mutant: a lane is closed to changes of its holder's key only.
SameKeyHolds(r) ==
  Lane[r] # NoLane /\ \E q \in Requests \ {r} : holder[Lane[r]] = q /\ Key[q] = Key[r]

\* Somebody else holds the lane of r.
LaneTaken(r) == Lane[r] # NoLane /\ holder[Lane[r]] \notin {None, r}

HoldForOrderingLane(r) ==
  LET l == Lane[r]
  IN  /\ at[r] = "coming" /\ LaneTaken(r)
      /\ waiting' = [waiting EXCEPT ![l] = Append(@, r)]
      /\ arrived' = [arrived EXCEPT ![l] = Append(@, r)]
      /\ at' = [at EXCEPT ![r] = "waiting"]
      /\ UNCHANGED <<outcome, retries, timeoutSeq, timers, leader, fate, inFlight, misses,
                     holder, streamVars>>

TakeLane(r) ==
  LET l == Lane[r]
  IN  IF l = NoLane THEN UNCHANGED laneVars
      ELSE /\ ~LaneTaken(r)
           /\ holder' = [holder EXCEPT ![l] = r]
           /\ arrived' = [arrived EXCEPT ![l] = Append(@, r)]
           /\ UNCHANGED waiting

Arrive(r) ==
  /\ at[r] = "coming"
  /\ TakeLane(r)
  /\ \E missed \in BOOLEAN :
       /\ ContinueArrival(r, None, missed, inFlight)
       /\ at' = [at EXCEPT ![r] = Continued(r, missed, inFlight)]
  /\ UNCHANGED <<outcome, retries, timeoutSeq, fate, streamVars>>

-----------------------------------------------------------------------------
(* Ending *)

ParkedBehind(r) == {q \in Requests : at[q] = "parked" /\ leader[q] = r}

\* afterTerminal of the cache: a leader gives up its key, whatever came of it.
Freed(r) ==
  IF r \in misses /\ inFlight[Key[r]] = r THEN [inFlight EXCEPT ![Key[r]] = None]
  ELSE inFlight

\* afterTerminal of the stream: a change that succeeded is applied; an older one than
\* the newest applied is counted, and leaves it the newest.
ApplyChange(r, status) ==
  IF status = "success" /\ Change[r] > 0 /\ Key[r] # NoKey
    THEN IF Change[r] < applied[Key[r]]
           THEN reordered' = reordered \cup {r} /\ UNCHANGED applied
           ELSE applied' = [applied EXCEPT ![Key[r]] = Change[r]] /\ UNCHANGED reordered
    ELSE UNCHANGED streamVars

\* Mutant: the lane is freed, and its line left to the next arrival.
FreeTheLane(r, line, next) ==
  /\ next = None
  /\ holder' = [l \in Lanes |-> IF holder[l] = r THEN None ELSE holder[l]]
  /\ waiting' = [l \in Lanes |-> IF l = Lane[r] THEN line ELSE waiting[l]]

\* The lane r held goes to the first in line, who arrives at last. One that ended while
\* it waited has left the line.
ReleaseOrderingLane(r, line, next) ==
  LET l == Lane[r]
  IN  IF l = NoLane
        THEN next = None /\ UNCHANGED <<holder, waiting>>
      ELSE IF holder[l] # r \/ line = <<>>
        THEN /\ next = None
             /\ holder' = IF holder[l] = r THEN [holder EXCEPT ![l] = None] ELSE holder
             /\ waiting' = [waiting EXCEPT ![l] = line]
      ELSE /\ next = Head(line)
           /\ holder' = [holder EXCEPT ![l] = next]
           /\ waiting' = [waiting EXCEPT ![l] = Tail(line)]

\* Mutant: a follower's own timeout stays in force when its leader has ended.
NotSuperseded(followers) == timeoutSeq

\* The follower's own timeout is void from now on.
Superseded(followers) ==
  [q \in Requests |-> IF q \in followers THEN timeoutSeq[q] + 1 ELSE timeoutSeq[q]]

\* r is terminal, with line waiting in its lane: the traits hear of it, those parked
\* behind it get its result, and the lane goes on.
MarkTerminal(r, status, line) ==
  LET followers == ParkedBehind(r)
      free == Freed(r)
  IN  /\ outcome' = [outcome EXCEPT ![r] = status]
      /\ ApplyChange(r, status)
      /\ fate' = [q \in Requests |-> IF q \in followers THEN status ELSE fate[q]]
      /\ timeoutSeq' = Superseded(followers)
      /\ \E next \in Requests \cup {None}, missed \in BOOLEAN :
           /\ ReleaseOrderingLane(r, line, next)
           /\ next = None => ~missed
           /\ at' = [q \in Requests |->
                       IF q = r THEN "done"
                       ELSE IF q \in followers THEN "resolved"
                       ELSE IF q = next THEN Continued(q, missed, free)
                       ELSE at[q]]
           /\ ContinueArrival(next, r, missed, free)
      /\ UNCHANGED <<retries, arrived>>

Terminal(r, status) ==
  MarkTerminal(r, status, IF Lane[r] = NoLane THEN <<>> ELSE waiting[Lane[r]])

\* A caller tries again; a leader stays one meanwhile.
Retry(r) ==
  /\ retries[r] < MaxRetries[r]
  /\ retries' = [retries EXCEPT ![r] = @ + 1]
  /\ at' = [at EXCEPT ![r] = "coming"]
  /\ fate' = [fate EXCEPT ![r] = None]
  /\ UNCHANGED <<outcome, timeoutSeq, timers, leader, inFlight, misses, laneVars, streamVars>>

\* A retryable failure, which there may be no budget or no time to retry.
Fail(r) == Retry(r) \/ Terminal(r, "failed")

\* What a request comes to at work, here or behind the node; its deadline may pass on
\* the way as well.
Succeed(r) == at[r] = "working" /\ Terminal(r, "success")
FailAtWork(r) == at[r] = "working" /\ Fail(r)
Refuse(r) == at[r] = "working" /\ Terminal(r, "final")
Deadline(r) == at[r] = "coming" /\ Terminal(r, "final")

\* The event that a leader's end has scheduled for its follower.
Resolve(r) ==
  /\ at[r] = "resolved"
  /\ IF fate[r] = "failed" THEN Fail(r) ELSE Terminal(r, fate[r])

\* The deadlines of those who are held. A collapse timeout that was superseded when
\* the leader ended does nothing.
LaneDeadline(r) ==
  /\ at[r] = "waiting"
  /\ \E i \in 1 .. Len(waiting[Lane[r]]) :
       /\ waiting[Lane[r]][i] = r
       /\ MarkTerminal(r, "final", RemoveAt(waiting[Lane[r]], i))

CollapseDeadline(r) ==
  /\ at[r] # "done"
  /\ \E timer \in timers[r] : timer[2] = timeoutSeq[r]
  /\ Terminal(r, "final")

Proceed(r) ==
  \/ HoldForOrderingLane(r) \/ Arrive(r)
  \/ Succeed(r) \/ FailAtWork(r) \/ Refuse(r) \/ Resolve(r)
Expire(r) == Deadline(r) \/ LaneDeadline(r) \/ CollapseDeadline(r)

HeldNext == \E r \in Requests : Proceed(r) \/ Expire(r)

\* The loop takes events as long as there are any, and each request that is on its way,
\* at work or resolved has one; a deadline need never come. This is weak fairness of
\* Proceed, written with the condition that enables it.
LoopRuns ==
  \/ []<>(\A r \in Requests : at[r] \in {"waiting", "parked", "done"})
  \/ []<><<\E r \in Requests : Proceed(r)>>_vars

HeldSpec == HeldInit /\ [][HeldNext]_vars /\ LoopRuns

-----------------------------------------------------------------------------
(* Properties *)

Places == {"coming", "waiting", "parked", "working", "resolved", "done"}

TypeOK ==
  /\ at \in [Requests -> Places]
  /\ outcome \in [Requests -> Statuses \cup {None}]
  /\ retries \in [Requests -> Nat] /\ timeoutSeq \in [Requests -> Nat]
  /\ timers \in [Requests -> SUBSET (Requests \X Nat)]
  /\ leader \in [Requests -> Requests \cup {None}]
  /\ fate \in [Requests -> Statuses \cup {None}]
  /\ inFlight \in [Keys -> Requests \cup {None}] /\ misses \subseteq Requests
  /\ holder \in [Lanes -> Requests \cup {None}]
  /\ waiting \in [Lanes -> Seq(Requests)] /\ arrived \in [Lanes -> Seq(Requests)]
  /\ applied \in [Keys -> Nat] /\ reordered \subseteq Requests

\* Single flight (the cache's "N simultaneous misses become one downstream call ...
\* single-flight shares one result, error included"): one miss of a key fetches it at a
\* time, through its retries; whoever is parked waits for that fetch, which is under
\* way; and a follower whose leader has ended ends the same way, unless the failure was
\* one to be retried. A deadline that the follower outlived in the queue does not reach it.
Fetching(r) == at[r] \in {"coming", "working"}
OneFetchPerKey == \A r \in misses : Fetching(r) /\ inFlight[Key[r]] = r
FollowersHaveALeader ==
  \A r \in Requests : at[r] = "parked" =>
    /\ leader[r] \in misses /\ Key[r] # NoKey /\ inFlight[Key[r]] = leader[r]
SharedFate ==
  \A r \in Requests :
    /\ at[r] = "resolved" => fate[r] = outcome[leader[r]] /\ fate[r] # None
    /\ at[r] = "done" /\ fate[r] # None => outcome[r] = fate[r]
SingleFlight == OneFetchPerKey /\ FollowersHaveALeader /\ SharedFate

\* Ordered consumption ("holds later deliveries until the earlier one finishes"): a
\* delivery goes past its lane only when all that came to the lane before it have
\* ended, whether they succeeded, failed or ran out of time in the line. So where the
\* changes of a key share a lane, an older change is applied after a newer one only if it
\* came after it.
GoneOn(r) == at[r] \in {"working", "parked", "resolved"} \/ outcome[r] = "success"
OneAtATime ==
  \A l \in Lanes : \A i, j \in 1 .. Len(arrived[l]) :
    i < j /\ GoneOn(arrived[l][j]) => at[arrived[l][i]] = "done"
Before(a, b) ==
  \E l \in Lanes : \E i, j \in 1 .. Len(arrived[l]) :
    i < j /\ arrived[l][i] = a /\ arrived[l][j] = b
ShareALane(k) ==
  \A a, b \in Requests :
    Key[a] = k /\ Key[b] = k /\ Change[a] > 0 /\ Change[b] > 0
      => Lane[a] = Lane[b] /\ Lane[a] # NoLane
ReorderedOnArrival ==
  \A r \in reordered : ShareALane(Key[r]) =>
    \E b \in Requests : Key[b] = Key[r] /\ Change[b] > Change[r] /\ Before(b, r)
OrderedConsumption == OneAtATime /\ ReorderedOnArrival

\* Nobody is held for good, though no deadline may come: the end of the request in
\* front, however it ended, lets the next one go on.
IsHeld(r) == at[r] \in {"waiting", "parked", "resolved"}
HeldRequestsGoOn == \A r \in Requests : IsHeld(r) ~> ~IsHeld(r)

=============================================================================
