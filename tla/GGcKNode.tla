------------------------------ MODULE GGcKNode ------------------------------
(***************************************************************************)
(* One queueing node of the simulator: c workers, at most K requests in    *)
(* the system, a queue discipline, failures, recovery and live resizing.   *)
(* Translated from src/src/engine/nodes/GGcKNode.ts.                       *)
(*                                                                         *)
(* The waiting queue is kept in the order its discipline serves it: the    *)
(* code pushes at the tail and searches when it dequeues, here a request   *)
(* takes its place when it is enqueued and the head is dequeued.           *)
(* Metrics and service times are left out: a completion may come in any    *)
(* state in which its request is in service.                               *)
(***************************************************************************)
EXTENDS Integers, Sequences, SequencesExt

CONSTANTS
  Requests,           \* the requests the engine may offer
  Priority,           \* [Requests -> Nat], the lowest number is served first
  Discipline,         \* "fifo", "lifo" or "priority"
  InitWorkers,        \* c the node is built with
  InitCapacity,       \* K the node is built with
  Sizes,              \* the [c, k] an autoscaler may ask for
  FailureSpecs,       \* the failure specifications a fault may carry
  OverlappingFaults,  \* may a fault strike a node that is already failed?
  MaxTime             \* bound on the simulated clock

Modes == {"reject", "blackhole", "hang", "degraded"}

FailureSpecType ==
  [mode : Modes, inFlight : {"reset", "hang"}, recovery : {"reset", "resume"}]

ASSUME NodeAssumption ==
  /\ Priority \in [Requests -> Nat]
  /\ Discipline \in {"fifo", "lifo", "priority"}
  /\ InitWorkers \in Nat \ {0}
  /\ InitCapacity \in Nat
  /\ InitWorkers <= InitCapacity
  /\ Sizes \subseteq [c : Nat, k : Nat]
  /\ FailureSpecs \subseteq FailureSpecType
  /\ OverlappingFaults \in BOOLEAN
  /\ MaxTime \in Nat

VARIABLES
  queue,           \* waiting requests, next to be served first
  inService,       \* requests in service, in the order they started
  activeWorkers,   \* the worker counter, kept apart from inService
  heldHang,        \* requests frozen in a hung server; each keeps its K slot
  heldBlackhole,   \* requests swallowed by a dead network card; no K slot
  arrivalTimes,    \* when each request came here, NotHere if it is unknown
  status, failureSpec,
  maxWorkers, maxCapacity,        \* the ceilings in force
  targetWorkers, targetCapacity,  \* the ceilings the last resize asked for
  now

ceilings == <<maxWorkers, maxCapacity>>
targets  == <<targetWorkers, targetCapacity>>
held     == <<heldHang, heldBlackhole>>
serving  == <<queue, inService, activeWorkers>>
vars == <<serving, held, arrivalTimes, status, failureSpec, ceilings, targets, now>>

NotHere   == -1
NoFailure == [mode |-> "none", inFlight |-> "reset", recovery |-> "reset"]
Elements(s) == {s[i] : i \in DOMAIN s}
Larger(a, b) == IF a >= b THEN a ELSE b

-----------------------------------------------------------------------------
(* Occupancy, status and the queue discipline *)

InSystem == activeWorkers + Len(queue) + Len(heldHang)

StatusOf(active, waiting, workers) ==
  IF active = 0 THEN "idle"
  ELSE IF active >= workers /\ waiting # <<>> THEN "saturated"
  ELSE "busy"

\* Mutant: the status is read off the ceiling before the drain.
StatusOfOldCeiling ==
  status' = IF status = "failed" THEN "failed"
            ELSE StatusOf(activeWorkers', queue', maxWorkers)

UpdateStatus ==
  status' = IF status = "failed" THEN "failed"
            ELSE StatusOf(activeWorkers', queue', maxWorkers')

\* Mutant: a newcomer overtakes its equals.
OvertakesEquals(q, r) == Priority[q] < Priority[r]

\* A waiting request q is served before a request r that joins after it.
GoesAhead(q, r) ==
  CASE Discipline = "fifo" -> TRUE
    [] Discipline = "lifo" -> FALSE
    [] Discipline = "priority" -> Priority[q] <= Priority[r]

Enqueue(r) ==
  \E n \in 0 .. Len(queue) :
    /\ \A i \in DOMAIN queue : (i <= n) <=> GoesAhead(queue[i], r)
    /\ queue' = SubSeq(queue, 1, n) \o <<r>> \o SubSeq(queue, n + 1, Len(queue))

\* The stable sort of s by a key on its positions (a set of one sequence).
SortedBy(s, key) ==
  {[i \in DOMAIN s |-> s[p[i]]] : p \in
     {p \in [DOMAIN s -> DOMAIN s] : \A i, j \in DOMAIN s :
        i < j => \/ key[p[i]] < key[p[j]]
                 \/ key[p[i]] = key[p[j]] /\ p[i] < p[j]}}

\* The queue in the order of its pushes. By priority it may differ, but not for equals.
PushOrder(s) == IF Discipline = "lifo" THEN Reverse(s) ELSE s

InArrivalOrder(s) == SortedBy(s, [i \in DOMAIN s |-> arrivalTimes[s[i]]])

\* What an empty queue becomes when all of s is enqueued, in the order of s.
ServiceOrder(s) ==
  SortedBy(s, [i \in DOMAIN s |->
    CASE Discipline = "fifo" -> i
      [] Discipline = "lifo" -> -i
      [] Discipline = "priority" -> Priority[s[i]]])

\* Mutant: nobody starts the work that waits.
LeaveWaiting(waiting, running, workers) ==
  queue' = waiting /\ inService' = running /\ UNCHANGED activeWorkers

\* Idle workers take the head of the waiting sequence, as many as there are.
Pump(waiting, running, workers) ==
  LET free == Larger(0, workers - Len(running))
      n == IF free <= Len(waiting) THEN free ELSE Len(waiting)
  IN  /\ inService' = running \o SubSeq(waiting, 1, n)
      /\ queue' = SubSeq(waiting, n + 1, Len(waiting))
      /\ activeWorkers' = activeWorkers + n

\* Mutant: the ceilings drop to the target below the work still there.
CutToTarget(active, inSystem) ==
  /\ maxWorkers' = IF maxWorkers > targetWorkers THEN targetWorkers ELSE maxWorkers
  /\ maxCapacity' = IF maxCapacity > targetCapacity THEN targetCapacity ELSE maxCapacity

\* The ceilings step down toward the last resize as work leaves.
DrainTowardTarget(active, inSystem) ==
  /\ maxWorkers' = IF maxWorkers > targetWorkers
                     THEN Larger(targetWorkers, active) ELSE maxWorkers
  /\ maxCapacity' = IF maxCapacity > targetCapacity
                      THEN Larger(targetCapacity, inSystem) ELSE maxCapacity

-----------------------------------------------------------------------------
Init ==
  /\ queue = <<>> /\ inService = <<>> /\ activeWorkers = 0
  /\ heldHang = <<>> /\ heldBlackhole = {}
  /\ arrivalTimes = [r \in Requests |-> NotHere]
  /\ status = "idle" /\ failureSpec = NoFailure
  /\ maxWorkers = InitWorkers /\ targetWorkers = InitWorkers
  /\ maxCapacity = InitCapacity /\ targetCapacity = InitCapacity
  /\ now = 0

(* Arrivals. A rejected request leaves the node as it was. *)

Admit(r) ==
  /\ arrivalTimes[r] = NotHere
  /\ arrivalTimes' = [arrivalTimes EXCEPT ![r] = now]

HoldHang(r) ==
  /\ heldHang' = Append(heldHang, r)
  /\ UNCHANGED heldBlackhole

HoldBlackhole(r) ==
  /\ heldBlackhole' = heldBlackhole \cup {r}
  /\ UNCHANGED heldHang

ArriveFailed(r) ==
  /\ status = "failed"
  /\ failureSpec.mode \in {"blackhole", "hang"}
  /\ Admit(r)
  /\ IF failureSpec.mode = "hang" /\ InSystem < maxCapacity
       THEN HoldHang(r) ELSE HoldBlackhole(r)
  /\ UNCHANGED <<serving, status, failureSpec, ceilings, targets, now>>

ArriveServed(r) ==
  /\ status # "failed" /\ InSystem < maxCapacity
  /\ activeWorkers < maxWorkers
  /\ Admit(r)
  /\ inService' = Append(inService, r)
  /\ activeWorkers' = activeWorkers + 1
  /\ UNCHANGED <<queue, held, failureSpec, ceilings, targets, now>>
  /\ UpdateStatus

ArriveQueued(r) ==
  /\ status # "failed" /\ InSystem < maxCapacity
  /\ activeWorkers >= maxWorkers
  /\ Admit(r)
  /\ Enqueue(r)
  /\ UNCHANGED <<inService, activeWorkers, held, failureSpec, ceilings, targets, now>>
  /\ UpdateStatus

\* The node refuses r, which leaves it unchanged.
Rejects ==
  \/ status = "failed" /\ failureSpec.mode \notin {"blackhole", "hang"}
  \/ status # "failed" /\ InSystem >= maxCapacity

HandleArrival(r) == ArriveFailed(r) \/ ArriveServed(r) \/ ArriveQueued(r)

(* Departures *)

\* Mutant: the arrival time of a request that left is kept.
Remember(r) == UNCHANGED arrivalTimes

Forget(r) == arrivalTimes' = [arrivalTimes EXCEPT ![r] = NotHere]

\* The i-th request in service leaves; its worker takes the next in line.
LeaveService(i) ==
  LET active == activeWorkers - 1
      others == RemoveAt(inService, i)
      next == IF status # "failed" /\ queue # <<>> /\ active < maxWorkers'
                THEN 1 ELSE 0
  IN  /\ Forget(inService[i])
      /\ DrainTowardTarget(active, InSystem - 1)
      /\ inService' = others \o SubSeq(queue, 1, next)
      /\ queue' = SubSeq(queue, next + 1, Len(queue))
      /\ activeWorkers' = active + next
      /\ UNCHANGED <<held, failureSpec, targets, now>>
      /\ UpdateStatus

\* A completion of a request that is not in service changes nothing.
HandleCompletion(r) ==
  \E i \in DOMAIN inService : inService[i] = r /\ LeaveService(i)

CancelBlackhole(r) ==
  /\ r \in heldBlackhole
  /\ heldBlackhole' = heldBlackhole \ {r}
  /\ Forget(r)
  /\ UNCHANGED <<serving, heldHang, status, failureSpec, ceilings, targets, now>>

CancelHang(r) ==
  /\ r \notin heldBlackhole
  /\ \E i \in DOMAIN heldHang :
       /\ heldHang[i] = r
       /\ heldHang' = RemoveAt(heldHang, i)
  /\ Forget(r)
  /\ DrainTowardTarget(activeWorkers, InSystem - 1)
  /\ UNCHANGED <<serving, heldBlackhole, failureSpec, targets, now>>
  /\ UpdateStatus

CancelQueued(r) ==
  /\ r \notin heldBlackhole \cup Elements(heldHang)
  /\ \E i \in DOMAIN queue :
       /\ queue[i] = r
       /\ queue' = RemoveAt(queue, i)
  /\ Forget(r)
  /\ DrainTowardTarget(activeWorkers, InSystem - 1)
  /\ UNCHANGED <<inService, activeWorkers, held, failureSpec, targets, now>>
  /\ UpdateStatus

CancelInService(r) ==
  /\ r \notin heldBlackhole \cup Elements(heldHang) \cup Elements(queue)
  /\ HandleCompletion(r)

CancelRequest(r) ==
  CancelBlackhole(r) \/ CancelHang(r) \/ CancelQueued(r) \/ CancelInService(r)

\* What cancelRequest does not find it leaves alone.
NotFound(r) ==
  r \notin heldBlackhole \cup Elements(heldHang) \cup Elements(queue) \cup Elements(inService)

(* Failure and recovery *)

StopServing == queue' = <<>> /\ inService' = <<>> /\ activeWorkers' = 0

FailDegraded(spec) ==
  /\ spec.mode = "degraded"
  /\ failureSpec' = spec
  /\ UNCHANGED <<serving, held, arrivalTimes, status, ceilings, targets, now>>

\* kill -9: what was queued or in service is handed back as connection resets.
FailReset(spec) ==
  /\ spec.mode # "degraded" /\ spec.inFlight = "reset"
  /\ failureSpec' = spec /\ status' = "failed"
  /\ StopServing
  /\ arrivalTimes' = [r \in Requests |->
       IF r \in Elements(queue) \cup Elements(inService)
         THEN NotHere ELSE arrivalTimes[r]]
  /\ UNCHANGED <<held, ceilings, targets, now>>

\* SIGSTOP: what was queued or in service is frozen, oldest arrival first.
FailHang(spec) ==
  /\ spec.mode # "degraded" /\ spec.inFlight = "hang"
  /\ failureSpec' = spec /\ status' = "failed"
  /\ StopServing
  /\ heldHang' \in InArrivalOrder(PushOrder(queue) \o inService)
  /\ UNCHANGED <<heldBlackhole, arrivalTimes, ceilings, targets, now>>

Fail(spec) ==
  /\ OverlappingFaults \/ status # "failed"
  /\ FailDegraded(spec) \/ FailReset(spec) \/ FailHang(spec)

RecoverDegraded ==
  /\ failureSpec.mode \in {"none", "degraded"}
  /\ failureSpec' = NoFailure
  /\ status' = IF status = "failed"
                 THEN StatusOf(activeWorkers, queue, maxWorkers) ELSE status
  /\ UNCHANGED <<serving, held, arrivalTimes, ceilings, targets, now>>

RecoverReset ==
  /\ failureSpec.mode \notin {"none", "degraded"} /\ failureSpec.recovery = "reset"
  /\ failureSpec' = NoFailure
  /\ arrivalTimes' = [r \in Requests |->
       IF r \in Elements(heldHang) THEN NotHere ELSE arrivalTimes[r]]
  /\ heldHang' = <<>>
  /\ status' = StatusOf(activeWorkers, queue, maxWorkers)
  /\ UNCHANGED <<serving, heldBlackhole, ceilings, targets, now>>

RecoverResume ==
  /\ failureSpec.mode \notin {"none", "degraded"} /\ failureSpec.recovery = "resume"
  /\ failureSpec' = NoFailure
  /\ heldHang' = <<>>
  /\ \E waiting \in ServiceOrder(heldHang) : Pump(waiting, inService, maxWorkers)
  /\ status' = StatusOf(activeWorkers', queue', maxWorkers)
  /\ UNCHANGED <<heldBlackhole, arrivalTimes, ceilings, targets, now>>

Recover == RecoverDegraded \/ RecoverReset \/ RecoverResume

(* Live resizing, and time *)

ResizeConcurrency(size) ==
  /\ targetWorkers' = size.c
  /\ targetCapacity' = Larger(Larger(1, size.k), size.c)
  /\ maxWorkers' = Larger(targetWorkers', activeWorkers)
  /\ maxCapacity' = Larger(targetCapacity', InSystem)
  /\ Pump(queue, inService, maxWorkers')
  /\ UNCHANGED <<held, arrivalTimes, failureSpec, now>>
  /\ UpdateStatus

Tick ==
  /\ now < MaxTime
  /\ now' = now + 1
  /\ UNCHANGED <<serving, held, arrivalTimes, status, failureSpec, ceilings, targets>>

\* A call the engine makes into the node.
Call ==
  \/ \E r \in Requests : HandleArrival(r) \/ HandleCompletion(r) \/ CancelRequest(r)
  \/ \E spec \in FailureSpecs : Fail(spec)
  \/ Recover
  \/ \E size \in Sizes : ResizeConcurrency(size)

Next == Call \/ Tick

Spec == Init /\ [][Next]_vars

-----------------------------------------------------------------------------
(* Properties *)

TypeOK ==
  /\ queue \in Seq(Requests) /\ inService \in Seq(Requests)
  /\ heldHang \in Seq(Requests) /\ heldBlackhole \subseteq Requests
  /\ activeWorkers \in Nat
  /\ arrivalTimes \in [Requests -> Nat \cup {NotHere}]
  /\ status \in {"idle", "busy", "saturated", "failed"}
  /\ failureSpec \in FailureSpecType \cup {NoFailure}
  /\ maxWorkers \in Nat /\ targetWorkers \in Nat
  /\ maxCapacity \in Nat /\ targetCapacity \in Nat
  /\ now \in Nat

\* The worker counter never drifts from the requests in service, and neither
\* ceiling is ever exceeded: the checks of debugAssertInvariants, over every
\* interleaving of arrivals, departures, failures, recoveries and resizes.
WorkersInStep == activeWorkers = Len(inService)
WithinCeilings == InSystem <= maxCapacity /\ activeWorkers <= maxWorkers
CountersAgree == WorkersInStep /\ WithinCeilings

\* No request waits beside an idle worker on a working node, whatever sequence
\* of cancellations, scale-downs, scale-ups and recoveries led there.
WorkConserving ==
  status # "failed" /\ queue # <<>> => activeWorkers >= maxWorkers

\* The status the routers and the health prober read is true: on a working node it
\* is the one the occupancy implies; a failed node does no work; and only a failed
\* one holds frozen requests, for recovery lets every one of them go.
StatusAccurate ==
  status = "failed" \/ status = StatusOf(activeWorkers, queue, maxWorkers)
FailedHoldsNoWork == status = "failed" => queue = <<>> /\ inService = <<>>
FrozenOnlyWhileFailed == heldHang # <<>> => status = "failed"
StatusTruthful == StatusAccurate /\ FailedHoldsNoWork /\ FrozenOnlyWhileFailed

\* A request the node has admitted and not handed back is in exactly one place
\* here, once, so that a completion, a cancellation or a recovery can end it;
\* and the node holds no request it has already let go.
Accounted ==
  LET everyone == queue \o inService \o heldHang
  IN  /\ \A i, j \in DOMAIN everyone : everyone[i] = everyone[j] => i = j
      /\ heldBlackhole \cap Elements(everyone) = {}
      /\ {r \in Requests : arrivalTimes[r] # NotHere}
           = heldBlackhole \cup Elements(everyone)

\* Whoever leaves the line for a worker outranks everyone who stood in it with
\* him and waits on, across a freeze and a resume too: by arrival under fifo, by
\* the latest arrival under lifo, and under priority by the smaller number, then
\* by arrival.
Outranks(r, q) ==
  CASE Discipline = "fifo" -> arrivalTimes[r] <= arrivalTimes[q]
    [] Discipline = "lifo" -> arrivalTimes[r] >= arrivalTimes[q]
    [] Discipline = "priority" ->
         \/ Priority[r] < Priority[q]
         \/ Priority[r] = Priority[q] /\ arrivalTimes[r] <= arrivalTimes[q]

ServedByRank ==
  [][\A r \in Elements(queue \o heldHang) \cap Elements(inService'),
        q \in Elements(queue \o heldHang) \cap Elements(queue') : Outranks(r, q)]_vars

=============================================================================
