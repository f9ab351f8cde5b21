------------------------ MODULE RequestLifecycleProofs ------------------------
(***************************************************************************)
(* Proofs about one node and about the life of the requests it serves. Of  *)
(* GGcKNode, for every set of requests, size, discipline and failure       *)
(* specification: the counters and the status, the place of each request,  *)
(* the rank in which the line is served; of NodeUtilization, that its      *)
(* areas are exact. Then, for any times, budgets and faults, of            *)
(* RequestLifecycle: what the event queue does with what is scheduled,     *)
(* that every pending request has one attempt under way, and that          *)
(* overlapping outages keep the node down together.                        *)
(***************************************************************************)
EXTENDS RequestLifecycle, NodeUtilization, FiniteSetTheorems, TLAPS

(* Facts about the sequence operators the node is built from. *)

\* Joining two sequences adds their lengths.
LEMMA ConcatType ==
  ASSUME NEW S, NEW s \in Seq(S), NEW t \in Seq(S)
  PROVE  s \o t \in Seq(S) /\ Len(s \o t) = Len(s) + Len(t)
OBVIOUS

\* A stretch of a sequence is a sequence of the length of the stretch.
LEMMA StretchType ==
  ASSUME NEW S, NEW s \in Seq(S), NEW a \in 1 .. Len(s) + 1, NEW b \in 0 .. Len(s), a <= b + 1
  PROVE  SubSeq(s, a, b) \in Seq(S) /\ Len(SubSeq(s, a, b)) = b + 1 - a
OBVIOUS

\* Inserting into a sequence makes it one longer.
LEMMA InsertType ==
  ASSUME NEW S, NEW s \in Seq(S), NEW e \in S, NEW n \in 0 .. Len(s)
  PROVE  LET t == SubSeq(s, 1, n) \o <<e>> \o SubSeq(s, n + 1, Len(s))
         IN  t \in Seq(S) /\ Len(t) = Len(s) + 1
<1> DEFINE ahead == SubSeq(s, 1, n)
           behind == SubSeq(s, n + 1, Len(s))
<1>1. ahead \in Seq(S) /\ Len(ahead) = n
  BY StretchType
<1>2. behind \in Seq(S) /\ Len(behind) = Len(s) - n
  BY StretchType
<1>3. <<e>> \in Seq(S) /\ Len(<<e>>) = 1
  OBVIOUS
<1> SUFFICES /\ ahead \o <<e>> \o behind \in Seq(S)
             /\ Len(ahead \o <<e>> \o behind) = Len(s) + 1
  OBVIOUS
<1> HIDE DEF ahead, behind
<1>4. ahead \o <<e>> \in Seq(S) /\ Len(ahead \o <<e>>) = n + 1
  BY <1>1, <1>3, ConcatType
<1> DEFINE front == ahead \o <<e>>
<1>5. front \o behind \in Seq(S) /\ Len(front \o behind) = Len(front) + Len(behind)
  BY <1>2, <1>4, ConcatType
<1>6. Len(front) + Len(behind) = Len(s) + 1
  BY <1>2, <1>4
<1> QED BY <1>5, <1>6

\* Removing a position of a sequence makes it one shorter.
LEMMA RemoveAtType ==
  ASSUME NEW S, NEW s \in Seq(S), NEW i \in DOMAIN s
  PROVE  RemoveAt(s, i) \in Seq(S) /\ Len(RemoveAt(s, i)) = Len(s) - 1
<1> DEFINE ahead == SubSeq(s, 1, i - 1)
           behind == SubSeq(s, i + 1, Len(s))
<1>1. ahead \in Seq(S) /\ Len(ahead) = i - 1
  BY StretchType
<1>2. behind \in Seq(S) /\ Len(behind) = Len(s) - i
  BY StretchType
<1>3. RemoveAt(s, i) = ahead \o behind
  BY DEF RemoveAt
<1>4. i \in 1 .. Len(s)
  OBVIOUS
<1> HIDE DEF ahead, behind
<1> QED BY <1>1, <1>2, <1>3, <1>4, ConcatType

\* Sorting keeps the length and the range within the original's.
LEMMA SortedByType ==
  ASSUME NEW S, NEW s \in Seq(S), NEW key, NEW t \in SortedBy(s, key)
  PROVE  t \in Seq(S) /\ Len(t) = Len(s)
<1>1. PICK p \in [DOMAIN s -> DOMAIN s] : t = [i \in DOMAIN s |-> s[p[i]]]
  BY DEF SortedBy
<1>2. DOMAIN s = 1 .. Len(s) /\ Len(s) \in Nat
  OBVIOUS
<1>3. \A i \in 1 .. Len(s) : s[p[i]] \in S
  BY <1>1, <1>2
<1> QED BY <1>1, <1>2, <1>3

\* The order of the pushes takes nothing away.
LEMMA PushOrderType ==
  ASSUME NEW S, NEW s \in Seq(S)
  PROVE  /\ PushOrder(s) \in Seq(S) /\ Len(PushOrder(s)) = Len(s)
         /\ \/ PushOrder(s) = s
            \/ \A i \in 1 .. Len(s) : PushOrder(s)[i] = s[(Len(s) - i) + 1]
<1>1. CASE Discipline = "lifo"
  <2>1. PushOrder(s) = [i \in 1 .. Len(s) |-> s[(Len(s) - i) + 1]]
    BY <1>1 DEF PushOrder, Reverse
  <2>2. Len(s) \in Nat /\ \A i \in 1 .. Len(s) : s[i] \in S
    OBVIOUS
  <2>3. \A i \in 1 .. Len(s) : s[(Len(s) - i) + 1] \in S
    <3> SUFFICES ASSUME NEW i \in 1 .. Len(s)  PROVE s[(Len(s) - i) + 1] \in S
      OBVIOUS
    <3>1. (Len(s) - i) + 1 \in 1 .. Len(s)
      BY <2>2
    <3> QED BY <2>2, <3>1
  <2> QED BY <2>1, <2>2, <2>3
<1>2. CASE Discipline # "lifo"
  BY <1>2 DEF PushOrder
<1> QED BY <1>1, <1>2

\* Only the empty sequence has no elements.
LEMMA EmptyLen ==
  ASSUME NEW S, NEW s \in Seq(S)
  PROVE  Len(s) \in Nat /\ (s = <<>> <=> Len(s) = 0)
OBVIOUS

-----------------------------------------------------------------------------
(* The inductive invariant, and what its parts become under a step. *)

IInv ==
  /\ TypeOK
  /\ WorkersInStep
  /\ WithinCeilings
  /\ FailedHoldsNoWork
  /\ WorkConserving
  /\ StatusAccurate

\* Pumping starts a stretch of the line: nothing is lost, no ceiling is broken,
\* and what still waits has no idle worker.
LEMMA PumpStep ==
  ASSUME NEW waiting \in Seq(Requests), NEW running \in Seq(Requests),
         NEW workers \in Nat, activeWorkers = Len(running),
         Pump(waiting, running, workers)
  PROVE  /\ inService' \in Seq(Requests) /\ queue' \in Seq(Requests)
         /\ activeWorkers' \in Nat /\ activeWorkers' = Len(inService')
         /\ activeWorkers' + Len(queue') = activeWorkers + Len(waiting)
         /\ activeWorkers <= workers => activeWorkers' <= workers
         /\ queue' # <<>> => activeWorkers' >= workers
         /\ waiting = <<>> => queue' = <<>>
<1> DEFINE free == Larger(0, workers - Len(running))
           n == IF free <= Len(waiting) THEN free ELSE Len(waiting)
           starting == SubSeq(waiting, 1, n)
           rest == SubSeq(waiting, n + 1, Len(waiting))
<1>1. /\ inService' = running \o starting
      /\ queue' = rest
      /\ activeWorkers' = activeWorkers + n
  BY DEF Pump
<1>2. Len(waiting) \in Nat /\ Len(running) \in Nat
  BY EmptyLen
<1>3. /\ n \in 0 .. Len(waiting)
      /\ n < Len(waiting) => n + Len(running) >= workers
      /\ Len(running) <= workers => n + Len(running) <= workers
  BY <1>2 DEF Larger
<1> HIDE DEF n
<1>4. starting \in Seq(Requests) /\ Len(starting) = n
  BY <1>3, StretchType
<1>5. rest \in Seq(Requests) /\ Len(rest) = Len(waiting) - n
  BY <1>3, StretchType
<1> HIDE DEF starting, rest
<1>6. running \o starting \in Seq(Requests)
      /\ Len(running \o starting) = Len(running) + n
  BY <1>4, ConcatType
<1>7. inService' \in Seq(Requests) /\ Len(inService') = Len(running) + n
  BY <1>1, <1>6
<1>8. queue' \in Seq(Requests) /\ Len(queue') = Len(waiting) - n
  BY <1>1, <1>5
<1>9. /\ queue' # <<>> => n < Len(waiting)
      /\ waiting = <<>> => n = 0 /\ Len(waiting) = 0
  BY <1>2, <1>3, <1>8, EmptyLen
<1>10. waiting = <<>> => queue' = <<>>
  BY <1>8, <1>9, EmptyLen
<1> QED BY <1>1, <1>2, <1>3, <1>7, <1>8, <1>9, <1>10

\* Draining never lifts a ceiling and never cuts below what is in use.
LEMMA DrainStep ==
  ASSUME TypeOK, NEW active \in Nat, NEW inSystem \in Nat,
         active <= maxWorkers, inSystem <= maxCapacity,
         DrainTowardTarget(active, inSystem)
  PROVE  /\ maxWorkers' \in Nat /\ maxCapacity' \in Nat
         /\ active <= maxWorkers' /\ maxWorkers' <= maxWorkers
         /\ inSystem <= maxCapacity'
BY DEF TypeOK, DrainTowardTarget, Larger

\* The lengths the invariant speaks of are natural numbers.
LEMMA Occupancy ==
  ASSUME IInv
  PROVE  /\ Len(queue) \in Nat /\ Len(inService) \in Nat /\ Len(heldHang) \in Nat
         /\ InSystem \in Nat /\ activeWorkers = Len(inService)
         /\ queue = <<>> <=> Len(queue) = 0
         /\ inService = <<>> <=> Len(inService) = 0
BY EmptyLen DEF IInv, TypeOK, WorkersInStep, InSystem

\* Every request's arrival is remembered or forgotten as a time or NotHere.
LEMMA ArrivalTimesType ==
  ASSUME TypeOK, NEW r \in Requests
  PROVE  /\ [arrivalTimes EXCEPT ![r] = now] \in [Requests -> Nat \cup {NotHere}]
         /\ [arrivalTimes EXCEPT ![r] = NotHere] \in [Requests -> Nat \cup {NotHere}]
BY DEF TypeOK

\* A recomputed status is one of the four.
LEMMA StatusType ==
  ASSUME TypeOK, UpdateStatus
  PROVE  /\ status' \in {"idle", "busy", "saturated", "failed"}
         /\ status' = "failed" <=> status = "failed"
         /\ StatusAccurate'
BY DEF TypeOK, UpdateStatus, StatusOf, StatusAccurate

\* Swallowed and frozen arrivals keep the invariant: only a hang takes a K slot.
LEMMA ArriveFailedStep ==
  ASSUME IInv, NEW r \in Requests, ArriveFailed(r)
  PROVE  IInv'
<1>1. TypeOK'
  <2>1. heldHang' \in Seq(Requests) /\ heldBlackhole' \subseteq Requests
    <3>1. CASE HoldHang(r)
      BY <3>1 DEF IInv, TypeOK, HoldHang
    <3>2. CASE HoldBlackhole(r)
      BY <3>2 DEF IInv, TypeOK, HoldBlackhole
    <3> QED BY <3>1, <3>2 DEF ArriveFailed
  <2> QED BY <2>1, ArrivalTimesType
       DEF IInv, TypeOK, ArriveFailed, Admit, serving, ceilings, targets
<1>2. InSystem' <= maxCapacity'
  <2>1. CASE failureSpec.mode = "hang" /\ InSystem < maxCapacity
    <3>1. Len(heldHang') = Len(heldHang) + 1
      BY <2>1 DEF IInv, TypeOK, ArriveFailed, HoldHang
    <3> QED BY <2>1, <3>1, Occupancy
         DEF IInv, TypeOK, ArriveFailed, InSystem, serving, ceilings
  <2>2. CASE ~(failureSpec.mode = "hang" /\ InSystem < maxCapacity)
    BY <2>2 DEF IInv, WithinCeilings, ArriveFailed, HoldBlackhole, InSystem, serving, ceilings
  <2> QED BY <2>1, <2>2
<1> QED BY <1>1, <1>2
     DEF IInv, WorkersInStep, WithinCeilings, FailedHoldsNoWork, WorkConserving,
         StatusAccurate, StatusOf, ArriveFailed, serving, ceilings

\* An arrival that finds an idle worker keeps the invariant.
LEMMA ArriveServedStep ==
  ASSUME IInv, NEW r \in Requests, ArriveServed(r)
  PROVE  IInv'
<1>1. inService' \in Seq(Requests) /\ Len(inService') = Len(inService) + 1
  BY DEF IInv, TypeOK, ArriveServed
<1>2. /\ activeWorkers' = activeWorkers + 1 /\ activeWorkers < maxWorkers
      /\ InSystem < maxCapacity /\ status # "failed"
      /\ UNCHANGED <<queue, heldHang, heldBlackhole, failureSpec, maxWorkers,
                     maxCapacity, targetWorkers, targetCapacity, now>>
  BY DEF ArriveServed, held, ceilings, targets
<1>3. TypeOK'
  BY <1>1, <1>2, ArrivalTimesType, StatusType DEF IInv, TypeOK, ArriveServed, Admit
<1>4. WorkersInStep' /\ WithinCeilings'
  BY <1>1, <1>2, Occupancy DEF IInv, TypeOK, WorkersInStep, WithinCeilings, InSystem
<1>5. queue = <<>> /\ FailedHoldsNoWork' /\ WorkConserving'
  BY <1>1, <1>2, StatusType
     DEF IInv, TypeOK, WorkConserving, FailedHoldsNoWork, ArriveServed
<1> QED BY <1>3, <1>4, <1>5, StatusType DEF IInv, ArriveServed

\* An arrival that finds every worker busy keeps the invariant.
LEMMA ArriveQueuedStep ==
  ASSUME IInv, NEW r \in Requests, ArriveQueued(r)
  PROVE  IInv'
<1>1. queue' \in Seq(Requests) /\ Len(queue') = Len(queue) + 1
  <2>1. PICK n \in 0 .. Len(queue) :
          queue' = SubSeq(queue, 1, n) \o <<r>> \o SubSeq(queue, n + 1, Len(queue))
    BY DEF ArriveQueued, Enqueue
  <2> QED BY <2>1, InsertType DEF IInv, TypeOK
<1>2. /\ activeWorkers >= maxWorkers /\ InSystem < maxCapacity /\ status # "failed"
      /\ UNCHANGED <<inService, activeWorkers, heldHang, heldBlackhole, failureSpec,
                     maxWorkers, maxCapacity, targetWorkers, targetCapacity, now>>
  BY DEF ArriveQueued, held, ceilings, targets
<1>3. TypeOK'
  BY <1>1, <1>2, ArrivalTimesType, StatusType DEF IInv, TypeOK, ArriveQueued, Admit
<1>4. WorkersInStep' /\ WithinCeilings'
  BY <1>1, <1>2, Occupancy DEF IInv, TypeOK, WorkersInStep, WithinCeilings, InSystem
<1>5. FailedHoldsNoWork' /\ WorkConserving'
  BY <1>2, StatusType DEF IInv, WorkConserving, FailedHoldsNoWork, ArriveQueued
<1> QED BY <1>3, <1>4, <1>5, StatusType DEF IInv, ArriveQueued

\* A departure from service: the worker is freed, the ceilings drain, and the
\* head of the line may take the worker.
LEMMA LeaveServiceStep ==
  ASSUME IInv, NEW i \in DOMAIN inService, LeaveService(i)
  PROVE  IInv'
<1> DEFINE active == activeWorkers - 1
           others == RemoveAt(inService, i)
           next == IF status # "failed" /\ queue # <<>> /\ active < maxWorkers'
                     THEN 1 ELSE 0
           starting == SubSeq(queue, 1, next)
           rest == SubSeq(queue, next + 1, Len(queue))
<1>1. /\ Forget(inService[i])
      /\ DrainTowardTarget(active, InSystem - 1)
      /\ inService' = others \o starting
      /\ queue' = rest
      /\ activeWorkers' = active + next
      /\ UNCHANGED <<heldHang, heldBlackhole, failureSpec, targetWorkers, targetCapacity, now>>
      /\ UpdateStatus
  BY DEF LeaveService, held, targets
<1>2. inService \in Seq(Requests) /\ queue \in Seq(Requests) /\ heldHang \in Seq(Requests)
  BY DEF IInv, TypeOK
<1>3. inService[i] \in Requests /\ Len(inService) >= 1
  BY <1>2
<1>4. /\ active \in Nat /\ InSystem - 1 \in Nat
      /\ active <= maxWorkers /\ InSystem - 1 <= maxCapacity
  BY <1>3, Occupancy DEF IInv, TypeOK, WithinCeilings, InSystem
<1>5. /\ maxWorkers' \in Nat /\ maxCapacity' \in Nat
      /\ active <= maxWorkers' /\ maxWorkers' <= maxWorkers
      /\ InSystem - 1 <= maxCapacity'
  BY <1>1, <1>4, DrainStep DEF IInv
<1>6. /\ next \in {0, 1} /\ next \in 0 .. Len(queue)
      /\ next = 1 => active < maxWorkers'
      /\ status # "failed" /\ queue # <<>> /\ next = 0 => active >= maxWorkers'
  BY <1>4, <1>5, Occupancy DEF IInv, TypeOK
<1>7. others \in Seq(Requests) /\ Len(others) = Len(inService) - 1
  BY <1>2, RemoveAtType
<1> HIDE DEF next, others
<1>8. starting \in Seq(Requests) /\ Len(starting) = next
  BY <1>2, <1>6, StretchType
<1>9. rest \in Seq(Requests) /\ Len(rest) = Len(queue) - next
  BY <1>2, <1>6, StretchType
<1> HIDE DEF starting, rest
<1>10. others \o starting \in Seq(Requests)
       /\ Len(others \o starting) = Len(others) + Len(starting)
  BY <1>7, <1>8, ConcatType
<1>11. /\ inService' \in Seq(Requests) /\ Len(inService') = Len(inService) - 1 + next
       /\ queue' \in Seq(Requests) /\ Len(queue') = Len(queue) - next
  BY <1>1, <1>7, <1>8, <1>9, <1>10
<1>12. TypeOK'
  <2>1. activeWorkers' \in Nat
    BY <1>1, <1>4, <1>6
  <2>2. arrivalTimes' \in [Requests -> Nat \cup {NotHere}]
    BY <1>1, <1>3, ArrivalTimesType DEF IInv, TypeOK, Forget
  <2>3. status' \in {"idle", "busy", "saturated", "failed"}
    BY <1>1, StatusType DEF IInv, TypeOK
  <2> QED BY <1>1, <1>5, <1>11, <2>1, <2>2, <2>3 DEF IInv, TypeOK
<1>13. WorkersInStep' /\ WithinCeilings'
  <2>1. activeWorkers' = Len(inService')
    BY <1>1, <1>6, <1>11, Occupancy DEF IInv, TypeOK
  <2>2. activeWorkers' <= maxWorkers'
    BY <1>1, <1>4, <1>5, <1>6
  <2>3. InSystem' = InSystem - 1
    BY <1>1, <1>6, <1>11, Occupancy DEF IInv, TypeOK, InSystem
  <2> QED BY <2>1, <2>2, <2>3, <1>5 DEF WorkersInStep, WithinCeilings
<1>14. WorkConserving'
  <2> SUFFICES ASSUME status' # "failed", queue' # <<>>
               PROVE  activeWorkers' >= maxWorkers'
    BY DEF WorkConserving
  <2>1. status # "failed" /\ queue # <<>>
    <3>1. Len(queue') # 0
      BY <1>11, EmptyLen
    <3>2. Len(queue) # 0
      BY <3>1, <1>6, <1>11, Occupancy
    <3> QED BY <3>2, <1>1, Occupancy, StatusType DEF IInv
  <2>2. activeWorkers >= maxWorkers
    BY <2>1 DEF IInv, WorkConserving
  <2> QED BY <2>1, <2>2, <1>1, <1>4, <1>5, <1>6, Occupancy DEF IInv, TypeOK
<1>15. FailedHoldsNoWork'
  <2> SUFFICES ASSUME status' = "failed" PROVE FALSE
    BY DEF FailedHoldsNoWork
  <2>1. inService = <<>>
    BY <1>1, StatusType DEF IInv, FailedHoldsNoWork
  <2> QED BY <2>1, <1>3
<1> QED BY <1>1, <1>12, <1>13, <1>14, <1>15, StatusType DEF IInv

\* Cancelling a swallowed request touches no worker and no ceiling.
LEMMA CancelBlackholeStep ==
  ASSUME IInv, NEW r \in Requests, CancelBlackhole(r)
  PROVE  IInv'
<1>1. TypeOK'
  BY ArrivalTimesType
     DEF IInv, TypeOK, CancelBlackhole, Forget, serving, ceilings, targets
<1> QED BY <1>1
     DEF IInv, CancelBlackhole, serving, ceilings, WorkersInStep, WithinCeilings, InSystem,
         FailedHoldsNoWork, WorkConserving, StatusAccurate, StatusOf

\* Cancelling a frozen request frees its K slot, and the ceiling may follow.
LEMMA CancelHangStep ==
  ASSUME IInv, NEW r \in Requests, CancelHang(r)
  PROVE  IInv'
<1>1. heldHang' \in Seq(Requests) /\ Len(heldHang') = Len(heldHang) - 1
  BY RemoveAtType DEF IInv, TypeOK, CancelHang
<1>2. /\ UNCHANGED <<queue, inService, activeWorkers, heldBlackhole, failureSpec,
                     targetWorkers, targetCapacity, now>>
      /\ DrainTowardTarget(activeWorkers, InSystem - 1) /\ UpdateStatus
  BY DEF CancelHang, serving, targets
<1>3. InSystem - 1 \in Nat /\ InSystem' = InSystem - 1
  <2>1. Len(heldHang') \in Nat
    BY <1>1, EmptyLen
  <2> QED BY <2>1, <1>1, <1>2, Occupancy DEF IInv, TypeOK, InSystem
<1>4. /\ maxWorkers' \in Nat /\ maxCapacity' \in Nat
      /\ activeWorkers <= maxWorkers' /\ maxWorkers' <= maxWorkers
      /\ InSystem - 1 <= maxCapacity'
  BY <1>2, <1>3, Occupancy, DrainStep DEF IInv, TypeOK, WithinCeilings
<1>5. TypeOK'
  BY <1>1, <1>2, <1>4, ArrivalTimesType, StatusType DEF IInv, TypeOK, CancelHang, Forget
<1>6. WorkersInStep' /\ WithinCeilings'
  BY <1>2, <1>3, <1>4 DEF IInv, TypeOK, WorkersInStep, WithinCeilings
<1>7. FailedHoldsNoWork' /\ WorkConserving'
  BY <1>2, <1>4, StatusType DEF IInv, TypeOK, FailedHoldsNoWork, WorkConserving
<1> QED BY <1>2, <1>5, <1>6, <1>7, StatusType DEF IInv

\* Cancelling a waiting request leaves the workers as busy as they were.
LEMMA CancelQueuedStep ==
  ASSUME IInv, NEW r \in Requests, CancelQueued(r)
  PROVE  IInv'
<1>1. queue # <<>> /\ queue' \in Seq(Requests) /\ Len(queue') = Len(queue) - 1
  BY RemoveAtType DEF IInv, TypeOK, CancelQueued
<1>2. /\ UNCHANGED <<inService, activeWorkers, heldHang, heldBlackhole, failureSpec,
                     targetWorkers, targetCapacity, now>>
      /\ DrainTowardTarget(activeWorkers, InSystem - 1) /\ UpdateStatus
  BY DEF CancelQueued, held, targets
<1>3. InSystem - 1 \in Nat /\ InSystem' = InSystem - 1
  <2>1. Len(queue') \in Nat
    BY <1>1, EmptyLen
  <2> QED BY <2>1, <1>1, <1>2, Occupancy DEF IInv, TypeOK, InSystem
<1>4. /\ maxWorkers' \in Nat /\ maxCapacity' \in Nat
      /\ activeWorkers <= maxWorkers' /\ maxWorkers' <= maxWorkers
      /\ InSystem - 1 <= maxCapacity'
  BY <1>2, <1>3, Occupancy, DrainStep DEF IInv, TypeOK, WithinCeilings
<1>5. TypeOK'
  BY <1>1, <1>2, <1>4, ArrivalTimesType, StatusType DEF IInv, TypeOK, CancelQueued, Forget
<1>6. status # "failed"
  BY <1>1 DEF IInv, FailedHoldsNoWork
<1>7. WorkersInStep' /\ WithinCeilings' /\ FailedHoldsNoWork' /\ WorkConserving'
  BY <1>1, <1>2, <1>3, <1>4, <1>6, StatusType
     DEF IInv, TypeOK, WorkersInStep, WithinCeilings, FailedHoldsNoWork, WorkConserving
<1> QED BY <1>2, <1>5, <1>7, StatusType DEF IInv

\* A fault, whatever state it strikes the node in.
Strikes(spec) == FailDegraded(spec) \/ FailReset(spec) \/ FailHang(spec)

\* A failure of any mode keeps the invariant: the node stops all its work.
LEMMA FailStep ==
  ASSUME IInv, NEW spec \in FailureSpecs, Strikes(spec)
  PROVE  IInv'
<1>0. spec \in FailureSpecType
  BY NodeAssumption
<1>1. CASE FailDegraded(spec)
  BY <1>0, <1>1
     DEF FailDegraded, IInv, TypeOK, WorkersInStep, WithinCeilings, InSystem,
         FailedHoldsNoWork, WorkConserving, StatusAccurate, StatusOf,
         serving, held, ceilings, targets
<1>2. CASE FailReset(spec)
  <2>1. TypeOK'
    BY <1>0, <1>2 DEF FailReset, StopServing, IInv, TypeOK, held, ceilings, targets
  <2>2. WithinCeilings' /\ WorkersInStep'
    BY <1>2, Occupancy
       DEF FailReset, StopServing, IInv, TypeOK, InSystem, WithinCeilings, WorkersInStep,
           held, ceilings
  <2> QED BY <2>1, <2>2, <1>2
       DEF FailReset, StopServing, IInv, FailedHoldsNoWork, WorkConserving, StatusAccurate
<1>3. CASE FailHang(spec)
  <2> DEFINE everyone == PushOrder(queue) \o inService
  <2>1. everyone \in Seq(Requests) /\ Len(everyone) = Len(queue) + Len(inService)
    <3>1. PushOrder(queue) \in Seq(Requests) /\ Len(PushOrder(queue)) = Len(queue)
      BY PushOrderType DEF IInv, TypeOK
    <3>2. PICK pushed \in Seq(Requests) : pushed = PushOrder(queue) /\ Len(pushed) = Len(queue)
      BY <3>1
    <3>3. inService \in Seq(Requests)
      BY DEF IInv, TypeOK
    <3> QED BY <3>2, <3>3, ConcatType
  <2> HIDE DEF everyone
  <2>2. heldHang' \in InArrivalOrder(everyone)
    BY <1>3 DEF FailHang, everyone
  <2>3. heldHang' \in Seq(Requests) /\ Len(heldHang') = Len(everyone)
    BY <2>1, <2>2, SortedByType DEF InArrivalOrder
  <2>4. TypeOK'
    BY <1>0, <1>3, <2>3 DEF FailHang, StopServing, IInv, TypeOK, ceilings, targets
  <2>5. queue' = <<>> /\ inService' = <<>> /\ activeWorkers' = 0 /\ status' = "failed"
        /\ maxCapacity' = maxCapacity /\ maxWorkers' = maxWorkers
    BY <1>3 DEF FailHang, StopServing, ceilings
  <2>6. WithinCeilings' /\ WorkersInStep'
    BY <2>1, <2>3, <2>5, Occupancy DEF IInv, TypeOK, InSystem, WithinCeilings, WorkersInStep
  <2> QED BY <2>4, <2>5, <2>6
       DEF IInv, FailedHoldsNoWork, WorkConserving, StatusAccurate
<1> QED BY <1>1, <1>2, <1>3 DEF Strikes

\* A recovery of any policy keeps the invariant: resumed requests are pumped.
LEMMA RecoverStep ==
  ASSUME IInv, Recover
  PROVE  IInv'
<1>1. CASE RecoverDegraded
  <2>1. TypeOK'
    BY <1>1 DEF RecoverDegraded, IInv, TypeOK, StatusOf, serving, held, ceilings, targets
  <2> QED BY <1>1, <2>1, Occupancy
       DEF RecoverDegraded, IInv, WorkersInStep, WithinCeilings, InSystem,
           FailedHoldsNoWork, WorkConserving, StatusAccurate, StatusOf,
           serving, held, ceilings
<1>2. CASE RecoverReset
  <2>1. TypeOK'
    BY <1>2 DEF RecoverReset, IInv, TypeOK, StatusOf, serving, ceilings, targets
  <2>2. WithinCeilings' /\ WorkersInStep'
    <3>1. /\ Len(heldHang') = 0
          /\ UNCHANGED <<queue, inService, activeWorkers, maxWorkers, maxCapacity>>
      BY <1>2 DEF RecoverReset, serving, ceilings
    <3>2. InSystem' \in Nat /\ InSystem' <= InSystem
      BY <3>1, Occupancy DEF IInv, TypeOK, InSystem
    <3> QED BY <3>1, <3>2, <1>2, Occupancy
         DEF RecoverReset, IInv, TypeOK, WithinCeilings, WorkersInStep, serving, ceilings
  <2> QED BY <1>2, <2>1, <2>2
       DEF RecoverReset, IInv, FailedHoldsNoWork, WorkConserving, StatusAccurate, StatusOf,
           serving, ceilings
<1>3. CASE RecoverResume
  <2>1. PICK waiting \in ServiceOrder(heldHang) : Pump(waiting, inService, maxWorkers)
    BY <1>3 DEF RecoverResume
  <2>2. waiting \in Seq(Requests) /\ Len(waiting) = Len(heldHang)
    BY SortedByType DEF ServiceOrder, IInv, TypeOK
  <2>3. /\ inService' \in Seq(Requests) /\ queue' \in Seq(Requests)
        /\ activeWorkers' \in Nat /\ activeWorkers' = Len(inService')
        /\ activeWorkers' + Len(queue') = activeWorkers + Len(heldHang)
        /\ activeWorkers' <= maxWorkers
        /\ queue' # <<>> => activeWorkers' >= maxWorkers
    BY <2>1, <2>2, PumpStep DEF IInv, TypeOK, WorkersInStep, WithinCeilings
  <2>4. /\ failureSpec' = NoFailure /\ heldHang' = <<>>
        /\ status' = StatusOf(activeWorkers', queue', maxWorkers)
        /\ UNCHANGED <<heldBlackhole, arrivalTimes, maxWorkers, maxCapacity,
                       targetWorkers, targetCapacity, now>>
    BY <1>3 DEF RecoverResume, ceilings, targets
  <2>5. TypeOK'
    BY <2>3, <2>4 DEF IInv, TypeOK, StatusOf
  <2>6. InSystem' <= InSystem
    <3>1. Len(queue') \in Nat /\ Len(heldHang') = 0
      BY <2>3, <2>4, EmptyLen
    <3> QED BY <3>1, <2>3, <2>4, Occupancy DEF IInv, TypeOK, InSystem
  <2>7. InSystem' \in Nat
    <3>1. Len(queue') \in Nat /\ Len(heldHang') = 0
      BY <2>3, <2>4, EmptyLen
    <3> QED BY <3>1, <2>3 DEF InSystem
  <2>8. WithinCeilings' /\ WorkersInStep'
    BY <2>3, <2>4, <2>6, <2>7, Occupancy DEF IInv, TypeOK, WithinCeilings, WorkersInStep
  <2> QED BY <2>3, <2>4, <2>5, <2>8
       DEF IInv, FailedHoldsNoWork, WorkConserving, StatusAccurate, StatusOf
<1> QED BY <1>1, <1>2, <1>3 DEF Recover

\* A resize keeps the invariant: no ceiling falls below the work in the node.
LEMMA ResizeStep ==
  ASSUME IInv, NEW size \in Sizes, ResizeConcurrency(size)
  PROVE  IInv'
<1>1. size.c \in Nat /\ size.k \in Nat
  BY NodeAssumption
<1>2. /\ targetWorkers' = size.c
      /\ targetCapacity' = Larger(Larger(1, size.k), size.c)
      /\ maxWorkers' = Larger(targetWorkers', activeWorkers)
      /\ maxCapacity' = Larger(targetCapacity', InSystem)
      /\ Pump(queue, inService, maxWorkers')
      /\ UNCHANGED <<heldHang, heldBlackhole, arrivalTimes, failureSpec, now>>
      /\ UpdateStatus
  BY DEF ResizeConcurrency, held
<1>3. /\ targetWorkers' \in Nat /\ targetCapacity' \in Nat
      /\ maxWorkers' \in Nat /\ activeWorkers <= maxWorkers'
      /\ maxCapacity' \in Nat /\ InSystem <= maxCapacity'
  BY <1>1, <1>2, Occupancy DEF IInv, TypeOK, Larger
<1>4. /\ inService' \in Seq(Requests) /\ queue' \in Seq(Requests)
      /\ activeWorkers' \in Nat /\ activeWorkers' = Len(inService')
      /\ activeWorkers' + Len(queue') = activeWorkers + Len(queue)
      /\ activeWorkers' <= maxWorkers'
      /\ queue' # <<>> => activeWorkers' >= maxWorkers'
      /\ queue = <<>> => queue' = <<>>
  BY <1>2, <1>3, PumpStep DEF IInv, TypeOK, WorkersInStep
<1>5. TypeOK'
  BY <1>2, <1>3, <1>4, StatusType DEF IInv, TypeOK
<1>6. Len(queue') \in Nat /\ (queue' = <<>> <=> Len(queue') = 0)
      /\ (inService' = <<>> <=> Len(inService') = 0)
  BY <1>4, EmptyLen
<1>7. InSystem' = InSystem
  BY <1>2, <1>4, <1>6, Occupancy DEF IInv, TypeOK, InSystem
<1>8. WithinCeilings' /\ WorkersInStep'
  BY <1>3, <1>4, <1>7 DEF WithinCeilings, WorkersInStep
<1>9. FailedHoldsNoWork'
  <2> SUFFICES ASSUME status' = "failed" PROVE queue' = <<>> /\ inService' = <<>>
    BY DEF FailedHoldsNoWork
  <2>1. queue = <<>> /\ inService = <<>>
    BY <1>2, StatusType DEF IInv, FailedHoldsNoWork
  <2>2. queue' = <<>>
    BY <2>1, <1>4
  <2>3. Len(inService') = 0
    BY <2>1, <2>2, <1>4, <1>6, Occupancy
  <2> QED BY <2>2, <2>3, <1>6
<1>10. WorkConserving'
  BY <1>4 DEF WorkConserving
<1> QED BY <1>2, <1>5, <1>8, <1>9, <1>10, StatusType DEF IInv

-----------------------------------------------------------------------------
(* The theorems *)

\* A new node satisfies the invariant.
LEMMA InitInv == Init => IInv
<1> SUFFICES ASSUME Init PROVE IInv
  OBVIOUS
<1>1. /\ queue = <<>> /\ inService = <<>> /\ heldHang = <<>>
      /\ activeWorkers = 0 /\ InSystem = 0
  BY DEF Init, InSystem
<1>2. TypeOK
  BY <1>1, NodeAssumption DEF Init, TypeOK
<1> QED BY <1>1, <1>2, NodeAssumption
     DEF Init, IInv, WorkersInStep, WithinCeilings, FailedHoldsNoWork,
         WorkConserving, StatusAccurate, StatusOf

\* Every call into the node, and the passing of time, preserve it.
LEMMA NextInv == IInv /\ [Next]_vars => IInv'
<1> SUFFICES ASSUME IInv, [Next]_vars PROVE IInv'
  OBVIOUS
<1>1. ASSUME NEW r \in Requests, HandleArrival(r) PROVE IInv'
  BY <1>1, ArriveFailedStep, ArriveServedStep, ArriveQueuedStep DEF HandleArrival
<1>2. ASSUME NEW r \in Requests, HandleCompletion(r) PROVE IInv'
  BY <1>2, LeaveServiceStep DEF HandleCompletion
<1>3. ASSUME NEW r \in Requests, CancelRequest(r) PROVE IInv'
  BY <1>2, <1>3, CancelBlackholeStep, CancelHangStep, CancelQueuedStep
     DEF CancelRequest, CancelInService
<1>4. CASE Tick
  BY <1>4
     DEF Tick, IInv, TypeOK, WorkersInStep, WithinCeilings, InSystem, FailedHoldsNoWork,
         WorkConserving, StatusAccurate, StatusOf, serving, held, ceilings, targets
<1>5. CASE UNCHANGED vars
  BY <1>5
     DEF vars, IInv, TypeOK, WorkersInStep, WithinCeilings, InSystem, FailedHoldsNoWork,
         WorkConserving, StatusAccurate, StatusOf, serving, held, ceilings, targets
<1>6. ASSUME NEW spec \in FailureSpecs, Fail(spec) PROVE IInv'
  BY <1>6, FailStep DEF Fail, Strikes
<1> QED BY <1>1, <1>2, <1>3, <1>4, <1>5, <1>6, RecoverStep, ResizeStep DEF Next, Call

\* The node's invariant holds for every set of requests, size and failure
\* specification, with overlapping faults or without.
THEOREM Invariance == Spec => []IInv
<1>1. Init => IInv
  BY InitInv
<1>2. IInv /\ [Next]_vars => IInv'
  BY NextInv
<1> QED BY <1>1, <1>2, PTL DEF Spec

\* The state always has its type.
THEOREM TypeCorrect == Spec => []TypeOK
<1>1. IInv => TypeOK
  BY DEF IInv
<1> QED BY <1>1, Invariance, PTL

\* The worker counter is the number of requests in service.
THEOREM WorkersStayInStep == Spec => []WorkersInStep
<1>1. IInv => WorkersInStep
  BY DEF IInv
<1> QED BY <1>1, Invariance, PTL

\* Neither K nor the worker ceiling is ever exceeded.
THEOREM CeilingsHold == Spec => []WithinCeilings
<1>1. IInv => WithinCeilings
  BY DEF IInv
<1> QED BY <1>1, Invariance, PTL

\* Nothing waits in a failed node and nothing is in service there.
THEOREM FailedNodeIsEmpty == Spec => []FailedHoldsNoWork
<1>1. IInv => FailedHoldsNoWork
  BY DEF IInv
<1> QED BY <1>1, Invariance, PTL

\* A working node never leaves a request waiting beside an idle worker.
THEOREM NodeIsWorkConserving == Spec => []WorkConserving
<1>1. IInv => WorkConserving
  BY DEF IInv
<1> QED BY <1>1, Invariance, PTL

\* The status other components read is the one the occupancy implies.
THEOREM StatusIsAccurate == Spec => []StatusAccurate
<1>1. IInv => StatusAccurate
  BY DEF IInv
<1> QED BY <1>1, Invariance, PTL

-----------------------------------------------------------------------------
(* Frozen requests, on a node no second fault strikes while it is failed. *)

\* Every fault that froze requests is still on record when recovery comes.
FaultOnRecord == status = "failed" => failureSpec.mode \notin {"none", "degraded"}

FrozenInv == FaultOnRecord /\ FrozenOnlyWhileFailed

\* A new node holds no frozen request.
LEMMA FrozenInit == Init => FrozenInv
BY DEF Init, FrozenInv, FaultOnRecord, FrozenOnlyWhileFailed

\* A departure leaves the fault and the frozen requests alone.
LEMMA FrozenUnchanged ==
  ASSUME FrozenInv, UNCHANGED <<heldHang, failureSpec>>,
         status' = "failed" <=> status = "failed"
  PROVE  FrozenInv'
BY DEF FrozenInv, FaultOnRecord, FrozenOnlyWhileFailed

\* No call leaves a frozen request on a working node, if faults do not overlap.
LEMMA FrozenCall ==
  ASSUME ~OverlappingFaults, IInv, FrozenInv, Call
  PROVE  FrozenInv'
<1>1. ASSUME NEW r \in Requests, HandleArrival(r) PROVE FrozenInv'
  <2>1. CASE ArriveFailed(r)
    BY <2>1 DEF ArriveFailed, FrozenInv, FaultOnRecord, FrozenOnlyWhileFailed
  <2>2. CASE ArriveServed(r)
    BY <2>2, FrozenUnchanged, StatusType DEF ArriveServed, held, IInv
  <2>3. CASE ArriveQueued(r)
    BY <2>3, FrozenUnchanged, StatusType DEF ArriveQueued, held, IInv
  <2> QED BY <1>1, <2>1, <2>2, <2>3 DEF HandleArrival
<1>2. ASSUME NEW r \in Requests, HandleCompletion(r) PROVE FrozenInv'
  <2>1. PICK i \in DOMAIN inService : LeaveService(i)
    BY <1>2 DEF HandleCompletion
  <2>2. UNCHANGED <<heldHang, failureSpec>> /\ UpdateStatus
    BY <2>1 DEF LeaveService, held
  <2> QED BY <2>2, FrozenUnchanged, StatusType DEF IInv
<1>3. ASSUME NEW r \in Requests, CancelRequest(r) PROVE FrozenInv'
  <2>1. CASE CancelBlackhole(r)
    BY <2>1, FrozenUnchanged DEF CancelBlackhole
  <2>2. CASE CancelHang(r)
    <3>1. UNCHANGED failureSpec /\ UpdateStatus /\ heldHang # <<>>
      BY <2>2 DEF CancelHang
    <3> QED BY <3>1, StatusType DEF IInv, FrozenInv, FaultOnRecord, FrozenOnlyWhileFailed
  <2>3. CASE CancelQueued(r)
    BY <2>3, FrozenUnchanged, StatusType DEF CancelQueued, held, IInv
  <2> QED BY <1>2, <1>3, <2>1, <2>2, <2>3 DEF CancelRequest, CancelInService
<1>4. ASSUME NEW spec \in FailureSpecs, Fail(spec) PROVE FrozenInv'
  <2>1. status # "failed" /\ spec.mode \in Modes /\ heldHang = <<>>
    BY <1>4, NodeAssumption DEF Fail, FailureSpecType, FrozenInv, FrozenOnlyWhileFailed
  <2>2. CASE FailDegraded(spec)
    BY <2>1, <2>2 DEF FailDegraded, held, FrozenInv, FaultOnRecord, FrozenOnlyWhileFailed
  <2>3. CASE FailReset(spec) \/ FailHang(spec)
    BY <2>1, <2>3
       DEF FailReset, FailHang, Modes, FrozenInv, FaultOnRecord, FrozenOnlyWhileFailed
  <2> QED BY <1>4, <2>2, <2>3 DEF Fail
<1>5. CASE Recover
  <2>1. CASE RecoverDegraded
    BY <2>1 DEF RecoverDegraded, held, FrozenInv, FaultOnRecord, FrozenOnlyWhileFailed
  <2>2. CASE RecoverReset
    BY <2>2 DEF RecoverReset, StatusOf, FrozenInv, FaultOnRecord, FrozenOnlyWhileFailed
  <2>3. CASE RecoverResume
    BY <2>3 DEF RecoverResume, StatusOf, FrozenInv, FaultOnRecord, FrozenOnlyWhileFailed
  <2> QED BY <1>5, <2>1, <2>2, <2>3 DEF Recover
<1>6. ASSUME NEW size \in Sizes, ResizeConcurrency(size) PROVE FrozenInv'
  BY <1>6, FrozenUnchanged, StatusType DEF ResizeConcurrency, held, IInv
<1> QED BY <1>1, <1>2, <1>3, <1>4, <1>5, <1>6 DEF Call

\* Recovery never leaves a request frozen in a working node, as long as no
\* fault strikes a node that is already failed.
THEOREM NothingStaysFrozen == ASSUME ~OverlappingFaults PROVE Spec => []FrozenOnlyWhileFailed
<1>1. Init => FrozenInv
  BY FrozenInit
<1>2. IInv /\ FrozenInv /\ [Next]_vars => FrozenInv'
  <2> SUFFICES ASSUME IInv, FrozenInv, [Next]_vars PROVE FrozenInv'
    OBVIOUS
  <2>1. CASE Tick
    BY <2>1, FrozenUnchanged DEF Tick, held
  <2>2. CASE UNCHANGED vars
    BY <2>2, FrozenUnchanged DEF vars, held
  <2> QED BY <2>1, <2>2, FrozenCall DEF Next
<1>3. FrozenInv => FrozenOnlyWhileFailed
  BY DEF FrozenInv
<1> QED BY <1>1, <1>2, <1>3, Invariance, PTL DEF Spec

\* The counters agree with the requests and the ceilings, for every configuration
\* of the node.
THEOREM CountersStayInAgreement == Spec => []CountersAgree
BY WorkersStayInStep, CeilingsHold, PTL DEF CountersAgree

\* The status is true of the node's occupancy and of what is frozen in it, as long
\* as no fault strikes a node that is already failed.
THEOREM StatusStaysTruthful == ASSUME ~OverlappingFaults PROVE Spec => []StatusTruthful
BY StatusIsAccurate, FailedNodeIsEmpty, NothingStaysFrozen, PTL DEF StatusTruthful

-----------------------------------------------------------------------------
(* The places of a node: each request it has admitted and not handed back  *)
(* is in exactly one of them, as long as no fault strikes a node that is   *)
(* already failed.                                                         *)

(* Lists of a set, without repetition *)

Distinct(s) == \A i, j \in DOMAIN s : s[i] = s[j] => i = j
Lists(s, S) == s \in Seq(S) /\ Distinct(s) /\ Elements(s) = S

\* Every sequence without repetition lists its elements.
LEMMA ListsElements ==
  ASSUME NEW S, NEW s \in Seq(S), Distinct(s)
  PROVE  Lists(s, Elements(s)) /\ Elements(s) \subseteq S
<1>1. \A i \in 1 .. Len(s) : s[i] \in Elements(s) /\ s[i] \in S
  BY DEF Elements
<1>2. s \in Seq(Elements(s))
  BY <1>1
<1>3. Elements(s) \subseteq S
  BY <1>1 DEF Elements
<1> QED BY <1>2, <1>3 DEF Lists

\* The empty sequence lists nothing, and nothing else does.
LEMMA ListsNothing ==
  ASSUME NEW S
  PROVE  Lists(<<>>, {}) /\ (Lists(<<>>, S) => S = {})
BY DEF Lists, Distinct, Elements

\* The order of the pushes lists the same.
LEMMA ListsPushed ==
  ASSUME NEW S, NEW s, Lists(s, S)
  PROVE  Lists(PushOrder(s), S)
<1>1. s \in Seq(S)
  BY DEF Lists
<1>2. Len(s) \in Nat /\ DOMAIN s = 1 .. Len(s)
  BY <1>1
<1>3. CASE PushOrder(s) = s
  BY <1>3
<1>4. CASE \A i \in 1 .. Len(s) : PushOrder(s)[i] = s[(Len(s) - i) + 1]
  <2>1. PICK t : t = PushOrder(s)
    OBVIOUS
  <2>2. t \in Seq(S) /\ DOMAIN t = 1 .. Len(s)
    BY <1>1, <2>1, PushOrderType
  <2>3. PICK n \in Nat : n = Len(s)
    BY <1>2
  <2>4. \A i \in 1 .. n : t[i] = s[(n - i) + 1] /\ (n - i) + 1 \in 1 .. n
    BY <1>4, <2>1, <2>3
  <2>5. Distinct(t)
    <3> SUFFICES ASSUME NEW i \in 1 .. n, NEW j \in 1 .. n, t[i] = t[j]
                 PROVE  i = j
      BY <2>2, <2>3 DEF Distinct
    <3>1. s[(n - i) + 1] = s[(n - j) + 1]
      BY <2>4
    <3>2. (n - i) + 1 = (n - j) + 1
      BY <1>2, <2>3, <2>4, <3>1 DEF Lists, Distinct
    <3> QED BY <3>2
  <2>6. Elements(t) = S
    <3>1. ASSUME NEW e \in S  PROVE \E i \in 1 .. n : t[i] = e
      <4>1. PICK j \in 1 .. n : s[j] = e
        BY <1>2, <2>3 DEF Lists, Elements
      <4>2. (n - j) + 1 \in 1 .. n /\ (n - ((n - j) + 1)) + 1 = j
        OBVIOUS
      <4> QED BY <2>4, <4>1, <4>2
    <3>2. \A i \in 1 .. n : t[i] \in S
      BY <2>2, <2>3
    <3> QED BY <2>2, <2>3, <3>1, <3>2 DEF Elements
  <2> QED BY <2>1, <2>2, <2>5, <2>6 DEF Lists
<1> QED BY <1>1, <1>3, <1>4, PushOrderType

\* Lists of sets apart, one behind the other, list both.
LEMMA ListsJoined ==
  ASSUME NEW S, NEW T, NEW s, NEW t, Lists(s, S), Lists(t, T), S \cap T = {}
  PROVE  Lists(s \o t, S \cup T)
<1> DEFINE u == s \o t
<1>1. /\ s \in Seq(S \cup T) /\ t \in Seq(S \cup T)
      /\ \A i \in 1 .. Len(s) : s[i] \in S
      /\ \A i \in 1 .. Len(t) : t[i] \in T
      /\ Len(s) \in Nat /\ Len(t) \in Nat /\ DOMAIN s = 1 .. Len(s) /\ DOMAIN t = 1 .. Len(t)
  BY DEF Lists
<1>2. /\ u \in Seq(S \cup T) /\ Len(u) = Len(s) + Len(t)
      /\ \A i \in 1 .. Len(s) + Len(t) : u[i] = IF i <= Len(s) THEN s[i] ELSE t[i - Len(s)]
  BY <1>1
<1>3. DOMAIN u = 1 .. Len(s) + Len(t)
  BY <1>2
<1> HIDE DEF u
<1>4. Distinct(u)
  <2> SUFFICES ASSUME NEW i \in 1 .. Len(s) + Len(t), NEW j \in 1 .. Len(s) + Len(t), u[i] = u[j]
               PROVE  i = j
    BY <1>3 DEF Distinct
  <2>1. CASE i <= Len(s) /\ j <= Len(s)
    <3>1. i \in 1 .. Len(s) /\ j \in 1 .. Len(s) /\ s[i] = s[j]
      BY <1>1, <1>2, <2>1
    <3> QED BY <1>1, <3>1 DEF Lists, Distinct
  <2>2. CASE i > Len(s) /\ j > Len(s)
    <3>1. i - Len(s) \in 1 .. Len(t) /\ j - Len(s) \in 1 .. Len(t)
      BY <1>1, <2>2
    <3>2. t[i - Len(s)] = t[j - Len(s)]
      BY <1>1, <1>2, <2>2
    <3>3. i - Len(s) = j - Len(s)
      BY <1>1, <3>1, <3>2 DEF Lists, Distinct
    <3> QED BY <1>1, <3>3
  <2>3. ASSUME NEW k \in 1 .. Len(s) + Len(t), k <= Len(s)
        PROVE  u[k] \in S
    <3>1. k \in 1 .. Len(s) /\ u[k] = s[k]
      BY <1>1, <1>2, <2>3
    <3> QED BY <1>1, <3>1
  <2>4. ASSUME NEW k \in 1 .. Len(s) + Len(t), k > Len(s)
        PROVE  u[k] \in T
    <3>1. k - Len(s) \in 1 .. Len(t) /\ u[k] = t[k - Len(s)]
      BY <1>1, <1>2, <2>4
    <3> QED BY <1>1, <3>1
  <2> QED BY <1>1, <2>1, <2>2, <2>3, <2>4
<1>5. Elements(u) = S \cup T
  <2>1. ASSUME NEW i \in 1 .. Len(s) + Len(t)
        PROVE  u[i] \in S \cup T
    BY <1>2
  <2>2. ASSUME NEW e \in S
        PROVE  \E i \in 1 .. Len(s) + Len(t) : u[i] = e
    <3>1. PICK i \in 1 .. Len(s) : s[i] = e
      BY <1>1 DEF Lists, Elements
    <3>2. i \in 1 .. Len(s) + Len(t) /\ u[i] = e
      BY <1>1, <1>2, <3>1
    <3> QED BY <3>2
  <2>3. ASSUME NEW e \in T
        PROVE  \E i \in 1 .. Len(s) + Len(t) : u[i] = e
    <3>1. PICK i \in 1 .. Len(t) : t[i] = e
      BY <1>1 DEF Lists, Elements
    <3>2. i + Len(s) \in 1 .. Len(s) + Len(t) /\ (i + Len(s)) - Len(s) = i /\ ~(i + Len(s) <= Len(s))
      BY <1>1
    <3>3. u[i + Len(s)] = e
      BY <1>2, <3>1, <3>2
    <3> QED BY <3>2, <3>3
  <2> QED BY <1>3, <2>1, <2>2, <2>3 DEF Elements
<1> QED BY <1>2, <1>4, <1>5 DEF Lists, u

\* What is left of a sequence behind a position.
LEMMA RestOf ==
  ASSUME NEW S, NEW s \in Seq(S), NEW n \in 0 .. Len(s)
  PROVE  LET b == SubSeq(s, n + 1, Len(s))
         IN  /\ b \in Seq(S) /\ Len(b) = Len(s) - n
             /\ \A i \in 1 .. Len(s) - n : b[i] = s[i + n]
<1>1. SubSeq(s, n + 1, Len(s)) \in Seq(S) /\ Len(SubSeq(s, n + 1, Len(s))) = Len(s) - n
  BY StretchType
<1>2. ASSUME NEW i \in 1 .. Len(s) - n
      PROVE  SubSeq(s, n + 1, Len(s))[i] = s[i + n]
  OBVIOUS
<1> QED BY <1>1, <1>2

\* A list that is cut lists two parts of its set.
LEMMA ListsCut ==
  ASSUME NEW S, NEW s, Lists(s, S), NEW n \in 0 .. Len(s)
  PROVE  \E T \in SUBSET S : /\ Lists(SubSeq(s, 1, n), T)
                             /\ Lists(SubSeq(s, n + 1, Len(s)), S \ T)
<1> DEFINE a == SubSeq(s, 1, n)
           b == SubSeq(s, n + 1, Len(s))
           T == Elements(a)
<1>1. s \in Seq(S) /\ Len(s) \in Nat /\ DOMAIN s = 1 .. Len(s)
  BY DEF Lists
<1>2. a \in Seq(S) /\ Len(a) = n /\ \A i \in 1 .. n : a[i] = s[i]
  BY <1>1
<1>3. b \in Seq(S) /\ Len(b) = Len(s) - n /\ \A i \in 1 .. Len(s) - n : b[i] = s[i + n]
  BY <1>1, RestOf
<1>4. DOMAIN a = 1 .. n /\ DOMAIN b = 1 .. Len(s) - n
  BY <1>2, <1>3
<1> HIDE DEF a, b
<1>5. Distinct(a)
  BY <1>1, <1>2, <1>4 DEF Lists, Distinct
<1>6. Distinct(b)
  <2> SUFFICES ASSUME NEW i \in 1 .. Len(s) - n, NEW j \in 1 .. Len(s) - n, b[i] = b[j]
               PROVE  i = j
    BY <1>4 DEF Distinct
  <2>1. i + n \in 1 .. Len(s) /\ j + n \in 1 .. Len(s) /\ s[i + n] = s[j + n]
    BY <1>1, <1>3
  <2>2. i + n = j + n
    BY <1>1, <2>1 DEF Lists, Distinct
  <2> QED BY <2>2
<1>7. Elements(b) = S \ T
  <2>1. ASSUME NEW i \in 1 .. Len(s) - n
        PROVE  b[i] \in S \ T
    <3>1. i + n \in 1 .. Len(s) /\ i + n > n /\ b[i] = s[i + n] /\ b[i] \in S
      BY <1>1, <1>3
    <3>2. ASSUME NEW j \in 1 .. n
          PROVE  a[j] # b[i]
      <4>1. j \in 1 .. Len(s) /\ a[j] = s[j] /\ j # i + n
        BY <1>1, <1>2
      <4> QED BY <1>1, <3>1, <4>1 DEF Lists, Distinct
    <3> QED BY <1>4, <3>1, <3>2 DEF Elements
  <2>2. ASSUME NEW e \in S \ T
        PROVE  \E i \in 1 .. Len(s) - n : b[i] = e
    <3>1. PICK i \in 1 .. Len(s) : s[i] = e
      BY <1>1 DEF Lists, Elements
    <3>2. ~(i <= n)
      <4>1. i <= n => a[i] = e /\ i \in DOMAIN a
        BY <1>2, <1>4, <3>1
      <4> QED BY <4>1 DEF Elements
    <3>3. i - n \in 1 .. Len(s) - n /\ (i - n) + n = i
      BY <1>1, <3>2
    <3> QED BY <1>3, <3>1, <3>3
  <2> QED BY <1>4, <2>1, <2>2 DEF Elements
<1>8. T \in SUBSET S /\ Lists(a, T)
  BY <1>2, <1>5, ListsElements
<1>9. Lists(b, S \ T)
  <2>1. Lists(b, Elements(b))
    BY <1>3, <1>6, ListsElements
  <2> QED BY <1>7, <2>1
<1> QED BY <1>8, <1>9 DEF a, b

\* A sequence of one element lists that one.
LEMMA ListsOne ==
  ASSUME NEW e
  PROVE  Lists(<<e>>, {e})
BY DEF Lists, Distinct, Elements

\* Appending an element that is not listed yet lists it too.
LEMMA ListsAppended ==
  ASSUME NEW S, NEW s, Lists(s, S), NEW e, e \notin S
  PROVE  Lists(Append(s, e), S \cup {e})
<1>1. Lists(s \o <<e>>, S \cup {e})
  BY ListsOne, ListsJoined
<1>2. s \in Seq(S \cup {e})
  BY DEF Lists
<1>3. Append(s, e) = s \o <<e>>
  BY <1>2
<1> QED BY <1>1, <1>3

\* Inserting does so at any position.
LEMMA ListsInserted ==
  ASSUME NEW S, NEW s, Lists(s, S), NEW e, e \notin S, NEW n \in 0 .. Len(s)
  PROVE  Lists(SubSeq(s, 1, n) \o <<e>> \o SubSeq(s, n + 1, Len(s)), S \cup {e})
<1>1. PICK T \in SUBSET S : /\ Lists(SubSeq(s, 1, n), T)
                            /\ Lists(SubSeq(s, n + 1, Len(s)), S \ T)
  BY ListsCut
<1>2. Lists(SubSeq(s, 1, n) \o <<e>>, T \cup {e})
  BY <1>1, ListsOne, ListsJoined
<1>3. (T \cup {e}) \cap (S \ T) = {} /\ (T \cup {e}) \cup (S \ T) = S \cup {e}
  OBVIOUS
<1>4. Lists((SubSeq(s, 1, n) \o <<e>>) \o SubSeq(s, n + 1, Len(s)), (T \cup {e}) \cup (S \ T))
  BY <1>1, <1>2, <1>3, ListsJoined
<1> QED BY <1>3, <1>4

\* Removing a position leaves the others listed.
LEMMA ListsRemoved ==
  ASSUME NEW S, NEW s, Lists(s, S), NEW i \in DOMAIN s
  PROVE  Lists(RemoveAt(s, i), S \ {s[i]}) /\ s[i] \in S
<1> DEFINE a == SubSeq(s, 1, i - 1)
           rest == SubSeq(s, i, Len(s))
           b == SubSeq(s, i + 1, Len(s))
<1>1. s \in Seq(S) /\ Len(s) \in Nat /\ DOMAIN s = 1 .. Len(s) /\ s[i] \in S
  BY DEF Lists
<1>2. i - 1 \in 0 .. Len(s) /\ (i - 1) + 1 = i /\ i \in 0 .. Len(s)
  BY <1>1
<1>3. PICK T \in SUBSET S : Lists(a, T) /\ Lists(SubSeq(s, (i - 1) + 1, Len(s)), S \ T)
  BY <1>2, ListsCut
<1>4. PICK U \in SUBSET S : Lists(SubSeq(s, 1, i), U) /\ Lists(b, S \ U)
  BY <1>2, ListsCut
<1>5. U = T \cup {s[i]} /\ s[i] \notin T
  <2>1. /\ SubSeq(s, 1, i) \in Seq(S) /\ Len(SubSeq(s, 1, i)) = i
        /\ \A j \in 1 .. i : SubSeq(s, 1, i)[j] = s[j]
    BY <1>1
  <2>2. a \in Seq(S) /\ Len(a) = i - 1 /\ \A j \in 1 .. i - 1 : a[j] = s[j]
    BY <1>1, <1>2
  <2>3. U = {s[j] : j \in 1 .. i}
    <3>1. DOMAIN SubSeq(s, 1, i) = 1 .. i
      BY <2>1
    <3> QED BY <1>4, <2>1, <3>1 DEF Lists, Elements
  <2>4. T = {s[j] : j \in 1 .. i - 1}
    <3>1. DOMAIN a = 1 .. i - 1
      BY <2>2
    <3> QED BY <1>3, <2>2, <3>1 DEF Lists, Elements
  <2>5. \A j \in 1 .. i - 1 : j \in 1 .. Len(s) /\ j # i
    BY <1>1
  <2>6. s[i] \notin T
    BY <1>1, <2>4, <2>5 DEF Lists, Distinct
  <2>7. \A j \in 1 .. i : j = i \/ j \in 1 .. i - 1
    BY <1>1
  <2>8. \A j \in 1 .. i - 1 : j \in 1 .. i
    BY <1>1
  <2>9. i \in 1 .. i
    BY <1>1
  <2> QED BY <2>3, <2>4, <2>6, <2>7, <2>8, <2>9
<1>6. T \cap (S \ U) = {} /\ T \cup (S \ U) = S \ {s[i]}
  BY <1>5
<1>7. RemoveAt(s, i) = a \o b
  BY DEF RemoveAt
<1> HIDE DEF a, b
<1>8. Lists(a \o b, T \cup (S \ U))
  BY <1>3, <1>4, <1>6, ListsJoined
<1> QED BY <1>1, <1>6, <1>7, <1>8

\* Sorting lists the same set.
LEMMA ListsSorted ==
  ASSUME NEW S, NEW s, Lists(s, S), NEW key \in [DOMAIN s -> Int], NEW t \in SortedBy(s, key)
  PROVE  Lists(t, S)
<1>1. s \in Seq(S) /\ Len(s) \in Nat /\ DOMAIN s = 1 .. Len(s)
  BY DEF Lists
<1>2. PICK p \in [DOMAIN s -> DOMAIN s] :
        /\ t = [i \in DOMAIN s |-> s[p[i]]]
        /\ \A i, j \in DOMAIN s : i < j => \/ key[p[i]] < key[p[j]]
                                           \/ key[p[i]] = key[p[j]] /\ p[i] < p[j]
  BY DEF SortedBy
<1>3. \A i, j \in DOMAIN s : p[i] = p[j] => i = j
  <2> SUFFICES ASSUME NEW i \in DOMAIN s, NEW j \in DOMAIN s, p[i] = p[j], i < j
               PROVE  FALSE
    BY <1>1
  <2>1. key[p[i]] < key[p[j]] \/ p[i] < p[j]
    BY <1>2
  <2>2. key[p[i]] \in Int /\ p[i] \in Int
    BY <1>1
  <2> QED BY <2>1, <2>2
<1>4. \A j \in DOMAIN s : \E i \in DOMAIN s : p[i] = j
  <2>1. p \in Injection(DOMAIN s, DOMAIN s)
    BY <1>3 DEF Injection, IsInjective
  <2>2. IsFiniteSet(DOMAIN s)
    BY <1>1, FS_Interval
  <2>3. p \in Surjection(DOMAIN s, DOMAIN s)
    BY <2>1, <2>2, FS_Injection
  <2> QED BY <2>3 DEF Surjection
<1>5. t \in Seq(S) /\ DOMAIN t = DOMAIN s
  BY <1>1, <1>2
<1>6. Distinct(t)
  <2> SUFFICES ASSUME NEW i \in DOMAIN s, NEW j \in DOMAIN s, t[i] = t[j]
               PROVE  i = j
    BY <1>5 DEF Distinct
  <2>1. s[p[i]] = s[p[j]] /\ p[i] \in DOMAIN s /\ p[j] \in DOMAIN s
    BY <1>2
  <2>2. p[i] = p[j]
    BY <2>1 DEF Lists, Distinct
  <2> QED BY <1>3, <2>2
<1>7. Elements(t) = S
  <2>1. ASSUME NEW i \in DOMAIN s
        PROVE  t[i] \in S
    BY <1>1, <1>2
  <2>2. ASSUME NEW e \in S
        PROVE  \E i \in DOMAIN s : t[i] = e
    <3>1. PICK j \in DOMAIN s : s[j] = e
      BY DEF Lists, Elements
    <3>2. PICK i \in DOMAIN s : p[i] = j
      BY <1>4
    <3> QED BY <1>2, <3>1, <3>2
  <2> QED BY <1>5, <2>1, <2>2 DEF Elements
<1> QED BY <1>5, <1>6, <1>7 DEF Lists

-----------------------------------------------------------------------------
(* The places *)

\* Accounted, with the places told apart, and L for the strays: requests that are here
\* but in no place, for a second fault overwrote the frozen.
Apart(Q, S, H, B, L) ==
  /\ Q \cap S = {} /\ Q \cap H = {} /\ Q \cap B = {} /\ S \cap H = {} /\ S \cap B = {}
  /\ H \cap B = {} /\ L \cap (Q \cup S \cup H \cup B) = {}
Here == {r \in Requests : arrivalTimes[r] # NotHere}
InPlace(Q, S, H, L) ==
  /\ Lists(queue, Q) /\ Lists(inService, S) /\ Lists(heldHang, H)
  /\ Apart(Q, S, H, heldBlackhole, L)
  /\ Here = Q \cup S \cup H \cup heldBlackhole \cup L
Placed(L) == InPlace(Elements(queue), Elements(inService), Elements(heldHang), L)

\* A fault on record that froze requests has failed the node.
FaultStands == failureSpec.mode \notin {"none", "degraded"} => status = "failed"

SeatInv(L) == IInv /\ FaultStands /\ Placed(L)
PlaceInv == SeatInv({}) /\ FrozenInv

\* Lists of sets that lie apart and make up who is here put everyone in place.
LEMMA PlacesNext ==
  ASSUME NEW L, NEW Q, NEW S, NEW H,
         Lists(queue', Q), Lists(inService', S), Lists(heldHang', H),
         Apart(Q, S, H, heldBlackhole', L), Here' = Q \cup S \cup H \cup heldBlackhole' \cup L
  PROVE  Placed(L)'
<1>1. Q = Elements(queue') /\ S = Elements(inService') /\ H = Elements(heldHang')
  BY DEF Lists
<1> QED BY <1>1 DEF Placed, InPlace

\* The places list some sets.
LEMMA PlacesNow ==
  ASSUME NEW L, SeatInv(L)
  PROVE  TypeOK /\ \E Q, S, H : InPlace(Q, S, H, L)
BY DEF SeatInv, IInv, Placed

\* Who is in no place is a request that is not here.
LEMMA NotPlaced ==
  ASSUME NEW L, NEW Q, NEW S, NEW H, InPlace(Q, S, H, L), NEW r \in Requests, Admit(r)
  PROVE  r \notin Q /\ r \notin S /\ r \notin H /\ r \notin heldBlackhole /\ r \notin L
BY DEF InPlace, Here, Admit

\* Whoever leaves is here no more, and the others stay.
LEMMA ForgetHere ==
  ASSUME TypeOK, NEW r \in Requests, Forget(r)
  PROVE  Here' = Here \ {r}
BY DEF TypeOK, Forget, Here

\* Whoever is admitted is here with the others.
LEMMA AdmitHere ==
  ASSUME TypeOK, NEW r \in Requests, Admit(r)
  PROVE  Here' = Here \cup {r}
BY DEF TypeOK, Admit, Here, NotHere

\* Pumping moves a part of the waiting behind the running.
LEMMA ListsPumped ==
  ASSUME NEW waiting, NEW running, NEW W, NEW R, NEW n \in 0 .. Len(waiting),
         Lists(waiting, W), Lists(running, R), W \cap R = {}
  PROVE  \E T \in SUBSET W : /\ Lists(running \o SubSeq(waiting, 1, n), R \cup T)
                             /\ Lists(SubSeq(waiting, n + 1, Len(waiting)), W \ T)
<1>1. PICK T \in SUBSET W : /\ Lists(SubSeq(waiting, 1, n), T)
                            /\ Lists(SubSeq(waiting, n + 1, Len(waiting)), W \ T)
  BY ListsCut
<1>2. R \cap T = {}
  OBVIOUS
<1>3. Lists(running \o SubSeq(waiting, 1, n), R \cup T)
  BY <1>1, <1>2, ListsJoined
<1> QED BY <1>1, <1>3

\* How many of the waiting a pump moves.
LEMMA PumpMoves ==
  ASSUME NEW waiting, NEW running, NEW workers \in Nat,
         Len(waiting) \in Nat, Len(running) \in Nat, Pump(waiting, running, workers)
  PROVE  \E n \in 0 .. Len(waiting) : /\ inService' = running \o SubSeq(waiting, 1, n)
                                      /\ queue' = SubSeq(waiting, n + 1, Len(waiting))
<1> DEFINE free == Larger(0, workers - Len(running))
           n == IF free <= Len(waiting) THEN free ELSE Len(waiting)
<1>1. n \in 0 .. Len(waiting)
  BY DEF Larger
<1>2. /\ inService' = running \o SubSeq(waiting, 1, n)
      /\ queue' = SubSeq(waiting, n + 1, Len(waiting))
  BY DEF Pump
<1> HIDE DEF n
<1> QED BY <1>1, <1>2

\* One that leaves service makes room for the first in line, if there is room at all.
LEMMA LeavePlaces ==
  ASSUME NEW L, SeatInv(L), NEW i \in DOMAIN inService, LeaveService(i)
  PROVE  Placed(L)'
<1> DEFINE x == inService[i]
           others == RemoveAt(inService, i)
           next == IF status # "failed" /\ queue # <<>> /\ activeWorkers - 1 < maxWorkers'
                     THEN 1 ELSE 0
<1>1. PICK Q, S, H : InPlace(Q, S, H, L)
  BY PlacesNow
<1>2. /\ Forget(x) /\ inService' = others \o SubSeq(queue, 1, next)
      /\ queue' = SubSeq(queue, next + 1, Len(queue))
      /\ UNCHANGED <<heldHang, heldBlackhole>>
  BY DEF LeaveService, held
<1>3. next \in 0 .. Len(queue)
  BY PlacesNow, EmptyLen DEF TypeOK
<1> HIDE DEF next, x, others
<1>4. PICK T \in SUBSET Q : /\ Lists(SubSeq(queue, 1, next), T)
                            /\ Lists(SubSeq(queue, next + 1, Len(queue)), Q \ T)
  BY <1>1, <1>3, ListsCut DEF InPlace
<1>5. Lists(others, S \ {x}) /\ x \in S
  BY <1>1, ListsRemoved DEF InPlace, others, x
<1>6. x \in Requests
  BY PlacesNow DEF TypeOK, x
<1>7. (S \ {x}) \cap T = {}
  BY <1>1 DEF InPlace, Apart
<1>8. Lists(inService', (S \ {x}) \cup T) /\ Lists(queue', Q \ T)
  BY <1>2, <1>4, <1>5, <1>7, ListsJoined
<1>9. Here' = Here \ {x}
  BY PlacesNow, <1>2, <1>6, ForgetHere
<1>10. /\ Apart(Q \ T, (S \ {x}) \cup T, H, heldBlackhole', L)
       /\ Here' = (Q \ T) \cup ((S \ {x}) \cup T) \cup H \cup heldBlackhole' \cup L
       /\ Lists(heldHang', H)
  BY <1>1, <1>2, <1>5, <1>9 DEF InPlace, Apart
<1> QED BY <1>8, <1>10, PlacesNext

\* An arrival takes one place.
LEMMA ArrivePlaces ==
  ASSUME NEW L, SeatInv(L), NEW r \in Requests, HandleArrival(r)
  PROVE  Placed(L)'
<1>1. PICK Q, S, H : InPlace(Q, S, H, L)
  BY PlacesNow
<1>2. Admit(r)
  BY DEF HandleArrival, ArriveFailed, ArriveServed, ArriveQueued
<1>3. r \notin Q /\ r \notin S /\ r \notin H /\ r \notin heldBlackhole /\ r \notin L
  BY <1>1, <1>2, NotPlaced
<1>4. Here' = Here \cup {r}
  BY <1>2, PlacesNow, AdmitHere
<1>5. CASE ArriveFailed(r)
  <2>1. queue' = queue /\ inService' = inService
    BY <1>5 DEF ArriveFailed, serving
  <2>2. CASE HoldHang(r)
    <3>1. Lists(heldHang', H \cup {r}) /\ heldBlackhole' = heldBlackhole
      BY <1>1, <1>3, <2>2, ListsAppended DEF HoldHang, InPlace
    <3>2. /\ Apart(Q, S, H \cup {r}, heldBlackhole', L)
          /\ Here' = Q \cup S \cup (H \cup {r}) \cup heldBlackhole' \cup L
      BY <1>1, <1>3, <1>4, <3>1 DEF InPlace, Apart
    <3> QED BY <1>1, <2>1, <3>1, <3>2, PlacesNext DEF InPlace
  <2>3. CASE HoldBlackhole(r)
    <3>1. heldHang' = heldHang /\ heldBlackhole' = heldBlackhole \cup {r}
      BY <2>3 DEF HoldBlackhole
    <3>2. /\ Apart(Q, S, H, heldBlackhole', L)
          /\ Here' = Q \cup S \cup H \cup heldBlackhole' \cup L
      BY <1>1, <1>3, <1>4, <3>1 DEF InPlace, Apart
    <3> QED BY <1>1, <2>1, <3>1, <3>2, PlacesNext DEF InPlace
  <2> QED BY <1>5, <2>2, <2>3 DEF ArriveFailed
<1>6. CASE ArriveServed(r)
  <2>1. /\ Lists(inService', S \cup {r}) /\ queue' = queue
        /\ heldHang' = heldHang /\ heldBlackhole' = heldBlackhole
    BY <1>1, <1>3, <1>6, ListsAppended DEF ArriveServed, held, InPlace
  <2>2. /\ Apart(Q, S \cup {r}, H, heldBlackhole', L)
        /\ Here' = Q \cup (S \cup {r}) \cup H \cup heldBlackhole' \cup L
    BY <1>1, <1>3, <1>4, <2>1 DEF InPlace, Apart
  <2> QED BY <1>1, <2>1, <2>2, PlacesNext DEF InPlace
<1>7. CASE ArriveQueued(r)
  <2>1. PICK n \in 0 .. Len(queue) :
          queue' = SubSeq(queue, 1, n) \o <<r>> \o SubSeq(queue, n + 1, Len(queue))
    BY <1>7 DEF ArriveQueued, Enqueue
  <2>2. Lists(queue', Q \cup {r})
    BY <1>1, <1>3, <2>1, ListsInserted DEF InPlace
  <2>3. inService' = inService /\ heldHang' = heldHang /\ heldBlackhole' = heldBlackhole
    BY <1>7 DEF ArriveQueued, held
  <2>4. /\ Apart(Q \cup {r}, S, H, heldBlackhole', L)
        /\ Here' = (Q \cup {r}) \cup S \cup H \cup heldBlackhole' \cup L
    BY <1>1, <1>3, <1>4, <2>3 DEF InPlace, Apart
  <2> QED BY <1>1, <2>2, <2>3, <2>4, PlacesNext DEF InPlace
<1> QED BY <1>5, <1>6, <1>7 DEF HandleArrival

\* A cancellation empties one place.
LEMMA CancelPlaces ==
  ASSUME NEW L, SeatInv(L), NEW r \in Requests, CancelRequest(r)
  PROVE  Placed(L)'
<1>1. PICK Q, S, H : InPlace(Q, S, H, L)
  BY PlacesNow
<1>2. Forget(r) => Here' = Here \ {r}
  BY PlacesNow, ForgetHere
<1>3. CASE CancelBlackhole(r)
  <2>1. /\ queue' = queue /\ inService' = inService /\ heldHang' = heldHang
        /\ heldBlackhole' = heldBlackhole \ {r} /\ r \in heldBlackhole /\ Here' = Here \ {r}
    BY <1>2, <1>3 DEF CancelBlackhole, serving
  <2>2. Apart(Q, S, H, heldBlackhole', L) /\ Here' = Q \cup S \cup H \cup heldBlackhole' \cup L
    BY <1>1, <2>1 DEF InPlace, Apart
  <2> QED BY <1>1, <2>1, <2>2, PlacesNext DEF InPlace
<1>4. CASE CancelHang(r)
  <2>1. /\ queue' = queue /\ inService' = inService
        /\ heldBlackhole' = heldBlackhole /\ Here' = Here \ {r}
    BY <1>2, <1>4 DEF CancelHang, serving
  <2>2. PICK i \in DOMAIN heldHang : heldHang[i] = r /\ heldHang' = RemoveAt(heldHang, i)
    BY <1>4 DEF CancelHang
  <2>3. Lists(heldHang', H \ {r}) /\ r \in H
    BY <1>1, <2>2, ListsRemoved DEF InPlace
  <2>4. /\ Apart(Q, S, H \ {r}, heldBlackhole', L)
        /\ Here' = Q \cup S \cup (H \ {r}) \cup heldBlackhole' \cup L
    BY <1>1, <2>1, <2>3 DEF InPlace, Apart
  <2> QED BY <1>1, <2>1, <2>3, <2>4, PlacesNext DEF InPlace
<1>5. CASE CancelQueued(r)
  <2>1. /\ inService' = inService /\ heldHang' = heldHang
        /\ heldBlackhole' = heldBlackhole /\ Here' = Here \ {r}
    BY <1>2, <1>5 DEF CancelQueued, held
  <2>2. PICK i \in DOMAIN queue : queue[i] = r /\ queue' = RemoveAt(queue, i)
    BY <1>5 DEF CancelQueued
  <2>3. Lists(queue', Q \ {r}) /\ r \in Q
    BY <1>1, <2>2, ListsRemoved DEF InPlace
  <2>4. /\ Apart(Q \ {r}, S, H, heldBlackhole', L)
        /\ Here' = (Q \ {r}) \cup S \cup H \cup heldBlackhole' \cup L
    BY <1>1, <2>1, <2>3 DEF InPlace, Apart
  <2> QED BY <1>1, <2>1, <2>3, <2>4, PlacesNext DEF InPlace
<1>6. CASE CancelInService(r)
  BY <1>6, LeavePlaces DEF CancelInService, HandleCompletion
<1> QED BY <1>3, <1>4, <1>5, <1>6 DEF CancelRequest

\* A fault lets the queued and the running go or freezes them, all of them; only what
\* was frozen already may stray.
LEMMA FailPlaces ==
  ASSUME NEW L, SeatInv(L), NEW spec \in FailureSpecs, Strikes(spec)
  PROVE  \E M : (heldHang = <<>> => M = L) /\ L \subseteq M /\ Placed(M)'
<1>1. PICK Q, S, H : InPlace(Q, S, H, L)
  BY PlacesNow
<1>2. CASE FailDegraded(spec)
  <2>1. /\ queue' = queue /\ inService' = inService /\ heldHang' = heldHang
        /\ heldBlackhole' = heldBlackhole /\ Here' = Here
    BY <1>2 DEF FailDegraded, serving, held, Here
  <2>2. Placed(L)'
    BY <1>1, <2>1, PlacesNext DEF InPlace
  <2> QED BY <2>2
<1>3. CASE FailReset(spec)
  <2>1. /\ Lists(queue', {}) /\ Lists(inService', {}) /\ heldHang' = heldHang
        /\ heldBlackhole' = heldBlackhole
    BY <1>3, ListsNothing DEF FailReset, StopServing, held
  <2>2. Elements(queue) = Q /\ Elements(inService) = S
    BY <1>1 DEF InPlace, Lists
  <2>3. Here' = Here \ (Q \cup S)
    BY <1>3, <2>2 DEF FailReset, Here
  <2>4. Apart({}, {}, H, heldBlackhole', L) /\ Here' = {} \cup {} \cup H \cup heldBlackhole' \cup L
    BY <1>1, <2>1, <2>3 DEF InPlace, Apart
  <2>5. Placed(L)'
    BY <1>1, <2>1, <2>4, PlacesNext DEF InPlace
  <2> QED BY <2>5
<1>4. CASE FailHang(spec)
  <2> DEFINE s == PushOrder(queue) \o inService
             key == [i \in DOMAIN s |-> arrivalTimes[s[i]]]
  <2>1. heldHang = <<>> => L \cup H = L
    BY <1>1, ListsNothing DEF InPlace
  <2>2. Lists(s, Q \cup S)
    BY <1>1, ListsPushed, ListsJoined DEF InPlace, Apart
  <2>3. heldHang' \in SortedBy(s, key)
    BY <1>4 DEF FailHang, InArrivalOrder
  <2>4. key \in [DOMAIN s -> Int]
    <3>1. s \in Seq(Requests)
      BY PlacesNow, PushOrderType DEF TypeOK
    <3> HIDE DEF s
    <3>2. \A i \in DOMAIN s : s[i] \in Requests
      BY <3>1
    <3>3. \A r \in Requests : arrivalTimes[r] \in Int
      BY PlacesNow DEF TypeOK, NotHere
    <3> QED BY <3>2, <3>3
  <2> HIDE DEF s, key
  <2>5. Lists(heldHang', Q \cup S)
    BY <2>2, <2>3, <2>4, ListsSorted
  <2>6. /\ Lists(queue', {}) /\ Lists(inService', {})
        /\ heldBlackhole' = heldBlackhole /\ Here' = Here
    BY <1>4, ListsNothing DEF FailHang, StopServing, Here
  <2>7. /\ Apart({}, {}, Q \cup S, heldBlackhole', L \cup H)
        /\ Here' = {} \cup {} \cup (Q \cup S) \cup heldBlackhole' \cup (L \cup H)
    BY <1>1, <2>6 DEF InPlace, Apart
  <2>8. Placed(L \cup H)'
    BY <2>5, <2>6, <2>7, PlacesNext
  <2> QED BY <2>1, <2>8
<1> QED BY <1>2, <1>3, <1>4 DEF Strikes

\* A recovery lets the frozen go or serves them again, all of them.
LEMMA RecoverPlaces ==
  ASSUME NEW L, SeatInv(L), Recover
  PROVE  Placed(L)'
<1>1. PICK Q, S, H : InPlace(Q, S, H, L)
  BY PlacesNow
<1>2. CASE RecoverDegraded
  <2>1. /\ queue' = queue /\ inService' = inService /\ heldHang' = heldHang
        /\ heldBlackhole' = heldBlackhole /\ Here' = Here
    BY <1>2 DEF RecoverDegraded, serving, held, Here
  <2> QED BY <1>1, <2>1, PlacesNext DEF InPlace
<1>3. CASE RecoverReset
  <2>1. /\ queue' = queue /\ inService' = inService /\ Lists(heldHang', {})
        /\ heldBlackhole' = heldBlackhole
    BY <1>3, ListsNothing DEF RecoverReset, serving
  <2>2. Elements(heldHang) = H
    BY <1>1 DEF InPlace, Lists
  <2>3. Here' = Here \ H
    BY <1>3, <2>2 DEF RecoverReset, Here
  <2>4. Apart(Q, S, {}, heldBlackhole', L) /\ Here' = Q \cup S \cup {} \cup heldBlackhole' \cup L
    BY <1>1, <2>1, <2>3 DEF InPlace, Apart
  <2> QED BY <1>1, <2>1, <2>4, PlacesNext DEF InPlace
<1>4. CASE RecoverResume
  <2>1. Q = {}
    <3>1. queue = <<>>
      BY <1>4 DEF RecoverResume, SeatInv, IInv, FaultStands, FailedHoldsNoWork
    <3> QED BY <1>1, <3>1, ListsNothing DEF InPlace
  <2>2. PICK waiting \in ServiceOrder(heldHang) : Pump(waiting, inService, maxWorkers)
    BY <1>4 DEF RecoverResume
  <2> DEFINE key == [i \in DOMAIN heldHang |->
                CASE Discipline = "fifo" -> i
                  [] Discipline = "lifo" -> -i
                  [] Discipline = "priority" -> Priority[heldHang[i]]]
  <2>3. waiting \in SortedBy(heldHang, key)
    BY <2>2 DEF ServiceOrder
  <2>4. key \in [DOMAIN heldHang -> Int]
    <3>1. \A i \in DOMAIN heldHang : i \in Int /\ heldHang[i] \in Requests
      BY PlacesNow DEF TypeOK
    <3> SUFFICES ASSUME NEW i \in DOMAIN heldHang
                 PROVE  key[i] \in Int
      OBVIOUS
    <3>2. CASE Discipline = "fifo"
      BY <3>1, <3>2
    <3>3. CASE Discipline = "lifo"
      BY <3>1, <3>3
    <3>4. CASE Discipline = "priority"
      BY <3>1, <3>4, NodeAssumption
    <3> QED BY <3>2, <3>3, <3>4, NodeAssumption
  <2> HIDE DEF key
  <2>5. Lists(waiting, H)
    BY <1>1, <2>3, <2>4, ListsSorted DEF InPlace
  <2>6. maxWorkers \in Nat /\ H \cap S = {} /\ Lists(inService, S)
    BY <1>1, PlacesNow DEF TypeOK, InPlace, Apart
  <2>7. PICK T \in SUBSET H : Lists(inService', S \cup T) /\ Lists(queue', H \ T)
    <3>1. Len(waiting) \in Nat /\ Len(inService) \in Nat
      BY <2>5, <2>6 DEF Lists
    <3>2. PICK n \in 0 .. Len(waiting) :
            /\ inService' = inService \o SubSeq(waiting, 1, n)
            /\ queue' = SubSeq(waiting, n + 1, Len(waiting))
      BY <2>2, <2>6, <3>1, PumpMoves
    <3> QED BY <2>5, <2>6, <3>2, ListsPumped
  <2>8. Lists(heldHang', {}) /\ heldBlackhole' = heldBlackhole /\ Here' = Here
    BY <1>4, ListsNothing DEF RecoverResume, Here
  <2>9. /\ Apart(H \ T, S \cup T, {}, heldBlackhole', L)
        /\ Here' = (H \ T) \cup (S \cup T) \cup {} \cup heldBlackhole' \cup L
    BY <1>1, <2>1, <2>8 DEF InPlace, Apart
  <2> QED BY <2>7, <2>8, <2>9, PlacesNext
<1> QED BY <1>2, <1>3, <1>4 DEF Recover

\* A new size starts a part of the line.
LEMMA ResizePlaces ==
  ASSUME NEW L, SeatInv(L), NEW size \in Sizes, ResizeConcurrency(size)
  PROVE  Placed(L)'
<1>1. PICK Q, S, H : InPlace(Q, S, H, L)
  BY PlacesNow
<1>2. maxWorkers' \in Nat
  BY ResizeStep DEF SeatInv, IInv, TypeOK
<1>3. /\ Pump(queue, inService, maxWorkers') /\ heldHang' = heldHang
      /\ heldBlackhole' = heldBlackhole /\ Here' = Here
  BY DEF ResizeConcurrency, held, Here
<1>4. Lists(queue, Q) /\ Lists(inService, S) /\ Q \cap S = {} /\ Lists(heldHang', H)
  BY <1>1, <1>3 DEF InPlace, Apart
<1>5. PICK T \in SUBSET Q : Lists(inService', S \cup T) /\ Lists(queue', Q \ T)
  <2>1. Len(queue) \in Nat /\ Len(inService) \in Nat
    BY <1>4 DEF Lists
  <2>2. PICK n \in 0 .. Len(queue) :
          /\ inService' = inService \o SubSeq(queue, 1, n)
          /\ queue' = SubSeq(queue, n + 1, Len(queue))
    BY <1>2, <1>3, <2>1, PumpMoves
  <2> QED BY <1>4, <2>2, ListsPumped
<1>6. /\ Apart(Q \ T, S \cup T, H, heldBlackhole', L)
      /\ Here' = (Q \ T) \cup (S \cup T) \cup H \cup heldBlackhole' \cup L
  BY <1>1, <1>3 DEF InPlace, Apart
<1> QED BY <1>4, <1>5, <1>6, PlacesNext

-----------------------------------------------------------------------------
(* The invariant *)

\* A fault that may have frozen requests stands until the node recovers.
LEMMA FaultStays ==
  ASSUME IInv, FaultStands,
         [Next]_vars \/ \E spec \in FailureSpecs : Strikes(spec)
  PROVE  FaultStands'
<1>1. CASE UNCHANGED <<failureSpec, status>> \/ failureSpec' = NoFailure
  BY <1>1 DEF FaultStands, NoFailure
<1>2. CASE UpdateStatus /\ UNCHANGED failureSpec
  BY <1>2, StatusType DEF IInv, FaultStands
<1>3. ASSUME NEW spec \in FailureSpecs, Fail(spec) \/ Strikes(spec)
      PROVE  FaultStands'
  BY <1>3 DEF Fail, Strikes, FailDegraded, FailReset, FailHang, FaultStands
<1>4. ASSUME NEW r \in Requests, HandleArrival(r) \/ HandleCompletion(r) \/ CancelRequest(r)
      PROVE  FaultStands'
  BY <1>1, <1>2, <1>4
     DEF HandleArrival, ArriveFailed, ArriveServed, ArriveQueued, HandleCompletion, LeaveService,
         CancelRequest, CancelBlackhole, CancelHang, CancelQueued, CancelInService
<1>5. CASE Recover
  BY <1>1, <1>5 DEF Recover, RecoverDegraded, RecoverReset, RecoverResume
<1>6. ASSUME NEW size \in Sizes, ResizeConcurrency(size)
      PROVE  FaultStands'
  BY <1>2, <1>6 DEF ResizeConcurrency
<1>7. CASE Tick \/ UNCHANGED vars
  BY <1>1, <1>7 DEF Tick, vars
<1> QED BY <1>3, <1>4, <1>5, <1>6, <1>7 DEF Next, Call

\* No step of the node puts a request in two places, or in none, as long as no fault
\* strikes while requests are frozen.
LEMMA PlacesStep ==
  ASSUME NEW L, SeatInv(L), [Next]_vars,
         (\E spec \in FailureSpecs : Fail(spec)) => heldHang = <<>>
  PROVE  Placed(L)'
<1>1. CASE Tick \/ UNCHANGED vars
  <2>1. PICK Q, S, H : InPlace(Q, S, H, L)
    BY PlacesNow
  <2>2. /\ queue' = queue /\ inService' = inService /\ heldHang' = heldHang
        /\ heldBlackhole' = heldBlackhole /\ Here' = Here
    BY <1>1 DEF Tick, vars, serving, held, Here
  <2> QED BY <2>1, <2>2, PlacesNext DEF InPlace
<1>2. ASSUME NEW r \in Requests, HandleArrival(r) \/ HandleCompletion(r) \/ CancelRequest(r)
      PROVE  Placed(L)'
  BY <1>2, ArrivePlaces, LeavePlaces, CancelPlaces DEF HandleCompletion
<1>3. ASSUME NEW spec \in FailureSpecs, Fail(spec)
      PROVE  Placed(L)'
  BY <1>3, FailPlaces DEF Fail, Strikes
<1>4. ASSUME NEW size \in Sizes, ResizeConcurrency(size)
      PROVE  Placed(L)'
  BY <1>4, ResizePlaces
<1>5. CASE Recover
  BY <1>5, RecoverPlaces
<1> QED BY <1>1, <1>2, <1>3, <1>4, <1>5 DEF Next, Call

\* Everyone in place is accounted for.
LEMMA PlacedIsAccounted ==
  ASSUME Placed({})
  PROVE  Accounted
<1> DEFINE everyone == queue \o inService \o heldHang
<1>1. PICK Q, S, H : InPlace(Q, S, H, {})
  BY DEF Placed
<1>2. Lists(queue \o inService, Q \cup S)
  BY <1>1, ListsJoined DEF InPlace, Apart
<1>3. (Q \cup S) \cap H = {}
  BY <1>1 DEF InPlace, Apart
<1>4. Lists(everyone, (Q \cup S) \cup H)
  BY <1>1, <1>2, <1>3, ListsJoined DEF InPlace
<1> HIDE DEF everyone
<1>5. /\ \A i, j \in DOMAIN everyone : everyone[i] = everyone[j] => i = j
      /\ Elements(everyone) = Q \cup S \cup H
  BY <1>4 DEF Lists, Distinct
<1>6. /\ heldBlackhole \cap (Q \cup S \cup H) = {}
      /\ Here = heldBlackhole \cup (Q \cup S \cup H)
  BY <1>1 DEF InPlace, Apart
<1> QED BY <1>5, <1>6 DEF Accounted, Here, everyone

\* Nobody is anywhere at the start.
LEMMA PlacesInit ==
  ASSUME Init
  PROVE  FaultStands /\ Placed({})
<1>1. FaultStands
  BY DEF Init, FaultStands, NoFailure
<1>2. queue = <<>> /\ inService = <<>> /\ heldHang = <<>> /\ heldBlackhole = {}
  BY DEF Init
<1>3. Lists(queue, {}) /\ Lists(inService, {}) /\ Lists(heldHang, {})
  BY <1>2, ListsNothing
<1>4. Elements(queue) = {} /\ Elements(inService) = {} /\ Elements(heldHang) = {}
  BY <1>3 DEF Lists
<1>5. Here = {}
  BY DEF Init, Here
<1> QED BY <1>1, <1>2, <1>3, <1>4, <1>5 DEF Placed, InPlace, Apart

\* The places hold at every step.
LEMMA PlacesKept == ASSUME ~OverlappingFaults PROVE Spec => []PlaceInv
<1>1. Init => FrozenInv /\ FaultStands /\ Placed({})
  BY FrozenInit, PlacesInit
<1>2. IInv /\ FrozenInv /\ FaultStands /\ Placed({}) /\ [Next]_vars
        => FrozenInv' /\ FaultStands' /\ Placed({})'
  <2> SUFFICES ASSUME IInv, FrozenInv, FaultStands, Placed({}), [Next]_vars
               PROVE  FrozenInv' /\ FaultStands' /\ Placed({})'
    OBVIOUS
  <2>1. FrozenInv'
    <3>1. CASE Tick \/ UNCHANGED vars
      BY <3>1, FrozenUnchanged DEF Tick, held, vars
    <3> QED BY <3>1, FrozenCall DEF Next
  <2>2. FaultStands' /\ Placed({})'
    <3>1. (\E spec \in FailureSpecs : Fail(spec)) => heldHang = <<>>
      BY DEF Fail, FrozenInv, FrozenOnlyWhileFailed
    <3> QED BY <3>1, FaultStays, PlacesStep DEF SeatInv
  <2> QED BY <2>1, <2>2
<1> QED BY <1>1, <1>2, Invariance, PTL DEF Spec, PlaceInv, SeatInv

\* A request the node has admitted and not handed back is in exactly one place of it,
\* as long as no fault strikes a node that is already failed: whatever the arrivals,
\* completions, cancellations, failures, recoveries and resizes, in any order.
THEOREM EveryRequestHasOnePlace == ASSUME ~OverlappingFaults PROVE Spec => []Accounted
BY PlacesKept, PlacedIsAccounted, PTL DEF PlaceInv, SeatInv

-----------------------------------------------------------------------------
(* Sequences in the order of a relation *)

\* Each element of s stands in the relation R, a set of pairs, to those behind it.
Ordered(s, R) == \A i, j \in DOMAIN s : i < j => <<s[i], s[j]>> \in R

\* A sequence whose two parts are ordered, and whose first part stands in R to the
\* second, is ordered.
LEMMA OrderedJoined ==
  ASSUME NEW S, NEW s \in Seq(S), NEW t \in Seq(S), NEW R, Ordered(s, R), Ordered(t, R),
         \A i \in DOMAIN s, j \in DOMAIN t : <<s[i], t[j]>> \in R
  PROVE  Ordered(s \o t, R)
<1> DEFINE u == s \o t
<1>1. /\ u \in Seq(S) /\ Len(u) = Len(s) + Len(t) /\ Len(s) \in Nat /\ Len(t) \in Nat
      /\ \A i \in 1 .. Len(s) + Len(t) : u[i] = IF i <= Len(s) THEN s[i] ELSE t[i - Len(s)]
      /\ DOMAIN s = 1 .. Len(s) /\ DOMAIN t = 1 .. Len(t)
  OBVIOUS
<1>2. DOMAIN u = 1 .. Len(s) + Len(t)
  BY <1>1
<1> HIDE DEF u
<1> SUFFICES ASSUME NEW i \in 1 .. Len(s) + Len(t), NEW j \in 1 .. Len(s) + Len(t), i < j
             PROVE  <<u[i], u[j]>> \in R
  BY <1>2 DEF Ordered, u
<1>3. CASE j <= Len(s)
  <2>1. i \in DOMAIN s /\ j \in DOMAIN s /\ u[i] = s[i] /\ u[j] = s[j]
    BY <1>1, <1>3
  <2> QED BY <2>1 DEF Ordered
<1>4. CASE i <= Len(s) /\ j > Len(s)
  <2>1. i \in DOMAIN s /\ j - Len(s) \in DOMAIN t /\ u[i] = s[i] /\ u[j] = t[j - Len(s)]
    BY <1>1, <1>4
  <2> QED BY <2>1
<1>5. CASE i > Len(s)
  <2>1. /\ i - Len(s) \in DOMAIN t /\ j - Len(s) \in DOMAIN t /\ i - Len(s) < j - Len(s)
        /\ u[i] = t[i - Len(s)] /\ u[j] = t[j - Len(s)]
    BY <1>1, <1>5
  <2> QED BY <2>1 DEF Ordered
<1> QED BY <1>1, <1>3, <1>4, <1>5

\* The two parts of an ordered sequence are, and the first stands in R to the second.
LEMMA OrderedCut ==
  ASSUME NEW S, NEW s \in Seq(S), NEW R, Ordered(s, R), NEW n \in 0 .. Len(s)
  PROVE  LET a == SubSeq(s, 1, n)
             b == SubSeq(s, n + 1, Len(s))
         IN  /\ a \in Seq(S) /\ b \in Seq(S)
             /\ Ordered(a, R) /\ Ordered(b, R)
             /\ \A i \in DOMAIN a, j \in DOMAIN b : <<a[i], b[j]>> \in R
<1> DEFINE a == SubSeq(s, 1, n)
           b == SubSeq(s, n + 1, Len(s))
<1>1. Len(s) \in Nat /\ DOMAIN s = 1 .. Len(s)
  OBVIOUS
<1>2. a \in Seq(S) /\ Len(a) = n /\ \A i \in 1 .. n : a[i] = s[i]
  BY <1>1
<1>3. b \in Seq(S) /\ Len(b) = Len(s) - n /\ \A i \in 1 .. Len(s) - n : b[i] = s[i + n]
  BY <1>1, RestOf
<1>4. DOMAIN a = 1 .. n /\ DOMAIN b = 1 .. Len(s) - n
  BY <1>2, <1>3
<1> HIDE DEF a, b
<1>5. Ordered(a, R)
  BY <1>1, <1>2, <1>4 DEF Ordered
<1>6. Ordered(b, R)
  <2> SUFFICES ASSUME NEW i \in 1 .. Len(s) - n, NEW j \in 1 .. Len(s) - n, i < j
               PROVE  <<b[i], b[j]>> \in R
    BY <1>4 DEF Ordered
  <2>1. i + n \in DOMAIN s /\ j + n \in DOMAIN s /\ i + n < j + n
    BY <1>1
  <2> QED BY <1>3, <2>1 DEF Ordered
<1>7. ASSUME NEW i \in 1 .. n, NEW j \in 1 .. Len(s) - n
      PROVE  <<a[i], b[j]>> \in R
  <2>1. i \in DOMAIN s /\ j + n \in DOMAIN s /\ i < j + n
    BY <1>1
  <2> QED BY <1>2, <1>3, <2>1 DEF Ordered
<1> QED BY <1>2, <1>3, <1>4, <1>5, <1>6, <1>7 DEF a, b

\* So is what is left of it when a position is removed.
LEMMA OrderedRemoved ==
  ASSUME NEW S, NEW s \in Seq(S), NEW R, Ordered(s, R), NEW i \in DOMAIN s
  PROVE  Ordered(RemoveAt(s, i), R)
<1> DEFINE a == SubSeq(s, 1, i - 1)
           b == SubSeq(s, i + 1, Len(s))
<1>1. Len(s) \in Nat /\ DOMAIN s = 1 .. Len(s) /\ i \in 1 .. Len(s)
  OBVIOUS
<1>2. a \in Seq(S) /\ Len(a) = i - 1 /\ \A j \in 1 .. i - 1 : a[j] = s[j]
  BY <1>1
<1>3. b \in Seq(S) /\ Len(b) = Len(s) - i /\ \A j \in 1 .. Len(s) - i : b[j] = s[j + i]
  <2>1. i \in 0 .. Len(s)
    BY <1>1
  <2> QED BY <2>1, RestOf
<1>4. DOMAIN a = 1 .. i - 1 /\ DOMAIN b = 1 .. Len(s) - i
  BY <1>1, <1>2, <1>3
<1>5. RemoveAt(s, i) = a \o b
  BY DEF RemoveAt
<1>6. Ordered(b, R)
  BY <1>1, OrderedCut
<1> HIDE DEF a, b
<1>7. Ordered(a, R)
  BY <1>1, <1>2, <1>4 DEF Ordered
<1>8. ASSUME NEW j \in 1 .. i - 1, NEW k \in 1 .. Len(s) - i
      PROVE  <<a[j], b[k]>> \in R
  <2>1. j \in DOMAIN s /\ k + i \in DOMAIN s /\ j < k + i
    BY <1>1
  <2> QED BY <1>2, <1>3, <2>1 DEF Ordered
<1>9. Ordered(a \o b, R)
  BY <1>2, <1>3, <1>4, <1>6, <1>7, <1>8, OrderedJoined
<1> QED BY <1>5, <1>9

\* An element inserted behind those that go ahead of it, and before those it goes
\* ahead of, finds its place in the order.
LEMMA OrderedInserted ==
  ASSUME NEW S, NEW s \in Seq(S), NEW R, Ordered(s, R), NEW e \in S, NEW n \in 0 .. Len(s),
         \A i \in DOMAIN s : i <= n => <<s[i], e>> \in R,
         \A i \in DOMAIN s : i > n => <<e, s[i]>> \in R
  PROVE  Ordered(SubSeq(s, 1, n) \o <<e>> \o SubSeq(s, n + 1, Len(s)), R)
<1> DEFINE a == SubSeq(s, 1, n)
           b == SubSeq(s, n + 1, Len(s))
           c == <<e>>
           ac == a \o c
<1>1. Len(s) \in Nat /\ DOMAIN s = 1 .. Len(s)
  OBVIOUS
<1>2. a \in Seq(S) /\ Len(a) = n /\ \A i \in 1 .. n : a[i] = s[i]
  BY <1>1
<1>3. b \in Seq(S) /\ Len(b) = Len(s) - n /\ \A i \in 1 .. Len(s) - n : b[i] = s[i + n]
  BY <1>1, RestOf
<1>4. c \in Seq(S) /\ Len(c) = 1 /\ c[1] = e /\ DOMAIN c = 1 .. 1 /\ Ordered(c, R)
  BY DEF Ordered
<1>5. /\ Ordered(a, R) /\ Ordered(b, R)
      /\ \A i \in DOMAIN a, j \in DOMAIN b : <<a[i], b[j]>> \in R
  BY OrderedCut
<1>6. DOMAIN a = 1 .. n /\ DOMAIN b = 1 .. Len(s) - n
  BY <1>2, <1>3
<1> HIDE DEF a, b, c
<1>7. \A i \in 1 .. n : <<a[i], e>> \in R
  BY <1>1, <1>2
<1>8. \A i \in 1 .. Len(s) - n : <<e, b[i]>> \in R
  <2> TAKE i \in 1 .. Len(s) - n
  <2>1. i + n \in DOMAIN s /\ i + n > n
    BY <1>1
  <2> QED BY <1>3, <2>1
<1>9. Ordered(ac, R)
  BY <1>2, <1>4, <1>5, <1>6, <1>7, OrderedJoined
<1>10. /\ ac \in Seq(S) /\ DOMAIN ac = 1 .. n + 1
       /\ \A i \in 1 .. n + 1 : ac[i] = IF i <= n THEN a[i] ELSE e
  <2>1. Len(ac) = n + 1 /\ ac \in Seq(S)
    BY <1>2, <1>4, ConcatType
  <2>2. \A i \in 1 .. n + 1 : i > n => i - n = 1
    OBVIOUS
  <2> QED BY <1>2, <1>4, <2>1, <2>2
<1> HIDE DEF ac
<1>11. \A i \in DOMAIN ac, j \in DOMAIN b : <<ac[i], b[j]>> \in R
  BY <1>5, <1>6, <1>8, <1>10
<1> QED BY <1>3, <1>5, <1>9, <1>10, <1>11, OrderedJoined DEF a, b, c, ac

\* A sequence sorted by keys is in the order of its keys, if that order is the keys'
\* own or, between equal keys, the order the sequence was in.
LEMMA OrderedSorted ==
  ASSUME NEW S, NEW s \in Seq(S), NEW key \in [DOMAIN s -> Int], NEW t \in SortedBy(s, key),
         NEW R,
         \A i, j \in DOMAIN s : key[i] < key[j] \/ (key[i] = key[j] /\ i < j) => <<s[i], s[j]>> \in R
  PROVE  Ordered(t, R)
<1> DEFINE Preceding(a, b) == key[a] < key[b] \/ (key[a] = key[b] /\ a < b)
<1>1. PICK p \in [DOMAIN s -> DOMAIN s] :
        /\ t = [i \in DOMAIN s |-> s[p[i]]]
        /\ \A i, j \in DOMAIN s : i < j => Preceding(p[i], p[j])
  BY DEF SortedBy
<1>2. DOMAIN t = DOMAIN s
  BY <1>1
<1>3. \A a, b \in DOMAIN s : Preceding(a, b) => <<s[a], s[b]>> \in R
  OBVIOUS
<1> HIDE DEF Preceding
<1> SUFFICES ASSUME NEW i \in DOMAIN s, NEW j \in DOMAIN s, i < j
             PROVE  <<t[i], t[j]>> \in R
  BY <1>2 DEF Ordered
<1>4. p[i] \in DOMAIN s /\ p[j] \in DOMAIN s /\ Preceding(p[i], p[j])
  BY <1>1
<1> QED BY <1>1, <1>3, <1>4

-----------------------------------------------------------------------------
(* The ranks of the waiting, by the times they came *)

Ranks     == {p \in Requests \X Requests : Outranks(p[1], p[2])}
ByArrival == {p \in Requests \X Requests : arrivalTimes[p[1]] <= arrivalTimes[p[2]]}

\* Nobody came later than now, the queue stands by rank and the frozen by arrival.
CameBefore == \A r \in Requests : arrivalTimes[r] <= now
Ranked     == Ordered(queue, Ranks) /\ Ordered(heldHang, ByArrival)

RankInv == PlaceInv /\ CameBefore /\ Ranked

\* Nothing is out of order in an empty sequence.
LEMMA OrderedNothing ==
  ASSUME NEW R
  PROVE  Ordered(<<>>, R)
BY DEF Ordered

\* Who keeps their times keep their order.
LEMMA OrderKept ==
  ASSUME NEW s \in Seq(Requests), \A i \in DOMAIN s : arrivalTimes'[s[i]] = arrivalTimes[s[i]]
  PROVE  /\ Ordered(s, Ranks) => Ordered(s, Ranks')
         /\ Ordered(s, ByArrival) => Ordered(s, ByArrival')
<1>1. \A i \in DOMAIN s : s[i] \in Requests
  OBVIOUS
<1>2. ASSUME NEW i \in DOMAIN s, NEW j \in DOMAIN s, <<s[i], s[j]>> \in Ranks
      PROVE  <<s[i], s[j]>> \in Ranks'
  BY <1>1, <1>2 DEF Ranks, Outranks
<1>3. ASSUME NEW i \in DOMAIN s, NEW j \in DOMAIN s, <<s[i], s[j]>> \in ByArrival
      PROVE  <<s[i], s[j]>> \in ByArrival'
  BY <1>1, <1>3 DEF ByArrival
<1> QED BY <1>2, <1>3 DEF Ordered

\* A call that admits nobody leaves the times of all but those it lets go.
LEMMA TimesStay ==
  ASSUME IInv, [Next]_vars, \A r \in Requests : ~HandleArrival(r)
  PROVE  \A r \in Requests : arrivalTimes'[r] \in {arrivalTimes[r], NotHere}
<1> DEFINE Stay == \A r \in Requests : arrivalTimes'[r] \in {arrivalTimes[r], NotHere}
<1>1. CASE UNCHANGED arrivalTimes
  BY <1>1
<1>2. ASSUME NEW x \in Requests, Forget(x)
      PROVE  Stay
  BY <1>2 DEF Forget, IInv, TypeOK
<1>3. ASSUME NEW r \in Requests, HandleCompletion(r) \/ CancelRequest(r)
      PROVE  Stay
  <2>1. CASE HandleCompletion(r)
    BY <1>2, <2>1 DEF HandleCompletion, LeaveService
  <2>2. CASE CancelRequest(r)
    BY <1>2, <2>1, <2>2
       DEF CancelRequest, CancelBlackhole, CancelHang, CancelQueued, CancelInService
  <2> QED BY <1>3, <2>1, <2>2
<1>4. ASSUME NEW spec \in FailureSpecs, Fail(spec)
      PROVE  Stay
  BY <1>1, <1>4 DEF Fail, FailDegraded, FailReset, FailHang
<1>5. CASE Recover
  BY <1>1, <1>5 DEF Recover, RecoverDegraded, RecoverReset, RecoverResume
<1>6. ASSUME NEW size \in Sizes, ResizeConcurrency(size)
      PROVE  Stay
  BY <1>1, <1>6 DEF ResizeConcurrency
<1>7. CASE Tick \/ UNCHANGED vars
  BY <1>1, <1>7 DEF Tick, vars
<1> QED BY <1>3, <1>4, <1>5, <1>6, <1>7 DEF Next, Call

\* Nobody comes later than now.
LEMMA CameBeforeStep ==
  ASSUME IInv, CameBefore, [Next]_vars
  PROVE  CameBefore'
<1>1. now \in Nat /\ \A r \in Requests : arrivalTimes[r] \in Int
  BY DEF IInv, TypeOK, NotHere
<1>2. CASE \E r \in Requests : HandleArrival(r)
  <2>1. PICK r \in Requests : HandleArrival(r)
    BY <1>2
  <2>2. Admit(r) /\ now' = now
    BY <2>1 DEF HandleArrival, ArriveFailed, ArriveServed, ArriveQueued
  <2> QED BY <1>1, <2>2 DEF Admit, CameBefore, IInv, TypeOK
<1>3. CASE \A r \in Requests : ~HandleArrival(r)
  <2>1. \A r \in Requests : arrivalTimes'[r] \in {arrivalTimes[r], NotHere}
    BY <1>3, TimesStay
  <2>2. now' = now \/ now' = now + 1
    BY DEF Next, Call, HandleArrival, ArriveFailed, ArriveServed, ArriveQueued, HandleCompletion,
           LeaveService, CancelRequest, CancelBlackhole, CancelHang, CancelQueued, CancelInService,
           Fail, FailDegraded, FailReset, FailHang, Recover, RecoverDegraded, RecoverReset,
           RecoverResume, ResizeConcurrency, Tick, vars
  <2> QED BY <1>1, <2>1, <2>2 DEF CameBefore, NotHere
<1> QED BY <1>2, <1>3

\* When all that wait come from a frozen server, they line up by rank.
LEMMA ResumedByRank ==
  ASSUME RankInv, NEW waiting \in ServiceOrder(heldHang)
  PROVE  Ordered(waiting, Ranks)
<1> DEFINE key == [i \in DOMAIN heldHang |->
                     CASE Discipline = "fifo" -> i
                       [] Discipline = "lifo" -> -i
                       [] Discipline = "priority" -> Priority[heldHang[i]]]
<1>1. heldHang \in Seq(Requests) /\ \A i \in DOMAIN heldHang : i \in Int /\ heldHang[i] \in Requests
  BY DEF RankInv, PlaceInv, SeatInv, IInv, TypeOK
<1>2. /\ Discipline \in {"fifo", "lifo", "priority"}
      /\ \A r \in Requests : Priority[r] \in Int
  BY NodeAssumption
<1>3. \A i, j \in DOMAIN heldHang : i < j => arrivalTimes[heldHang[i]] <= arrivalTimes[heldHang[j]]
  BY <1>1 DEF RankInv, Ranked, Ordered, ByArrival
<1>4. \A r \in Requests : arrivalTimes[r] \in Int
  BY DEF RankInv, PlaceInv, SeatInv, IInv, TypeOK, NotHere
<1>5. waiting \in SortedBy(heldHang, key)
  BY DEF ServiceOrder
<1>6. \A i \in DOMAIN heldHang :
        key[i] = CASE Discipline = "fifo" -> i
                   [] Discipline = "lifo" -> -i
                   [] Discipline = "priority" -> Priority[heldHang[i]]
  OBVIOUS
<1>7. key \in [DOMAIN heldHang -> Int]
  BY <1>1, <1>2
<1> HIDE DEF key
<1>8. ASSUME NEW i \in DOMAIN heldHang, NEW j \in DOMAIN heldHang,
             key[i] < key[j] \/ (key[i] = key[j] /\ i < j)
      PROVE  <<heldHang[i], heldHang[j]>> \in Ranks
  <2>1. CASE Discipline = "fifo"
    <3>1. i < j
      BY <1>1, <1>6, <1>8, <2>1
    <3> QED BY <1>1, <1>3, <2>1, <3>1 DEF Ranks, Outranks
  <2>2. CASE Discipline = "lifo"
    <3>1. j < i
      BY <1>1, <1>6, <1>8, <2>2
    <3> QED BY <1>1, <1>3, <1>4, <2>2, <3>1 DEF Ranks, Outranks
  <2>3. CASE Discipline = "priority"
    <3>1. key[i] = Priority[heldHang[i]] /\ key[j] = Priority[heldHang[j]]
      BY <1>6, <2>3
    <3>2. \/ Priority[heldHang[i]] < Priority[heldHang[j]]
          \/ /\ Priority[heldHang[i]] = Priority[heldHang[j]]
             /\ arrivalTimes[heldHang[i]] <= arrivalTimes[heldHang[j]]
      BY <1>3, <1>8, <3>1
    <3> QED BY <1>1, <2>3, <3>2 DEF Ranks, Outranks
  <2> QED BY <1>2, <2>1, <2>2, <2>3
<1> QED BY <1>1, <1>5, <1>7, <1>8, OrderedSorted

\* An arrival keeps the ranks: it takes its place in the line, or comes last.
LEMMA ArriveRanked ==
  ASSUME RankInv, NEW r \in Requests, HandleArrival(r)
  PROVE  Ranked'
<1>1. PICK Q, S, H : InPlace(Q, S, H, {})
  BY PlacesNow DEF RankInv, PlaceInv
<1>2. Admit(r) /\ now' = now
  BY DEF HandleArrival, ArriveFailed, ArriveServed, ArriveQueued
<1>3. r \notin Q /\ r \notin H
  BY <1>1, <1>2, NotPlaced
<1>4. /\ queue \in Seq(Requests) /\ heldHang \in Seq(Requests)
      /\ now \in Nat /\ \A q \in Requests : arrivalTimes[q] \in Int
      /\ arrivalTimes'[r] = now /\ \A q \in Requests \ {r} : arrivalTimes'[q] = arrivalTimes[q]
  BY <1>2 DEF RankInv, PlaceInv, SeatInv, IInv, TypeOK, NotHere, Admit
<1>5. \A q \in Requests : arrivalTimes[q] <= now
  BY DEF RankInv, CameBefore
<1>6. /\ \A i \in DOMAIN queue : queue[i] \in Requests \ {r}
      /\ \A i \in DOMAIN heldHang : heldHang[i] \in Requests \ {r}
  BY <1>1, <1>3, <1>4 DEF InPlace, Lists, Elements
<1>7. Ordered(queue, Ranks') /\ Ordered(heldHang, ByArrival')
  BY <1>4, <1>6, OrderKept DEF RankInv, Ranked
<1>8. CASE queue' = queue /\ heldHang' = heldHang
  BY <1>7, <1>8 DEF Ranked
<1>9. CASE queue' = queue /\ heldHang' = Append(heldHang, r)
  <2>1. heldHang' = heldHang \o <<r>> /\ <<r>> \in Seq(Requests) /\ Ordered(<<r>>, ByArrival')
    BY <1>4, <1>9 DEF Ordered
  <2>2. \A i \in DOMAIN heldHang : <<heldHang[i], r>> \in ByArrival'
    BY <1>4, <1>5, <1>6 DEF ByArrival
  <2>3. \A i \in DOMAIN heldHang, j \in DOMAIN <<r>> : <<heldHang[i], <<r>>[j]>> \in ByArrival'
    BY <2>2
  <2>4. Ordered(heldHang \o <<r>>, ByArrival')
    BY <1>4, <1>7, <2>1, <2>3, OrderedJoined
  <2> QED BY <1>7, <1>9, <2>1, <2>4 DEF Ranked
<1>10. CASE Enqueue(r) /\ heldHang' = heldHang
  <2>1. PICK n \in 0 .. Len(queue) :
          /\ \A i \in DOMAIN queue : (i <= n) <=> GoesAhead(queue[i], r)
          /\ queue' = SubSeq(queue, 1, n) \o <<r>> \o SubSeq(queue, n + 1, Len(queue))
    BY <1>10 DEF Enqueue
  <2>2. \A q \in Requests : Priority[q] \in Int
    BY NodeAssumption
  <2>3. ASSUME NEW q \in Requests \ {r}
        PROVE  IF GoesAhead(q, r) THEN <<q, r>> \in Ranks' ELSE <<r, q>> \in Ranks'
    <3>1. arrivalTimes'[q] <= arrivalTimes'[r]
      BY <1>4, <1>5
    <3>2. CASE Discipline = "fifo"
      BY <3>1, <3>2 DEF GoesAhead, Ranks, Outranks
    <3>3. CASE Discipline = "lifo"
      BY <1>4, <3>1, <3>3 DEF GoesAhead, Ranks, Outranks
    <3>4. CASE Discipline = "priority"
      BY <2>2, <3>1, <3>4 DEF GoesAhead, Ranks, Outranks
    <3> QED BY <3>2, <3>3, <3>4, NodeAssumption
  <2>4. \A i \in DOMAIN queue : i <= n => <<queue[i], r>> \in Ranks'
    BY <1>6, <2>1, <2>3
  <2>5. \A i \in DOMAIN queue : i > n => <<r, queue[i]>> \in Ranks'
    <3> SUFFICES ASSUME NEW i \in DOMAIN queue, i > n
                 PROVE  <<r, queue[i]>> \in Ranks'
      OBVIOUS
    <3>1. ~(i <= n)
      BY <1>4
    <3> QED BY <1>6, <2>1, <2>3, <3>1
  <2>6. Ordered(queue', Ranks')
    BY <1>4, <1>7, <2>1, <2>4, <2>5, OrderedInserted
  <2> QED BY <1>7, <1>10, <2>6 DEF Ranked
<1> QED BY <1>8, <1>9, <1>10
     DEF HandleArrival, ArriveFailed, ArriveServed, ArriveQueued, HoldHang, HoldBlackhole,
         serving, held

\* So does every other step: the line and the frozen lose their head or somebody in
\* their midst, and a fault and a recovery sort them.
LEMMA RanksBefore ==
  ASSUME ~OverlappingFaults, RankInv, [Next]_vars, \A r \in Requests : ~HandleArrival(r)
  PROVE  Ordered(queue', Ranks) /\ Ordered(heldHang', ByArrival)
<1> DEFINE Goal == Ordered(queue', Ranks) /\ Ordered(heldHang', ByArrival)
<1>1. /\ queue \in Seq(Requests) /\ heldHang \in Seq(Requests) /\ inService \in Seq(Requests)
      /\ Ordered(queue, Ranks) /\ Ordered(heldHang, ByArrival)
  BY DEF RankInv, Ranked, PlaceInv, SeatInv, IInv, TypeOK
<1>2. \A n \in 0 .. Len(queue) : Ordered(SubSeq(queue, n + 1, Len(queue)), Ranks)
  BY <1>1, OrderedCut
<1>3. CASE queue' = queue /\ heldHang' = heldHang
  BY <1>1, <1>3
<1>4. ASSUME NEW i \in DOMAIN inService, LeaveService(i)
      PROVE  Goal
  <2> DEFINE next == IF status # "failed" /\ queue # <<>> /\ activeWorkers - 1 < maxWorkers'
                       THEN 1 ELSE 0
  <2>1. queue' = SubSeq(queue, next + 1, Len(queue)) /\ heldHang' = heldHang
    BY <1>4 DEF LeaveService, held
  <2>2. next \in 0 .. Len(queue)
    BY <1>1, EmptyLen
  <2> QED BY <1>1, <1>2, <2>1, <2>2
<1>5. ASSUME NEW r \in Requests, CancelRequest(r)
      PROVE  Goal
  <2>1. CASE CancelBlackhole(r)
    BY <1>3, <2>1 DEF CancelBlackhole, serving
  <2>2. CASE CancelHang(r)
    <3>1. queue' = queue /\ \E i \in DOMAIN heldHang : heldHang' = RemoveAt(heldHang, i)
      BY <2>2 DEF CancelHang, serving
    <3> QED BY <1>1, <3>1, OrderedRemoved
  <2>3. CASE CancelQueued(r)
    <3>1. heldHang' = heldHang /\ \E i \in DOMAIN queue : queue' = RemoveAt(queue, i)
      BY <2>3 DEF CancelQueued, held
    <3> QED BY <1>1, <3>1, OrderedRemoved
  <2>4. CASE CancelInService(r)
    BY <1>4, <2>4 DEF CancelInService, HandleCompletion
  <2> QED BY <1>5, <2>1, <2>2, <2>3, <2>4 DEF CancelRequest
<1>6. ASSUME NEW spec \in FailureSpecs, Fail(spec)
      PROVE  Goal
  <2>1. CASE FailDegraded(spec)
    BY <1>3, <2>1 DEF FailDegraded, serving, held
  <2>2. CASE FailReset(spec)
    BY <1>1, <2>2, OrderedNothing DEF FailReset, StopServing, held
  <2>3. CASE FailHang(spec)
    <3> DEFINE s == PushOrder(queue) \o inService
               key == [i \in DOMAIN s |-> arrivalTimes[s[i]]]
    <3>1. heldHang' \in SortedBy(s, key) /\ queue' = <<>>
      BY <2>3 DEF FailHang, InArrivalOrder, StopServing
    <3>s. s \in Seq(Requests)
      BY <1>1, PushOrderType
    <3> HIDE DEF s
    <3>2. /\ \A i \in DOMAIN s : s[i] \in Requests
          /\ \A r \in Requests : arrivalTimes[r] \in Int
      BY <3>s DEF RankInv, PlaceInv, SeatInv, IInv, TypeOK, NotHere
    <3>3. key \in [DOMAIN s -> Int] /\ \A i \in DOMAIN s : key[i] = arrivalTimes[s[i]]
      BY <3>2
    <3> HIDE DEF key
    <3>4. ASSUME NEW i \in DOMAIN s, NEW j \in DOMAIN s,
                 key[i] < key[j] \/ (key[i] = key[j] /\ i < j)
          PROVE  <<s[i], s[j]>> \in ByArrival
      <4>1. arrivalTimes[s[i]] <= arrivalTimes[s[j]]
        BY <3>2, <3>3, <3>4
      <4> QED BY <3>2, <4>1 DEF ByArrival
    <3>5. Ordered(heldHang', ByArrival)
      BY <3>1, <3>s, <3>3, <3>4, OrderedSorted
    <3> QED BY <3>1, <3>5, OrderedNothing
  <2> QED BY <1>6, <2>1, <2>2, <2>3 DEF Fail
<1>7. CASE Recover
  <2>1. CASE RecoverDegraded
    BY <1>3, <2>1 DEF RecoverDegraded, serving, held
  <2>2. CASE RecoverReset
    BY <1>1, <2>2, OrderedNothing DEF RecoverReset, serving
  <2>3. CASE RecoverResume
    <3>1. PICK waiting \in ServiceOrder(heldHang) : Pump(waiting, inService, maxWorkers)
      BY <2>3 DEF RecoverResume
    <3>2. Ordered(waiting, Ranks)
      BY ResumedByRank
    <3>3. waiting \in Seq(Requests) /\ maxWorkers \in Nat
      BY <1>1, SortedByType DEF ServiceOrder, RankInv, PlaceInv, SeatInv, IInv, TypeOK
    <3>4. PICK n \in 0 .. Len(waiting) : queue' = SubSeq(waiting, n + 1, Len(waiting))
      BY <1>1, <3>1, <3>3, PumpMoves, EmptyLen
    <3>5. Ordered(queue', Ranks)
      BY <3>2, <3>3, <3>4, OrderedCut
    <3> QED BY <2>3, <3>5, OrderedNothing DEF RecoverResume
  <2> QED BY <1>7, <2>1, <2>2, <2>3 DEF Recover
<1>8. ASSUME NEW size \in Sizes, ResizeConcurrency(size)
      PROVE  Goal
  <2>1. maxWorkers' \in Nat
    BY <1>8, ResizeStep DEF RankInv, PlaceInv, SeatInv, IInv, TypeOK
  <2>2. Pump(queue, inService, maxWorkers') /\ heldHang' = heldHang
    BY <1>8 DEF ResizeConcurrency, held
  <2>3. PICK n \in 0 .. Len(queue) : queue' = SubSeq(queue, n + 1, Len(queue))
    BY <1>1, <2>1, <2>2, PumpMoves, EmptyLen
  <2> QED BY <1>1, <1>2, <2>2, <2>3
<1>9. CASE Tick \/ UNCHANGED vars
  BY <1>3, <1>9 DEF Tick, vars, serving, held
<1> QED BY <1>4, <1>5, <1>6, <1>7, <1>8, <1>9 DEF Next, Call, HandleCompletion

\* No step disturbs the ranks.
LEMMA RankedStep ==
  ASSUME ~OverlappingFaults, RankInv, [Next]_vars
  PROVE  Ranked'
<1>1. ASSUME NEW r \in Requests, HandleArrival(r)
      PROVE  Ranked'
  BY <1>1, ArriveRanked
<1>2. CASE \A r \in Requests : ~HandleArrival(r)
  <2>1. Ordered(queue', Ranks) /\ Ordered(heldHang', ByArrival)
    BY <1>2, RanksBefore
  <2>2. TypeOK' /\ Placed({})'
    <3>1. (\E spec \in FailureSpecs : Fail(spec)) => heldHang = <<>>
      BY DEF Fail, RankInv, PlaceInv, FrozenInv, FrozenOnlyWhileFailed
    <3> QED BY <3>1, NextInv, PlacesStep DEF RankInv, PlaceInv, SeatInv, IInv
  <2>3. \A r \in Elements(queue') \cup Elements(heldHang') : arrivalTimes'[r] = arrivalTimes[r]
    <3>1. Elements(queue') \cup Elements(heldHang') \subseteq Here'
      BY <2>2 DEF Placed, InPlace
    <3>2. \A r \in Requests : arrivalTimes'[r] \in {arrivalTimes[r], NotHere}
      BY <1>2, TimesStay DEF RankInv, PlaceInv, SeatInv
    <3> QED BY <3>1, <3>2 DEF Here
  <2>4. queue' \in Seq(Requests) /\ heldHang' \in Seq(Requests)
    BY <2>2 DEF TypeOK
  <2>5. /\ \A i \in DOMAIN queue' : arrivalTimes'[queue'[i]] = arrivalTimes[queue'[i]]
        /\ \A i \in DOMAIN heldHang' : arrivalTimes'[heldHang'[i]] = arrivalTimes[heldHang'[i]]
    BY <2>3 DEF Elements
  <2>6. Ordered(queue', Ranks') /\ Ordered(heldHang', ByArrival')
    BY <2>1, <2>4, <2>5, OrderKept
  <2> QED BY <2>6 DEF Ranked
<1> QED BY <1>1, <1>2

\* Who is started from the front of a line outranks all that are left in it.
LEMMA StartedOutranks ==
  ASSUME NEW waiting \in Seq(Requests), Ordered(waiting, Ranks),
         NEW running \in Seq(Requests), NEW n \in 0 .. Len(waiting),
         NEW r, r \notin Elements(running),
         r \in Elements(running \o SubSeq(waiting, 1, n)),
         NEW q \in Elements(SubSeq(waiting, n + 1, Len(waiting)))
  PROVE  Outranks(r, q)
<1> DEFINE a == SubSeq(waiting, 1, n)
           b == SubSeq(waiting, n + 1, Len(waiting))
<1>1. /\ a \in Seq(Requests) /\ b \in Seq(Requests)
      /\ \A i \in DOMAIN a, j \in DOMAIN b : <<a[i], b[j]>> \in Ranks
  BY OrderedCut
<1> HIDE DEF a, b
<1>2. PICK j \in DOMAIN b : b[j] = q
  BY DEF Elements, b
<1>3. \E i \in DOMAIN a : a[i] = r
  <2>1. PICK k \in DOMAIN (running \o a) : (running \o a)[k] = r
    BY DEF Elements, a
  <2>2. /\ k \in 1 .. Len(running) + Len(a) /\ Len(running) \in Nat /\ Len(a) \in Nat
        /\ r = IF k <= Len(running) THEN running[k] ELSE a[k - Len(running)]
        /\ DOMAIN running = 1 .. Len(running) /\ DOMAIN a = 1 .. Len(a)
    BY <1>1, <2>1
  <2>3. ~(k <= Len(running))
    BY <2>2 DEF Elements
  <2>4. k - Len(running) \in DOMAIN a /\ a[k - Len(running)] = r
    BY <2>2, <2>3
  <2> QED BY <2>4
<1>4. PICK i \in DOMAIN a : a[i] = r
  BY <1>3
<1>5. <<r, q>> \in Ranks
  BY <1>1, <1>2, <1>4
<1> QED BY <1>5 DEF Ranks

ByRank ==
  \A r \in Elements(queue \o heldHang) \cap Elements(inService'),
     q \in Elements(queue \o heldHang) \cap Elements(queue') : Outranks(r, q)

\* Whoever a step starts outranks whoever it leaves waiting.
LEMMA StepByRank ==
  ASSUME ~OverlappingFaults, RankInv, [Next]_vars
  PROVE  ByRank
<1>1. PICK Q, S, H : InPlace(Q, S, H, {})
  BY PlacesNow DEF RankInv, PlaceInv
<1>2. /\ queue \in Seq(Requests) /\ heldHang \in Seq(Requests) /\ inService \in Seq(Requests)
      /\ Ordered(queue, Ranks)
  BY DEF RankInv, Ranked, PlaceInv, SeatInv, IInv, TypeOK
<1>3. Elements(queue \o heldHang) = Q \cup H /\ Elements(inService) = S
  <2>1. Lists(queue \o heldHang, Q \cup H)
    BY <1>1, ListsJoined DEF InPlace, Apart
  <2> QED BY <1>1, <2>1 DEF InPlace, Lists
<1>4. Q \cap S = {} /\ H \cap S = {}
  BY <1>1 DEF InPlace, Apart
<1>5. ASSUME Elements(inService') \cap (Q \cup H) = {}
      PROVE  ByRank
  BY <1>3, <1>5 DEF ByRank
<1>6. ASSUME NEW waiting \in Seq(Requests), Ordered(waiting, Ranks), NEW n \in 0 .. Len(waiting),
             NEW running \in Seq(Requests), Elements(running) \subseteq S,
             inService' = running \o SubSeq(waiting, 1, n),
             queue' = SubSeq(waiting, n + 1, Len(waiting))
      PROVE  ByRank
  <2> SUFFICES ASSUME NEW r \in (Q \cup H) \cap Elements(inService'), NEW q \in Elements(queue')
               PROVE  Outranks(r, q)
    BY <1>3 DEF ByRank
  <2>1. r \notin Elements(running)
    BY <1>4, <1>6
  <2> QED BY <1>6, <2>1, StartedOutranks
<1>7. CASE inService' = inService
  BY <1>3, <1>4, <1>5, <1>7
<1>8. ASSUME NEW i \in DOMAIN inService, LeaveService(i)
      PROVE  ByRank
  <2> DEFINE next == IF status # "failed" /\ queue # <<>> /\ activeWorkers - 1 < maxWorkers'
                       THEN 1 ELSE 0
  <2>1. /\ inService' = RemoveAt(inService, i) \o SubSeq(queue, 1, next)
        /\ queue' = SubSeq(queue, next + 1, Len(queue))
    BY <1>8 DEF LeaveService
  <2>2. next \in 0 .. Len(queue)
    BY <1>2, EmptyLen
  <2> HIDE DEF next
  <2>3. RemoveAt(inService, i) \in Seq(Requests)
    BY <1>2, RemoveAtType
  <2>4. Elements(RemoveAt(inService, i)) \subseteq S
    <3>1. Lists(RemoveAt(inService, i), S \ {inService[i]})
      BY <1>1, ListsRemoved DEF InPlace
    <3> QED BY <3>1 DEF Lists
  <2> QED BY <1>2, <1>6, <2>1, <2>2, <2>3, <2>4
<1>9. ASSUME NEW r \in Requests, HandleArrival(r)
      PROVE  ByRank
  <2>1. CASE ArriveServed(r)
    <3>1. r \notin Q /\ r \notin H
      BY <1>1, <2>1, NotPlaced DEF ArriveServed
    <3>2. Lists(Append(inService, r), S \cup {r})
      <4>1. r \notin S
        BY <1>1, <2>1, NotPlaced DEF ArriveServed
      <4> QED BY <1>1, <4>1, ListsAppended DEF InPlace
    <3>3. Elements(inService') = S \cup {r}
      BY <2>1, <3>2 DEF ArriveServed, Lists
    <3> QED BY <1>4, <1>5, <3>1, <3>3
  <2>2. CASE ArriveFailed(r) \/ ArriveQueued(r)
    BY <1>7, <2>2 DEF ArriveFailed, ArriveQueued, serving
  <2> QED BY <1>9, <2>1, <2>2 DEF HandleArrival
<1>10. ASSUME NEW r \in Requests, CancelRequest(r)
       PROVE  ByRank
  <2>1. CASE CancelInService(r)
    BY <1>8, <2>1 DEF CancelInService, HandleCompletion
  <2>2. CASE CancelBlackhole(r) \/ CancelHang(r) \/ CancelQueued(r)
    BY <1>7, <2>2 DEF CancelBlackhole, CancelHang, CancelQueued, serving
  <2> QED BY <1>10, <2>1, <2>2 DEF CancelRequest
<1>11. ASSUME NEW spec \in FailureSpecs, Fail(spec)
       PROVE  ByRank
  <2>1. CASE FailDegraded(spec)
    BY <1>7, <2>1 DEF FailDegraded, serving
  <2>2. CASE FailReset(spec) \/ FailHang(spec)
    <3>1. inService' = <<>>
      BY <2>2 DEF FailReset, FailHang, StopServing
    <3> QED BY <1>5, <3>1 DEF Elements
  <2> QED BY <1>11, <2>1, <2>2 DEF Fail
<1>12. CASE Recover
  <2>1. CASE RecoverDegraded \/ RecoverReset
    BY <1>7, <2>1 DEF RecoverDegraded, RecoverReset, serving
  <2>2. CASE RecoverResume
    <3>1. PICK waiting \in ServiceOrder(heldHang) : Pump(waiting, inService, maxWorkers)
      BY <2>2 DEF RecoverResume
    <3>2. Ordered(waiting, Ranks)
      BY ResumedByRank
    <3>3. waiting \in Seq(Requests) /\ maxWorkers \in Nat
      BY <1>2, SortedByType DEF ServiceOrder, RankInv, PlaceInv, SeatInv, IInv, TypeOK
    <3>4. PICK n \in 0 .. Len(waiting) :
            /\ inService' = inService \o SubSeq(waiting, 1, n)
            /\ queue' = SubSeq(waiting, n + 1, Len(waiting))
      BY <1>2, <3>1, <3>3, PumpMoves, EmptyLen
    <3> QED BY <1>2, <1>3, <1>6, <3>2, <3>3, <3>4
  <2> QED BY <1>12, <2>1, <2>2 DEF Recover
<1>13. ASSUME NEW size \in Sizes, ResizeConcurrency(size)
       PROVE  ByRank
  <2>1. maxWorkers' \in Nat
    BY <1>13, ResizeStep DEF RankInv, PlaceInv, SeatInv, IInv, TypeOK
  <2>2. Pump(queue, inService, maxWorkers')
    BY <1>13 DEF ResizeConcurrency
  <2>3. PICK n \in 0 .. Len(queue) :
          /\ inService' = inService \o SubSeq(queue, 1, n)
          /\ queue' = SubSeq(queue, n + 1, Len(queue))
    BY <1>2, <2>1, <2>2, PumpMoves, EmptyLen
  <2> QED BY <1>2, <1>3, <1>6, <2>3
<1>14. CASE Tick \/ UNCHANGED vars
  BY <1>7, <1>14 DEF Tick, vars, serving
<1> QED BY <1>8, <1>9, <1>10, <1>11, <1>12, <1>13, <1>14 DEF Next, Call, HandleCompletion

\* Whoever leaves the line for a worker outranks everyone who stood in it with him and
\* waits on, under every discipline and across freezes and resumes, as long as no
\* fault strikes a node that is already failed.
THEOREM LineIsServedByRank == ASSUME ~OverlappingFaults PROVE Spec => ServedByRank
<1>1. Init => CameBefore /\ Ranked
  <2> SUFFICES ASSUME Init PROVE CameBefore /\ Ranked
    OBVIOUS
  <2>1. CameBefore
    BY DEF Init, CameBefore, NotHere
  <2>2. queue = <<>> /\ heldHang = <<>>
    BY DEF Init
  <2> QED BY <2>1, <2>2, OrderedNothing DEF Ranked
<1>2. PlaceInv /\ CameBefore /\ Ranked /\ [Next]_vars => CameBefore' /\ Ranked'
  BY CameBeforeStep, RankedStep DEF RankInv, PlaceInv, SeatInv
<1>3. PlaceInv /\ CameBefore /\ Ranked /\ [Next]_vars => [ByRank]_vars
  BY StepByRank DEF RankInv
<1> QED BY <1>1, <1>2, <1>3, PlacesKept, PTL DEF Spec, ServedByRank, ByRank


-----------------------------------------------------------------------------
(* How much of its time the node was busy *)

(* Arithmetic *)

\* A rate times a time is a natural number, nothing over no time, and one unit of
\* time more adds the rate once.
LEMMA Area ==
  ASSUME NEW a \in Nat, NEW t \in Nat
  PROVE  a * t \in Nat /\ a * 0 = 0 /\ a * (t + 1) = a * t + a
<1>1. \A x, y \in Nat : x * y \in Nat /\ x * 0 = 0 /\ x * (y + 1) = x * y + x
  OBVIOUS
<1> QED BY <1>1

\* The measured part of an interval is a length, empty where the interval is, and
\* grows by the units of time that begin after warmup.
LEMMA MeasuredLength ==
  ASSUME NEW a \in Nat, NEW b \in Nat, a <= b
  PROVE  /\ Measured(a, b) \in Nat /\ Measured(b, b) = 0
         /\ Measured(a, b + 1) = IF b >= Warmup THEN Measured(a, b) + 1 ELSE Measured(a, b)
BY WarmupAssumption DEF Measured, Larger

-----------------------------------------------------------------------------
(* The inductive invariant *)

\* What is missing from an area is its rate over the interval still open.
UInv ==
  /\ IInv
  /\ lastAccrual \in Nat /\ lastAccrual <= now
  /\ busyArea \in Nat /\ capacityArea \in Nat /\ inSystemArea \in Nat
  /\ total \in [busy : Nat, capacity : Nat, inSystem : Nat]
  /\ total.busy = busyArea + activeWorkers * (now - lastAccrual)
  /\ total.capacity = capacityArea + maxWorkers * (now - lastAccrual)
  /\ total.inSystem = inSystemArea + InSystem * Measured(lastAccrual, now)

LEMMA Rates ==
  ASSUME IInv
  PROVE  now \in Nat /\ activeWorkers \in Nat /\ maxWorkers \in Nat /\ InSystem \in Nat
<1>1. Len(queue) \in Nat /\ Len(heldHang) \in Nat
  BY EmptyLen DEF IInv, TypeOK
<1> QED BY <1>1 DEF IInv, TypeOK, InSystem

\* A call closes the interval at the rates that held in it, and the rates it sets
\* count from now on.
LEMMA AccrualStep ==
  ASSUME UInv, IInv', AccrueBusy, UNCHANGED <<now, total>>
  PROVE  UInv'
<1> DEFINE dt == now - lastAccrual
           in == Measured(lastAccrual, now)
<1>1. /\ now \in Nat /\ activeWorkers \in Nat /\ maxWorkers \in Nat /\ InSystem \in Nat
      /\ lastAccrual \in Nat /\ lastAccrual <= now
  BY Rates DEF UInv
<1>2. dt \in Nat /\ Larger(0, now - lastAccrual) = dt /\ Larger(lastAccrual, now) = now
  BY <1>1 DEF Larger
<1>3. in \in Nat
  BY <1>1, MeasuredLength
<1>4. /\ lastAccrual' = now /\ now' = now
      /\ busyArea' = busyArea + activeWorkers * dt
      /\ capacityArea' = capacityArea + maxWorkers * dt
      /\ inSystemArea' = inSystemArea + InSystem * in
  BY <1>2 DEF AccrueBusy
<1>5. activeWorkers * dt \in Nat /\ maxWorkers * dt \in Nat /\ InSystem * in \in Nat
  BY <1>1, <1>2, <1>3, Area
<1>6. /\ busyArea' = total.busy /\ capacityArea' = total.capacity
      /\ inSystemArea' = total.inSystem
  BY <1>4 DEF UInv
<1>7. /\ total.busy \in Nat /\ total.capacity \in Nat /\ total.inSystem \in Nat
      /\ total \in [busy : Nat, capacity : Nat, inSystem : Nat]
  BY DEF UInv
<1>8. /\ activeWorkers' \in Nat /\ maxWorkers' \in Nat /\ InSystem' \in Nat
  <2>1. Len(queue') \in Nat /\ Len(heldHang') \in Nat
    BY EmptyLen DEF IInv, TypeOK
  <2> QED BY <2>1 DEF IInv, TypeOK, InSystem
<1>9. /\ activeWorkers' * 0 = 0 /\ maxWorkers' * 0 = 0 /\ InSystem' * 0 = 0
  BY <1>8, Area
<1>10. now' - lastAccrual' = 0 /\ Measured(lastAccrual', now') = 0
  BY <1>1, <1>4, MeasuredLength
<1>11. /\ total'.busy = busyArea' + activeWorkers' * (now' - lastAccrual')
       /\ total'.capacity = capacityArea' + maxWorkers' * (now' - lastAccrual')
       /\ total'.inSystem = inSystemArea' + InSystem' * Measured(lastAccrual', now')
  BY <1>6, <1>7, <1>9, <1>10
<1> QED BY <1>1, <1>4, <1>6, <1>7, <1>11 DEF UInv

\* A unit of time leaves the areas alone and adds the rates once to what is missing.
LEMMA TickStep ==
  ASSUME UInv, IInv', UTick
  PROVE  UInv'
<1> DEFINE dt == now - lastAccrual
           in == Measured(lastAccrual, now)
<1>1. /\ now \in Nat /\ activeWorkers \in Nat /\ maxWorkers \in Nat /\ InSystem \in Nat
      /\ lastAccrual \in Nat /\ lastAccrual <= now
  BY Rates DEF UInv
<1>2. /\ now' = now + 1
      /\ UNCHANGED <<activeWorkers, maxWorkers, queue, heldHang, areas>>
      /\ total' = [busy |-> total.busy + activeWorkers,
                   capacity |-> total.capacity + maxWorkers,
                   inSystem |-> total.inSystem + (IF now >= Warmup THEN InSystem ELSE 0)]
  BY DEF UTick, Tick, serving, held, ceilings
<1>3. dt \in Nat /\ now' - lastAccrual = dt + 1 /\ lastAccrual <= now' /\ now' \in Nat
  BY <1>1, <1>2
<1>4. InSystem' = InSystem
  BY <1>2 DEF InSystem
<1>5. in \in Nat /\ Measured(lastAccrual, now') = IF now >= Warmup THEN in + 1 ELSE in
  BY <1>1, <1>2, MeasuredLength
<1> HIDE DEF dt, in
<1>6. /\ activeWorkers * dt \in Nat /\ maxWorkers * dt \in Nat /\ InSystem * in \in Nat
      /\ activeWorkers * (dt + 1) = activeWorkers * dt + activeWorkers
      /\ maxWorkers * (dt + 1) = maxWorkers * dt + maxWorkers
      /\ InSystem * (in + 1) = InSystem * in + InSystem
  BY <1>1, <1>3, <1>5, Area
<1>7. /\ total.busy \in Nat /\ total.capacity \in Nat /\ total.inSystem \in Nat
      /\ busyArea \in Nat /\ capacityArea \in Nat /\ inSystemArea \in Nat
      /\ total.busy = busyArea + activeWorkers * dt
      /\ total.capacity = capacityArea + maxWorkers * dt
      /\ total.inSystem = inSystemArea + InSystem * in
  BY DEF UInv, dt, in
<1>8. total' \in [busy : Nat, capacity : Nat, inSystem : Nat]
  BY <1>1, <1>2, <1>7
<1>9. total'.busy = busyArea + activeWorkers * (dt + 1)
  BY <1>1, <1>2, <1>6, <1>7
<1>10. total'.capacity = capacityArea + maxWorkers * (dt + 1)
  BY <1>1, <1>2, <1>6, <1>7
<1>11. total'.inSystem = inSystemArea + InSystem * Measured(lastAccrual, now')
  <2>1. CASE now >= Warmup
    BY <1>1, <1>2, <1>5, <1>6, <1>7, <2>1
  <2>2. CASE ~(now >= Warmup)
    BY <1>1, <1>2, <1>5, <1>6, <1>7, <2>2
  <2> QED BY <2>1, <2>2
<1> QED BY <1>1, <1>2, <1>3, <1>4, <1>7, <1>8, <1>9, <1>10, <1>11 DEF UInv, areas

LEMMA CallKeepsTime ==
  ASSUME Call
  PROVE  now' = now
BY DEF Call, HandleArrival, ArriveFailed, ArriveServed, ArriveQueued, HandleCompletion,
       LeaveService, CancelRequest, CancelBlackhole, CancelHang, CancelQueued,
       CancelInService, Fail, FailDegraded, FailReset, FailHang, Recover, RecoverDegraded,
       RecoverReset, RecoverResume, ResizeConcurrency

LEMMA UStep ==
  ASSUME UInv, [UNext]_<<vars, areas, total>>
  PROVE  UInv'
<1>1. IInv'
  <2>1. [Next]_vars
    BY DEF UNext, AccruedCall, IdleCall, UTick, Next
  <2> QED BY <2>1, NextInv DEF UInv
<1>2. CASE AccruedCall
  BY <1>1, <1>2, CallKeepsTime, AccrualStep DEF AccruedCall
<1>3. CASE IdleCall
  <2>1. AccrueBusy /\ UNCHANGED <<now, total>>
    BY <1>3 DEF IdleCall, vars
  <2> QED BY <1>1, <2>1, AccrualStep
<1>4. CASE UTick
  BY <1>1, <1>4, TickStep
<1>5. CASE UNCHANGED <<vars, areas, total>>
  BY <1>1, <1>5 DEF UInv, vars, areas, serving, held, ceilings, InSystem
<1> QED BY <1>2, <1>3, <1>4, <1>5 DEF UNext

LEMMA UInitInv == UInit => UInv
<1> SUFFICES ASSUME UInit PROVE UInv
  OBVIOUS
<1>1. IInv
  BY InitInv DEF UInit
<1>2. /\ now = 0 /\ lastAccrual = 0 /\ busyArea = 0 /\ capacityArea = 0
      /\ inSystemArea = 0 /\ total = [busy |-> 0, capacity |-> 0, inSystem |-> 0]
  BY DEF UInit, Init
<1>3. activeWorkers \in Nat /\ maxWorkers \in Nat /\ InSystem \in Nat
  BY <1>1, Rates
<1>4. activeWorkers * 0 = 0 /\ maxWorkers * 0 = 0 /\ InSystem * 0 = 0
  BY <1>3, Area
<1>5. Measured(lastAccrual, now) = 0 /\ now - lastAccrual = 0
  BY <1>2, MeasuredLength
<1> QED BY <1>1, <1>2, <1>4, <1>5 DEF UInv

\* However the calls into the node interleave with the clock, the areas read at any
\* instant are the exact integrals of the busy workers, of the worker ceiling and,
\* from the end of warmup, of the requests in the system.
THEOREM UtilizationIsExact == USpec => []AreasExact
<1>1. UInv => AreasExact
  <2> SUFFICES ASSUME UInv PROVE AreasExact
    OBVIOUS
  <2>1. now \in Nat /\ lastAccrual \in Nat /\ lastAccrual <= now
    BY Rates DEF UInv
  <2>2. Larger(0, now - lastAccrual) = now - lastAccrual
    BY <2>1 DEF Larger
  <2> QED BY <2>2 DEF UInv, AreasExact, BusyAreaAt, CapacityAreaAt
<1> QED BY <1>1, UInitInv, UStep, PTL DEF USpec

\* The run checks the node's own properties on this module's steps: they are the
\* steps of the node.
THEOREM AccruingChangesNothing == USpec => Spec
<1>1. UInit => Init
  BY DEF UInit
<1>2. [UNext]_<<vars, areas, total>> => [Next]_vars
  BY DEF UNext, AccruedCall, IdleCall, UTick, Next
<1> QED BY <1>1, <1>2, PTL DEF USpec, Spec

-----------------------------------------------------------------------------
(* The life of requests, beginning with the event queue. *)

\* Events that can be told apart from none, and compared.
Events(S) == NoEvent \notin S /\ \A e \in S : e.at \in Int /\ PriorityOf(e) \in Int

None(q, E) == \A i \in DOMAIN q : q[i] \notin E
Few(q, E)  == \A i, j \in DOMAIN q : q[i] \in E /\ q[j] \in E => i = j
One(q, E)  == Few(q, E) /\ ~None(q, E)
Sorted(q)  == \A i, j \in DOMAIN q : i < j => ~Before(q[j], q[i])

\* Time, priority and the order of scheduling together never tie.
LEMMA EventsAreOrdered ==
  ASSUME NEW S, Events(S), NEW e \in S, NEW f \in S, NEW g \in S
  PROVE  /\ ~Before(e, e) /\ (Before(e, f) => ~Before(f, e))
         /\ Before(e, f) /\ ~Before(g, f) => Before(e, g)
         /\ ~Before(f, e) /\ Before(f, g) => Before(e, g)
         /\ ~Before(f, e) /\ ~Before(g, f) => ~Before(g, e)
BY DEF Events, Before

\* What is put in order is what was scheduled, each event once.
LEMMA OrderedEvents ==
  ASSUME NEW S, Events(S), NEW s \in Seq(S \cup {NoEvent})
  PROVE  \E n \in Nat : \E p \in [1 .. n -> DOMAIN s] :
           /\ \A i \in DOMAIN s : s[i] # NoEvent <=> \E k \in 1 .. n : p[k] = i
           /\ \A k, l \in 1 .. n : p[k] = p[l] => k = l
           /\ InEventOrder(s) = [k \in 1 .. n |-> s[p[k]]]
           /\ \A k, l \in 1 .. n : k < l => ~Before(s[p[l]], s[p[k]])
<1> DEFINE Live == {i \in DOMAIN s : s[i] # NoEvent}
           First(j, i) == Before(s[j], s[i]) \/ (j < i /\ ~Before(s[i], s[j]))
           Ahead(i) == {j \in Live : First(j, i)}
           n == Cardinality(Live)
           rank == [i \in Live |-> Cardinality(Ahead(i))]
           p == [k \in 1 .. n |-> CHOOSE i \in Live : rank[i] = k - 1]
<1>1. /\ Live \subseteq 1 .. Len(s) /\ Len(s) \in Nat /\ Live \subseteq DOMAIN s
      /\ \A i \in Live : s[i] \in S /\ i \in Int
  OBVIOUS
<1>2. IsFiniteSet(Live) /\ n \in Nat
  <2>1. IsFiniteSet(1 .. Len(s))
    BY <1>1, FS_Interval
  <2>2. Live \in SUBSET (1 .. Len(s))
    BY <1>1
  <2> HIDE DEF Live
  <2> QED BY <2>1, <2>2, FS_Subset, FS_CardinalityType
<1>3. /\ \A i \in Live : ~First(i, i)
      /\ \A i, j \in Live : i # j => First(i, j) \/ First(j, i)
      /\ \A i, j, k \in Live : First(i, j) /\ First(j, k) => First(i, k)
  <2>1. \A i \in Live : ~First(i, i)
    BY <1>1, EventsAreOrdered
  <2>2. \A i, j \in Live : i # j => First(i, j) \/ First(j, i)
    BY <1>1
  <2>3. ASSUME NEW i \in Live, NEW j \in Live, NEW k \in Live, First(i, j), First(j, k)
        PROVE  First(i, k)
    <3>1. s[i] \in S /\ s[j] \in S /\ s[k] \in S /\ i \in Int /\ j \in Int /\ k \in Int
      BY <1>1
    <3>2. /\ Before(s[i], s[j]) => ~Before(s[j], s[i])
          /\ Before(s[j], s[k]) => ~Before(s[k], s[j])
      BY <3>1, EventsAreOrdered
    <3>3. CASE Before(s[i], s[j])
      <4>1. ~Before(s[k], s[j])
        BY <2>3, <3>2
      <4> QED BY <3>1, <3>3, <4>1, EventsAreOrdered
    <3>4. CASE ~Before(s[i], s[j])
      <4>1. i < j /\ ~Before(s[j], s[i])
        BY <2>3, <3>4
      <4>2. CASE Before(s[j], s[k])
        BY <3>1, <4>1, <4>2, EventsAreOrdered
      <4>3. CASE ~Before(s[j], s[k])
        <5>1. j < k /\ ~Before(s[k], s[j])
          BY <2>3, <4>3
        <5>2. ~Before(s[k], s[i])
          BY <3>1, <4>1, <5>1, EventsAreOrdered
        <5> QED BY <3>1, <4>1, <5>1, <5>2
      <4> QED BY <4>2, <4>3
    <3> QED BY <3>3, <3>4
  <2> QED BY <2>1, <2>2, <2>3
<1> HIDE DEF First
<1>4. ASSUME NEW i \in Live
      PROVE  IsFiniteSet(Ahead(i)) /\ rank[i] \in 0 .. n - 1
  <2>1. Ahead(i) \subseteq Live /\ i \notin Ahead(i)
    BY <1>3
  <2>2. IsFiniteSet(Ahead(i)) /\ Cardinality(Ahead(i)) \in Nat
    BY <1>2, <2>1, FS_Subset, FS_CardinalityType
  <2>3. Cardinality(Ahead(i)) <= n /\ Cardinality(Ahead(i)) # n
    BY <1>2, <2>1, FS_Subset
  <2> QED BY <1>2, <2>2, <2>3
<1>5. ASSUME NEW i \in Live, NEW j \in Live, First(i, j)
      PROVE  rank[i] < rank[j]
  <2>1. /\ Ahead(i) \in SUBSET Ahead(j) /\ Ahead(i) # Ahead(j)
        /\ IsFiniteSet(Ahead(i)) /\ IsFiniteSet(Ahead(j))
    BY <1>3, <1>4, <1>5
  <2>2. /\ Cardinality(Ahead(i)) <= Cardinality(Ahead(j))
        /\ Cardinality(Ahead(i)) # Cardinality(Ahead(j))
        /\ Cardinality(Ahead(i)) \in Nat /\ Cardinality(Ahead(j)) \in Nat
    BY <2>1, FS_Subset, FS_CardinalityType
  <2> QED BY <2>2
<1>6. /\ rank \in [Live -> 0 .. n - 1]
      /\ \A i, j \in Live : rank[i] = rank[j] => i = j
  <2>1. \A i \in Live : rank[i] \in 0 .. n - 1
    BY <1>4
  <2>2. ASSUME NEW i \in Live, NEW j \in Live, i # j
        PROVE  rank[i] # rank[j]
    <3> HIDE DEF rank, n
    <3>1. rank[i] \in Int /\ rank[j] \in Int
      BY <2>1, <1>2
    <3> QED BY <1>3, <1>5, <2>2, <3>1
  <2> QED BY <2>1, <2>2
<1>7. \A m \in 0 .. n - 1 : \E i \in Live : rank[i] = m
  <2>1. rank \in Injection(Live, 0 .. n - 1)
    BY <1>6 DEF Injection, IsInjective
  <2>2. IsFiniteSet(0 .. n - 1) /\ Cardinality(0 .. n - 1) = n
    <3> HIDE DEF n
    <3>1. /\ IsFiniteSet(0 .. n - 1)
          /\ Cardinality(0 .. n - 1) = IF 0 > n - 1 THEN 0 ELSE (n - 1) - 0 + 1
      BY <1>2, FS_Interval
    <3> QED BY <1>2, <3>1
  <2>3. rank \in Surjection(Live, 0 .. n - 1)
    BY <1>2, <2>1, <2>2, FS_Injection
  <2> QED BY <2>3 DEF Surjection
<1> HIDE DEF Live, Ahead, n, rank
<1>8. \A k \in 1 .. n : k - 1 \in 0 .. n - 1
  BY <1>2
<1>9. \A k \in 1 .. n : p[k] \in Live /\ rank[p[k]] = k - 1
  BY <1>7, <1>8
<1>10. \A i \in Live : \E k \in 1 .. n : p[k] = i
  <2> SUFFICES ASSUME NEW i \in Live PROVE \E k \in 1 .. n : p[k] = i
    OBVIOUS
  <2>1. rank[i] \in 0 .. n - 1
    BY <1>6
  <2>2. rank[i] + 1 \in 1 .. n /\ rank[i] = (rank[i] + 1) - 1
    BY <1>2, <2>1
  <2>3. rank[p[rank[i] + 1]] = rank[i] /\ p[rank[i] + 1] \in Live
    BY <1>9, <2>2
  <2> QED BY <1>6, <2>2, <2>3
<1>11. \A k, l \in 1 .. n : p[k] = p[l] => k = l
  <2> SUFFICES ASSUME NEW k \in 1 .. n, NEW l \in 1 .. n, p[k] = p[l] PROVE k = l
    OBVIOUS
  <2>1. k - 1 = l - 1
    BY <1>9
  <2> QED BY <1>2, <2>1
<1>12. InEventOrder(s) = [k \in 1 .. n |-> s[p[k]]]
  <2>1. InEventOrder(s) =
          [k \in 1 .. n |-> s[CHOOSE i \in Live : Cardinality(Ahead(i)) = k - 1]]
    BY DEF InEventOrder, Live, Ahead, First, n
  <2>2. \A k \in 1 .. n :
          (CHOOSE i \in Live : rank[i] = k - 1)
            = (CHOOSE i \in Live : Cardinality(Ahead(i)) = k - 1)
    BY DEF rank
  <2> QED BY <2>1, <2>2
<1>13. \A k, l \in 1 .. n : k < l => ~Before(s[p[l]], s[p[k]])
  <2> SUFFICES ASSUME NEW k \in 1 .. n, NEW l \in 1 .. n, k < l
               PROVE  ~Before(s[p[l]], s[p[k]])
    OBVIOUS
  <2>1. p[k] \in Live /\ p[l] \in Live /\ rank[p[k]] = k - 1 /\ rank[p[l]] = l - 1
    BY <1>9
  <2>2. ~(rank[p[l]] < rank[p[k]])
    BY <1>2, <2>1
  <2>3. ~First(p[l], p[k])
    BY <1>5, <2>1, <2>2
  <2> QED BY <2>3 DEF First
<1>14. p \in [1 .. n -> DOMAIN s]
  BY <1>1, <1>9
<1>15. \A i \in DOMAIN s : s[i] # NoEvent <=> \E k \in 1 .. n : p[k] = i
  BY <1>9, <1>10 DEF Live
<1> HIDE DEF p
<1> QED BY <1>2, <1>11, <1>12, <1>13, <1>14, <1>15

\* What two sequences hold when joined is what they hold, each.
LEMMA JoinedCounts ==
  ASSUME NEW S, NEW q \in Seq(S), NEW t \in Seq(S), NEW E
  PROVE  /\ None(q \o t, E) <=> None(q, E) /\ None(t, E)
         /\ Few(q, E) /\ None(t, E) => Few(q \o t, E)
         /\ None(q, E) /\ Few(t, E) => Few(q \o t, E)
<1> DEFINE s == q \o t
<1>1. /\ s \in Seq(S) /\ Len(s) = Len(q) + Len(t)
      /\ Len(q) \in Nat /\ Len(t) \in Nat /\ Len(s) \in Nat
      /\ DOMAIN s = 1 .. Len(s) /\ DOMAIN q = 1 .. Len(q) /\ DOMAIN t = 1 .. Len(t)
      /\ \A i \in 1 .. Len(q) : s[i] = q[i]
      /\ \A i \in 1 .. Len(t) : s[Len(q) + i] = t[i]
  OBVIOUS
<1> HIDE DEF s
<1>2. None(s, E) <=> None(q, E) /\ None(t, E)
  <2>1. ASSUME None(s, E) PROVE None(q, E)
    BY <1>1, <2>1 DEF None
  <2>2. ASSUME None(s, E), NEW i \in DOMAIN t PROVE t[i] \notin E
    <3>1. Len(q) + i \in DOMAIN s
      BY <1>1
    <3> QED BY <1>1, <2>2, <3>1 DEF None
  <2>3. ASSUME None(q, E), None(t, E), NEW i \in DOMAIN s PROVE s[i] \notin E
    <3>1. CASE i \in 1 .. Len(q)
      BY <1>1, <2>3, <3>1 DEF None
    <3>2. CASE i \notin 1 .. Len(q)
      <4>1. i - Len(q) \in 1 .. Len(t) /\ Len(q) + (i - Len(q)) = i
        BY <1>1, <3>2
      <4>2. s[i] = t[i - Len(q)]
        BY <1>1, <4>1
      <4> QED BY <1>1, <2>3, <4>1, <4>2 DEF None
    <3> QED BY <3>1, <3>2
  <2> QED BY <2>1, <2>2, <2>3 DEF None
<1>3. \A i \in 1 .. Len(s) : i \notin 1 .. Len(q) =>
             i - Len(q) \in 1 .. Len(t) /\ s[i] = t[i - Len(q)]
  <2> SUFFICES ASSUME NEW i \in 1 .. Len(s), i \notin 1 .. Len(q)
               PROVE  i - Len(q) \in 1 .. Len(t) /\ s[i] = t[i - Len(q)]
    OBVIOUS
  <2>1. i - Len(q) \in 1 .. Len(t) /\ Len(q) + (i - Len(q)) = i
    BY <1>1
  <2>2. s[Len(q) + (i - Len(q))] = t[i - Len(q)]
    BY <1>1, <2>1
  <2> QED BY <2>1, <2>2
<1>4. Few(q, E) /\ None(t, E) => Few(s, E)
  BY <1>1, <1>3 DEF Few, None
<1>5. None(q, E) /\ Few(t, E) => Few(s, E)
  <2> SUFFICES ASSUME None(q, E), Few(t, E), NEW i \in 1 .. Len(s), NEW j \in 1 .. Len(s),
                      s[i] \in E, s[j] \in E
               PROVE  i = j
    BY <1>1 DEF Few
  <2>1. i \notin 1 .. Len(q) /\ j \notin 1 .. Len(q)
    BY <1>1 DEF None
  <2>2. i - Len(q) = j - Len(q)
    BY <1>1, <1>3, <2>1 DEF Few
  <2> QED BY <1>1, <2>2
<1> QED BY <1>2, <1>4, <1>5 DEF s

\* All that is scheduled together is in the queue, with what was in it.
LEMMA ScheduledTogether ==
  ASSUME NEW S, Events(S), NEW q \in Seq(S), NEW new \in Seq(S \cup {NoEvent}),
         NEW t \in ScheduleAll(q, new), NEW E, NoEvent \notin E
  PROVE  /\ t \in Seq(S) /\ Sorted(t)
         /\ None(q, E) /\ None(new, E) => None(t, E)
         /\ One(q, E) /\ None(new, E) => One(t, E)
         /\ None(q, E) /\ One(new, E) => One(t, E)
         /\ None(t, E) => None(q, E) /\ None(new, E)
<1> DEFINE s == q \o new
<1>1. /\ s \in Seq(S \cup {NoEvent}) /\ Len(s) = Len(q) + Len(new)
      /\ Len(q) \in Nat /\ Len(new) \in Nat /\ Len(s) \in Nat
      /\ DOMAIN s = 1 .. Len(s) /\ DOMAIN q = 1 .. Len(q) /\ DOMAIN new = 1 .. Len(new)
      /\ \A i \in 1 .. Len(q) : s[i] = q[i]
      /\ \A i \in 1 .. Len(new) : s[Len(q) + i] = new[i]
  <2>1. q \in Seq(S \cup {NoEvent})
    OBVIOUS
  <2> QED BY <2>1
<1>s. /\ None(s, E) <=> None(q, E) /\ None(new, E)
      /\ Few(q, E) /\ None(new, E) => Few(s, E)
      /\ None(q, E) /\ Few(new, E) => Few(s, E)
  <2>1. q \in Seq(S \cup {NoEvent})
    OBVIOUS
  <2> QED BY <2>1, JoinedCounts
<1>2. t = InEventOrder(s)
  BY DEF ScheduleAll
<1> HIDE DEF s
<1>n. PICK n \in Nat : \E p \in [1 .. n -> DOMAIN s] :
           /\ \A i \in DOMAIN s : s[i] # NoEvent <=> \E k \in 1 .. n : p[k] = i
           /\ \A k, l \in 1 .. n : p[k] = p[l] => k = l
           /\ InEventOrder(s) = [k \in 1 .. n |-> s[p[k]]]
           /\ \A k, l \in 1 .. n : k < l => ~Before(s[p[l]], s[p[k]])
  BY <1>1, OrderedEvents
<1>3. PICK p \in [1 .. n -> DOMAIN s] :
           /\ \A i \in DOMAIN s : s[i] # NoEvent <=> \E k \in 1 .. n : p[k] = i
           /\ \A k, l \in 1 .. n : p[k] = p[l] => k = l
           /\ InEventOrder(s) = [k \in 1 .. n |-> s[p[k]]]
           /\ \A k, l \in 1 .. n : k < l => ~Before(s[p[l]], s[p[k]])
  BY <1>n
<1>4. DOMAIN t = 1 .. n /\ Len(t) = n /\ \A k \in 1 .. n : t[k] = s[p[k]] /\ p[k] \in DOMAIN s
  BY <1>2, <1>3
<1>5. \A k \in 1 .. n : t[k] \in S
  BY <1>1, <1>3, <1>4
<1>6. t \in Seq(S)
  BY <1>2, <1>3, <1>4, <1>5
<1>7. Sorted(t)
  BY <1>3, <1>4 DEF Sorted
<1>8. None(s, E) <=> None(t, E)
  <2>1. None(s, E) => None(t, E)
    BY <1>4 DEF None
  <2>2. ASSUME None(t, E), NEW i \in DOMAIN s, s[i] \in E
        PROVE  FALSE
    <3>1. PICK k \in 1 .. n : p[k] = i
      BY <1>3, <2>2
    <3> QED BY <1>4, <2>2, <3>1 DEF None
  <2> QED BY <2>1, <2>2 DEF None
<1>9. Few(s, E) => Few(t, E)
  BY <1>3, <1>4 DEF Few
<1> QED BY <1>1, <1>6, <1>7, <1>8, <1>9, <1>s DEF One

\* A set that holds, with a number, all that are less is an initial stretch.
LEMMA InitialStretch ==
  ASSUME NEW N \in Nat, NEW D \in SUBSET (1 .. N),
         \A i \in D : \A j \in 1 .. i : j \in D
  PROVE  Cardinality(D) \in 0 .. N /\ D = 1 .. Cardinality(D)
<1>1. IsFiniteSet(1 .. N) /\ Cardinality(1 .. N) = N
  BY FS_Interval
<1>2. IsFiniteSet(D) /\ Cardinality(D) \in Nat /\ Cardinality(D) <= N
  <2>1. PICK T : T = 1 .. N
    OBVIOUS
  <2>2. IsFiniteSet(T) /\ Cardinality(T) = N /\ D \in SUBSET T
    BY <1>1, <2>1
  <2>3. IsFiniteSet(D) /\ Cardinality(D) <= N
    BY <2>2, FS_Subset
  <2> QED BY <2>3, FS_CardinalityType
<1>3. ASSUME NEW i \in D PROVE i <= Cardinality(D)
  <2>1. 1 .. i \in SUBSET D /\ i \in Nat
    OBVIOUS
  <2>2. Cardinality(1 .. i) = i
    BY <2>1, FS_Interval
  <2> QED BY <1>2, <2>1, <2>2, FS_Subset
<1>4. D \in SUBSET (1 .. Cardinality(D))
  BY <1>2, <1>3
<1>5. IsFiniteSet(1 .. Cardinality(D)) /\ Cardinality(1 .. Cardinality(D)) = Cardinality(D)
  BY <1>2, FS_Interval
<1>6. D = 1 .. Cardinality(D)
  BY <1>4, <1>5, FS_Subset
<1> QED BY <1>2, <1>6

\* What two sequences make when joined.
LEMMA Joined ==
  ASSUME NEW S, NEW s \in Seq(S), NEW t \in Seq(S), NEW u, u = s \o t
  PROVE  /\ u \in Seq(S) /\ Len(u) = Len(s) + Len(t) /\ Len(s) \in Nat /\ Len(t) \in Nat
         /\ \A i \in 1 .. Len(s) + Len(t) : u[i] = IF i <= Len(s) THEN s[i] ELSE t[i - Len(s)]
OBVIOUS

\* What is inserted leaves those before it, and the rest moves up.
LEMMA Inserted ==
  ASSUME NEW S, NEW s \in Seq(S), NEW e \in S, NEW n \in 0 .. Len(s)
  PROVE  /\ InsertAt(s, n + 1, e) \in Seq(S) /\ Len(InsertAt(s, n + 1, e)) = Len(s) + 1
         /\ \A i \in 1 .. n : InsertAt(s, n + 1, e)[i] = s[i]
         /\ InsertAt(s, n + 1, e)[n + 1] = e
         /\ \A i \in n + 2 .. Len(s) + 1 : InsertAt(s, n + 1, e)[i] = s[i - 1]
<1> DEFINE a == SubSeq(s, 1, n)
           b == SubSeq(s, n + 1, Len(s))
           c == <<e>>
           ac == a \o c
           t == ac \o b
<1>1. Len(s) \in Nat /\ DOMAIN s = 1 .. Len(s)
  OBVIOUS
<1>2. InsertAt(s, n + 1, e) = t
  <2>1. (n + 1) - 1 = n
    OBVIOUS
  <2> QED BY <2>1 DEF InsertAt
<1>3. a \in Seq(S) /\ Len(a) = n /\ \A i \in 1 .. n : a[i] = s[i]
  BY <1>1
<1>4. b \in Seq(S) /\ Len(b) = Len(s) - n /\ \A i \in 1 .. Len(s) - n : b[i] = s[i + n]
  BY <1>1, RestOf
<1>5. c \in Seq(S) /\ Len(c) = 1 /\ c[1] = e
  OBVIOUS
<1> HIDE DEF a, b, c
<1>6. /\ ac \in Seq(S) /\ Len(ac) = n + 1
      /\ \A i \in 1 .. n : ac[i] = a[i]
      /\ ac[n + 1] = e
  <2>1. Len(ac) = n + 1 /\ ac \in Seq(S)
    BY <1>3, <1>5, ConcatType
  <2>2. \A i \in 1 .. n + 1 : i > n => i - n = 1
    OBVIOUS
  <2>3. \A i \in 1 .. n + 1 : ac[i] = IF i <= n THEN a[i] ELSE e
    BY <1>3, <1>5, <2>1, <2>2
  <2>4. n + 1 \in 1 .. n + 1 /\ ~(n + 1 <= n) /\ \A i \in 1 .. n : i \in 1 .. n + 1 /\ i <= n
    OBVIOUS
  <2> QED BY <2>1, <2>3, <2>4
<1> HIDE DEF ac
<1>7. /\ t \in Seq(S) /\ Len(t) = Len(s) + 1
      /\ \A i \in 1 .. Len(s) + 1 : t[i] = IF i <= n + 1 THEN ac[i] ELSE b[i - (n + 1)]
  <2>1. (n + 1) + (Len(s) - n) = Len(s) + 1
    BY <1>1
  <2> QED BY <1>4, <1>6, <2>1, Joined
<1> HIDE DEF t
<1>8. \A i \in 1 .. n : t[i] = s[i]
  <2> TAKE i \in 1 .. n
  <2>1. i \in 1 .. Len(s) + 1 /\ i <= n + 1
    BY <1>1
  <2> QED BY <1>3, <1>6, <1>7, <2>1
<1>9. t[n + 1] = e
  <2>1. n + 1 \in 1 .. Len(s) + 1
    BY <1>1
  <2> QED BY <1>6, <1>7, <2>1
<1>10. ASSUME NEW i \in n + 2 .. Len(s) + 1 PROVE t[i] = s[i - 1]
  <2>1. /\ i - (n + 1) \in 1 .. Len(s) - n /\ (i - (n + 1)) + n = i - 1
        /\ i \in 1 .. Len(s) + 1 /\ ~(i <= n + 1)
    BY <1>1
  <2>2. t[i] = b[i - (n + 1)]
    BY <1>7, <2>1
  <2>3. b[i - (n + 1)] = s[(i - (n + 1)) + n]
    BY <1>4, <2>1
  <2> QED BY <2>1, <2>2, <2>3
<1> QED BY <1>2, <1>7, <1>8, <1>9, <1>10

\* An event that is scheduled is in the queue, with what was in it.
LEMMA Scheduled ==
  ASSUME NEW S, Events(S), NEW q \in Seq(S), NEW e \in S \cup {NoEvent},
         NEW E, NoEvent \notin E
  PROVE  LET t == Schedule(q, e)
         IN  /\ t \in Seq(S) /\ (Sorted(q) => Sorted(t))
             /\ None(q, E) /\ e \notin E => None(t, E)
             /\ None(q, E) /\ e \in E => One(t, E)
             /\ One(q, E) /\ e \notin E => One(t, E)
             /\ None(t, E) => None(q, E) /\ e \notin E
<1>1. CASE e = NoEvent
  BY <1>1 DEF Schedule
<1>2. CASE e # NoEvent
  <2> DEFINE D == {i \in DOMAIN q : ~Before(e, q[i])}
             n == Cardinality(D)
             t == InsertAt(q, n + 1, e)
  <2>1. Schedule(q, e) = t
    BY <1>2 DEF Schedule
  <2>2. e \in S /\ Len(q) \in Nat /\ DOMAIN q = 1 .. Len(q) /\ \A i \in 1 .. Len(q) : q[i] \in S
    BY <1>2
  <2>3. n \in 0 .. Len(q)
    <3>1. IsFiniteSet(1 .. Len(q))
      BY <2>2, FS_Interval
    <3>2. Cardinality(1 .. Len(q)) = Len(q)
      <4>1. PICK N \in Nat : N = Len(q)
        BY <2>2
      <4>2. Cardinality(1 .. N) = N
        BY FS_Interval
      <4> QED BY <4>1, <4>2
    <3>3. D \in SUBSET (1 .. Len(q))
      BY <2>2
    <3> HIDE DEF D
    <3>4. IsFiniteSet(D) /\ Cardinality(D) <= Len(q)
      BY <3>1, <3>2, <3>3, FS_Subset
    <3>5. Cardinality(D) \in Nat
      BY <3>4, FS_CardinalityType
    <3> QED BY <2>2, <3>4, <3>5
  <2>4. Sorted(q) => D = 1 .. n
    <3> SUFFICES ASSUME Sorted(q) PROVE D = 1 .. n
      OBVIOUS
    <3>1. ASSUME NEW i \in D, NEW j \in 1 .. i PROVE j \in D
      <4>1. i \in 1 .. Len(q) /\ j \in 1 .. Len(q) /\ (j < i \/ j = i)
        BY <2>2
      <4>2. j < i => ~Before(q[i], q[j])
        BY <2>2, <4>1 DEF Sorted
      <4>3. ~Before(e, q[j])
        BY <2>2, <4>1, <4>2, EventsAreOrdered
      <4> QED BY <2>2, <4>1, <4>3
    <3>2. D \in SUBSET (1 .. Len(q))
      BY <2>2
    <3> HIDE DEF D
    <3> QED BY <2>2, <3>1, <3>2, InitialStretch
  <2>5. \A i \in D : ~Before(e, q[i])
    OBVIOUS
  <2>6. \A i \in 1 .. Len(q) : i \notin D => Before(e, q[i])
    BY <2>2
  <2> HIDE DEF n, D
  <2>7. /\ t \in Seq(S) /\ Len(t) = Len(q) + 1
        /\ \A i \in 1 .. n : t[i] = q[i]
        /\ t[n + 1] = e
        /\ \A i \in n + 2 .. Len(q) + 1 : t[i] = q[i - 1]
    <3>1. e \in S
      BY <2>2
    <3>2. n \in 0 .. Len(q)
      BY <2>3
    <3>3. InsertAt(q, n + 1, e) \in Seq(S) /\ Len(InsertAt(q, n + 1, e)) = Len(q) + 1
      BY <3>1, <3>2, Inserted
    <3>4. \A i \in 1 .. n : InsertAt(q, n + 1, e)[i] = q[i]
      BY <3>1, <3>2, Inserted
    <3>5. \A i \in n + 2 .. Len(q) + 1 : InsertAt(q, n + 1, e)[i] = q[i - 1]
      BY <3>1, <3>2, Inserted
    <3>6. InsertAt(q, n + 1, e)[n + 1] = e
      BY <3>1, <3>2, Inserted
    <3> QED BY <3>3, <3>4, <3>5, <3>6
  <2>8. DOMAIN t = 1 .. Len(q) + 1
    BY <2>7
  <2> HIDE DEF t
  <2>9. \A i \in 1 .. Len(q) + 1 :
          (i \in 1 .. n /\ i \in 1 .. Len(q)) \/ i = n + 1
            \/ (i \in n + 2 .. Len(q) + 1 /\ i - 1 \in 1 .. Len(q))
    BY <2>2, <2>3
  <2>10. Sorted(q) => Sorted(t)
    <3> SUFFICES ASSUME Sorted(q), NEW i \in 1 .. Len(q) + 1, NEW j \in 1 .. Len(q) + 1, i < j
                 PROVE  ~Before(t[j], t[i])
      BY <2>8 DEF Sorted
    <3>1. CASE i \in 1 .. n /\ j \in 1 .. n
      BY <2>2, <2>3, <2>7, <3>1 DEF Sorted
    <3>2. CASE i \in 1 .. n /\ j = n + 1
      BY <2>3, <2>4, <2>5, <2>7, <3>2
    <3>3. CASE i \in 1 .. n /\ j \in n + 2 .. Len(q) + 1
      <4>1. i \in 1 .. Len(q) /\ j - 1 \in 1 .. Len(q) /\ i < j - 1
        BY <2>2, <2>3, <3>3
      <4> QED BY <2>2, <2>7, <3>3, <4>1 DEF Sorted
    <3>4. CASE i = n + 1 /\ j \in n + 2 .. Len(q) + 1
      <4>1. j - 1 \in 1 .. Len(q) /\ j - 1 \notin 1 .. n
        BY <2>2, <2>3, <3>4
      <4>2. Before(e, q[j - 1]) /\ q[j - 1] \in S
        BY <2>2, <2>4, <2>6, <4>1
      <4> QED BY <2>2, <2>7, <3>4, <4>2, EventsAreOrdered
    <3>5. CASE i \in n + 2 .. Len(q) + 1 /\ j \in n + 2 .. Len(q) + 1
      <4>1. i - 1 \in 1 .. Len(q) /\ j - 1 \in 1 .. Len(q) /\ i - 1 < j - 1
        BY <2>2, <2>3, <3>5
      <4> QED BY <2>2, <2>7, <3>5, <4>1 DEF Sorted
    <3> QED BY <2>3, <2>9, <3>1, <3>2, <3>3, <3>4, <3>5
  <2>11. ASSUME None(q, E), e \notin E PROVE None(t, E)
    BY <2>2, <2>7, <2>8, <2>9, <2>11 DEF None
  <2>12. ASSUME None(q, E) PROVE Few(t, E)
    BY <2>2, <2>3, <2>7, <2>8, <2>9, <2>12 DEF Few, None
  <2>13. ASSUME Few(q, E), e \notin E PROVE Few(t, E)
    <3> SUFFICES ASSUME NEW i \in 1 .. Len(q) + 1, NEW j \in 1 .. Len(q) + 1,
                        t[i] \in E, t[j] \in E, i < j
                 PROVE  FALSE
      BY <2>2, <2>8 DEF Few
    <3>1. i # n + 1 /\ j # n + 1
      BY <2>7, <2>13
    <3>2. CASE i \in 1 .. n /\ j \in 1 .. n
      BY <2>2, <2>3, <2>7, <2>13, <3>2 DEF Few
    <3>3. CASE i \in 1 .. n /\ j \in n + 2 .. Len(q) + 1
      <4>1. i \in 1 .. Len(q) /\ j - 1 \in 1 .. Len(q) /\ i < j - 1
        BY <2>2, <2>3, <3>3
      <4> QED BY <2>2, <2>7, <2>13, <3>3, <4>1 DEF Few
    <3>4. CASE i \in n + 2 .. Len(q) + 1 /\ j \in n + 2 .. Len(q) + 1
      <4>1. i - 1 \in 1 .. Len(q) /\ j - 1 \in 1 .. Len(q) /\ i - 1 < j - 1
        BY <2>2, <2>3, <3>4
      <4> QED BY <2>2, <2>7, <2>13, <3>4, <4>1 DEF Few
    <3> QED BY <2>2, <2>3, <2>9, <3>1, <3>2, <3>3, <3>4
  <2>14. ASSUME None(t, E) PROVE None(q, E) /\ e \notin E
    <3>1. e \notin E
      BY <2>3, <2>7, <2>8, <2>14 DEF None
    <3>2. ASSUME NEW i \in 1 .. Len(q) PROVE q[i] \notin E
      <4>1. CASE i \in 1 .. n
        <5>1. i \in 1 .. Len(q) + 1 /\ t[i] = q[i]
          BY <2>2, <2>3, <2>7, <4>1
        <5> QED BY <2>8, <2>14, <5>1 DEF None
      <4>2. CASE i \notin 1 .. n
        <5>1. i + 1 \in n + 2 .. Len(q) + 1 /\ (i + 1) - 1 = i /\ i + 1 \in DOMAIN t
          BY <2>2, <2>3, <2>8, <4>2
        <5>2. t[i + 1] = q[i]
          BY <2>7, <5>1
        <5> QED BY <2>14, <5>1, <5>2 DEF None
      <4> QED BY <4>1, <4>2
    <3> QED BY <2>2, <3>1, <3>2 DEF None
  <2> QED BY <2>1, <2>7, <2>10, <2>11, <2>12, <2>13, <2>14 DEF One
<1> QED BY <1>1, <1>2

\* Taking the event in hand off the queue leaves the others as they are.
LEMMA HeadTaken ==
  ASSUME NEW S, NEW q \in Seq(S), q # <<>>, NEW E
  PROVE  /\ Tail(q) \in Seq(S) /\ Head(q) \in S /\ (Sorted(q) => Sorted(Tail(q)))
         /\ None(q, E) => None(Tail(q), E) /\ Head(q) \notin E
         /\ One(q, E) /\ Head(q) \in E => None(Tail(q), E)
         /\ One(q, E) /\ Head(q) \notin E => One(Tail(q), E)
         /\ None(Tail(q), E) /\ Head(q) \notin E => None(q, E)
<1> DEFINE t == Tail(q)
<1>1. /\ t \in Seq(S) /\ Head(q) = q[1] /\ Len(q) \in Nat \ {0} /\ Len(t) = Len(q) - 1
      /\ DOMAIN q = 1 .. Len(q) /\ DOMAIN t = 1 .. Len(q) - 1
      /\ \A i \in 1 .. Len(q) - 1 : t[i] = q[i + 1] /\ i + 1 \in 1 .. Len(q) /\ i + 1 # 1
      /\ 1 \in 1 .. Len(q) /\ q[1] \in S
  OBVIOUS
<1>2. \A i \in 1 .. Len(q) : i # 1 => i - 1 \in 1 .. Len(q) - 1 /\ t[i - 1] = q[i] /\ (i - 1) + 1 = i
  BY <1>1
<1> HIDE DEF t
<1>3. Sorted(q) => Sorted(t)
  <2>1. \A i, j \in 1 .. Len(q) - 1 : i < j => i + 1 < j + 1
    BY <1>1
  <2> QED BY <1>1, <2>1 DEF Sorted
<1>4. None(q, E) => None(t, E) /\ Head(q) \notin E
  BY <1>1 DEF None
<1>5. Few(q, E) /\ Head(q) \in E => None(t, E)
  BY <1>1 DEF None, Few
<1>6. Few(q, E) => Few(t, E)
  <2> SUFFICES ASSUME Few(q, E), NEW i \in 1 .. Len(q) - 1, NEW j \in 1 .. Len(q) - 1,
                      t[i] \in E, t[j] \in E
               PROVE  i = j
    BY <1>1 DEF Few
  <2>1. i + 1 = j + 1
    BY <1>1 DEF Few
  <2> QED BY <1>1, <2>1
<1>7. None(t, E) /\ Head(q) \notin E => None(q, E)
  BY <1>1, <1>2 DEF None
<1> QED BY <1>1, <1>3, <1>4, <1>5, <1>6, <1>7 DEF t, One

-----------------------------------------------------------------------------
(* What a handler schedules *)

AnyEvent ==
  [type : {"request-arrival", "processing-complete", "request-complete", "request-rejected"},
   req : Requests, at : Nat,
   gen : Nat \cup {"node_failed", "capacity_exceeded", "node_error_rate"}]
  \cup [type : {"request-timeout"}, scope : {"node", "in-flight"}, req : Requests,
        at : Nat, gen : Nat]
  \cup [type : {"node-failure"}, at : Nat, spec : FailureSpecs, domain : Domains \cup {NodeItself}]
  \cup [type : {"node-recovery"}, at : Nat, domain : Domains \cup {NodeItself}]

LifeTypes ==
  /\ events \in Seq(AnyEvent)
  /\ deadline \in [Requests -> Nat]
  /\ completionSeq \in [Requests -> Nat] /\ timeoutSeq \in [Requests -> Nat]
  /\ retryCount \in [Requests -> Nat]
  /\ outcome \in [Requests -> {"pending", "success", "timeout", "rejected", "connection_reset"}]

\* The events of an attempt on its way, those of them that come too late for it,
\* and the timeouts that guard it in the node.
Carriers(r) == {e \in AnyEvent : CarriesAttempt(e) /\ e.req = r}
Overtaken(r) == {e \in Carriers(r) :
  \/ e.type = "request-timeout" /\ e.gen # timeoutSeq[r]
  \/ NodeTimeout # 0 /\ deadline[r] < e.at}
Guards(r) == {e \in AnyEvent :
  /\ e.type = "request-timeout" /\ e.scope = "node"
  /\ e.req = r /\ e.gen = timeoutSeq[r] /\ e.at <= deadline[r]}

\* The events that strike the node.
FaultEvent == {e \in AnyEvent : e.type \in {"node-failure", "node-recovery"}}

LEMMA EventsAreEvents == Events(AnyEvent)
<1>1. NoEvent \notin AnyEvent
  BY DEF NoEvent, AnyEvent
<1>2. ASSUME NEW e \in AnyEvent PROVE e.at \in Int /\ PriorityOf(e) \in Int
  BY <1>2 DEF AnyEvent, PriorityOf
<1> QED BY <1>1, <1>2 DEF Events

\* The event in hand is done with, and others are in the queue, perhaps beside
\* completions.
Scheduling(others) ==
  /\ events' \in Seq(AnyEvent) /\ (Sorted(events) => Sorted(events'))
  /\ \A E : NoEvent \notin E /\ (\A e \in E : e.type # "processing-complete") =>
       /\ None(Tail(events), E) /\ None(others, E) => None(events', E)
       /\ One(Tail(events), E) /\ None(others, E) => One(events', E)
       /\ None(Tail(events), E) /\ One(others, E) => One(events', E)
       /\ None(events', E) => None(Tail(events), E) /\ None(others, E)

LEMMA Single ==
  ASSUME NEW e, NEW E
  PROVE  (None(<<e>>, E) <=> e \notin E) /\ (One(<<e>>, E) <=> e \in E)
BY DEF None, One, Few

LEMMA SchedulingOne ==
  ASSUME LifeTypes, events # <<>>, NEW e \in AnyEvent \cup {NoEvent},
         events' = Schedule(Tail(events), e)
  PROVE  Scheduling(<<e>>)
<1>1. Tail(events) \in Seq(AnyEvent) /\ (Sorted(events) => Sorted(Tail(events)))
  BY HeadTaken DEF LifeTypes
<1>2. events' \in Seq(AnyEvent) /\ (Sorted(Tail(events)) => Sorted(events'))
  <2>1. PICK E : NoEvent \notin E
    OBVIOUS
  <2> QED BY <1>1, <2>1, EventsAreEvents, Scheduled
<1>3. ASSUME NEW E, NoEvent \notin E
      PROVE  /\ None(Tail(events), E) /\ None(<<e>>, E) => None(events', E)
             /\ One(Tail(events), E) /\ None(<<e>>, E) => One(events', E)
             /\ None(Tail(events), E) /\ One(<<e>>, E) => One(events', E)
             /\ None(events', E) => None(Tail(events), E) /\ None(<<e>>, E)
  BY <1>1, <1>3, EventsAreEvents, Scheduled, Single
<1> QED BY <1>1, <1>2, <1>3 DEF Scheduling

LEMMA SchedulingAll ==
  ASSUME LifeTypes, events # <<>>, NEW new \in Seq(AnyEvent \cup {NoEvent}),
         events' \in ScheduleAll(Tail(events), new)
  PROVE  Scheduling(new)
<1>1. Tail(events) \in Seq(AnyEvent)
  BY HeadTaken DEF LifeTypes
<1>2. events' \in Seq(AnyEvent) /\ Sorted(events')
  <2>1. PICK E : NoEvent \notin E
    OBVIOUS
  <2> QED BY <1>1, <2>1, EventsAreEvents, ScheduledTogether
<1>3. ASSUME NEW E, NoEvent \notin E
      PROVE  /\ None(Tail(events), E) /\ None(new, E) => None(events', E)
             /\ One(Tail(events), E) /\ None(new, E) => One(events', E)
             /\ None(Tail(events), E) /\ One(new, E) => One(events', E)
             /\ None(events', E) => None(Tail(events), E) /\ None(new, E)
  BY <1>1, <1>3, EventsAreEvents, ScheduledTogether
<1> QED BY <1>2, <1>3 DEF Scheduling

LEMMA TimesAreNumbers ==
  /\ ServiceTimes \subseteq Nat \ {0} /\ NodeTimeout \in Nat /\ MaxAttempts \in Nat
  /\ RetryDelay \in Nat /\ Hop \in Nat \ {0} /\ Arrivals \subseteq Nat /\ Budgets \subseteq Nat
BY LifecycleAssumption

\* A service's completion is an event, and no attempt on its way.
LEMMA CompletionIsEvent ==
  ASSUME LifeTypes, now \in Nat, NEW r \in Requests, NEW service \in ServiceTimes
  PROVE  CompletionEvent(r, service) \in AnyEvent
         /\ CompletionEvent(r, service).type = "processing-complete"
BY TimesAreNumbers DEF LifeTypes, CompletionEvent, Event, AnyEvent

LEMMA SchedulingService ==
  ASSUME LifeTypes, events # <<>>, TypeOK, TypeOK', NEW e \in AnyEvent \cup {NoEvent},
         ScheduleService(e)
  PROVE  Scheduling(<<e>>)
<1>1. CASE events' = Schedule(Tail(events), e)
  BY <1>1, SchedulingOne
<1>2. ASSUME NEW r \in Started, NEW service \in ServiceTimes,
             events' = Schedule(Schedule(Tail(events), CompletionEvent(r, service)), e)
      PROVE  Scheduling(<<e>>)
  <2>1. r \in Requests
    BY DEF Started, Elements, TypeOK
  <2>2. PICK c \in AnyEvent : c = CompletionEvent(r, service) /\ c.type = "processing-complete"
    BY <2>1, CompletionIsEvent DEF TypeOK
  <2>3. Tail(events) \in Seq(AnyEvent) /\ (Sorted(events) => Sorted(Tail(events)))
    BY HeadTaken DEF LifeTypes
  <2>4. PICK q : q = Schedule(Tail(events), c) /\ events' = Schedule(q, e)
    BY <1>2, <2>2
  <2>5. q \in Seq(AnyEvent) /\ events' \in Seq(AnyEvent) /\ (Sorted(events) => Sorted(events'))
    <3>1. PICK E : E = {} /\ NoEvent \notin E
      OBVIOUS
    <3>2. q \in Seq(AnyEvent) /\ (Sorted(Tail(events)) => Sorted(q))
      BY <2>3, <2>4, <3>1, EventsAreEvents, Scheduled
    <3>3. events' \in Seq(AnyEvent) /\ (Sorted(q) => Sorted(events'))
      BY <2>4, <3>1, <3>2, EventsAreEvents, Scheduled
    <3> QED BY <2>3, <3>2, <3>3
  <2>6. ASSUME NEW E, NoEvent \notin E, \A f \in E : f.type # "processing-complete"
        PROVE  /\ None(Tail(events), E) /\ None(<<e>>, E) => None(events', E)
               /\ One(Tail(events), E) /\ None(<<e>>, E) => One(events', E)
               /\ None(Tail(events), E) /\ One(<<e>>, E) => One(events', E)
               /\ None(events', E) => None(Tail(events), E) /\ None(<<e>>, E)
    <3>1. c \notin E
      BY <2>2, <2>6
    <3>2. /\ None(Tail(events), E) <=> None(q, E)
          /\ One(Tail(events), E) => One(q, E)
      BY <2>3, <2>4, <2>6, <3>1, EventsAreEvents, Scheduled
    <3>3. /\ None(q, E) /\ e \notin E => None(events', E)
          /\ None(q, E) /\ e \in E => One(events', E)
          /\ One(q, E) /\ e \notin E => One(events', E)
          /\ None(events', E) => None(q, E) /\ e \notin E
      BY <2>4, <2>5, <2>6, EventsAreEvents, Scheduled
    <3> QED BY <3>2, <3>3, Single
  <2> QED BY <2>5, <2>6 DEF Scheduling
<1> QED BY <1>1, <1>2 DEF ScheduleService

LEMMA SchedulingServices ==
  ASSUME LifeTypes, events # <<>>, TypeOK, TypeOK', NEW others \in Seq(AnyEvent \cup {NoEvent}),
         SubSeq(inService', Len(inService) + 1, Len(inService')) \in Seq(Started),
         ScheduleServices(others)
  PROVE  Scheduling(others)
<1> DEFINE starting == SubSeq(inService', Len(inService) + 1, Len(inService'))
           Offered == AnyEvent \cup {NoEvent}
<1>1. starting \in Seq(Started) /\ Started \subseteq Requests
  <2>1. inService' \in Seq(Requests)
    BY DEF TypeOK
  <2>2. Started \subseteq Requests
    BY <2>1 DEF Started, Elements
  <2> QED BY <2>2
<1> HIDE DEF starting
<1>2. PICK service \in [Started -> ServiceTimes] :
         events' \in ScheduleAll(Tail(events),
             [i \in DOMAIN starting |-> CompletionEvent(starting[i], service[starting[i]])] \o others)
  BY DEF ScheduleServices, starting
<1> DEFINE cs == [i \in DOMAIN starting |-> CompletionEvent(starting[i], service[starting[i]])]
<1>3. \A i \in DOMAIN starting :
         cs[i] \in AnyEvent /\ cs[i].type = "processing-complete"
  <2> TAKE i \in DOMAIN starting
  <2>1. starting[i] \in Started /\ service[starting[i]] \in ServiceTimes
    BY <1>1
  <2> QED BY <1>1, <2>1, CompletionIsEvent DEF TypeOK
<1>4. DOMAIN starting = 1 .. Len(starting) /\ Len(starting) \in Nat
  BY <1>1
<1> HIDE DEF cs
<1>5. DOMAIN cs = DOMAIN starting /\ cs \in Seq(AnyEvent) /\ cs \in Seq(Offered)
  <2>1. cs = [i \in 1 .. Len(starting) |-> cs[i]]
    BY <1>4 DEF cs
  <2> QED BY <1>3, <1>4, <2>1
<1>6. cs \o others \in Seq(Offered)
  BY <1>5, ConcatType
<1>7. events' \in ScheduleAll(Tail(events), cs \o others)
  BY <1>2 DEF cs
<1>8. Scheduling(cs \o others)
  BY <1>6, <1>7, SchedulingAll
<1>9. ASSUME NEW E, \A e \in E : e.type # "processing-complete"
      PROVE  /\ None(others, E) <=> None(cs \o others, E)
             /\ One(others, E) => One(cs \o others, E)
  <2>1. None(cs, E)
    BY <1>3, <1>5, <1>9 DEF None
  <2> QED BY <1>5, <2>1, JoinedCounts DEF One
<1> QED BY <1>8, <1>9 DEF Scheduling

-----------------------------------------------------------------------------
(* Retries *)

\* A retry carries the next attempt of its request, at its present generation.
LEMMA RetryCarries ==
  ASSUME LifeTypes, now \in Nat, NEW r \in Requests, NEW g \in Nat
  PROVE  /\ RetryEvent(r, g) \in Carriers(r)
         /\ RetryEvent(r, g).type = "request-timeout" => RetryEvent(r, g).gen = g
         /\ RetryEvent(r, g).at \in Nat /\ RetryEvent(r, g).at <= deadline[r]
<1> DEFINE at == now + RetryDelay + Hop
<1>1. at \in Nat /\ deadline[r] \in Nat
  BY TimesAreNumbers DEF LifeTypes
<1>2. CASE deadline[r] <= at
  BY <1>1, <1>2 DEF RetryEvent, TimeoutEvent, Carriers, CarriesAttempt, AnyEvent
<1>3. CASE ~(deadline[r] <= at)
  BY <1>1, <1>3 DEF RetryEvent, Event, Carriers, CarriesAttempt, AnyEvent
<1> QED BY <1>2, <1>3

\* An event carries one request's attempt only.
LEMMA CarriersApart ==
  ASSUME NEW r, NEW o, r # o
  PROVE  Carriers(r) \cap Carriers(o) = {}
BY DEF Carriers

LEMMA NoFaultCarries ==
  ASSUME NEW r
  PROVE  Carriers(r) \cap FaultEvent = {}
BY DEF Carriers, CarriesAttempt, FaultEvent

LEMMA NextAttemptCarries ==
  ASSUME LifeTypes, timeoutSeq' \in [Requests -> Nat], deadline' = deadline, now \in Nat,
         NEW r \in Requests, NEW retryable
  PROVE  /\ NextAttempt(r, retryable) \in AnyEvent \cup {NoEvent}
         /\ retryable /\ CanRetry(r) => /\ NextAttempt(r, retryable) \in Carriers(r)
                                        /\ NextAttempt(r, retryable) \notin Overtaken(r)'
         /\ ~(retryable /\ CanRetry(r)) => NextAttempt(r, retryable) = NoEvent
         /\ NextAttempt(r, retryable) \notin FaultEvent
<1>1. timeoutSeq'[r] \in Nat /\ deadline[r] \in Nat
  BY DEF LifeTypes
<1>2. RetryEvent(r, timeoutSeq'[r]) \in Carriers(r) \ Overtaken(r)'
  BY <1>1, RetryCarries DEF Overtaken
<1>3. NextAttempt(r, retryable) \notin FaultEvent
  BY <1>2, NoFaultCarries, EventsAreEvents DEF NextAttempt, FaultEvent, Events
<1> QED BY <1>2, <1>3 DEF NextAttempt, Carriers

LEMMA NextAttemptsTyped ==
  ASSUME LifeTypes, timeoutSeq' \in [Requests -> Nat], deadline' = deadline, now \in Nat,
         NEW F \in SUBSET Requests, NEW failed, Lists(failed, F)
  PROVE  /\ NextAttempts(failed) \in Seq(AnyEvent \cup {NoEvent})
         /\ None(NextAttempts(failed), FaultEvent)
<1>1. /\ DOMAIN failed = 1 .. Len(failed) /\ Len(failed) \in Nat
      /\ \A i \in DOMAIN failed : failed[i] \in Requests
  BY DEF Lists
<1>2. PICK new : new = NextAttempts(failed)
  OBVIOUS
<1>3. new = [i \in 1 .. Len(failed) |-> NextAttempt(failed[i], TRUE)]
  BY <1>1, <1>2 DEF NextAttempts
<1>4. \A i \in 1 .. Len(failed) : new[i] \in AnyEvent \cup {NoEvent} /\ new[i] \notin FaultEvent
  BY <1>1, <1>3, NextAttemptCarries
<1>5. new = [i \in 1 .. Len(failed) |-> new[i]]
  BY <1>3
<1>6. None(new, FaultEvent)
  BY <1>3, <1>4 DEF None
<1> QED BY <1>1, <1>2, <1>4, <1>5, <1>6

\* Those of the requests in failed that may be retried are on their way again, once.
LEMMA NextAttemptsCarry ==
  ASSUME LifeTypes, timeoutSeq' \in [Requests -> Nat], deadline' = deadline, now \in Nat,
         NEW F \in SUBSET Requests, NEW failed, Lists(failed, F), NEW r \in Requests
  PROVE  /\ r \in F /\ CanRetry(r) => /\ One(NextAttempts(failed), Carriers(r))
                                      /\ None(NextAttempts(failed), Overtaken(r)')
         /\ ~(r \in F /\ CanRetry(r)) => None(NextAttempts(failed), Carriers(r))
<1> DEFINE new == NextAttempts(failed)
<1>1. /\ failed \in Seq(F) /\ DOMAIN failed = 1 .. Len(failed) /\ Len(failed) \in Nat
      /\ \A i \in DOMAIN failed : failed[i] \in F /\ failed[i] \in Requests
      /\ \A i, j \in DOMAIN failed : failed[i] = failed[j] => i = j
      /\ \A x \in F : \E i \in DOMAIN failed : failed[i] = x
  BY DEF Lists, Distinct, Elements
<1>2. /\ new = [i \in 1 .. Len(failed) |-> NextAttempt(failed[i], TRUE)]
      /\ DOMAIN new = DOMAIN failed
      /\ \A i \in DOMAIN failed : new[i] = NextAttempt(failed[i], TRUE)
  BY <1>1 DEF NextAttempts
<1> HIDE DEF new
<1>3. ASSUME NEW i \in DOMAIN failed
      PROVE  /\ new[i] \in AnyEvent \cup {NoEvent}
             /\ CanRetry(failed[i]) => new[i] \in Carriers(failed[i]) \ Overtaken(failed[i])'
             /\ ~CanRetry(failed[i]) => new[i] = NoEvent
  BY <1>1, <1>2, NextAttemptCarries
<1>4. NoEvent \notin Carriers(r) /\ Overtaken(r)' \subseteq Carriers(r)
  BY EventsAreEvents DEF Events, Carriers, Overtaken
<1>5. ASSUME NEW i \in DOMAIN failed, new[i] \in Carriers(r)
      PROVE  failed[i] = r /\ CanRetry(r) /\ r \in F /\ new[i] \notin Overtaken(r)'
  <2>1. CanRetry(failed[i]) /\ new[i] \in Carriers(failed[i]) \ Overtaken(failed[i])'
    BY <1>3, <1>4, <1>5
  <2>2. failed[i] = r
    BY <1>5, <2>1, CarriersApart
  <2>3. PICK o : o = failed[i]
    OBVIOUS
  <2> QED BY <1>1, <2>1, <2>2
<1>6. Few(new, Carriers(r))
  BY <1>1, <1>2, <1>5 DEF Few
<1>7. None(new, Overtaken(r)')
  BY <1>2, <1>4, <1>5 DEF None
<1>8. ~(r \in F /\ CanRetry(r)) => None(new, Carriers(r))
  BY <1>2, <1>5 DEF None
<1>9. ASSUME r \in F, CanRetry(r) PROVE ~None(new, Carriers(r))
  <2>1. PICK i \in DOMAIN failed : failed[i] = r
    BY <1>1, <1>9
  <2>2. new[i] \in Carriers(r)
    BY <1>3, <1>9, <2>1
  <2> QED BY <1>2, <2>2 DEF None
<1> QED BY <1>6, <1>7, <1>8, <1>9 DEF One, new

\* Attempts end one way or the other, and the others' go on.
LEMMA AttemptsEnd ==
  ASSUME LifeTypes, NEW F \in SUBSET Requests, NEW failed, Elements(failed) = F,
         NEW retryable, NEW result \in {"timeout", "rejected", "connection_reset"},
         EndAttempts(failed, retryable, result)
  PROVE  /\ retryCount' \in [Requests -> Nat]
         /\ outcome' \in [Requests -> {"pending", "success", "timeout", "rejected",
                                       "connection_reset"}]
         /\ \A r \in Requests \ F : outcome'[r] = outcome[r]
         /\ \A r \in F : retryable /\ CanRetry(r) => outcome'[r] = outcome[r]
         /\ \A r \in F : ~(retryable /\ CanRetry(r)) => outcome'[r] # "pending"
<1> DEFINE retried == {r \in F : retryable /\ CanRetry(r)}
<1>1. /\ retryCount' = [r \in Requests |->
           IF r \in retried THEN retryCount[r] + 1 ELSE retryCount[r]]
      /\ outcome' = [r \in Requests |-> IF r \in F \ retried THEN result ELSE outcome[r]]
  BY DEF EndAttempts
<1> QED BY <1>1 DEF LifeTypes

-----------------------------------------------------------------------------
(* Where the attempt of a request is *)

Attempt(r) ==
  /\ Ended(r) => r \notin Here
  /\ ~Ended(r) /\ r \in Here => None(events, Carriers(r))
  /\ ~Ended(r) /\ r \notin Here => One(events, Carriers(r)) /\ None(events, Overtaken(r))
  /\ ~Ended(r) /\ r \notin Overwritten /\ NodeTimeout # 0 =>
       now <= deadline[r] /\ (r \in Here => ~None(events, Guards(r)))

Seated == \E L : SeatInv(L)
LifeInv == LifeTypes /\ Sorted(events) /\ Seated /\ \A r \in Requests : Attempt(r)

LEMMA CarriersComplete ==
  ASSUME NEW r
  PROVE  /\ NoEvent \notin Carriers(r) /\ \A e \in Carriers(r) : e.type # "processing-complete"
         /\ NoEvent \notin Overtaken(r) /\ \A e \in Overtaken(r) : e.type # "processing-complete"
         /\ Overtaken(r) \subseteq Carriers(r)
         /\ NoEvent \notin Guards(r) /\ \A e \in Guards(r) : e.type # "processing-complete"
BY EventsAreEvents DEF Events, Carriers, Overtaken, Guards, CarriesAttempt

\* What happens to others leaves an attempt where it is.
LEMMA AttemptStays ==
  ASSUME LifeTypes, events # <<>>, NEW r \in Requests, Attempt(r),
         NEW others, Scheduling(others), None(others, Carriers(r)),
         Head(events) \notin Carriers(r),
         r \in Here \ Overwritten => Head(events) \notin Guards(r),
         r \in Overwritten => r \in Overwritten',
         outcome'[r] = outcome[r], timeoutSeq'[r] = timeoutSeq[r], r \in Here' <=> r \in Here,
         deadline' = deadline, now' = now
  PROVE  Attempt(r)'
<1>1. Overtaken(r)' = Overtaken(r) /\ Guards(r)' = Guards(r)
  BY DEF Overtaken, Guards
<1>2. None(others, Overtaken(r))
  BY CarriersComplete DEF None
<1>3. /\ None(Tail(events), Carriers(r)) => None(events', Carriers(r))
      /\ One(Tail(events), Carriers(r)) => One(events', Carriers(r))
      /\ None(Tail(events), Overtaken(r)) => None(events', Overtaken(r))
      /\ None(events', Guards(r)) => None(Tail(events), Guards(r))
  BY <1>2, CarriersComplete DEF Scheduling
<1>4. /\ None(events, Carriers(r)) => None(Tail(events), Carriers(r))
      /\ One(events, Carriers(r)) => One(Tail(events), Carriers(r))
      /\ None(events, Overtaken(r)) => None(Tail(events), Overtaken(r))
  BY HeadTaken DEF LifeTypes
<1>5. r \in Here \ Overwritten /\ None(Tail(events), Guards(r)) => None(events, Guards(r))
  BY HeadTaken DEF LifeTypes
<1> QED BY <1>1, <1>3, <1>4, <1>5 DEF Attempt, Ended

\* An attempt whose event is in hand is nowhere else, and one in the node on no way.
LEMMA InHandOnly ==
  ASSUME LifeTypes, events # <<>>, NEW r \in Requests, Attempt(r), ~Ended(r),
         Head(events) \in Carriers(r) \/ r \in Here
  PROVE  /\ None(Tail(events), Carriers(r))
         /\ Head(events) \in Carriers(r) => r \notin Here /\ Head(events) \notin Overtaken(r)
         /\ NodeTimeout # 0 /\ r \notin Overwritten => now <= deadline[r]
         /\ Head(events) \in Carriers(r) => r \notin Overwritten
BY HeadTaken DEF LifeTypes, Attempt, Overwritten, Here

\* It comes to the node.
LEMMA AttemptArrives ==
  ASSUME LifeTypes, NEW r \in Requests, None(Tail(events), Carriers(r)),
         NEW others, Scheduling(others), None(others, Carriers(r)), ~Ended(r)', r \in Here',
         NodeTimeout # 0 => ~None(others, Guards(r)') /\ (now <= deadline[r])'
  PROVE  Attempt(r)'
<1>1. None(events', Carriers(r))
  BY CarriersComplete DEF Scheduling
<1>2. NodeTimeout # 0 => ~None(events', Guards(r)')
  <2>1. PICK E : E = Guards(r)' /\ NoEvent \notin E /\ \A e \in E : e.type # "processing-complete"
    BY EventsAreEvents DEF Events, Guards
  <2> QED BY <2>1 DEF Scheduling
<1> QED BY <1>1, <1>2 DEF Attempt

\* It goes on, with one event that carries it.
LEMMA AttemptGoesOn ==
  ASSUME NEW r \in Requests, None(Tail(events), Carriers(r)),
         NEW others, Scheduling(others), One(others, Carriers(r)), None(others, Overtaken(r)'),
         r \notin Here', NodeTimeout # 0 => (now <= deadline[r])'
  PROVE  Attempt(r)'
<1>1. One(events', Carriers(r))
  BY CarriersComplete DEF Scheduling
<1>2. None(Tail(events), Overtaken(r)')
  BY CarriersComplete DEF None, Overtaken
<1>3. None(events', Overtaken(r)')
  <2>1. PICK E : E = Overtaken(r)' /\ NoEvent \notin E /\ \A e \in E : e.type # "processing-complete"
    BY CarriersComplete DEF Overtaken
  <2> QED BY <1>2, <2>1 DEF Scheduling
<1> QED BY <1>1, <1>3 DEF Attempt

\* It ends.
LEMMA AttemptOver ==
  ASSUME NEW r \in Requests, Ended(r)', r \notin Here'
  PROVE  Attempt(r)'
BY DEF Attempt

-----------------------------------------------------------------------------
(* What the calls into the node do to who is here *)

\* The strays are those whose frozen record was overwritten.
LEMMA StraysOverwritten ==
  ASSUME NEW L
  PROVE  (Placed(L) => L = Overwritten) /\ (Placed(L)' => L = Overwritten')
BY DEF Placed, InPlace, Apart, Here, Overwritten, NotFound

\* The calls of the handlers keep the places, with faults that overlap or without, and
\* find no overwritten request again.
LEMMA SeatedCall ==
  ASSUME Seated,
         \/ UNCHANGED vars
         \/ \E r \in Requests : HandleArrival(r) \/ HandleCompletion(r) \/ CancelRequest(r)
         \/ \E spec \in FailureSpecs : Strikes(spec)
         \/ Recover
  PROVE  Seated' /\ Overwritten \subseteq Overwritten'
<1>1. PICK L : SeatInv(L)
  BY DEF Seated
<1>2. IInv'
  <2>1. CASE \E spec \in FailureSpecs : Strikes(spec)
    BY <1>1, <2>1, FailStep DEF SeatInv
  <2>2. CASE ~\E spec \in FailureSpecs : Strikes(spec)
    BY <1>1, <2>2, NextInv DEF SeatInv, Next, Call
  <2> QED BY <2>1, <2>2
<1>3. FaultStands'
  BY <1>1, FaultStays DEF SeatInv, Next, Call
<1>4. \E M : L \subseteq M /\ Placed(M)'
  <2>1. CASE UNCHANGED vars
    <3>1. PICK Q, S, H : InPlace(Q, S, H, L)
      BY <1>1, PlacesNow
    <3>2. /\ queue' = queue /\ inService' = inService /\ heldHang' = heldHang
          /\ heldBlackhole' = heldBlackhole /\ Here' = Here
      BY <2>1 DEF vars, serving, held, Here
    <3>3. Placed(L)'
      BY <3>1, <3>2, PlacesNext DEF InPlace
    <3> QED BY <3>3
  <2>2. ASSUME NEW r \in Requests, HandleArrival(r) \/ HandleCompletion(r) \/ CancelRequest(r)
        PROVE  Placed(L)'
    BY <1>1, <2>2, ArrivePlaces, LeavePlaces, CancelPlaces DEF HandleCompletion
  <2>3. ASSUME NEW spec \in FailureSpecs, Strikes(spec)
        PROVE  \E M : L \subseteq M /\ Placed(M)'
    BY <1>1, <2>3, FailPlaces
  <2>4. ASSUME Recover PROVE Placed(L)'
    BY <1>1, <2>4, RecoverPlaces
  <2> QED BY <2>1, <2>2, <2>3, <2>4
<1>5. Overwritten \subseteq Overwritten'
  <2>1. Placed(L)
    BY <1>1 DEF SeatInv
  <2> QED BY <1>4, <2>1, StraysOverwritten
<1> QED BY <1>2, <1>3, <1>4, <1>5 DEF Seated, SeatInv

LEMMA CallTakesNoTime ==
  ASSUME \/ UNCHANGED vars
         \/ \E r \in Requests : HandleArrival(r) \/ HandleCompletion(r) \/ CancelRequest(r)
         \/ \E spec \in FailureSpecs : Strikes(spec)
         \/ Recover
  PROVE  now' = now
<1>1. ASSUME NEW r \in Requests, HandleCompletion(r) PROVE now' = now
  BY <1>1 DEF HandleCompletion, LeaveService
<1>2. ASSUME NEW r \in Requests, HandleArrival(r) PROVE now' = now
  BY <1>2 DEF HandleArrival, ArriveFailed, ArriveServed, ArriveQueued
<1>3. ASSUME NEW r \in Requests, CancelRequest(r) PROVE now' = now
  BY <1>1, <1>3 DEF CancelRequest, CancelBlackhole, CancelHang, CancelQueued, CancelInService
<1>4. ASSUME NEW spec, Strikes(spec) PROVE now' = now
  BY <1>4 DEF Strikes, FailDegraded, FailReset, FailHang
<1>5. ASSUME Recover PROVE now' = now
  BY <1>5 DEF Recover, RecoverDegraded, RecoverReset, RecoverResume
<1> QED BY <1>1, <1>2, <1>3, <1>4, <1>5 DEF vars

LEMMA SeatedClock ==
  ASSUME Seated, LifeTypes, AdvanceClock
  PROVE  Seated'
<1>1. PICK L : SeatInv(L)
  BY DEF Seated
<1>2. now' \in Nat
  BY HeadTaken DEF AdvanceClock, LifeTypes, AnyEvent
<1>3. IInv' /\ FaultStands'
  BY <1>1, <1>2
     DEF AdvanceClock, SeatInv, IInv, TypeOK, WorkersInStep, WithinCeilings, InSystem,
         FailedHoldsNoWork, WorkConserving, StatusAccurate, StatusOf, FaultStands, serving,
         held, ceilings, targets
<1>4. PICK Q, S, H : InPlace(Q, S, H, L)
  BY <1>1, PlacesNow
<1>5. /\ queue' = queue /\ inService' = inService /\ heldHang' = heldHang
      /\ heldBlackhole' = heldBlackhole /\ Here' = Here
  BY DEF AdvanceClock, serving, held, Here
<1>6. Placed(L)'
  BY <1>4, <1>5, PlacesNext DEF InPlace
<1> QED BY <1>3, <1>6 DEF Seated, SeatInv

\* Whoever waits, is served or is frozen is here, once.
LEMMA SeatedAreHere ==
  ASSUME Seated
  PROVE  /\ TypeOK
         /\ Lists(queue \o inService, Elements(queue \o inService))
         /\ Elements(queue \o inService) = Elements(queue) \cup Elements(inService)
         /\ Lists(inService, Elements(inService)) /\ Lists(heldHang, Elements(heldHang))
         /\ Elements(queue \o inService) \subseteq Here \ Overwritten
         /\ Elements(inService) \subseteq Here \ Overwritten
         /\ Elements(heldHang) \subseteq Here \ Overwritten
         /\ \A r \in Requests \ Here : NotFound(r)
<1>1. PICK L : SeatInv(L)
  BY DEF Seated
<1>2. PICK Q, S, H : InPlace(Q, S, H, L)
  BY <1>1, PlacesNow
<1>3. Lists(queue \o inService, Q \cup S)
  BY <1>2, ListsJoined DEF InPlace, Apart
<1>4. Elements(queue) = Q /\ Elements(inService) = S /\ Elements(heldHang) = H
      /\ Elements(queue \o inService) = Q \cup S
  BY <1>2, <1>3 DEF InPlace, Lists
<1>5. /\ Q \cup S \cup H \cup heldBlackhole \subseteq Here
      /\ (Q \cup S \cup H) \cap Overwritten = {}
  BY <1>2, <1>4 DEF InPlace, Overwritten, NotFound
<1>6. \A r \in Requests \ Here : NotFound(r)
  BY <1>4, <1>5 DEF NotFound
<1> QED BY <1>1, <1>2, <1>3, <1>4, <1>5, <1>6, PlacesNow DEF InPlace

LEMMA DeparturesHere ==
  ASSUME TypeOK, NEW r \in Requests
  PROVE  /\ HandleArrival(r) => r \notin Here /\ Here' = Here \cup {r}
         /\ HandleCompletion(r) => Here' = Here \ {r}
         /\ CancelRequest(r) => Here' = Here \ {r}
<1>1. HandleArrival(r) => Admit(r)
  BY DEF HandleArrival, ArriveFailed, ArriveServed, ArriveQueued
<1>2. HandleCompletion(r) => Forget(r)
  BY DEF HandleCompletion, LeaveService, Forget
<1>3. CancelRequest(r) => Forget(r)
  BY <1>2 DEF CancelRequest, CancelBlackhole, CancelHang, CancelQueued, CancelInService
<1> QED BY <1>1, <1>2, <1>3, ForgetHere, AdmitHere DEF Admit, Here

LEMMA FaultHere ==
  ASSUME TypeOK, NEW spec
  PROVE  /\ FailDegraded(spec) \/ FailHang(spec) => Here' = Here
         /\ FailReset(spec) => Here' = Here \ (Elements(queue) \cup Elements(inService))
BY DEF TypeOK, Here, FailDegraded, FailHang, FailReset

LEMMA RecoveryHere ==
  ASSUME TypeOK
  PROVE  /\ RecoverDegraded \/ RecoverResume => Here' = Here
         /\ RecoverReset => Here' = Here \ Elements(heldHang)
BY DEF TypeOK, Here, RecoverDegraded, RecoverReset, RecoverResume

\* A recovery starts requests behind those in service, none of them again.
LEMMA RecoveryStarts ==
  ASSUME Seated, Seated', Recover
  PROVE  SubSeq(inService', Len(inService) + 1, Len(inService')) \in Seq(Started)
<1>1. inService \in Seq(Requests) /\ inService' \in Seq(Requests) /\ Distinct(inService')
  <2>1. PICK L : SeatInv(L)'
    BY DEF Seated
  <2>2. TypeOK' /\ Distinct(inService')
    BY <2>1 DEF SeatInv, IInv, Placed, InPlace, Lists
  <2> QED BY <2>2, SeatedAreHere DEF TypeOK
<1>2. \E t \in Seq(Requests) : inService' = inService \o t
  <2>1. CASE inService' = inService
    <3>1. <<>> \in Seq(Requests) /\ inService' = inService \o <<>>
      BY <1>1, <2>1
    <3> QED BY <3>1
  <2>2. CASE RecoverResume
    <3>1. PICK waiting \in ServiceOrder(heldHang) : Pump(waiting, inService, maxWorkers)
      BY <2>2 DEF RecoverResume
    <3>2. waiting \in Seq(Requests) /\ Len(waiting) \in Nat
      BY <3>1, SeatedAreHere, SortedByType DEF ServiceOrder, TypeOK
    <3>3. \E n \in 0 .. Len(waiting) : inService' = inService \o SubSeq(waiting, 1, n)
      <4>1. maxWorkers \in Nat /\ Len(inService) \in Nat
        BY <1>1, SeatedAreHere DEF TypeOK
      <4> QED BY <3>1, <3>2, <4>1, PumpMoves
    <3>4. \A n \in 0 .. Len(waiting) : SubSeq(waiting, 1, n) \in Seq(Requests)
      BY <3>2, StretchType
    <3> QED BY <3>3, <3>4
  <2> QED BY <2>1, <2>2 DEF Recover, RecoverDegraded, RecoverReset, serving
<1>3. PICK t \in Seq(Requests) : inService' = inService \o t
  BY <1>2
<1>4. /\ Len(inService') = Len(inService) + Len(t) /\ Len(t) \in Nat /\ Len(inService) \in Nat
      /\ \A i \in 1 .. Len(inService) : inService'[i] = inService[i]
      /\ DOMAIN inService' = 1 .. Len(inService') /\ DOMAIN inService = 1 .. Len(inService)
  BY <1>1, <1>3
<1>5. \A i \in Len(inService) + 1 .. Len(inService') : inService'[i] \in Started
  <2> TAKE i \in Len(inService) + 1 .. Len(inService')
  <2>1. i \in DOMAIN inService' /\ \A j \in DOMAIN inService : j # i /\ j \in DOMAIN inService'
    BY <1>4
  <2>2. \A j \in DOMAIN inService : inService[j] # inService'[i]
    BY <1>1, <1>4, <2>1 DEF Distinct
  <2> QED BY <2>1, <2>2 DEF Started, Elements
<1> DEFINE n == Len(inService)
           u == SubSeq(inService', n + 1, Len(inService'))
<1>6. /\ Len(u) = Len(inService') - n
      /\ \A i \in 1 .. Len(inService') - n : u[i] = inService'[i + n]
      /\ u \in Seq(Requests)
  BY <1>1, <1>4, RestOf
<1> QED BY <1>4, <1>5, <1>6

-----------------------------------------------------------------------------
(* Every handler keeps each pending request's attempt *)

LEMMA SeatedTypes == Seated => TypeOK /\ (Seated' => TypeOK')
BY DEF Seated, SeatInv, IInv

\* Only these carry an attempt, and the request it is the attempt of.
LEMMA CarryingHead ==
  ASSUME LifeTypes, events # <<>>
  PROVE  /\ Head(events) \in AnyEvent
         /\ CarriesAttempt(Head(events)) => /\ Head(events).req \in Requests
                                            /\ Head(events) \in Carriers(Head(events).req)
         /\ Head(events).type \in {"processing-complete", "request-timeout"} =>
              Head(events).req \in Requests
         /\ \A r : Head(events) \in Carriers(r) =>
              CarriesAttempt(Head(events)) /\ Head(events).req = r
         /\ \A r : Head(events) \in Guards(r) =>
              /\ Head(events).type = "request-timeout" /\ Head(events).scope = "node"
              /\ Head(events).req = r /\ Head(events).gen = timeoutSeq[r]
<1>1. PICK e : e = Head(events) /\ e \in AnyEvent
  BY HeadTaken DEF LifeTypes
<1> QED BY <1>1 DEF Carriers, Guards, CarriesAttempt, AnyEvent

LEMMA TypesKept ==
  ASSUME LifeTypes, NEW others, Scheduling(others), UNCHANGED bookkeeping
  PROVE  LifeTypes'
BY DEF LifeTypes, Scheduling, bookkeeping

LEMMA SchedulingNothing ==
  ASSUME LifeTypes, events # <<>>, events' = Tail(events)
  PROVE  /\ Scheduling(<<NoEvent>>)
         /\ \A r : None(<<NoEvent>>, Carriers(r))
<1>1. events' = Schedule(Tail(events), NoEvent)
  BY DEF Schedule
<1>2. Scheduling(<<NoEvent>>)
  BY <1>1, SchedulingOne
<1> QED BY <1>2, Single, CarriersComplete

\* An event that carries no pending request's attempt may be dropped.
LEMMA Dropped ==
  ASSUME LifeInv, events # <<>>, events' = Tail(events), UNCHANGED <<vars, bookkeeping>>,
         \A r \in Requests : Head(events) \in Carriers(r) => Ended(r),
         \A r \in Here \ Overwritten : Head(events) \in Guards(r) => Ended(r)
  PROVE  LifeInv'
<1>1. LifeTypes /\ Scheduling(<<NoEvent>>) /\ \A r : None(<<NoEvent>>, Carriers(r))
  BY SchedulingNothing DEF LifeInv
<1>2. LifeTypes' /\ Sorted(events)'
  BY <1>1, TypesKept DEF LifeInv, Scheduling
<1>3. Seated' /\ Overwritten \subseteq Overwritten'
  BY SeatedCall DEF LifeInv
<1>4. /\ outcome' = outcome /\ timeoutSeq' = timeoutSeq /\ Here' = Here
      /\ deadline' = deadline /\ now' = now
  BY DEF vars, bookkeeping, Here
<1>5. ASSUME NEW r \in Requests PROVE Attempt(r)'
  <2>1. Attempt(r)
    BY DEF LifeInv
  <2>2. CASE Ended(r)
    BY <1>4, <2>1, <2>2 DEF Attempt, Ended
  <2>3. CASE ~Ended(r)
    <3>1. /\ Head(events) \notin Carriers(r)
          /\ r \in Here \ Overwritten => Head(events) \notin Guards(r)
      BY <2>3
    <3> QED BY <1>1, <1>3, <1>4, <2>1, <3>1, AttemptStays
  <2> QED BY <2>2, <2>3
<1> QED BY <1>2, <1>3, <1>5 DEF LifeInv

LEMMA StaleKeeps ==
  ASSUME LifeInv, HandleStaleEvent
  PROVE  LifeInv'
<1>1. events # <<>> /\ events' = Tail(events) /\ UNCHANGED <<vars, bookkeeping>>
  BY DEF HandleStaleEvent, DropEvent
<1>2. ASSUME NEW r \in Requests, Head(events) \in Carriers(r) PROVE Ended(r)
  <2>1. CarriesAttempt(Head(events)) /\ Head(events).req = r
    BY <1>1, <1>2, CarryingHead DEF LifeInv
  <2>2. CASE ~Ended(r)
    <3>1. Head(events) \notin Overtaken(r)
      BY <1>1, <1>2, <2>2, InHandOnly DEF LifeInv
    <3>2. ~(Head(events).type = "request-timeout" /\ Head(events).gen # timeoutSeq[r])
      BY <1>2, <3>1 DEF Overtaken
    <3> QED BY <2>1, <2>2, <3>2 DEF HandleStaleEvent, CarriesAttempt
  <2> QED BY <2>2
<1>3. ASSUME NEW r \in Requests, Head(events) \in Guards(r) PROVE Ended(r)
  <2>1. /\ Head(events).type = "request-timeout"
        /\ Head(events).req = r /\ Head(events).gen = timeoutSeq[r]
    BY <1>1, <1>3, CarryingHead DEF LifeInv
  <2> QED BY <2>1 DEF HandleStaleEvent
<1>4. \A r \in Here \ Overwritten : Head(events) \in Guards(r) => Ended(r)
  BY <1>3 DEF Here
<1> QED BY <1>1, <1>2, <1>4, Dropped

\* Requests that nothing is done to keep their attempts.
LEMMA OthersStay ==
  ASSUME LifeInv, events # <<>>, LifeTypes', Seated', Overwritten \subseteq Overwritten',
         NEW others, Scheduling(others), deadline' = deadline, now' = now,
         NEW F, \A r \in Requests \cap F : Attempt(r)',
         \A o \in Requests \ F :
           /\ Head(events) \notin Carriers(o) /\ Head(events) \notin Guards(o)
           /\ None(others, Carriers(o))
           /\ outcome'[o] = outcome[o] /\ timeoutSeq'[o] = timeoutSeq[o]
           /\ o \in Here' <=> o \in Here
  PROVE  LifeInv'
<1>1. ASSUME NEW o \in Requests \ F PROVE Attempt(o)'
  <2>1. /\ Attempt(o) /\ Head(events) \notin Carriers(o) /\ Head(events) \notin Guards(o)
        /\ None(others, Carriers(o))
        /\ outcome'[o] = outcome[o] /\ timeoutSeq'[o] = timeoutSeq[o]
        /\ o \in Here' <=> o \in Here
    BY DEF LifeInv
  <2> QED BY <2>1, AttemptStays DEF LifeInv
<1>2. Sorted(events)'
  BY DEF LifeInv, Scheduling
<1> QED BY <1>1, <1>2 DEF LifeInv

LEMMA ArrivalKeeps ==
  ASSUME LifeInv, HandleRequestArrival
  PROVE  LifeInv'
<1>0. PICK r : r = Head(events).req
  OBVIOUS
<1>1. events # <<>> /\ LifeTypes /\ Seated /\ ~Ended(r) /\ CarriesAttempt(Head(events))
  BY <1>0 DEF HandleRequestArrival, InHand, LifeInv, CarriesAttempt
<1>2. /\ r \in Requests /\ Head(events) \in Carriers(r)
      /\ \A o \in Requests \ {r} : Head(events) \notin Carriers(o) /\ Head(events) \notin Guards(o)
  BY <1>0, <1>1, CarryingHead
<1>3. /\ None(Tail(events), Carriers(r)) /\ r \notin Here
      /\ NodeTimeout # 0 => now <= deadline[r]
  BY <1>1, <1>2, InHandOnly DEF LifeInv
<1>4. /\ deadline' = deadline /\ outcome' = outcome /\ timeoutSeq' = timeoutSeq
      /\ UNCHANGED bookkeeping
  BY DEF HandleRequestArrival, bookkeeping
<1>5. TypeOK /\ now \in Nat
  BY <1>1, SeatedTypes DEF TypeOK
<1>6. ASSUME NEW others, Scheduling(others), Seated', Overwritten \subseteq Overwritten',
             now' = now, Attempt(r)',
             \A o \in Requests \ {r} : None(others, Carriers(o)) /\ (o \in Here' <=> o \in Here)
      PROVE  LifeInv'
  <2>1. LifeTypes'
    BY <1>1, <1>4, <1>6, TypesKept
  <2> QED BY <1>1, <1>2, <1>4, <1>6, <2>1, OthersStay
<1>7. CASE UNCHANGED vars /\ \E why \in {"node_failed", "capacity_exceeded"} :
             events' = Schedule(Tail(events), Event("request-rejected", r, now, why))
  <2>1. PICK e : /\ \E why \in {"node_failed", "capacity_exceeded"} :
                       e = Event("request-rejected", r, now, why)
                 /\ events' = Schedule(Tail(events), e)
    BY <1>7
  <2>2. e \in Carriers(r) /\ e \notin Overtaken(r)' /\ e \in AnyEvent
    <3>1. deadline[r] \in Nat /\ deadline'[r] = deadline[r]
      BY <1>1, <1>2, <1>4 DEF LifeTypes
    <3> QED BY <1>2, <1>3, <1>5, <2>1, <3>1
            DEF Event, Carriers, Overtaken, CarriesAttempt, AnyEvent
  <2>3. Scheduling(<<e>>)
    BY <1>1, <2>1, <2>2, SchedulingOne
  <2>4. Here' = Here
    BY <1>7 DEF vars, Here
  <2>8. now' = now
    BY <1>7 DEF vars
  <2>5. Attempt(r)'
    <3>1. One(<<e>>, Carriers(r)) /\ None(<<e>>, Overtaken(r)')
      BY <2>2, Single
    <3> QED BY <1>2, <1>3, <1>4, <2>3, <2>4, <2>8, <3>1, AttemptGoesOn
  <2>6. \A o \in Requests \ {r} : None(<<e>>, Carriers(o))
    BY <2>2, CarriersApart, Single
  <2>7. Seated' /\ Overwritten \subseteq Overwritten'
    BY <1>1, <1>7, SeatedCall
  <2> QED BY <1>6, <2>3, <2>4, <2>5, <2>6, <2>7, <2>8
<1>8. ASSUME HandleArrival(r), NEW e \in {HeldTimeoutEvent(r), NodeTimeoutEvent(r)},
             ScheduleService(e)
      PROVE  LifeInv'
  <2>0. now' = now
    BY <1>2, <1>8, CallTakesNoTime
  <2>1. /\ e \in AnyEvent \cup {NoEvent} /\ \A o : e \notin Carriers(o)
        /\ NodeTimeout # 0 => e \in Guards(r)'
    <3>1. /\ deadline[r] \in Nat /\ timeoutSeq[r] \in Nat /\ NodeTimeout \in Nat
          /\ deadline'[r] = deadline[r] /\ timeoutSeq'[r] = timeoutSeq[r]
      BY <1>1, <1>2, <1>4, TimesAreNumbers DEF LifeTypes
    <3>2. CASE e = NoEvent /\ NodeTimeout = 0
      BY <3>2, CarriersComplete
    <3>3. CASE \E at \in Nat : e = TimeoutEvent("node", r, at, timeoutSeq[r]) /\ at <= deadline[r]
      BY <1>2, <3>1, <3>3 DEF TimeoutEvent, AnyEvent, Carriers, Guards, CarriesAttempt
    <3>4. CASE e = HeldTimeoutEvent(r)
      BY <1>5, <3>1, <3>3, <3>4 DEF HeldTimeoutEvent, Smaller
    <3>5. CASE e = NodeTimeoutEvent(r)
      BY <1>5, <3>1, <3>2, <3>3, <3>5 DEF NodeTimeoutEvent, Smaller
    <3> QED BY <1>8, <3>4, <3>5
  <2>2. Seated' /\ Overwritten \subseteq Overwritten'
    BY <1>1, <1>2, <1>8, SeatedCall
  <2>3. Scheduling(<<e>>)
    BY <1>1, <1>5, <1>8, <2>1, <2>2, SeatedTypes, SchedulingService
  <2>4. Here' = Here \cup {r}
    BY <1>2, <1>5, <1>8, DeparturesHere
  <2>5. \A o : None(<<e>>, Carriers(o))
    BY <2>1, Single
  <2>6. Attempt(r)'
    <3>1. /\ ~Ended(r)' /\ r \in Here' /\ None(<<e>>, Carriers(r))
          /\ NodeTimeout # 0 => ~None(<<e>>, Guards(r)') /\ (now <= deadline[r])'
      BY <1>1, <1>3, <1>4, <2>0, <2>1, <2>4, <2>5, Single DEF Ended
    <3> QED BY <1>1, <1>2, <1>3, <2>3, <3>1, AttemptArrives
  <2> QED BY <1>6, <2>0, <2>2, <2>3, <2>4, <2>5, <2>6
<1>9. \/ UNCHANGED vars /\ \E why \in {"node_failed", "capacity_exceeded"} :
             events' = Schedule(Tail(events), Event("request-rejected", r, now, why))
      \/ HandleArrival(r) /\ \E e \in {HeldTimeoutEvent(r), NodeTimeoutEvent(r)} : ScheduleService(e)
  BY <1>0 DEF HandleRequestArrival, HandleArrival
<1> QED BY <1>7, <1>8, <1>9

LEMMA CompletionKeeps ==
  ASSUME LifeInv, HandleProcessingComplete
  PROVE  LifeInv'
<1>0. PICK r : r = Head(events).req
  OBVIOUS
<1>1. events # <<>> /\ LifeTypes /\ Seated /\ ~Ended(r) /\ Head(events).type = "processing-complete"
  BY <1>0 DEF HandleProcessingComplete, InHand, LifeInv
<1>2. r \in Requests /\ \A o : Head(events) \notin Carriers(o) /\ Head(events) \notin Guards(o)
  BY <1>0, <1>1, CarryingHead DEF CarriesAttempt
<1>3. /\ deadline' = deadline /\ outcome' = outcome /\ timeoutSeq' = timeoutSeq
      /\ UNCHANGED bookkeeping
  BY DEF HandleProcessingComplete, bookkeeping
<1>4. TypeOK /\ now \in Nat
  BY <1>1, SeatedTypes DEF TypeOK
<1>5. CASE DropEvent
  BY <1>1, <1>2, <1>5, Dropped DEF DropEvent
<1>6. ASSUME r \in Elements(inService), HandleCompletion(r),
             NEW e \in {Event("request-complete", r, now, 0),
                        Event("request-rejected", r, now, "node_error_rate")},
             ScheduleService(e)
      PROVE  LifeInv'
  <2>1. Seated' /\ Overwritten \subseteq Overwritten' /\ now' = now
    BY <1>1, <1>2, <1>6, SeatedCall, CallTakesNoTime
  <2>0. r \in Here \ Overwritten /\ Here' = Here \ {r}
    BY <1>1, <1>2, <1>4, <1>6, SeatedAreHere, DeparturesHere
  <2>5. None(Tail(events), Carriers(r)) /\ (NodeTimeout # 0 => now <= deadline[r])
    BY <1>1, <1>2, <2>0, InHandOnly DEF LifeInv
  <2>2. e \in AnyEvent /\ e \in Carriers(r) /\ e \notin Overtaken(r)'
    <3>1. deadline[r] \in Nat /\ deadline'[r] = deadline[r]
      BY <1>1, <1>2, <1>3 DEF LifeTypes
    <3> QED BY <1>2, <1>4, <1>6, <2>5, <3>1
            DEF Event, Carriers, Overtaken, CarriesAttempt, AnyEvent
  <2>3. Scheduling(<<e>>)
    BY <1>1, <1>4, <1>6, <2>1, <2>2, SeatedTypes, SchedulingService
  <2>6. One(<<e>>, Carriers(r)) /\ None(<<e>>, Overtaken(r)')
    BY <2>2, Single
  <2>7. Attempt(r)'
    BY <1>2, <1>3, <2>0, <2>1, <2>3, <2>5, <2>6, AttemptGoesOn
  <2>8. LifeTypes'
    BY <1>1, <1>3, <2>3, TypesKept
  <2>9. \A o \in Requests \ {r} : None(<<e>>, Carriers(o))
    BY <2>2, CarriersApart, Single
  <2> QED BY <1>1, <1>2, <1>3, <2>0, <2>1, <2>3, <2>7, <2>8, <2>9, OthersStay
<1> QED BY <1>0, <1>5, <1>6 DEF HandleProcessingComplete

LEMMA CompleteKeeps ==
  ASSUME LifeInv, HandleRequestComplete
  PROVE  LifeInv'
<1>0. PICK r : r = Head(events).req
  OBVIOUS
<1>1. /\ events # <<>> /\ LifeTypes /\ Seated /\ ~Ended(r) /\ CarriesAttempt(Head(events))
      /\ events' = Tail(events) /\ UNCHANGED vars
      /\ UNCHANGED <<deadline, completionSeq, timeoutSeq, retryCount>>
      /\ outcome' = [outcome EXCEPT ![r] = "success"]
  BY <1>0 DEF HandleRequestComplete, InHand, LifeInv, CarriesAttempt
<1>2. /\ r \in Requests /\ Head(events) \in Carriers(r)
      /\ \A o \in Requests \ {r} : Head(events) \notin Carriers(o) /\ Head(events) \notin Guards(o)
  BY <1>0, <1>1, CarryingHead
<1>3. Scheduling(<<NoEvent>>) /\ \A o : None(<<NoEvent>>, Carriers(o))
  BY <1>1, SchedulingNothing
<1>4. LifeTypes'
  BY <1>1, <1>3 DEF LifeTypes, Scheduling
<1>5. /\ outcome'[r] = "success" /\ \A o \in Requests \ {r} : outcome'[o] = outcome[o]
      /\ Here' = Here /\ now' = now /\ deadline' = deadline
  BY <1>1, <1>2 DEF LifeTypes, vars, Here
<1>6. r \notin Here
  BY <1>1, <1>2, InHandOnly DEF LifeInv
<1>7. Attempt(r)'
  BY <1>2, <1>5, <1>6, AttemptOver DEF Ended
<1>8. Seated' /\ Overwritten \subseteq Overwritten'
  BY <1>1, SeatedCall
<1> QED BY <1>1, <1>2, <1>3, <1>4, <1>5, <1>7, <1>8, OthersStay

\* The attempt of one request ends: on its way again if that is allowed, or over.
LEMMA AttemptEnds ==
  ASSUME LifeInv, events # <<>>, Seated', Overwritten \subseteq Overwritten',
         NEW r \in Requests, None(Tail(events), Carriers(r)),
         r \notin Here', ~Ended(r), now' = now, NodeTimeout # 0 => now <= deadline[r],
         \A o \in Requests \ {r} :
           /\ Head(events) \notin Carriers(o) /\ Head(events) \notin Guards(o)
           /\ o \in Here' <=> o \in Here,
         NEW retryable, NEW result \in {"timeout", "rejected", "connection_reset"},
         EndAttempts(<<r>>, retryable, result), UNCHANGED <<deadline, completionSeq, timeoutSeq>>,
         \/ events' = Schedule(Tail(events), NextAttempt(r, retryable))
         \/ ScheduleService(NextAttempt(r, retryable))
  PROVE  LifeInv'
<1>1. LifeTypes /\ TypeOK /\ TypeOK' /\ now \in Nat /\ timeoutSeq' \in [Requests -> Nat]
  BY SeatedTypes DEF LifeInv, LifeTypes, TypeOK
<1>2. PICK e : e = NextAttempt(r, retryable)
  OBVIOUS
<1>3. /\ e \in AnyEvent \cup {NoEvent}
      /\ retryable /\ CanRetry(r) => e \in Carriers(r) /\ e \notin Overtaken(r)'
      /\ ~(retryable /\ CanRetry(r)) => e = NoEvent
  BY <1>1, <1>2, NextAttemptCarries
<1>4. Scheduling(<<e>>)
  BY <1>1, <1>2, <1>3, SchedulingOne, SchedulingService DEF LifeInv
<1>5. /\ retryCount' \in [Requests -> Nat]
      /\ outcome' \in [Requests -> {"pending", "success", "timeout", "rejected", "connection_reset"}]
      /\ \A o \in Requests \ {r} : outcome'[o] = outcome[o]
      /\ ~(retryable /\ CanRetry(r)) => outcome'[r] # "pending"
  <2>1. PICK failed : failed = <<r>>
    OBVIOUS
  <2>2. Elements(failed) = {r}
    BY <2>1 DEF Elements
  <2>3. EndAttempts(failed, retryable, result)
    BY <2>1
  <2> DEFINE retried == {o \in {r} : retryable /\ CanRetry(o)}
  <2>4. /\ retryCount' = [o \in Requests |->
             IF o \in retried THEN retryCount[o] + 1 ELSE retryCount[o]]
        /\ outcome' = [o \in Requests |-> IF o \in {r} \ retried THEN result ELSE outcome[o]]
    BY <2>2, <2>3 DEF EndAttempts
  <2> QED BY <1>1, <2>4 DEF LifeTypes
<1>6. LifeTypes'
  BY <1>1, <1>4, <1>5 DEF LifeTypes, Scheduling
<1>7. Attempt(r)'
  <2>1. CASE retryable /\ CanRetry(r)
    <3>1. One(<<e>>, Carriers(r)) /\ None(<<e>>, Overtaken(r)')
      BY <1>3, <2>1, Single
    <3> QED BY <1>4, <3>1, AttemptGoesOn
  <2>2. CASE ~(retryable /\ CanRetry(r))
    BY <1>5, <2>2, AttemptOver DEF Ended
  <2> QED BY <2>1, <2>2
<1>8. \A o \in Requests \ {r} : None(<<e>>, Carriers(o))
  BY <1>3, CarriersApart, CarriersComplete, Single
<1>9. \A o \in Requests \ {r} :
        /\ Head(events) \notin Carriers(o) /\ Head(events) \notin Guards(o)
        /\ None(<<e>>, Carriers(o))
        /\ outcome'[o] = outcome[o] /\ timeoutSeq'[o] = timeoutSeq[o]
        /\ o \in Here' <=> o \in Here
  BY <1>5, <1>8
<1> QED BY <1>4, <1>6, <1>7, <1>9, OthersStay

LEMMA TimeoutKeeps ==
  ASSUME LifeInv, HandleRequestTimeout
  PROVE  LifeInv'
<1>0. PICK r : r = Head(events).req
  OBVIOUS
<1>1. /\ events # <<>> /\ LifeTypes /\ Seated /\ ~Ended(r)
      /\ Head(events).type = "request-timeout"
  BY <1>0 DEF HandleRequestTimeout, InHand, LifeInv
<1>2. /\ r \in Requests
      /\ Head(events).scope = "node" => \A o : Head(events) \notin Carriers(o)
      /\ Head(events).scope # "node" => Head(events) \in Carriers(r)
      /\ \A o \in Requests \ {r} : Head(events) \notin Carriers(o) /\ Head(events) \notin Guards(o)
      /\ Head(events).scope = "node" /\ Head(events) \in Guards(r) => Head(events).gen = timeoutSeq[r]
  <2>1. Head(events).scope \in {"node", "in-flight"}
    BY <1>1, CarryingHead DEF AnyEvent
  <2> QED BY <1>0, <1>1, <2>1, CarryingHead DEF CarriesAttempt
<1>3. CASE /\ DropEvent /\ UNCHANGED bookkeeping /\ Head(events).scope = "node"
           /\ NotFound(r)
  BY <1>1, <1>2, <1>3, Dropped DEF DropEvent, Here, Overwritten
<1>4. ASSUME NEW retryable, EndAttempts(<<r>>, retryable, "timeout"),
             UNCHANGED <<deadline, completionSeq, timeoutSeq>>,
             ScheduleService(NextAttempt(r, retryable)),
             \/ Head(events).scope = "node" /\ ~NotFound(r) /\ CancelRequest(r)
             \/ Head(events).scope # "node" /\ UNCHANGED vars
      PROVE  LifeInv'
  <2>1. Seated' /\ Overwritten \subseteq Overwritten' /\ now' = now
    BY <1>1, <1>2, <1>4, SeatedCall, CallTakesNoTime
  <2>2. /\ Head(events) \in Carriers(r) \/ r \in Here \ Overwritten
        /\ r \notin Here' /\ \A o \in Requests \ {r} : o \in Here' <=> o \in Here
    <3>1. CASE Head(events).scope = "node" /\ ~NotFound(r) /\ CancelRequest(r)
      <4>1. Here' = Here \ {r}
        BY <1>1, <1>2, <3>1, DeparturesHere, SeatedTypes
      <4>2. r \in Here \ Overwritten
        BY <1>1, <1>2, <3>1, SeatedAreHere DEF Overwritten
      <4> QED BY <1>2, <4>1, <4>2
    <3>2. CASE Head(events).scope # "node" /\ UNCHANGED vars
      <4>1. Here' = Here
        BY <3>2 DEF vars, Here
      <4>2. r \notin Here
        BY <1>1, <1>2, <3>2, InHandOnly DEF LifeInv
      <4> QED BY <1>2, <3>2, <4>1, <4>2
    <3> QED BY <1>4, <3>1, <3>2
  <2>3. None(Tail(events), Carriers(r)) /\ (NodeTimeout # 0 => now <= deadline[r])
    BY <1>1, <1>2, <2>2, InHandOnly DEF LifeInv
  <2> QED BY <1>1, <1>2, <1>4, <2>1, <2>2, <2>3, AttemptEnds
<1> QED BY <1>0, <1>3, <1>4 DEF HandleRequestTimeout

LEMMA RejectedKeeps ==
  ASSUME LifeInv, HandleRequestRejected
  PROVE  LifeInv'
<1>0. PICK r : r = Head(events).req
  OBVIOUS
<1>1. events # <<>> /\ LifeTypes /\ Seated /\ ~Ended(r) /\ CarriesAttempt(Head(events)) /\ UNCHANGED vars
  BY <1>0 DEF HandleRequestRejected, InHand, LifeInv, CarriesAttempt
<1>2. /\ r \in Requests /\ Head(events) \in Carriers(r)
      /\ \A o \in Requests \ {r} : Head(events) \notin Carriers(o) /\ Head(events) \notin Guards(o)
  BY <1>0, <1>1, CarryingHead
<1>3. /\ None(Tail(events), Carriers(r)) /\ r \notin Here
      /\ NodeTimeout # 0 => now <= deadline[r]
  BY <1>1, <1>2, InHandOnly DEF LifeInv
<1>4. Here' = Here /\ now' = now
  BY <1>1 DEF vars, Here
<1>5. Seated' /\ Overwritten \subseteq Overwritten'
  BY <1>1, SeatedCall
<1>6. PICK retryable : /\ EndAttempts(<<r>>, retryable, "rejected")
                       /\ UNCHANGED <<deadline, completionSeq, timeoutSeq>>
                       /\ events' = Schedule(Tail(events), NextAttempt(r, retryable))
  BY <1>0 DEF HandleRequestRejected
<1> QED BY <1>1, <1>2, <1>3, <1>4, <1>5, <1>6, AttemptEnds

\* The attempts of all of F, which were here, end together.
LEMMA AttemptsEndTogether ==
  ASSUME LifeInv, events # <<>>, Seated', Overwritten \subseteq Overwritten',
         NEW F \in SUBSET (Here \ Overwritten), NEW failed, Lists(failed, F),
         Here' = Here \ F, now' = now,
         \A r : Head(events) \notin Carriers(r) /\ Head(events) \notin Guards(r),
         timeoutSeq' = Bump(timeoutSeq, F), completionSeq' \in [Requests -> Nat],
         deadline' = deadline, EndAttempts(failed, TRUE, "connection_reset"),
         Scheduling(NextAttempts(failed))
  PROVE  LifeInv'
<1>1. /\ LifeTypes /\ now \in Nat /\ F \in SUBSET Requests
      /\ \A r \in Requests : Attempt(r) /\ (r \in F => ~Ended(r))
  <2>1. \A r \in Requests : Attempt(r) /\ (r \in F => ~Ended(r))
    BY DEF LifeInv, Attempt
  <2>2. F \in SUBSET Requests
    BY DEF Here
  <2> QED BY <2>1, <2>2, SeatedTypes DEF LifeInv, TypeOK
<1>2. /\ timeoutSeq' \in [Requests -> Nat]
      /\ \A r \in Requests \ F : timeoutSeq'[r] = timeoutSeq[r]
  BY <1>1 DEF LifeTypes, Bump
<1>3. /\ retryCount' \in [Requests -> Nat]
      /\ outcome' \in [Requests -> {"pending", "success", "timeout", "rejected", "connection_reset"}]
      /\ \A r \in Requests \ F : outcome'[r] = outcome[r]
      /\ \A r \in F : ~CanRetry(r) => outcome'[r] # "pending"
  <2>1. Elements(failed) = F
    BY DEF Lists
  <2> QED BY <1>1, <2>1, AttemptsEnd
<1>4. LifeTypes'
  BY <1>1, <1>2, <1>3 DEF LifeTypes, Scheduling
<1>5. ASSUME NEW r \in Requests \cap F PROVE Attempt(r)'
  <2>1. None(Tail(events), Carriers(r)) /\ (NodeTimeout # 0 => now <= deadline[r])
    BY <1>1, InHandOnly
  <2>2. r \notin Here'
    OBVIOUS
  <2>3. CASE CanRetry(r)
    <3>1. One(NextAttempts(failed), Carriers(r)) /\ None(NextAttempts(failed), Overtaken(r)')
      BY <1>1, <1>2, <2>3, NextAttemptsCarry
    <3> QED BY <2>1, <2>2, <3>1, AttemptGoesOn
  <2>4. CASE ~CanRetry(r)
    BY <1>3, <2>2, <2>4, AttemptOver DEF Ended
  <2> QED BY <2>3, <2>4
<1>6. ASSUME NEW o \in Requests \ F
      PROVE  /\ Head(events) \notin Carriers(o) /\ Head(events) \notin Guards(o)
             /\ None(NextAttempts(failed), Carriers(o))
             /\ outcome'[o] = outcome[o] /\ timeoutSeq'[o] = timeoutSeq[o]
             /\ o \in Here' <=> o \in Here
  <2>1. None(NextAttempts(failed), Carriers(o))
    BY <1>1, <1>2, NextAttemptsCarry
  <2> QED BY <1>2, <1>3, <2>1
<1> QED BY <1>4, <1>5, <1>6, OthersStay

\* The attempts of failed end and may be retried, and nothing else is scheduled.
Ends(failed, F) ==
  /\ F \in SUBSET (Here \ Overwritten) /\ Lists(failed, F) /\ Here' = Here \ F
  /\ Seated' /\ Overwritten \subseteq Overwritten' /\ now' = now /\ deadline' = deadline
  /\ timeoutSeq' = Bump(timeoutSeq, F) /\ completionSeq' \in [Requests -> Nat]
  /\ EndAttempts(failed, TRUE, "connection_reset")
  /\ Scheduling(NextAttempts(failed)) /\ None(NextAttempts(failed), FaultEvent)

LEMMA FailureEnds ==
  ASSUME LifeInv, HandleNodeFailure
  PROVE  \E failed, F : Ends(failed, F)
<1>0. PICK spec : spec = Head(events).spec
  OBVIOUS
<1>1. events # <<>> /\ LifeTypes /\ Seated /\ Head(events).type = "node-failure" /\ deadline' = deadline
  BY DEF HandleNodeFailure, InHand, LifeInv
<1>2. /\ spec \in FailureSpecs
      /\ \A r : Head(events) \notin Carriers(r) /\ Head(events) \notin Guards(r)
  BY <1>0, <1>1, CarryingHead DEF AnyEvent, CarriesAttempt
<1>3. /\ TypeOK /\ now \in Nat /\ Lists(queue \o inService, Elements(queue \o inService))
      /\ Elements(queue \o inService) = Elements(queue) \cup Elements(inService)
      /\ Elements(queue \o inService) \subseteq Here \ Overwritten /\ Lists(<<>>, {})
  BY <1>1, SeatedAreHere, ListsNothing DEF TypeOK
<1>4. PICK failed : /\ failed = IF spec.mode # "degraded" /\ spec.inFlight = "reset"
                                  THEN queue \o inService ELSE <<>>
                    /\ completionSeq' \in {Bump(completionSeq, E) : E \in SUBSET Requests}
                    /\ timeoutSeq' = Bump(timeoutSeq, Elements(failed))
                    /\ EndAttempts(failed, TRUE, "connection_reset")
                    /\ events' \in ScheduleAll(Tail(events), NextAttempts(failed))
                    /\ Strikes(spec)
  <2>1. \A E : Bump(completionSeq, E) = Bump(completionSeq, E \cap Requests)
    BY DEF Bump
  <2>2. \A E : Bump(completionSeq, E) \in {Bump(completionSeq, D) : D \in SUBSET Requests}
    BY <2>1
  <2> QED BY <1>0, <2>2 DEF HandleNodeFailure, Strikes
<1>5. PICK F : F = Elements(failed) /\ Lists(failed, F) /\ F \in SUBSET (Here \ Overwritten) /\ Here' = Here \ F
  <2>1. CASE spec.mode # "degraded" /\ spec.inFlight = "reset"
    <3>1. FailReset(spec)
      BY <1>4, <2>1 DEF Strikes, FailDegraded, FailHang
    <3> QED BY <1>3, <1>4, <2>1, <3>1, FaultHere
  <2>2. CASE ~(spec.mode # "degraded" /\ spec.inFlight = "reset")
    <3>1. FailDegraded(spec) \/ FailHang(spec)
      BY <1>4, <2>2 DEF Strikes, FailReset
    <3>2. Elements(<<>>) = {}
      BY <1>3 DEF Lists
    <3> QED BY <1>3, <1>4, <2>2, <3>1, <3>2, FaultHere
  <2> QED BY <2>1, <2>2
<1>6. Seated' /\ Overwritten \subseteq Overwritten' /\ now' = now
  BY <1>1, <1>2, <1>4, SeatedCall, CallTakesNoTime
<1>7. completionSeq' \in [Requests -> Nat] /\ timeoutSeq' \in [Requests -> Nat]
  BY <1>1, <1>4 DEF LifeTypes, Bump
<1>8. Scheduling(NextAttempts(failed)) /\ None(NextAttempts(failed), FaultEvent)
  <2>1. F \in SUBSET Requests
    BY <1>5 DEF Here
  <2>2. /\ NextAttempts(failed) \in Seq(AnyEvent \cup {NoEvent})
        /\ None(NextAttempts(failed), FaultEvent)
    BY <1>1, <1>3, <1>5, <1>7, <2>1, NextAttemptsTyped
  <2> QED BY <1>1, <1>4, <2>2, SchedulingAll
<1> QED BY <1>1, <1>4, <1>5, <1>6, <1>7, <1>8 DEF Ends

LEMMA RecoveryEnds ==
  ASSUME LifeInv, events # <<>>, RecoverNode
  PROVE  \E failed, F : Ends(failed, F)
<1>0. LifeTypes /\ Seated
  BY DEF LifeInv
<1>1. /\ TypeOK /\ now \in Nat /\ Lists(heldHang, Elements(heldHang))
      /\ Elements(heldHang) \subseteq Here \ Overwritten /\ Lists(<<>>, {})
  BY <1>0, SeatedAreHere, ListsNothing DEF TypeOK
<1>2. PICK failed : /\ failed = IF /\ failureSpec.mode \notin {"none", "degraded"}
                                   /\ failureSpec.recovery = "reset"
                                  THEN heldHang ELSE <<>>
                    /\ Recover /\ UNCHANGED <<deadline, completionSeq>>
                    /\ timeoutSeq' = Bump(timeoutSeq, Elements(failed))
                    /\ EndAttempts(failed, TRUE, "connection_reset")
                    /\ ScheduleServices(NextAttempts(failed))
  BY DEF RecoverNode
<1>3. PICK F : F = Elements(failed) /\ Lists(failed, F) /\ F \in SUBSET (Here \ Overwritten) /\ Here' = Here \ F
  <2>1. CASE failureSpec.mode \notin {"none", "degraded"} /\ failureSpec.recovery = "reset"
    <3>1. RecoverReset
      BY <1>2, <2>1 DEF Recover, RecoverDegraded, RecoverResume
    <3> QED BY <1>1, <1>2, <2>1, <3>1, RecoveryHere
  <2>2. CASE ~(failureSpec.mode \notin {"none", "degraded"} /\ failureSpec.recovery = "reset")
    <3>1. RecoverDegraded \/ RecoverResume
      BY <1>2, <2>2 DEF Recover, RecoverReset
    <3>2. Elements(<<>>) = {}
      BY <1>1 DEF Lists
    <3> QED BY <1>1, <1>2, <2>2, <3>1, <3>2, RecoveryHere
  <2> QED BY <2>1, <2>2
<1>4. Seated' /\ Overwritten \subseteq Overwritten' /\ now' = now
  BY <1>0, <1>2, SeatedCall, CallTakesNoTime
<1>5. timeoutSeq' \in [Requests -> Nat] /\ completionSeq' \in [Requests -> Nat]
  BY <1>0, <1>2 DEF LifeTypes, Bump
<1>6. Scheduling(NextAttempts(failed)) /\ None(NextAttempts(failed), FaultEvent)
  <2>1. F \in SUBSET Requests
    BY <1>3 DEF Here
  <2>2. /\ NextAttempts(failed) \in Seq(AnyEvent \cup {NoEvent})
        /\ None(NextAttempts(failed), FaultEvent)
    BY <1>0, <1>1, <1>2, <1>3, <1>5, <2>1, NextAttemptsTyped
  <2>3. SubSeq(inService', Len(inService) + 1, Len(inService')) \in Seq(Started)
    BY <1>0, <1>2, <1>4, RecoveryStarts
  <2> QED BY <1>0, <1>1, <1>2, <1>4, <2>2, <2>3, SeatedTypes, SchedulingServices
<1> QED BY <1>2, <1>3, <1>4, <1>5, <1>6 DEF Ends

LEMMA FailureKeeps ==
  ASSUME LifeInv, HandleNodeFailure
  PROVE  LifeInv'
<1>1. PICK failed, F : Ends(failed, F)
  BY FailureEnds
<1>2. /\ events # <<>> /\ LifeTypes /\ Head(events).type = "node-failure"
      /\ \A r : Head(events) \notin Carriers(r) /\ Head(events) \notin Guards(r)
  BY CarryingHead DEF HandleNodeFailure, InHand, LifeInv, CarriesAttempt
<1> QED BY <1>1, <1>2, AttemptsEndTogether DEF Ends

LEMMA RecoveryKeeps ==
  ASSUME LifeInv, HandleNodeRecovery
  PROVE  LifeInv'
<1>1. events # <<>> /\ LifeTypes /\ Head(events).type = "node-recovery"
  BY DEF HandleNodeRecovery, InHand, LifeInv
<1>2. \A r : Head(events) \notin Carriers(r) /\ Head(events) \notin Guards(r)
  BY <1>1, CarryingHead DEF CarriesAttempt
<1>3. CASE events' = Tail(events) /\ UNCHANGED <<vars, bookkeeping>>
  BY <1>1, <1>2, <1>3, Dropped
<1>4. CASE RecoverNode
  <2>1. PICK failed, F : Ends(failed, F)
    BY <1>1, <1>4, RecoveryEnds
  <2> QED BY <1>1, <1>2, <2>1, AttemptsEndTogether DEF Ends
<1> QED BY <1>3, <1>4 DEF HandleNodeRecovery

\* The first event is the next.
LEMMA TimesOfEvents ==
  ASSUME LifeInv
  PROVE  /\ \A i \in DOMAIN events : events[i].at \in Nat
         /\ events # <<>> => /\ Head(events).at \in Nat
                            /\ \A i \in DOMAIN events : Head(events).at <= events[i].at
         /\ \A r \in Requests : deadline[r] \in Nat
<1>1. /\ events \in Seq(AnyEvent) /\ \A r \in Requests : deadline[r] \in Nat
      /\ \A e \in AnyEvent : e.at \in Nat
  BY DEF LifeInv, LifeTypes, AnyEvent
<1>2. ASSUME events # <<>>, NEW i \in DOMAIN events
      PROVE  Head(events).at <= events[i].at
  <2>1. Head(events) = events[1] /\ 1 \in DOMAIN events /\ i \in Nat /\ 1 <= i
    BY <1>1, <1>2
  <2>2. events[1].at \in Nat /\ events[i].at \in Nat
    BY <1>1, <1>2, <2>1
  <2>3. 1 < i => ~Before(events[i], events[1])
    BY <1>2, <2>1 DEF LifeInv, Sorted
  <2> QED BY <2>1, <2>2, <2>3 DEF Before
<1> QED BY <1>1, <1>2

LEMMA ClockKeeps ==
  ASSUME LifeInv, AdvanceClock \/ UNCHANGED <<vars, lifeVars>>
  PROVE  LifeInv'
<1>1. UNCHANGED lifeVars /\ arrivalTimes' = arrivalTimes /\ Overwritten' = Overwritten
  BY DEF AdvanceClock, vars, serving, held, Overwritten, NotFound
<1>2. Seated'
  BY SeatedCall, SeatedClock DEF LifeInv
<1>3. /\ LifeTypes' /\ Sorted(events)' /\ events' = events /\ Here' = Here
      /\ outcome' = outcome /\ timeoutSeq' = timeoutSeq /\ deadline' = deadline
  BY <1>1 DEF lifeVars, bookkeeping, LifeTypes, LifeInv, Here
<1>4. ASSUME NEW r \in Requests PROVE Attempt(r)'
  <2>1. Attempt(r) /\ Overtaken(r)' = Overtaken(r) /\ Guards(r)' = Guards(r)
    BY <1>3 DEF LifeInv, Overtaken, Guards
  <2>2. ASSUME ~Ended(r), r \notin Overwritten, NodeTimeout # 0 PROVE now' <= deadline[r]
    <3>1. CASE AdvanceClock
      <4>1. PICK i \in DOMAIN events : events[i].at <= deadline[r]
        <5>1. CASE r \in Here
          BY <2>1, <2>2, <5>1 DEF Attempt, None, Guards
        <5>2. CASE r \notin Here
          <6>1. PICK i \in DOMAIN events : events[i] \in Carriers(r) \ Overtaken(r)
            BY <2>1, <2>2, <5>2 DEF Attempt, One, None
          <6> QED BY <2>2, <6>1, TimesOfEvents DEF Overtaken
        <5> QED BY <5>1, <5>2
      <4>2. Head(events).at <= events[i].at
        BY TimesOfEvents DEF LifeInv
      <4>3. Head(events).at \in Nat /\ events[i].at \in Nat /\ deadline[r] \in Nat
        BY TimesOfEvents
      <4> QED BY <3>1, <4>1, <4>2, <4>3 DEF AdvanceClock
    <3>2. CASE UNCHANGED <<vars, lifeVars>>
      BY <2>1, <2>2, <3>2 DEF vars, Attempt
    <3> QED BY <3>1, <3>2
  <2> QED BY <1>1, <1>3, <2>1, <2>2 DEF Attempt, Ended
<1> QED BY <1>2, <1>3, <1>4 DEF LifeInv

LEMMA LifeStep == LifeInv /\ [LNext]_<<vars, lifeVars>> => LifeInv'
BY StaleKeeps, ArrivalKeeps, CompletionKeeps, CompleteKeeps, TimeoutKeeps, RejectedKeeps,
   FailureKeeps, RecoveryKeeps, ClockKeeps DEF LNext, HandleEvent, Finished

-----------------------------------------------------------------------------
(* The start *)

\* The faults of a plan are events, and carry no attempt.
LEMMA FaultsAreEvents ==
  ASSUME NEW plan \in FaultPlans
  PROVE  /\ FaultEvents(plan) \in Seq(AnyEvent \cup {NoEvent})
         /\ \A r : None(FaultEvents(plan), Carriers(r))
<1>1. /\ Len(plan) \in Nat
      /\ \A i \in 1 .. Len(plan) :
           /\ plan[i].domain \in Domains \cup {NodeItself} /\ plan[i].spec \in FailureSpecs
           /\ plan[i].from \in Nat /\ plan[i].lasts \in Nat
  <2>1. PICK S : /\ S = [domain : Domains \cup {NodeItself}, from : Nat, lasts : Nat,
                          spec : FailureSpecs]
                 /\ plan \in Seq(S)
    BY LifecycleAssumption
  <2>2. plan \in Seq(S)
    BY <2>1
  <2>3. Len(plan) \in Nat /\ \A i \in 1 .. Len(plan) : plan[i] \in S
    BY <2>2
  <2> QED BY <2>1, <2>3
<1>2. ASSUME NEW i \in 1 .. Len(plan)
      PROVE  /\ FailureEvent(plan[i]) \in AnyEvent /\ RecoveryEvent(plan[i]) \in AnyEvent \cup {NoEvent}
             /\ \A r : FailureEvent(plan[i]) \notin Carriers(r) /\ RecoveryEvent(plan[i]) \notin Carriers(r)
  <2>1. PICK o : o = plan[i]
    OBVIOUS
  <2>2. FailureEvent(o) \in AnyEvent /\ \A r : FailureEvent(o) \notin Carriers(r)
    BY <1>1, <2>1 DEF FailureEvent, AnyEvent, Carriers, CarriesAttempt
  <2>3. RecoveryEvent(o) \in AnyEvent \cup {NoEvent} /\ \A r : RecoveryEvent(o) \notin Carriers(r)
    <3>1. CASE o.lasts = 0
      BY <3>1, CarriersComplete DEF RecoveryEvent
    <3>2. CASE o.lasts # 0
      BY <1>1, <2>1, <3>2 DEF RecoveryEvent, AnyEvent, Carriers, CarriesAttempt
    <3> QED BY <3>1, <3>2
  <2> QED BY <2>1, <2>2, <2>3
<1>3. PICK q : q = FaultEvents(plan)
  OBVIOUS
<1>4. \A k \in 1 .. 2 * Len(plan) : \E i \in 1 .. Len(plan) :
         q[k] \in {FailureEvent(plan[i]), RecoveryEvent(plan[i])}
  <2> TAKE k \in 1 .. 2 * Len(plan)
  <2>1. CASE k % 2 = 1
    <3>1. (k + 1) \div 2 \in 1 .. Len(plan)
      BY <1>1, <2>1
    <3> QED BY <1>3, <2>1, <3>1 DEF FaultEvents
  <2>2. CASE k % 2 # 1
    <3>1. k \div 2 \in 1 .. Len(plan)
      BY <1>1, <2>2
    <3> QED BY <1>3, <2>2, <3>1 DEF FaultEvents
  <2> QED BY <2>1, <2>2
<1>5. \A k \in 1 .. 2 * Len(plan) : q[k] \in AnyEvent \cup {NoEvent} /\ \A r : q[k] \notin Carriers(r)
  BY <1>2, <1>4
<1>6. DOMAIN q = 1 .. 2 * Len(plan) /\ q = [k \in 1 .. 2 * Len(plan) |-> q[k]]
  BY <1>3 DEF FaultEvents
<1>7. 2 * Len(plan) \in Nat
  BY <1>1
<1>8. q \in Seq(AnyEvent \cup {NoEvent})
  BY <1>5, <1>6, <1>7
<1> QED BY <1>3, <1>5, <1>6, <1>8 DEF None

\* Every request has one first arrival.
LEMMA FirstArrivals ==
  ASSUME NEW first \in [Requests -> Arrivals], NEW order \in SetToSeqs(Requests), NEW new,
         new = [i \in DOMAIN order |-> Event("request-arrival", order[i], first[order[i]], 0)]
  PROVE  /\ new \in Seq(AnyEvent \cup {NoEvent})
         /\ \A r \in Requests : One(new, Carriers(r))
         /\ \A i \in DOMAIN new : \E r \in Requests : new[i] = Event("request-arrival", r, first[r], 0)
<1> DEFINE N == Cardinality(Requests)
<1>1. IsFiniteSet(Requests) /\ N \in Nat
  BY LifecycleAssumption, FS_CardinalityType
<1>2. /\ order \in [1 .. N -> Requests]
      /\ \A i, j \in 1 .. N : i # j => order[i] # order[j]
  BY DEF SetToSeqs
<1> HIDE DEF N
<1>3. \A r \in Requests : \E i \in 1 .. N : order[i] = r
  <2>1. order \in Injection(1 .. N, Requests)
    BY <1>2 DEF Injection, IsInjective
  <2>2. Cardinality(1 .. N) = Cardinality(Requests)
    BY <1>1, FS_Interval DEF N
  <2>3. order \in Surjection(1 .. N, Requests)
    BY <1>1, <2>1, <2>2, FS_Injection
  <2> QED BY <2>3 DEF Surjection
<1>4. /\ DOMAIN new = 1 .. N /\ DOMAIN order = 1 .. N
      /\ \A i \in 1 .. N : new[i] = Event("request-arrival", order[i], first[order[i]], 0)
  BY <1>2
<1>5. \A i \in 1 .. N : new[i] \in AnyEvent /\ new[i] \in Carriers(order[i])
  <2> TAKE i \in 1 .. N
  <2>1. PICK r \in Requests : r = order[i] /\ new[i] = Event("request-arrival", r, first[r], 0)
    BY <1>2, <1>4
  <2>2. first[r] \in Nat
    BY <2>1, TimesAreNumbers
  <2> QED BY <2>1, <2>2 DEF Event, AnyEvent, Carriers, CarriesAttempt
<1>6. ASSUME NEW r \in Requests PROVE One(new, Carriers(r))
  <2>1. \A i \in 1 .. N : new[i] \in Carriers(r) => order[i] = r
    BY <1>5 DEF Carriers
  <2>2. Few(new, Carriers(r))
    BY <1>2, <1>4, <2>1 DEF Few
  <2>3. ~None(new, Carriers(r))
    BY <1>3, <1>4, <1>5 DEF None
  <2> QED BY <2>2, <2>3 DEF One
<1>7. new \in Seq(AnyEvent \cup {NoEvent})
  <2>1. new = [i \in 1 .. N |-> new[i]]
    BY <1>4
  <2> QED BY <1>1, <1>5, <2>1
<1>8. \A i \in DOMAIN new : \E r \in Requests : new[i] = Event("request-arrival", r, first[r], 0)
  BY <1>2, <1>4
<1> QED BY <1>6, <1>7, <1>8

\* What the queue holds at first is the faults and the arrivals, each once.
LEMMA FirstEvents ==
  ASSUME NEW faults \in Seq(AnyEvent \cup {NoEvent}), NEW new \in Seq(AnyEvent \cup {NoEvent}),
         events \in ScheduleAll(faults, new)
  PROVE  /\ events \in Seq(AnyEvent) /\ Sorted(events)
         /\ \A E : NoEvent \notin E =>
              /\ None(faults, E) /\ None(new, E) => None(events, E)
              /\ One(faults, E) /\ None(new, E) => One(events, E)
              /\ None(faults, E) /\ One(new, E) => One(events, E)
<1>1. PICK all : all = faults \o new
  OBVIOUS
<1>2. all \in Seq(AnyEvent \cup {NoEvent}) /\ events \in ScheduleAll(<<>>, all)
  <2>1. all \in Seq(AnyEvent \cup {NoEvent}) /\ <<>> \o all = all
    BY <1>1, ConcatType
  <2>2. events \in {InEventOrder(s) : s \in {all}}
    BY <1>1 DEF ScheduleAll
  <2> QED BY <2>1, <2>2 DEF ScheduleAll
<1>3. events \in Seq(AnyEvent) /\ Sorted(events)
  <2>1. \E E : NoEvent \notin E
    <3>1. NoEvent \notin {}
      OBVIOUS
    <3> QED BY <3>1
  <2>2. <<>> \in Seq(AnyEvent)
    OBVIOUS
  <2> QED BY <1>2, <2>1, <2>2, EventsAreEvents, ScheduledTogether
<1>4. ASSUME NEW E, NoEvent \notin E
      PROVE  (None(all, E) => None(events, E)) /\ (One(all, E) => One(events, E))
  <2>1. <<>> \in Seq(AnyEvent) /\ None(<<>>, E)
    BY DEF None
  <2> QED BY <1>2, <1>4, <2>1, EventsAreEvents, ScheduledTogether
<1>5. \A E : /\ None(all, E) <=> None(faults, E) /\ None(new, E)
             /\ One(faults, E) /\ None(new, E) => One(all, E)
             /\ None(faults, E) /\ One(new, E) => One(all, E)
  BY <1>1, JoinedCounts DEF One
<1> QED BY <1>3, <1>4, <1>5

LEMMA LifeInit == LInit => LifeInv
<1> SUFFICES ASSUME LInit PROVE LifeInv
  OBVIOUS
<1>1. PICK first \in [Requests -> Arrivals], budget \in [Requests -> Budgets],
           order \in SetToSeqs(Requests) :
        /\ deadline = [r \in Requests |-> first[r] + budget[r]]
        /\ events \in ScheduleAll(FaultEvents(outages),
             [i \in DOMAIN order |-> Event("request-arrival", order[i], first[order[i]], 0)])
  BY DEF LInit
<1>2. PICK new : new = [i \in DOMAIN order |-> Event("request-arrival", order[i], first[order[i]], 0)]
  OBVIOUS
<1>3. /\ new \in Seq(AnyEvent \cup {NoEvent})
      /\ \A r \in Requests : One(new, Carriers(r))
      /\ \A i \in DOMAIN new : \E r \in Requests : new[i] = Event("request-arrival", r, first[r], 0)
  BY <1>2, FirstArrivals
<1>4. PICK faults : faults = FaultEvents(outages)
  OBVIOUS
<1>5. faults \in Seq(AnyEvent \cup {NoEvent}) /\ \A r : None(faults, Carriers(r))
  BY <1>4, FaultsAreEvents DEF LInit
<1>6. \A E : NoEvent \notin E =>
             /\ None(faults, E) /\ None(new, E) => None(events, E)
             /\ None(faults, E) /\ One(new, E) => One(events, E)
  BY <1>1, <1>2, <1>3, <1>4, <1>5, FirstEvents
<1>8. events \in Seq(AnyEvent) /\ Sorted(events)
  BY <1>1, <1>2, <1>3, <1>4, <1>5, FirstEvents
<1>10. now = 0 /\ Here = {} /\ \A r \in Requests : ~Ended(r)
  BY DEF LInit, Init, Here, Ended
<1>11. /\ deadline \in [Requests -> Nat]
       /\ \A r \in Requests : first[r] \in Nat /\ first[r] <= deadline[r] /\ 0 <= deadline[r]
  <2>1. ASSUME NEW r \in Requests PROVE first[r] \in Nat /\ budget[r] \in Nat
    BY TimesAreNumbers
  <2> QED BY <1>1, <2>1
<1>12. LifeTypes
  BY <1>8, <1>11 DEF LInit, LifeTypes
<1>13. Seated
  <2>1. IInv
    BY InitInv DEF LInit
  <2>2. FaultStands /\ Placed({})
    BY PlacesInit DEF LInit
  <2> QED BY <2>1, <2>2 DEF Seated, SeatInv
<1>14. ASSUME NEW r \in Requests PROVE Attempt(r)
  <2>2. One(events, Carriers(r))
    BY <1>3, <1>5, <1>6, CarriersComplete
  <2>3. None(new, Overtaken(r))
    <3>1. \A i \in DOMAIN new : new[i] \in Carriers(r) => new[i] = Event("request-arrival", r, first[r], 0)
      BY <1>3 DEF Carriers, Event
    <3> QED BY <1>11, <3>1 DEF None, Overtaken, Event
  <2>4. None(faults, Overtaken(r))
    BY <1>5, CarriersComplete DEF None
  <2>6. None(events, Overtaken(r))
    BY <1>6, <2>3, <2>4, CarriersComplete
  <2> QED BY <1>10, <1>11, <2>2, <2>6 DEF Attempt
<1> QED BY <1>8, <1>12, <1>13, <1>14 DEF LifeInv

-----------------------------------------------------------------------------
(* The theorems *)

LEMMA Lives == LSpec => []LifeInv
BY LifeInit, LifeStep, PTL DEF LSpec

\* A pending request has one attempt under way, whatever the number of requests, the
\* times, the budgets and the plan of faults, overlapping ones included: in a place of
\* the node or on one event of the queue; and one that has ended is in no place. Only
\* those a second freeze overwrote have no attempt.
THEOREM OneAttemptEach == LSpec => []OneAttemptAtATime
<1>1. LifeInv => OneAttemptAtATime
  <2> SUFFICES ASSUME LifeInv, NEW r \in Requests \ Overwritten
               PROVE  LET inTransit == {i \in DOMAIN events : CarriesAttempt(events[i]) /\ events[i].req = r}
                          inNode == IF NotFound(r) THEN 0 ELSE 1
                      IN  IF Ended(r) THEN inNode = 0 ELSE Cardinality(inTransit) + inNode = 1
    BY DEF OneAttemptAtATime
  <2> DEFINE inTransit == {i \in DOMAIN events : CarriesAttempt(events[i]) /\ events[i].req = r}
  <2>1. Attempt(r) /\ (r \in Here <=> ~NotFound(r))
    BY SeatedAreHere DEF LifeInv, Here, Overwritten
  <2>2. inTransit = {i \in DOMAIN events : events[i] \in Carriers(r)}
    <3>1. \A i \in DOMAIN events : events[i] \in AnyEvent
      BY DEF LifeInv, LifeTypes
    <3> QED BY <3>1 DEF Carriers
  <2>3. None(events, Carriers(r)) => inTransit = {}
    BY <2>2 DEF None
  <2>4. ASSUME One(events, Carriers(r)) PROVE \E i : inTransit = {i}
    <3>1. PICK i \in DOMAIN events : events[i] \in Carriers(r)
      BY <2>4 DEF One, None
    <3>2. \A j \in inTransit : j = i
      BY <2>2, <2>4, <3>1 DEF One, Few
    <3>3. i \in inTransit
      BY <2>2, <3>1
    <3> HIDE DEF inTransit
    <3> QED BY <3>2, <3>3
  <2> HIDE DEF inTransit
  <2>5. None(events, Carriers(r)) => Cardinality(inTransit) = 0
    BY <2>3, FS_EmptySet
  <2>6. One(events, Carriers(r)) => Cardinality(inTransit) = 1
    BY <2>4, FS_Singleton
  <2>7. IF Ended(r) THEN (IF NotFound(r) THEN 0 ELSE 1) = 0
        ELSE Cardinality(inTransit) + (IF NotFound(r) THEN 0 ELSE 1) = 1
    BY <2>1, <2>5, <2>6 DEF Attempt
  <2> QED BY <2>7 DEF inTransit
<1> QED BY <1>1, Lives, PTL

\* No request outlives its deadline at a node that has a timeout, however often it is
\* retried, queued or frozen, unless a second freeze overwrote it.
THEOREM DeadlinesBind == ASSUME NodeTimeout # 0 PROVE LSpec => []DeadlineBinds
<1>1. LifeInv => DeadlineBinds
  BY DEF LifeInv, Attempt, DeadlineBinds
<1> QED BY <1>1, Lives, PTL

-----------------------------------------------------------------------------
(* Outages *)

\* No two outages of one domain, and none that only slows the node down among those
\* that stop it.
Separate(plan) ==
  /\ \A i, j \in DOMAIN plan : plan[i].domain = plan[j].domain => i = j
  /\ \A i, j \in DOMAIN plan : plan[i].spec.mode = "degraded" => plan[j].spec.mode = "degraded"

Failing(d) == {e \in FaultEvent : e.type = "node-failure" /\ e.domain = d}
Recovering(d) == {e \in FaultEvent : e.type = "node-recovery" /\ e.domain = d}

\* The events that strike are those of outages still to come or in force.
Unplanned ==
  {e \in FaultEvent :
     /\ \A o \in Elements(outages) : e # FailureEvent(o)
     /\ \A o \in Elements(outages) : o.lasts > 0 => e # RecoveryEvent(o)}

NoneOrOne(q, E) == None(q, E) \/ One(q, E)

\* An outage begins once and ends after that, if it does.
Course(o) ==
  /\ NoneOrOne(events, Failing(o.domain))
  /\ o.lasts > 0 => NoneOrOne(events, Recovering(o.domain))
  /\ o.lasts > 0 /\ ~None(events, Failing(o.domain)) => ~None(events, Recovering(o.domain))

Striking(o) ==
  None(events, Failing(o.domain)) /\ (o.lasts > 0 => ~None(events, Recovering(o.domain)))

Holding == {d \in Domains : \E o \in Elements(outages) : o.domain = d /\ Striking(o)}

OutageInv ==
  /\ outages \in FaultPlans /\ Separate(outages)
  /\ None(events, Unplanned) /\ \A o \in Elements(outages) : Course(o)
  /\ holds = Holding
  /\ DownWhileHeld

LEMMA PlannedOutages ==
  ASSUME outages \in FaultPlans
  PROVE  /\ Len(outages) \in Nat /\ DOMAIN outages = 1 .. Len(outages)
         /\ \A i \in DOMAIN outages : outages[i] \in Elements(outages)
         /\ \A o \in Elements(outages) : /\ o.domain \in Domains \cup {NodeItself}
                                         /\ o.spec \in FailureSpecs
                                         /\ o.from \in Nat /\ o.lasts \in Nat
<1>1. PICK S : /\ S = [domain : Domains \cup {NodeItself}, from : Nat, lasts : Nat,
                        spec : FailureSpecs]
               /\ outages \in Seq(S)
  BY LifecycleAssumption
<1>2. Len(outages) \in Nat /\ DOMAIN outages = 1 .. Len(outages)
      /\ \A i \in DOMAIN outages : outages[i] \in S
  <2>1. outages \in Seq(S)
    BY <1>1
  <2> QED BY <2>1
<1>3. \A o \in Elements(outages) : o \in S
  BY <1>2 DEF Elements
<1> QED BY <1>1, <1>2, <1>3 DEF Elements

\* Outages of a separate plan can be told apart by their domain.
LEMMA OutagesApart ==
  ASSUME Separate(outages), NEW o \in Elements(outages), NEW p \in Elements(outages)
  PROVE  /\ o.domain = p.domain => o = p
         /\ o.spec.mode = "degraded" <=> p.spec.mode = "degraded"
<1>1. PICK i \in DOMAIN outages : o = outages[i]
  BY DEF Elements
<1>2. PICK j \in DOMAIN outages : p = outages[j]
  BY DEF Elements
<1> QED BY <1>1, <1>2 DEF Separate

LEMMA StrikingIsInForce ==
  ASSUME LifeTypes, NEW o
  PROVE  Striking(o) <=> InForce(o)
<1>1. \A i \in DOMAIN events : events[i] \in AnyEvent
  BY DEF LifeTypes
<1>2. /\ None(events, Failing(o.domain)) <=>
           ~\E i \in DOMAIN events : events[i].type = "node-failure" /\ events[i].domain = o.domain
      /\ None(events, Recovering(o.domain)) <=>
           ~\E i \in DOMAIN events : events[i].type = "node-recovery" /\ events[i].domain = o.domain
  BY <1>1 DEF None, Failing, Recovering, FaultEvent
<1> QED BY <1>2 DEF Striking, InForce

LEMMA ForceIsInForceNext ==
  ASSUME LifeTypes', NEW o
  PROVE  Striking(o)' <=> InForce(o)'
<1>1. \A i \in DOMAIN events' : events'[i] \in AnyEvent
  BY DEF LifeTypes
<1>2. /\ None(events', Failing(o.domain)) <=>
           ~\E i \in DOMAIN events' : events'[i].type = "node-failure" /\ events'[i].domain = o.domain
      /\ None(events', Recovering(o.domain)) <=>
           ~\E i \in DOMAIN events' : events'[i].type = "node-recovery" /\ events'[i].domain = o.domain
  BY <1>1 DEF None, Failing, Recovering, FaultEvent
<1> QED BY <1>2 DEF Striking, InForce

\* The node is down as it should be, now and after a step.
Outright(o) == o.spec.mode # "degraded"

LEMMA DownAsForced ==
  ASSUME LifeTypes, LifeTypes', outages' = outages
  PROVE  /\ DownWhileHeld <=>
              /\ \A o \in Elements(outages) :
                   Outright(o) /\ Striking(o) /\ o.domain \in Domains => status = "failed"
              /\ status = "failed" => \E o \in Elements(outages) : Outright(o) /\ Striking(o)
         /\ DownWhileHeld' <=>
              /\ \A o \in Elements(outages) :
                   Outright(o) /\ Striking(o)' /\ o.domain \in Domains => status' = "failed"
              /\ status' = "failed" => \E o \in Elements(outages) : Outright(o) /\ Striking(o)'
<1>1. \A o : (Striking(o) <=> InForce(o)) /\ (Striking(o)' <=> InForce(o)')
  BY StrikingIsInForce, ForceIsInForceNext
<1> HIDE DEF Striking, InForce
<1> QED BY <1>1 DEF DownWhileHeld, Outright

\* Calls that do not strike the node neither stop nor start it.
LEMMA FailedStays ==
  ASSUME UNCHANGED vars \/ \E r \in Requests : HandleArrival(r) \/ HandleCompletion(r) \/ CancelRequest(r)
  PROVE  status' = "failed" <=> status = "failed"
<1>1. \A a, q, w : StatusOf(a, q, w) # "failed"
  BY DEF StatusOf
<1>2. ASSUME UpdateStatus PROVE status' = "failed" <=> status = "failed"
  BY <1>1, <1>2 DEF UpdateStatus
<1>3. ASSUME NEW r \in Requests, HandleArrival(r) PROVE status' = "failed" <=> status = "failed"
  BY <1>2, <1>3 DEF HandleArrival, ArriveFailed, ArriveServed, ArriveQueued
<1>4. ASSUME NEW r \in Requests, HandleCompletion(r) PROVE status' = "failed" <=> status = "failed"
  BY <1>2, <1>4 DEF HandleCompletion, LeaveService
<1>5. ASSUME NEW r \in Requests, CancelRequest(r) PROVE status' = "failed" <=> status = "failed"
  BY <1>2, <1>4, <1>5 DEF CancelRequest, CancelBlackhole, CancelHang, CancelQueued, CancelInService
<1> QED BY <1>3, <1>4, <1>5 DEF vars

\* What strikes and what stays as it was: all events that strike but the one in hand.
StrikesStay ==
  \A E \in SUBSET FaultEvent :
    /\ None(Tail(events), E) <=> None(events', E)
    /\ One(Tail(events), E) => One(events', E)

LEMMA NothingStrikes ==
  ASSUME NEW others, Scheduling(others), None(others, FaultEvent)
  PROVE  StrikesStay
<1> SUFFICES ASSUME NEW E \in SUBSET FaultEvent
             PROVE  /\ None(Tail(events), E) <=> None(events', E)
                    /\ One(Tail(events), E) => One(events', E)
  BY DEF StrikesStay
<1>1. NoEvent \notin E /\ (\A e \in E : e.type # "processing-complete") /\ None(others, E)
  BY EventsAreEvents DEF None, FaultEvent, Events
<1> QED BY <1>1 DEF Scheduling

LEMMA TailStays ==
  ASSUME LifeTypes, events # <<>>, events' = Tail(events)
  PROVE  StrikesStay
BY DEF StrikesStay

\* Events of other kinds leave the outages alone.
LEMMA OutagesStay ==
  ASSUME LifeTypes, LifeTypes', OutageInv, UNCHANGED faultVars,
         status' = "failed" <=> status = "failed",
         \A E \in SUBSET FaultEvent : /\ None(events, E) <=> None(events', E)
                                      /\ One(events, E) => One(events', E)
  PROVE  OutageInv'
<1>1. outages' = outages /\ holds' = holds /\ outages \in FaultPlans
  BY DEF faultVars, OutageInv
<1>2. \A d : Failing(d) \in SUBSET FaultEvent /\ Recovering(d) \in SUBSET FaultEvent
  BY DEF Failing, Recovering
<1>3. Unplanned' = Unplanned /\ Unplanned \in SUBSET FaultEvent
  BY <1>1 DEF Unplanned
<1>4. \A o \in Elements(outages) : Striking(o)' <=> Striking(o)
  BY <1>2 DEF Striking
<1>5. \A o \in Elements(outages) : Course(o)'
  BY <1>2 DEF Course, OutageInv, NoneOrOne
<1>6. DownWhileHeld'
  BY <1>1, <1>4, DownAsForced DEF OutageInv
<1>7. holds' = Holding'
  BY <1>1, <1>4 DEF OutageInv, Holding
<1> QED BY <1>1, <1>3, <1>5, <1>6, <1>7 DEF OutageInv

\* A handler of another event is one such step.
LEMMA HandledQuietly ==
  ASSUME LifeTypes, LifeTypes', OutageInv, events # <<>>, Head(events) \notin FaultEvent,
         StrikesStay, UNCHANGED faultVars, status' = "failed" <=> status = "failed"
  PROVE  OutageInv'
<1>1. ASSUME NEW E \in SUBSET FaultEvent
      PROVE  /\ None(events, E) <=> None(events', E)
             /\ One(events, E) => One(events', E)
  <2>1. Head(events) \notin E
    OBVIOUS
  <2>2. /\ None(events, E) <=> None(Tail(events), E)
        /\ One(events, E) => One(Tail(events), E)
    BY <2>1, HeadTaken DEF LifeTypes
  <2> QED BY <2>2 DEF StrikesStay
<1> QED BY <1>1, OutagesStay

LEMMA ServiceStrikesNobody ==
  ASSUME LifeInv, LifeInv', events # <<>>, NEW e \in (AnyEvent \cup {NoEvent}) \ FaultEvent,
         ScheduleService(e) \/ events' = Schedule(Tail(events), e)
  PROVE  StrikesStay
<1>1. LifeTypes /\ TypeOK /\ TypeOK'
  BY SeatedTypes DEF LifeInv
<1>2. Scheduling(<<e>>)
  BY <1>1, SchedulingService, SchedulingOne
<1> QED BY <1>2, Single, NothingStrikes

LEMMA ArrivalStrikesNobody ==
  ASSUME LifeInv, LifeInv', HandleRequestArrival
  PROVE  StrikesStay /\ (status' = "failed" <=> status = "failed")
<1>0. PICK r : r = Head(events).req
  OBVIOUS
<1>1. events # <<>> /\ LifeTypes /\ r \in Requests /\ now \in Nat
  BY <1>0, CarryingHead, SeatedTypes DEF HandleRequestArrival, InHand, LifeInv, CarriesAttempt, TypeOK
<1>2. deadline[r] \in Nat /\ timeoutSeq[r] \in Nat /\ NodeTimeout \in Nat
  BY <1>1, TimesAreNumbers DEF LifeTypes
<1>3. CASE UNCHANGED vars /\ \E why \in {"node_failed", "capacity_exceeded"} :
             events' = Schedule(Tail(events), Event("request-rejected", r, now, why))
  <2>1. PICK e : /\ \E why \in {"node_failed", "capacity_exceeded"} :
                       e = Event("request-rejected", r, now, why)
                 /\ events' = Schedule(Tail(events), e)
    BY <1>3
  <2>2. e \in AnyEvent \ FaultEvent
    BY <1>1, <2>1 DEF Event, AnyEvent, FaultEvent
  <2> QED BY <1>1, <1>3, <2>1, <2>2, ServiceStrikesNobody, FailedStays
<1>4. ASSUME HandleArrival(r), NEW e \in {HeldTimeoutEvent(r), NodeTimeoutEvent(r)},
             ScheduleService(e)
      PROVE  StrikesStay /\ (status' = "failed" <=> status = "failed")
  <2>1. e = NoEvent \/ \E at \in Nat : e = TimeoutEvent("node", r, at, timeoutSeq[r])
    BY <1>1, <1>2, <1>4 DEF HeldTimeoutEvent, NodeTimeoutEvent, Smaller
  <2>2. e \in (AnyEvent \cup {NoEvent}) \ FaultEvent
    <3>1. CASE e = NoEvent
      BY <3>1, EventsAreEvents DEF FaultEvent, Events
    <3>2. CASE \E at \in Nat : e = TimeoutEvent("node", r, at, timeoutSeq[r])
      BY <1>1, <1>2, <3>2 DEF TimeoutEvent, AnyEvent, FaultEvent
    <3> QED BY <2>1, <3>1, <3>2
  <2> QED BY <1>1, <1>4, <2>2, ServiceStrikesNobody, FailedStays
<1>5. \/ UNCHANGED vars /\ \E why \in {"node_failed", "capacity_exceeded"} :
             events' = Schedule(Tail(events), Event("request-rejected", r, now, why))
      \/ HandleArrival(r) /\ \E e \in {HeldTimeoutEvent(r), NodeTimeoutEvent(r)} : ScheduleService(e)
  BY <1>0 DEF HandleRequestArrival, HandleArrival
<1> QED BY <1>3, <1>4, <1>5

LEMMA CompletionStrikesNobody ==
  ASSUME LifeInv, LifeInv', HandleProcessingComplete
  PROVE  StrikesStay /\ (status' = "failed" <=> status = "failed")
<1>0. PICK r : r = Head(events).req
  OBVIOUS
<1>1. events # <<>> /\ LifeTypes /\ r \in Requests /\ now \in Nat
  BY <1>0, CarryingHead, SeatedTypes DEF HandleProcessingComplete, InHand, LifeInv, TypeOK
<1>2. CASE DropEvent
  BY <1>1, <1>2, TailStays, FailedStays DEF DropEvent
<1>3. ASSUME HandleCompletion(r),
             NEW e \in {Event("request-complete", r, now, 0),
                        Event("request-rejected", r, now, "node_error_rate")},
             ScheduleService(e)
      PROVE  StrikesStay /\ (status' = "failed" <=> status = "failed")
  <2>1. e \in AnyEvent \ FaultEvent
    BY <1>1, <1>3 DEF Event, AnyEvent, FaultEvent
  <2> QED BY <1>1, <1>3, <2>1, ServiceStrikesNobody, FailedStays
<1> QED BY <1>0, <1>2, <1>3 DEF HandleProcessingComplete

LEMMA RetryStrikesNobody ==
  ASSUME LifeInv, LifeInv', events # <<>>, UNCHANGED <<deadline, timeoutSeq>>,
         NEW r \in Requests, NEW retryable,
         \/ ScheduleService(NextAttempt(r, retryable))
         \/ events' = Schedule(Tail(events), NextAttempt(r, retryable))
  PROVE  StrikesStay
<1>1. LifeTypes /\ timeoutSeq' \in [Requests -> Nat] /\ deadline' = deadline /\ now \in Nat
  BY SeatedTypes DEF LifeInv, LifeTypes, TypeOK
<1>2. PICK e : e = NextAttempt(r, retryable)
  OBVIOUS
<1>3. e \in (AnyEvent \cup {NoEvent}) \ FaultEvent
  BY <1>1, <1>2, NextAttemptCarries
<1> QED BY <1>2, <1>3, ServiceStrikesNobody

LEMMA QuietHandlers ==
  ASSUME LifeInv, LifeInv', OutageInv,
         \/ HandleStaleEvent \/ HandleRequestArrival \/ HandleProcessingComplete
         \/ HandleRequestComplete \/ HandleRequestTimeout \/ HandleRequestRejected
  PROVE  OutageInv'
<1>1. /\ LifeTypes /\ LifeTypes' /\ events # <<>> /\ UNCHANGED faultVars
      /\ Head(events).type \notin {"node-failure", "node-recovery"}
  BY DEF LifeInv, HandleStaleEvent, HandleRequestArrival, HandleProcessingComplete,
         HandleRequestComplete, HandleRequestTimeout, HandleRequestRejected, InHand,
         DropEvent, faultVars
<1>2. Head(events) \notin FaultEvent
  BY <1>1 DEF FaultEvent
<1>3. CASE HandleStaleEvent \/ HandleRequestComplete
  <2>1. events' = Tail(events) /\ UNCHANGED vars
    BY <1>3 DEF HandleStaleEvent, HandleRequestComplete, DropEvent
  <2> QED BY <1>1, <1>2, <2>1, TailStays, FailedStays, HandledQuietly
<1>4. CASE HandleRequestArrival
  BY <1>1, <1>2, <1>4, ArrivalStrikesNobody, HandledQuietly
<1>5. CASE HandleProcessingComplete
  BY <1>1, <1>2, <1>5, CompletionStrikesNobody, HandledQuietly
<1>6. CASE HandleRequestTimeout
  <2>1. PICK r : r = Head(events).req /\ r \in Requests
    BY <1>1, <1>6, CarryingHead DEF HandleRequestTimeout, InHand
  <2>2. CASE DropEvent
    BY <1>1, <1>2, <2>2, TailStays, FailedStays, HandledQuietly DEF DropEvent
  <2>3. ASSUME NEW retryable, UNCHANGED <<deadline, completionSeq, timeoutSeq>>,
               ScheduleService(NextAttempt(r, retryable)), CancelRequest(r) \/ UNCHANGED vars
        PROVE  OutageInv'
    <3>1. StrikesStay
      BY <1>1, <2>1, <2>3, RetryStrikesNobody
    <3> QED BY <1>1, <1>2, <2>1, <2>3, <3>1, FailedStays, HandledQuietly
  <2> QED BY <1>6, <2>1, <2>2, <2>3 DEF HandleRequestTimeout
<1>7. CASE HandleRequestRejected
  <2>1. PICK r : r = Head(events).req /\ r \in Requests
    BY <1>1, <1>7, CarryingHead DEF HandleRequestRejected, InHand, CarriesAttempt
  <2>2. PICK retryable : /\ UNCHANGED <<deadline, completionSeq, timeoutSeq>> /\ UNCHANGED vars
                         /\ events' = Schedule(Tail(events), NextAttempt(r, retryable))
    BY <1>7, <2>1 DEF HandleRequestRejected
  <2>3. StrikesStay
    BY <1>1, <2>1, <2>2, RetryStrikesNobody
  <2> QED BY <1>1, <1>2, <2>2, <2>3, FailedStays, HandledQuietly
<1> QED BY <1>3, <1>4, <1>5, <1>6, <1>7

\* The event in hand is that of an outage, and it is the only such event.
LEMMA StrikeInHand ==
  ASSUME LifeTypes, LifeTypes', OutageInv, events # <<>>, Head(events) \in FaultEvent, StrikesStay,
         outages' = outages
  PROVE  /\ None(events', Unplanned')
         /\ \A E \in SUBSET FaultEvent :
              IF Head(events) \in E
                THEN NoneOrOne(events, E) => One(events, E) /\ None(events', E)
                ELSE /\ None(events, E) <=> None(events', E)
                     /\ One(events, E) => One(events', E)
         /\ \E o \in Elements(outages) :
              \/ Head(events) = FailureEvent(o)
              \/ o.lasts > 0 /\ Head(events) = RecoveryEvent(o)
<1>1. ASSUME NEW E \in SUBSET FaultEvent
      PROVE  IF Head(events) \in E
                THEN NoneOrOne(events, E) => One(events, E) /\ None(events', E)
                ELSE /\ None(events, E) <=> None(events', E)
                     /\ One(events, E) => One(events', E)
  <2>1. CASE Head(events) \in E
    <3>1. ~None(events, E) /\ (One(events, E) => None(Tail(events), E))
      BY <2>1, HeadTaken DEF LifeTypes
    <3> QED BY <2>1, <3>1 DEF StrikesStay, NoneOrOne
  <2>2. CASE Head(events) \notin E
    <3>1. /\ None(events, E) <=> None(Tail(events), E)
          /\ One(events, E) => One(Tail(events), E)
      BY <2>2, HeadTaken DEF LifeTypes
    <3> QED BY <2>2, <3>1 DEF StrikesStay
  <2> QED BY <2>1, <2>2
<1>2. Unplanned' = Unplanned /\ Unplanned \in SUBSET FaultEvent
  BY DEF Unplanned
<1>3. None(events', Unplanned) /\ Head(events) \notin Unplanned
  <2>1. None(events, Unplanned)
    BY DEF OutageInv
  <2>2. Head(events) \notin Unplanned
    BY <2>1, HeadTaken DEF LifeTypes
  <2> QED BY <1>1, <1>2, <2>1, <2>2
<1>4. \E o \in Elements(outages) :
              \/ Head(events) = FailureEvent(o)
              \/ o.lasts > 0 /\ Head(events) = RecoveryEvent(o)
  BY <1>3 DEF Unplanned
<1> QED BY <1>1, <1>2, <1>3, <1>4

LEMMA FaultSets ==
  ASSUME outages \in FaultPlans, NEW o \in Elements(outages), NEW d
  PROVE  /\ Failing(d) \in SUBSET FaultEvent /\ Recovering(d) \in SUBSET FaultEvent
         /\ FailureEvent(o) \in Failing(d) <=> d = o.domain
         /\ FailureEvent(o) \notin Recovering(d) /\ FailureEvent(o) \in FaultEvent
         /\ o.lasts > 0 => /\ RecoveryEvent(o) \in Recovering(d) <=> d = o.domain
                           /\ RecoveryEvent(o) \notin Failing(d) /\ RecoveryEvent(o) \in FaultEvent
<1>1. /\ o.domain \in Domains \cup {NodeItself} /\ o.spec \in FailureSpecs
      /\ o.from \in Nat /\ o.lasts \in Nat
  BY PlannedOutages
<1>2. FailureEvent(o) \in FaultEvent /\ FailureEvent(o).type = "node-failure"
      /\ FailureEvent(o).domain = o.domain
  BY <1>1 DEF FailureEvent, FaultEvent, AnyEvent
<1>3. o.lasts > 0 => /\ RecoveryEvent(o) \in FaultEvent /\ RecoveryEvent(o).type = "node-recovery"
                     /\ RecoveryEvent(o).domain = o.domain
  BY <1>1 DEF RecoveryEvent, FaultEvent, AnyEvent
<1> QED BY <1>2, <1>3 DEF Failing, Recovering

\* What an outage that is not the one in hand goes through.
LEMMA OthersInForce ==
  ASSUME LifeTypes, LifeTypes', OutageInv, events # <<>>, Head(events) \in FaultEvent, StrikesStay,
         outages' = outages, NEW o \in Elements(outages),
         Head(events) = FailureEvent(o) \/ (o.lasts > 0 /\ Head(events) = RecoveryEvent(o)),
         NEW p \in Elements(outages), p # o
  PROVE  Course(p)' /\ (Striking(p)' <=> Striking(p))
<1>1. p.domain # o.domain
  BY OutagesApart DEF OutageInv
<1>2. /\ Failing(p.domain) \in SUBSET FaultEvent /\ Recovering(p.domain) \in SUBSET FaultEvent
      /\ Head(events) \notin Failing(p.domain) /\ Head(events) \notin Recovering(p.domain)
  BY <1>1, FaultSets DEF OutageInv
<1>3. /\ None(events, Failing(p.domain)) <=> None(events', Failing(p.domain))
      /\ One(events, Failing(p.domain)) => One(events', Failing(p.domain))
      /\ None(events, Recovering(p.domain)) <=> None(events', Recovering(p.domain))
      /\ One(events, Recovering(p.domain)) => One(events', Recovering(p.domain))
  BY <1>2, StrikeInHand
<1>4. Course(p)
  BY DEF OutageInv
<1> QED BY <1>3, <1>4 DEF Course, Striking, NoneOrOne

LEMMA FailureHolds ==
  ASSUME LifeInv, LifeInv', OutageInv, HandleNodeFailure
  PROVE  OutageInv'
<1>1. /\ events # <<>> /\ LifeTypes /\ LifeTypes' /\ Head(events).type = "node-failure"
      /\ Head(events) \in FaultEvent /\ outages' = outages /\ outages \in FaultPlans
  <2>1. events # <<>> /\ LifeTypes /\ LifeTypes' /\ Head(events).type = "node-failure"
        /\ outages' = outages /\ outages \in FaultPlans
    BY DEF HandleNodeFailure, InHand, LifeInv, OutageInv
  <2> QED BY <2>1, CarryingHead DEF FaultEvent
<1>2. StrikesStay
  <2>1. PICK failed, F : Ends(failed, F)
    BY FailureEnds
  <2> QED BY <2>1, NothingStrikes DEF Ends
<1>3. PICK o \in Elements(outages) : Head(events) = FailureEvent(o)
  <2>1. PICK o \in Elements(outages) :
          Head(events) = FailureEvent(o) \/ (o.lasts > 0 /\ Head(events) = RecoveryEvent(o))
    BY <1>1, <1>2, StrikeInHand
  <2>2. o.lasts > 0 => RecoveryEvent(o).type = "node-recovery"
    BY DEF RecoveryEvent
  <2> QED BY <1>1, <2>1, <2>2
<1>4. ASSUME NEW p \in Elements(outages), p # o
      PROVE  Course(p)' /\ (Striking(p)' <=> Striking(p))
  BY <1>1, <1>2, <1>3, <1>4, OthersInForce
<1>5. Course(o)' /\ Striking(o)' /\ None(events', Unplanned')
  <2>1. /\ Failing(o.domain) \in SUBSET FaultEvent /\ Recovering(o.domain) \in SUBSET FaultEvent
        /\ Head(events) \in Failing(o.domain) /\ Head(events) \notin Recovering(o.domain)
    BY <1>1, <1>3, FaultSets
  <2>2. Course(o)
    BY DEF OutageInv
  <2>3. /\ One(events, Failing(o.domain)) /\ None(events', Failing(o.domain))
        /\ None(events, Recovering(o.domain)) <=> None(events', Recovering(o.domain))
        /\ One(events, Recovering(o.domain)) => One(events', Recovering(o.domain))
        /\ None(events', Unplanned')
    BY <1>1, <1>2, <2>1, <2>2, StrikeInHand DEF Course
  <2> QED BY <2>2, <2>3 DEF Course, Striking, NoneOrOne, One
<1>6. holds' = Holding'
  <2>1. holds' = holds \cup ({o.domain} \cap Domains)
    BY <1>3 DEF HandleNodeFailure, FailureEvent
  <2>2. \A p \in Elements(outages) : Striking(p)' <=> p = o \/ Striking(p)
    BY <1>4, <1>5
  <2>3. Holding' = {d \in Domains : \E p \in Elements(outages) : p.domain = d /\ Striking(p)'}
    BY <1>1 DEF Holding
  <2>4. holds = {d \in Domains : \E p \in Elements(outages) : p.domain = d /\ Striking(p)}
    BY DEF OutageInv, Holding
  <2> QED BY <2>1, <2>2, <2>3, <2>4
<1>7. DownWhileHeld'
  <2>1. PICK spec : spec = o.spec /\ Strikes(spec)
    BY <1>3 DEF HandleNodeFailure, FailureEvent, Strikes
  <2>2. \A p \in Elements(outages) : Outright(p) <=> Outright(o)
    BY OutagesApart DEF OutageInv, Outright
  <2>3. CASE Outright(o)
    <3>1. status' = "failed"
      BY <2>1, <2>3 DEF Strikes, Outright, FailDegraded, FailReset, FailHang
    <3> QED BY <1>1, <1>5, <2>3, <3>1, DownAsForced
  <2>4. CASE ~Outright(o)
    <3>1. status' = status
      BY <2>1, <2>4 DEF Strikes, Outright, FailDegraded, FailReset, FailHang
    <3>2. status # "failed"
      BY <1>1, <2>2, <2>4, DownAsForced DEF OutageInv
    <3> QED BY <1>1, <2>2, <2>4, <3>1, <3>2, DownAsForced
  <2> QED BY <2>3, <2>4
<1>8. \A p \in Elements(outages) : Course(p)'
  BY <1>4, <1>5
<1> QED BY <1>1, <1>5, <1>6, <1>7, <1>8 DEF OutageInv

\* A recovery comes after the failure it ends.
LEMMA RecoveryComesAfter ==
  ASSUME LifeInv, OutageInv, events # <<>>, NEW o \in Elements(outages), o.lasts > 0,
         Head(events) = RecoveryEvent(o)
  PROVE  None(events, Failing(o.domain))
<1> SUFFICES ASSUME NEW i \in DOMAIN events, events[i] \in Failing(o.domain)
             PROVE  FALSE
  BY DEF None
<1>1. outages \in FaultPlans /\ o.from \in Nat /\ o.lasts \in Nat
  BY PlannedOutages DEF OutageInv
<1>2. events[i] \notin Unplanned
  BY DEF OutageInv, None
<1>3. PICK p \in Elements(outages) : events[i] = FailureEvent(p)
  <2>1. PICK p \in Elements(outages) :
          events[i] = FailureEvent(p) \/ (p.lasts > 0 /\ events[i] = RecoveryEvent(p))
    BY <1>2 DEF Unplanned, Failing
  <2>2. events[i].type = "node-failure" /\ (p.lasts > 0 => RecoveryEvent(p).type = "node-recovery")
    BY DEF Failing, RecoveryEvent
  <2> QED BY <2>1, <2>2
<1>4. p = o
  <2>1. p.domain = o.domain
    BY <1>3 DEF Failing, FailureEvent
  <2> QED BY <2>1, OutagesApart DEF OutageInv
<1>5. Head(events).at <= events[i].at
  BY TimesOfEvents
<1>6. Head(events).at = o.from + o.lasts /\ events[i].at = o.from
  BY <1>1, <1>3, <1>4 DEF RecoveryEvent, FailureEvent
<1> QED BY <1>1, <1>5, <1>6

LEMMA RecoveryLifts ==
  ASSUME LifeInv, LifeInv', OutageInv, HandleNodeRecovery
  PROVE  OutageInv'
<1>1. /\ events # <<>> /\ LifeTypes /\ LifeTypes' /\ Head(events).type = "node-recovery"
      /\ Head(events) \in FaultEvent /\ outages' = outages /\ outages \in FaultPlans
  <2>1. events # <<>> /\ LifeTypes /\ LifeTypes' /\ Head(events).type = "node-recovery"
        /\ outages' = outages /\ outages \in FaultPlans
    BY DEF HandleNodeRecovery, InHand, LifeInv, OutageInv
  <2> QED BY <2>1, CarryingHead DEF FaultEvent
<1>2. StrikesStay
  <2>1. CASE events' = Tail(events)
    BY <1>1, <2>1, TailStays
  <2>2. CASE RecoverNode
    <3>1. PICK failed, F : Ends(failed, F)
      BY <1>1, <2>2, RecoveryEnds
    <3> QED BY <3>1, NothingStrikes DEF Ends
  <2> QED BY <2>1, <2>2 DEF HandleNodeRecovery
<1>3. PICK o \in Elements(outages) : o.lasts > 0 /\ Head(events) = RecoveryEvent(o)
  <2>1. PICK o \in Elements(outages) :
          Head(events) = FailureEvent(o) \/ (o.lasts > 0 /\ Head(events) = RecoveryEvent(o))
    BY <1>1, <1>2, StrikeInHand
  <2>2. FailureEvent(o).type = "node-failure"
    BY DEF FailureEvent
  <2> QED BY <1>1, <2>1, <2>2
<1>4. ASSUME NEW p \in Elements(outages), p # o
      PROVE  Course(p)' /\ (Striking(p)' <=> Striking(p))
  BY <1>1, <1>2, <1>3, <1>4, OthersInForce
<1>5. Course(o)' /\ ~Striking(o)' /\ None(events', Unplanned')
  <2>1. /\ Failing(o.domain) \in SUBSET FaultEvent /\ Recovering(o.domain) \in SUBSET FaultEvent
        /\ Head(events) \in Recovering(o.domain) /\ Head(events) \notin Failing(o.domain)
    BY <1>1, <1>3, FaultSets
  <2>2. Course(o) /\ None(events, Failing(o.domain))
    BY <1>1, <1>3, RecoveryComesAfter DEF OutageInv
  <2>3. /\ None(events', Failing(o.domain)) /\ None(events', Recovering(o.domain))
        /\ None(events', Unplanned')
    BY <1>1, <1>2, <1>3, <2>1, <2>2, StrikeInHand DEF Course
  <2> QED BY <1>3, <2>3 DEF Course, Striking, NoneOrOne
<1>6. holds' = Holding'
  <2>1. holds' = holds \ {o.domain}
    BY <1>3 DEF HandleNodeRecovery, LiftHold, RecoveryEvent
  <2>2. \A p \in Elements(outages) : Striking(p)' <=> p # o /\ Striking(p)
    BY <1>4, <1>5
  <2>3. Holding' = {d \in Domains : \E p \in Elements(outages) : p.domain = d /\ Striking(p)'}
    BY <1>1 DEF Holding
  <2>4. holds = {d \in Domains : \E p \in Elements(outages) : p.domain = d /\ Striking(p)}
    BY DEF OutageInv, Holding
  <2>5. \A p \in Elements(outages) : p.domain = o.domain => p = o
    BY OutagesApart DEF OutageInv
  <2> QED BY <2>1, <2>2, <2>3, <2>4, <2>5
<1>7. DownWhileHeld'
  <2>1. CASE holds' = {} /\ RecoverNode
    <3>1. status' # "failed"
      <4>1. \A a, q, w : StatusOf(a, q, w) # "failed"
        BY DEF StatusOf
      <4> QED BY <2>1, <4>1 DEF RecoverNode, Recover, RecoverDegraded, RecoverReset, RecoverResume
    <3>2. \A p \in Elements(outages) : ~(Striking(p)' /\ p.domain \in Domains)
      BY <1>1, <1>6, <2>1 DEF Holding
    <3> QED BY <1>1, <3>1, <3>2, DownAsForced
  <2>2. CASE holds' # {} /\ UNCHANGED vars
    <3>1. status' = status
      BY <2>2 DEF vars
    <3>2. PICK p \in Elements(outages) : Striking(p)'
      BY <1>1, <1>6, <2>2 DEF Holding
    <3>3. \A q, s \in Elements(outages) : Outright(q) <=> Outright(s)
      BY OutagesApart DEF OutageInv, Outright
    <3>4. \A q \in Elements(outages) : Striking(q)' => Striking(q)
      BY <1>4, <1>5
    <3> QED BY <1>1, <3>1, <3>2, <3>3, <3>4, DownAsForced DEF OutageInv
  <2> QED BY <2>1, <2>2 DEF HandleNodeRecovery
<1>8. \A p \in Elements(outages) : Course(p)'
  BY <1>4, <1>5
<1> QED BY <1>1, <1>5, <1>6, <1>7, <1>8 DEF OutageInv

LEMMA OutageStep == LifeInv /\ LifeInv' /\ OutageInv /\ [LNext]_<<vars, lifeVars>> => OutageInv'
<1> SUFFICES ASSUME LifeInv, LifeInv', OutageInv, [LNext]_<<vars, lifeVars>> PROVE OutageInv'
  OBVIOUS
<1>1. CASE AdvanceClock \/ UNCHANGED <<vars, lifeVars>>
  <2>1. UNCHANGED <<events, faultVars, status>>
    BY <1>1 DEF AdvanceClock, vars, lifeVars
  <2> QED BY <2>1, OutagesStay DEF LifeInv
<1>2. CASE \/ HandleStaleEvent \/ HandleRequestArrival \/ HandleProcessingComplete
           \/ HandleRequestComplete \/ HandleRequestTimeout \/ HandleRequestRejected
  BY <1>2, QuietHandlers
<1> QED BY <1>1, <1>2, FailureHolds, RecoveryLifts DEF LNext, HandleEvent, Finished

\* A plan of separate outages has one event of each kind for each of them.
LEMMA FaultsOfPlan ==
  ASSUME outages \in FaultPlans, Separate(outages)
  PROVE  /\ None(FaultEvents(outages), Unplanned)
         /\ \A o \in Elements(outages) :
              /\ One(FaultEvents(outages), Failing(o.domain))
              /\ o.lasts > 0 => One(FaultEvents(outages), Recovering(o.domain))
<1> DEFINE N == Len(outages)
<1>1. N \in Nat /\ DOMAIN outages = 1 .. N /\ \A i \in 1 .. N : outages[i] \in Elements(outages)
  BY PlannedOutages
<1>2. PICK q : q = FaultEvents(outages)
  OBVIOUS
<1>3. /\ DOMAIN q = 1 .. 2 * N
      /\ \A k \in 1 .. 2 * N : /\ k % 2 = 1 => q[k] = FailureEvent(outages[(k + 1) \div 2])
                               /\ k % 2 # 1 => q[k] = RecoveryEvent(outages[k \div 2])
  BY <1>2 DEF FaultEvents
<1>4. \A k \in 1 .. 2 * N : /\ k % 2 = 1 => (k + 1) \div 2 \in 1 .. N /\ k = 2 * ((k + 1) \div 2) - 1
                            /\ k % 2 # 1 => k \div 2 \in 1 .. N /\ k = 2 * (k \div 2)
  BY <1>1
<1>5. \A i \in 1 .. N : /\ 2 * i - 1 \in 1 .. 2 * N /\ (2 * i - 1) % 2 = 1 /\ (2 * i - 1 + 1) \div 2 = i
                        /\ 2 * i \in 1 .. 2 * N /\ (2 * i) % 2 # 1 /\ (2 * i) \div 2 = i
  BY <1>1
<1> HIDE DEF N
<1>6. ASSUME NEW k \in 1 .. 2 * N, q[k] \in FaultEvent
      PROVE  \E i \in 1 .. N :
               \/ k = 2 * i - 1 /\ q[k] = FailureEvent(outages[i])
               \/ k = 2 * i /\ q[k] = RecoveryEvent(outages[i]) /\ outages[i].lasts > 0
  <2>1. CASE k % 2 = 1
    BY <1>3, <1>4, <2>1
  <2>2. CASE k % 2 # 1
    <3>1. PICK i \in 1 .. N : i = k \div 2 /\ k = 2 * i /\ q[k] = RecoveryEvent(outages[i])
      BY <1>3, <1>4, <2>2
    <3>2. RecoveryEvent(outages[i]) # NoEvent
      BY <1>6, <3>1, EventsAreEvents DEF FaultEvent, Events
    <3>3. PICK o \in Elements(outages) : o = outages[i]
      BY <1>1
    <3>4. o.lasts \in Nat
      BY PlannedOutages
    <3>5. o.lasts # 0
      BY <3>2, <3>3 DEF RecoveryEvent
    <3>6. o.lasts > 0
      BY <3>4, <3>5
    <3> QED BY <3>1, <3>3, <3>6
  <2> QED BY <2>1, <2>2
<1>7. None(q, Unplanned)
  <2>1. \A k \in 1 .. 2 * N : q[k] \in FaultEvent => q[k] \notin Unplanned
    BY <1>1, <1>6 DEF Unplanned
  <2>2. Unplanned \subseteq FaultEvent
    BY DEF Unplanned
  <2> QED BY <1>3, <2>1, <2>2 DEF None
<1>8. ASSUME NEW i \in 1 .. N
      PROVE  /\ One(q, Failing(outages[i].domain))
             /\ outages[i].lasts > 0 => One(q, Recovering(outages[i].domain))
  <2>1. PICK o \in Elements(outages) : o = outages[i]
    BY <1>1
  <2>2. \A j \in 1 .. N : outages[j].domain = o.domain => j = i
    BY <1>1, <2>1 DEF Separate
  <2>3. \A k \in 1 .. 2 * N :
          /\ q[k] \in Failing(o.domain) => k = 2 * i - 1
          /\ q[k] \in Recovering(o.domain) => k = 2 * i
    <3> SUFFICES ASSUME NEW k \in 1 .. 2 * N, q[k] \in Failing(o.domain) \cup Recovering(o.domain)
                 PROVE  /\ q[k] \in Failing(o.domain) => k = 2 * i - 1
                        /\ q[k] \in Recovering(o.domain) => k = 2 * i
      OBVIOUS
    <3>1. PICK j \in 1 .. N :
               \/ k = 2 * j - 1 /\ q[k] = FailureEvent(outages[j])
               \/ k = 2 * j /\ q[k] = RecoveryEvent(outages[j]) /\ outages[j].lasts > 0
      BY <1>6, FaultSets DEF Failing, Recovering
    <3>2. PICK p \in Elements(outages) : p = outages[j]
      BY <1>1
    <3>3. j = i
      BY <2>2, <3>1, <3>2, FaultSets
    <3> QED BY <3>1, <3>2, <3>3, FaultSets
  <2>4. q[2 * i - 1] = FailureEvent(o) /\ (o.lasts > 0 => q[2 * i] = RecoveryEvent(o))
    BY <1>3, <1>5, <2>1
  <2>5. q[2 * i - 1] \in Failing(o.domain) /\ (o.lasts > 0 => q[2 * i] \in Recovering(o.domain))
    BY <2>4, FaultSets
  <2>6. Few(q, Failing(o.domain)) /\ ~None(q, Failing(o.domain))
    BY <1>3, <1>5, <2>3, <2>5 DEF Few, None
  <2>7. o.lasts > 0 => Few(q, Recovering(o.domain)) /\ ~None(q, Recovering(o.domain))
    BY <1>3, <1>5, <2>3, <2>5 DEF Few, None
  <2> QED BY <2>1, <2>6, <2>7 DEF One
<1>9. \A o \in Elements(outages) : \E i \in 1 .. N : o = outages[i]
  BY <1>1 DEF Elements
<1> QED BY <1>2, <1>7, <1>8, <1>9

LEMMA OutageInit == LInit /\ Separate(outages) => OutageInv
<1> SUFFICES ASSUME LInit, Separate(outages) PROVE OutageInv
  OBVIOUS
<1>1. PICK first \in [Requests -> Arrivals], order \in SetToSeqs(Requests) :
        events \in ScheduleAll(FaultEvents(outages),
             [i \in DOMAIN order |-> Event("request-arrival", order[i], first[order[i]], 0)])
  BY DEF LInit
<1>2. PICK new : new = [i \in DOMAIN order |-> Event("request-arrival", order[i], first[order[i]], 0)]
  OBVIOUS
<1>3. new \in Seq(AnyEvent \cup {NoEvent}) /\ None(new, FaultEvent)
  BY <1>2, FirstArrivals DEF None, FaultEvent, Event
<1>4. outages \in FaultPlans /\ FaultEvents(outages) \in Seq(AnyEvent \cup {NoEvent})
  BY FaultsAreEvents DEF LInit
<1>5. ASSUME NEW E \in SUBSET FaultEvent
      PROVE  /\ None(FaultEvents(outages), E) => None(events, E)
             /\ One(FaultEvents(outages), E) => One(events, E)
  <2>1. NoEvent \notin E /\ None(new, E)
    BY <1>3, EventsAreEvents DEF FaultEvent, Events, None
  <2>2. events \in ScheduleAll(FaultEvents(outages), new)
    BY <1>1, <1>2
  <2> QED BY <1>3, <1>4, <2>1, <2>2, FirstEvents
<1>6. \A d : Failing(d) \in SUBSET FaultEvent /\ Recovering(d) \in SUBSET FaultEvent
  BY DEF Failing, Recovering
<1>7. ASSUME NEW o \in Elements(outages)
      PROVE  Course(o) /\ ~Striking(o)
  <2>1. /\ One(events, Failing(o.domain))
        /\ o.lasts > 0 => One(events, Recovering(o.domain))
    BY <1>4, <1>5, <1>6, FaultsOfPlan
  <2> QED BY <2>1 DEF Course, Striking, NoneOrOne, One
<1>8. None(events, Unplanned)
  <2>1. Unplanned \in SUBSET FaultEvent
    BY DEF Unplanned
  <2> QED BY <1>4, <1>5, <2>1, FaultsOfPlan
<1>9. holds = Holding
  BY <1>7 DEF LInit, Holding
<1>10. DownWhileHeld
  <2>1. LifeTypes /\ status # "failed"
    BY LifeInit DEF LifeInv, LInit, Init
  <2>2. \A o : Striking(o) <=> InForce(o)
    BY <2>1, StrikingIsInForce
  <2> QED BY <1>7, <2>1, <2>2 DEF DownWhileHeld
<1> QED BY <1>4, <1>7, <1>8, <1>9, <1>10 DEF OutageInv

\* The node stays down as long as an outage of its region or its zone is in force,
\* injected and not yet recovered, and is up once no outage is, its own faults included,
\* however outages of the different domains overlap and in whatever order the queue
\* serves their events (the holds that handleNodeFailure and handleNodeRecovery count).
\* For every plan of at most one outage per domain, degraded ones apart from the others.
THEOREM OutagesAddUp == LSpec /\ Separate(outages) => []DownWhileHeld
<1>1. OutageInv => DownWhileHeld
  BY DEF OutageInv
<1>2. LInit /\ Separate(outages) => OutageInv
  BY OutageInit
<1>3. LifeInv /\ LifeInv' /\ OutageInv /\ [LNext]_<<vars, lifeVars>> => OutageInv'
  BY OutageStep
<1> QED BY Lives, <1>1, <1>2, <1>3, PTL DEF LSpec

===============================================================================
