------------------------ MODULE CircuitBreakerProofs ------------------------
(***************************************************************************)
(* Machine-checked proofs about CircuitBreaker: the breaker's state stays  *)
(* well formed, its phases keep apart and no probe slot leaks but by a     *)
(* lost probe, for any number of calls, window and probes.                 *)
(***************************************************************************)
EXTENDS CircuitBreaker, FiniteSetTheorems, TLAPS

BreakerType ==
  [phase : {"closed", "open", "half-open"}, recentOutcomes : Seq(BOOLEAN),
   openFor : 0 .. RecoveryTimeout, halfOpenInFlight : 0 .. HalfOpenRequests,
   halfOpenSuccesses : 0 .. HalfOpenRequests]

KeptApart(b) ==
  /\ b.phase # "closed" => b.recentOutcomes = <<>>
  /\ b.phase # "half-open" => b.halfOpenInFlight = 0 /\ b.halfOpenSuccesses = 0

WellFormed(b) == b \in BreakerType /\ KeptApart(b)

\* A breaker that enters a phase is well formed: its fields start empty.
LEMMA InWellFormed ==
  ASSUME NEW phase \in {"closed", "open", "half-open"}
  PROVE  WellFormed(In(phase)) /\ In(phase).phase = phase /\ In(phase).halfOpenInFlight = 0
BY BreakerAssumption, SMT DEF WellFormed, BreakerType, KeptApart, In

\* Waking an open breaker keeps it well formed.
LEMMA WokenWellFormed ==
  ASSUME NEW b, WellFormed(b)
  PROVE  WellFormed(Woken(b))
BY InWellFormed DEF Woken

\* A slot is granted only where one is free, so the count stays in range.
LEMMA GrantedWellFormed ==
  ASSUME NEW b, WellFormed(b), Grants(b)
  PROVE  /\ WellFormed(Granted(b))
         /\ Granted(b).phase = b.phase
         /\ b.phase = "half-open" => Granted(b).halfOpenInFlight = b.halfOpenInFlight + 1
BY BreakerAssumption, SMT DEF WellFormed, BreakerType, KeptApart, Granted, Grants

\* The window is a sequence of outcomes.
LEMMA WindowType ==
  ASSUME NEW b \in BreakerType, NEW success \in BOOLEAN
  PROVE  Window(b, success) \in Seq(BOOLEAN)
<1>1. Append(b.recentOutcomes, success) \in Seq(BOOLEAN)
  BY SMT DEF BreakerType
<1>. QED
  BY <1>1, SMT DEF Window

\* A function on the names of the breaker's fields is the record of its values.
LEMMA AsRecord ==
  ASSUME NEW e, e = [x \in {"phase", "recentOutcomes", "openFor",
                            "halfOpenInFlight", "halfOpenSuccesses"} |-> e[x]]
  PROVE  e = [phase |-> e.phase, recentOutcomes |-> e.recentOutcomes, openFor |-> e.openFor,
              halfOpenInFlight |-> e.halfOpenInFlight,
              halfOpenSuccesses |-> e.halfOpenSuccesses]
BY SMT

\* The fields of a breaker, and what each may hold.
LEMMA BreakerFields ==
  ASSUME NEW b \in BreakerType
  PROVE  /\ DOMAIN b = {"phase", "recentOutcomes", "openFor",
                         "halfOpenInFlight", "halfOpenSuccesses"}
         /\ b.halfOpenInFlight \in 0 .. HalfOpenRequests
         /\ b.halfOpenSuccesses \in 0 .. HalfOpenRequests
         /\ b.openFor \in 0 .. RecoveryTimeout
         /\ b.recentOutcomes \in Seq(BOOLEAN)
BY SMT DEF BreakerType

\* A closed breaker with a new window is well formed.
LEMMA ClosedWellFormed ==
  ASSUME NEW b, WellFormed(b), b.phase # "half-open", NEW w \in Seq(BOOLEAN),
         NEW e, e = [b EXCEPT !.phase = "closed", !.recentOutcomes = w, !.openFor = 0]
  PROVE  WellFormed(e) /\ e.phase = "closed"
<1>1. DOMAIN b = {"phase", "recentOutcomes", "openFor",
                  "halfOpenInFlight", "halfOpenSuccesses"}
  BY BreakerFields DEF WellFormed
<1>2. e = [x \in DOMAIN b |-> IF x = "openFor" THEN 0
             ELSE IF x = "recentOutcomes" THEN w
             ELSE IF x = "phase" THEN "closed" ELSE b[x]]
  BY <1>1, Zenon
<1>3. /\ e.phase = "closed" /\ e.recentOutcomes = w /\ e.openFor = 0
      /\ e.halfOpenInFlight = b.halfOpenInFlight
      /\ e.halfOpenSuccesses = b.halfOpenSuccesses
  BY <1>1, SMT
<1>4. e = [phase |-> e.phase, recentOutcomes |-> e.recentOutcomes, openFor |-> e.openFor,
           halfOpenInFlight |-> e.halfOpenInFlight,
           halfOpenSuccesses |-> e.halfOpenSuccesses]
  <2>1. e = [x \in DOMAIN b |-> e[x]]
    BY <1>2, Zenon
  <2>. QED
    BY <1>1, <2>1, AsRecord
<1>5. b.halfOpenInFlight = 0 /\ b.halfOpenSuccesses = 0
  BY DEF WellFormed, KeptApart
<1>6. 0 \in 0 .. RecoveryTimeout /\ 0 \in 0 .. HalfOpenRequests
  BY BreakerAssumption, SMT
<1>. QED
  BY <1>3, <1>4, <1>5, <1>6 DEF WellFormed, BreakerType, KeptApart

\* A successful probe that does not close the breaker leaves it well formed.
LEMMA SuccessWellFormed ==
  ASSUME NEW b, WellFormed(b), b.phase = "half-open",
         ~(b.halfOpenSuccesses + 1 >= HalfOpenRequests), NEW e,
         e = [b EXCEPT !.halfOpenSuccesses = @ + 1,
                       !.halfOpenInFlight = IF @ > 0 THEN @ - 1 ELSE 0]
  PROVE  /\ WellFormed(e)
         /\ e.halfOpenInFlight = IF b.halfOpenInFlight > 0 THEN b.halfOpenInFlight - 1 ELSE 0
<1>. DEFINE slots == IF b.halfOpenInFlight > 0 THEN b.halfOpenInFlight - 1 ELSE 0
            successes == b.halfOpenSuccesses + 1
<1>1. /\ DOMAIN b = {"phase", "recentOutcomes", "openFor",
                     "halfOpenInFlight", "halfOpenSuccesses"}
      /\ b.halfOpenInFlight \in 0 .. HalfOpenRequests
      /\ b.halfOpenSuccesses \in 0 .. HalfOpenRequests
      /\ b.openFor \in 0 .. RecoveryTimeout
      /\ b.recentOutcomes \in Seq(BOOLEAN)
  BY BreakerFields DEF WellFormed
<1>2. slots \in 0 .. HalfOpenRequests /\ successes \in 0 .. HalfOpenRequests
  BY <1>1, BreakerAssumption, SMT
<1>. HIDE DEF slots, successes
<1>3. e = [b EXCEPT !.halfOpenSuccesses = successes, !.halfOpenInFlight = slots]
  BY DEF slots, successes
<1>4. e = [x \in DOMAIN b |-> IF x = "halfOpenInFlight" THEN slots
             ELSE IF x = "halfOpenSuccesses" THEN successes ELSE b[x]]
  BY <1>1, <1>3, Zenon
<1>5. /\ e.phase = b.phase /\ e.recentOutcomes = b.recentOutcomes /\ e.openFor = b.openFor
      /\ e.halfOpenInFlight = slots /\ e.halfOpenSuccesses = successes
  BY <1>1, <1>4
<1>6. e = [phase |-> e.phase, recentOutcomes |-> e.recentOutcomes, openFor |-> e.openFor,
           halfOpenInFlight |-> e.halfOpenInFlight,
           halfOpenSuccesses |-> e.halfOpenSuccesses]
  <2>1. e = [x \in DOMAIN b |-> e[x]]
    BY <1>4, Zenon
  <2>. QED
    BY <1>1, <2>1, AsRecord
<1>7. e \in BreakerType
  BY <1>1, <1>2, <1>5, <1>6 DEF BreakerType
<1>8. KeptApart(e)
  BY <1>5 DEF WellFormed, KeptApart
<1>. QED
  BY <1>5, <1>7, <1>8 DEF WellFormed, slots

\* An outcome keeps the breaker well formed, in every phase it may find, and
\* gives a half-open breaker's slot back.
LEMMA RecordedWellFormed ==
  ASSUME NEW b, WellFormed(b), NEW success \in BOOLEAN
  PROVE  /\ WellFormed(Recorded(b, success))
         /\ Recorded(b, success).phase = "half-open" =>
              /\ b.phase = "half-open"
              /\ Recorded(b, success).halfOpenInFlight
                   = IF b.halfOpenInFlight > 0 THEN b.halfOpenInFlight - 1 ELSE 0
<1>1. CASE b.phase = "half-open"
  <2>1. CASE ~success
    BY <1>1, <2>1, InWellFormed DEF Recorded, ProbeRecorded
  <2>2. CASE success /\ b.halfOpenSuccesses + 1 >= HalfOpenRequests
    BY <1>1, <2>2, InWellFormed DEF Recorded, ProbeRecorded
  <2>3. CASE success /\ ~(b.halfOpenSuccesses + 1 >= HalfOpenRequests)
    <3>. DEFINE e == [b EXCEPT !.halfOpenSuccesses = @ + 1,
                               !.halfOpenInFlight = IF @ > 0 THEN @ - 1 ELSE 0]
    <3>1. Recorded(b, success) = e
      BY <1>1, <2>3 DEF Recorded, ProbeRecorded
    <3>2. /\ WellFormed(e)
          /\ e.halfOpenInFlight = IF b.halfOpenInFlight > 0 THEN b.halfOpenInFlight - 1 ELSE 0
      BY <1>1, <2>3, SuccessWellFormed
    <3>. HIDE DEF e
    <3>. QED
      BY <1>1, <3>1, <3>2
  <2>. QED
    BY <2>1, <2>2, <2>3
<1>2. CASE b.phase # "half-open"
  <2>. DEFINE w == Window(b, success)
  <2>1. w \in Seq(BOOLEAN)
    BY WindowType DEF WellFormed
  <2>2. CASE Len(w) >= FailureCount /\ Failures(w) >= TripAt
    BY <1>2, <2>2, InWellFormed DEF Recorded, CallRecorded
  <2>3. CASE ~(Len(w) >= FailureCount /\ Failures(w) >= TripAt)
    <3>. HIDE DEF w
    <3>1. Recorded(b, success)
            = [b EXCEPT !.phase = "closed", !.recentOutcomes = w, !.openFor = 0]
      BY <1>2, <2>3 DEF Recorded, CallRecorded, w
    <3>. QED
      BY <1>2, <2>1, <3>1, ClosedWellFormed
  <2>. QED
    BY <2>2, <2>3
<1>. QED
  BY <1>1, <1>2

IInv == WellFormed(breaker) /\ tracked \subseteq Calls /\ probes \subseteq Calls

\* The breaker starts well formed.
LEMMA InitInv == Init => IInv
BY InWellFormed DEF Init, IInv

\* Every step keeps it well formed, lost outcomes or not.
LEMMA NextInv == IInv /\ [Next]_vars => IInv'
<1>. SUFFICES ASSUME IInv, [Next]_vars PROVE IInv'
  OBVIOUS
<1>. USE DEF IInv
<1>1. ASSUME NEW calls \in SUBSET Calls, Route(calls) PROVE IInv'
  BY <1>1, WokenWellFormed, GrantedWellFormed DEF Route, Remember
<1>2. CASE FastReject
  BY <1>2, WokenWellFormed DEF FastReject
<1>3. ASSUME NEW success \in BOOLEAN, RouteNowhere(success) PROVE IInv'
  BY <1>3, WokenWellFormed, GrantedWellFormed, RecordedWellFormed DEF RouteNowhere, Remember
<1>4. ASSUME NEW c \in Calls, NEW success \in BOOLEAN, Answer(c, success) PROVE IInv'
  BY <1>4, RecordedWellFormed DEF Answer, Remember
<1>5. ASSUME NEW c \in Calls, Lose(c) PROVE IInv'
  BY <1>5 DEF Lose
<1>6. CASE Tick
  <2>1. WellFormed(breaker')
    BY <1>6, BreakerAssumption, SMT DEF Tick, WellFormed, BreakerType, KeptApart
  <2>. QED
    BY <2>1, <1>6 DEF Tick
<1>7. CASE UNCHANGED vars
  BY <1>7 DEF vars
<1>. QED
  BY <1>1, <1>2, <1>3, <1>4, <1>5, <1>6, <1>7 DEF Next, RouteSome, EndCall

\* In every reachable state the breaker's record is well formed: its slot and
\* success counters stay within the configured number of probes.
THEOREM BreakerTypeCorrect == Spec => []TypeOK
<1>1. IInv => TypeOK
  BY DEF IInv, WellFormed, BreakerType, TypeOK
<1>. QED
  BY InitInv, NextInv, <1>1, PTL DEF Spec

\* No phase carries outcomes or probe counts of an earlier one.
THEOREM PhasesStayApart == Spec => []PhasesKeepApart
<1>1. IInv => PhasesKeepApart
  BY DEF IInv, WellFormed, KeptApart, PhasesKeepApart
<1>. QED
  BY InitInv, NextInv, <1>1, PTL DEF Spec

-----------------------------------------------------------------------------
(* No probe slot leaks but by a lost probe. *)

\* What the step cases need of cardinalities: probes are finitely many, one
\* more call is at least one more probe, one less exactly one less.
LEMMA ProbeCount ==
  ASSUME NEW P, P \subseteq Calls
  PROVE  /\ IsFiniteSet(P) /\ Cardinality(P) \in Nat
         /\ \A c \in P : Cardinality(P \ {c}) = Cardinality(P) - 1
         /\ \A Q \in SUBSET Calls :
              Q # {} /\ Q \cap P = {} => Cardinality(P) + 1 <= Cardinality(P \cup Q)
<1>1. IsFiniteSet(P) /\ Cardinality(P) \in Nat
  BY BreakerAssumption, FS_Subset, FS_CardinalityType
<1>2. ASSUME NEW c \in P PROVE Cardinality(P \ {c}) = Cardinality(P) - 1
  BY <1>1, FS_RemoveElement
<1>3. ASSUME NEW Q \in SUBSET Calls, Q # {}, Q \cap P = {}
      PROVE  Cardinality(P) + 1 <= Cardinality(P \cup Q)
  <2>1. PICK c \in Q : TRUE
    BY <1>3
  <2>2. c \notin P
    BY <1>3
  <2>3. Cardinality(P \cup {c}) = Cardinality(P) + 1
    BY <1>1, <2>2, FS_AddElement
  <2>4. P \cup {c} \subseteq P \cup Q /\ IsFiniteSet(P \cup Q)
    <3>1. P \cup Q \subseteq Calls
      OBVIOUS
    <3>. QED
      BY <3>1, BreakerAssumption, FS_Subset
  <2>5. Cardinality(P \cup {c}) <= Cardinality(P \cup Q)
    BY <2>4, FS_Subset
  <2>. QED
    BY <2>3, <2>5
<1>. QED
  BY <1>1, <1>2, <1>3

\* A step keeps the slots with the probes.
LEMMA SlotsStep ==
  ASSUME IInv, SlotsBelongToProbes, [Next]_vars
  PROVE  SlotsBelongToProbes'
<1>. USE DEF IInv, SlotsBelongToProbes
<1>w. WellFormed(Woken(breaker))
  BY WokenWellFormed
<1>p. /\ Cardinality(probes) \in Nat
      /\ \A c \in probes : Cardinality(probes \ {c}) = Cardinality(probes) - 1
      /\ \A Q \in SUBSET Calls : Q # {} /\ Q \cap probes = {} =>
           Cardinality(probes) + 1 <= Cardinality(probes \cup Q)
  BY ProbeCount
<1>n. breaker.halfOpenInFlight \in Nat /\ Woken(breaker).halfOpenInFlight \in Nat
  BY <1>w, BreakerAssumption, SMT DEF WellFormed, BreakerType
<1>u. Woken(breaker).phase = "half-open" =>
        Woken(breaker).halfOpenInFlight <= Cardinality(probes)
  <2>1. CASE breaker.phase = "open" /\ breaker.openFor = 0
    BY <2>1, <1>p, InWellFormed, SMT DEF Woken
  <2>2. CASE ~(breaker.phase = "open" /\ breaker.openFor = 0)
    BY <2>2 DEF Woken
  <2>. QED
    BY <2>1, <2>2
<1>1. ASSUME NEW calls \in SUBSET Calls, Route(calls) PROVE SlotsBelongToProbes'
  <2>. HAVE breaker'.phase = "half-open"
  <2>1. /\ breaker' = Granted(Woken(breaker)) /\ Grants(Woken(breaker))
        /\ calls # {} /\ calls \cap probes = {} /\ probes' = probes \cup calls
    BY <1>1 DEF Route, Remember
  <2>2. /\ Woken(breaker).phase = "half-open"
        /\ breaker'.halfOpenInFlight = Woken(breaker).halfOpenInFlight + 1
    BY <2>1, <1>w, GrantedWellFormed
  <2>3. Cardinality(probes) + 1 <= Cardinality(probes')
    BY <2>1, <1>p
  <2>4. Cardinality(probes') \in Nat
    <3>1. probes' \subseteq Calls
      BY <2>1
    <3>. QED
      BY <3>1, ProbeCount
  <2>. QED
    BY <2>2, <2>3, <2>4, <1>u, <1>n, <1>p, SMT
<1>2. CASE FastReject
  BY <1>2, <1>u DEF FastReject
<1>3. ASSUME NEW success \in BOOLEAN, RouteNowhere(success) PROVE SlotsBelongToProbes'
  <2>. HAVE breaker'.phase = "half-open"
  <2>. DEFINE g == Granted(Woken(breaker))
  <2>1. Grants(Woken(breaker)) /\ breaker' = Recorded(g, success) /\ probes' = probes
    BY <1>3 DEF RouteNowhere, Remember
  <2>2. /\ WellFormed(g) /\ g.phase = Woken(breaker).phase
        /\ g.phase = "half-open" =>
             g.halfOpenInFlight = Woken(breaker).halfOpenInFlight + 1
    BY <2>1, <1>w, GrantedWellFormed
  <2>3. /\ g.phase = "half-open"
        /\ breaker'.halfOpenInFlight
             = IF g.halfOpenInFlight > 0 THEN g.halfOpenInFlight - 1 ELSE 0
    BY <2>1, <2>2, RecordedWellFormed
  <2>. HIDE DEF g
  <2>4. breaker'.halfOpenInFlight = Woken(breaker).halfOpenInFlight
    BY <2>2, <2>3, <1>n, SMT
  <2>. QED
    BY <2>1, <2>2, <2>3, <2>4, <1>u
<1>4. ASSUME NEW c \in Calls, NEW success \in BOOLEAN, Answer(c, success)
      PROVE  SlotsBelongToProbes'
  <2>. HAVE breaker'.phase = "half-open"
  <2>1. /\ breaker.phase = "half-open" /\ probes' = probes \ {c}
        /\ breaker'.halfOpenInFlight
             = IF breaker.halfOpenInFlight > 0 THEN breaker.halfOpenInFlight - 1 ELSE 0
    BY <1>4, RecordedWellFormed DEF Answer, Remember
  <2>2. CASE c \in probes
    <3>1. Cardinality(probes') = Cardinality(probes) - 1 /\ Cardinality(probes') \in Nat
      <4>1. probes' \subseteq Calls
        BY <2>1
      <4>. QED
        BY <4>1, <2>1, <2>2, <1>p, ProbeCount
    <3>. QED
      BY <3>1, <2>1, <1>n, <1>p, SMT
  <2>3. CASE c \notin probes
    <3>1. probes' = probes
      BY <2>1, <2>3
    <3>. QED
      BY <3>1, <2>1, <1>n, <1>p, SMT
  <2>. QED
    BY <2>2, <2>3
<1>5. ASSUME NEW c \in Calls, Lose(c) PROVE SlotsBelongToProbes'
  BY <1>5 DEF Lose
<1>6. CASE Tick
  <2>1. breaker'.phase = breaker.phase /\ breaker'.halfOpenInFlight = breaker.halfOpenInFlight
    BY <1>6, SMT DEF Tick, WellFormed, BreakerType
  <2>. QED
    BY <2>1, <1>6 DEF Tick
<1>7. CASE UNCHANGED vars
  BY <1>7 DEF vars
<1>. QED
  BY <1>1, <1>2, <1>3, <1>4, <1>5, <1>6, <1>7 DEF Next, RouteSome, EndCall

\* Every probe slot the breaker counts as taken belongs to a probe that has not
\* reported: whatever late outcomes of older calls arrive, only a lost probe
\* keeps a slot.
THEOREM NoSlotLeaks == Spec => []SlotsBelongToProbes
<1>1. Init => SlotsBelongToProbes
  BY InWellFormed DEF Init, SlotsBelongToProbes
<1>2. IInv /\ SlotsBelongToProbes /\ [Next]_vars => SlotsBelongToProbes'
  BY SlotsStep
<1>. QED
  BY InitInv, NextInv, <1>1, <1>2, PTL DEF Spec

=============================================================================
