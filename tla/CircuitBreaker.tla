--------------------------- MODULE CircuitBreaker ---------------------------
(***************************************************************************)
(* The circuit breaker of one node: what its trait decides when a request  *)
(* is routed, and what the outcomes of the routed calls do to it.          *)
(* Translated from src/src/engine/traits/circuitBreaker.ts and from the    *)
(* places in engine.ts that track a call and record its outcome.           *)
(*                                                                         *)
(* The breaker's clock is the time left of its open period. The outcome of *)
(* a call may come at any later time, in any phase, or not at all: a call  *)
(* lost on the edge, or reset by a crash of its target, records none.      *)
(***************************************************************************)
EXTENDS Naturals, Sequences, FiniteSets

CONSTANTS
  Calls,             \* the calls that may be under way at a time
  Fanout,            \* how many branches one routed request may have
  FailureCount,      \* window of outcomes the breaker looks at
  TripAt,            \* failures in a full window that reach its threshold
  RecoveryTimeout,
  HalfOpenRequests   \* probes allowed, and successes needed to close

ASSUME BreakerAssumption ==
  /\ {Fanout, FailureCount, RecoveryTimeout, HalfOpenRequests} \subseteq Nat \ {0}
  /\ TripAt \in 0 .. FailureCount
  /\ IsFiniteSet(Calls)

VARIABLES
  breaker,  \* [phase, recentOutcomes, openFor, halfOpenInFlight, halfOpenSuccesses]
  tracked,  \* calls under way whose outcome the breaker is to learn
  probes    \* history: those routed in the half-open period that is still on and
            \* not answered, the lost ones included

vars == <<breaker, tracked, probes>>

-----------------------------------------------------------------------------
In(phase) ==
  [phase |-> phase, recentOutcomes |-> <<>>, halfOpenInFlight |-> 0, halfOpenSuccesses |-> 0,
   openFor |-> IF phase = "open" THEN RecoveryTimeout ELSE 0]

\* Routing: an open period that is over gives way to half-open.
Woken(b) == IF b.phase = "open" /\ b.openFor = 0 THEN In("half-open") ELSE b

Grants(b) ==
  \/ b.phase = "closed"
  \/ b.phase = "half-open" /\ b.halfOpenInFlight < HalfOpenRequests

Granted(b) == IF b.phase = "half-open" THEN [b EXCEPT !.halfOpenInFlight = @ + 1] ELSE b

\* Mutants: a success keeps its slot, or is not counted.
ProbeKeepsSlot(b, success) ==
  IF ~success THEN In("open")
  ELSE IF b.halfOpenSuccesses + 1 >= HalfOpenRequests THEN In("closed")
  ELSE [b EXCEPT !.halfOpenSuccesses = @ + 1]
ProbeUncounted(b, success) ==
  IF ~success THEN In("open")
  ELSE [b EXCEPT !.halfOpenInFlight = IF @ > 0 THEN @ - 1 ELSE 0]

\* An outcome in a half-open breaker.
ProbeRecorded(b, success) ==
  IF ~success THEN In("open")
  ELSE IF b.halfOpenSuccesses + 1 >= HalfOpenRequests THEN In("closed")
  ELSE [b EXCEPT !.halfOpenSuccesses = @ + 1,
                 !.halfOpenInFlight = IF @ > 0 THEN @ - 1 ELSE 0]

\* The last FailureCount outcomes, this one included.
Window(b, success) ==
  LET all == Append(b.recentOutcomes, success)
      first == IF Len(all) > FailureCount THEN 2 ELSE 1
  IN  SubSeq(all, first, Len(all))

Failures(w) == Cardinality({i \in DOMAIN w : ~w[i]})

\* Mutant: the breaker opens and keeps the window that tripped it.
OpensWithWindow(b, success) ==
  LET w == Window(b, success)
  IN  IF Len(w) >= FailureCount /\ Failures(w) >= TripAt
        THEN [b EXCEPT !.phase = "open", !.recentOutcomes = w, !.openFor = RecoveryTimeout]
        ELSE [b EXCEPT !.phase = "closed", !.recentOutcomes = w, !.openFor = 0]

\* An outcome in any other phase: what is not half-open counts as closed.
CallRecorded(b, success) ==
  LET w == Window(b, success)
  IN  IF Len(w) >= FailureCount /\ Failures(w) >= TripAt
        THEN In("open")
        ELSE [b EXCEPT !.phase = "closed", !.recentOutcomes = w, !.openFor = 0]

Recorded(b, success) ==
  IF b.phase = "half-open" THEN ProbeRecorded(b, success) ELSE CallRecorded(b, success)

\* The probes of a half-open period are forgotten with it.
Remember(calls) ==
  probes' = IF breaker'.phase = "half-open" THEN calls ELSE {}

-----------------------------------------------------------------------------
Init == breaker = In("closed") /\ tracked = {} /\ probes = {}

\* A request is let through and forwarded, to several targets on a fan-out.
Route(calls) ==
  /\ calls # {} /\ calls \cap (tracked \cup probes) = {} /\ Cardinality(calls) <= Fanout
  /\ Grants(Woken(breaker))
  /\ breaker' = Granted(Woken(breaker))
  /\ tracked' = tracked \cup calls
  /\ Remember(probes \cup calls)

\* A request is let through and has no route, or none that works.
RouteNowhere(success) ==
  /\ Grants(Woken(breaker))
  /\ breaker' = Recorded(Granted(Woken(breaker)), success)
  /\ Remember(probes)
  /\ UNCHANGED tracked

\* A request finds the breaker open, or every probe slot taken.
FastReject ==
  /\ ~Grants(Woken(breaker))
  /\ breaker' = Woken(breaker)
  /\ UNCHANGED <<tracked, probes>>

\* The target completed the call, rejected it or timed it out.
Answer(c, success) ==
  /\ c \in tracked
  /\ breaker' = Recorded(breaker, success)
  /\ tracked' = tracked \ {c}
  /\ Remember(probes \ {c})

\* The call ended where no outcome is recorded.
Lose(c) ==
  /\ c \in tracked
  /\ tracked' = tracked \ {c}
  /\ UNCHANGED <<breaker, probes>>

Tick ==
  /\ breaker.openFor > 0
  /\ breaker' = [breaker EXCEPT !.openFor = @ - 1]
  /\ UNCHANGED <<tracked, probes>>

RouteSome == \E calls \in SUBSET Calls : Route(calls)
EndCall(c) == Lose(c) \/ \E success \in BOOLEAN : Answer(c, success)

Next ==
  \/ RouteSome \/ FastReject \/ Tick
  \/ \E success \in BOOLEAN : RouteNowhere(success)
  \/ \E c \in Calls : EndCall(c)

\* Requests keep coming, time passes, and every call ends one way or another.
Spec ==
  /\ Init /\ [][Next]_vars
  /\ WF_vars(RouteSome) /\ WF_vars(Tick) /\ \A c \in Calls : WF_vars(EndCall(c))

-----------------------------------------------------------------------------
(* Properties *)

TypeOK ==
  /\ breaker \in [phase : {"closed", "open", "half-open"}, recentOutcomes : Seq(BOOLEAN),
                  openFor : 0 .. RecoveryTimeout, halfOpenInFlight : 0 .. HalfOpenRequests,
                  halfOpenSuccesses : 0 .. HalfOpenRequests]
  /\ tracked \subseteq Calls /\ probes \subseteq Calls

\* No probe slot leaks but by a lost probe: every slot a half-open breaker counts
\* as taken belongs to a probe that has not reported, whatever older calls, or
\* routes that lead nowhere, report in between.
SlotsBelongToProbes ==
  breaker.phase = "half-open" => breaker.halfOpenInFlight <= Cardinality(probes)

\* A phase carries no evidence into the next: a breaker that is not closed
\* remembers no outcome of the window that tripped it, and one that is not
\* half-open counts no probe of an earlier period.
PhasesKeepApart ==
  /\ breaker.phase # "closed" => breaker.recentOutcomes = <<>>
  /\ breaker.phase # "half-open" =>
       breaker.halfOpenInFlight = 0 /\ breaker.halfOpenSuccesses = 0

\* Only a lost probe can keep a breaker half-open: while none is lost, every
\* half-open period ends, however late the calls of earlier periods report.
ProbesResolve ==
  []<>(breaker.phase = "half-open" => probes \ tracked # {})

\* A half-open period ends, in a closed or in an open breaker: "Success closes
\* the breaker; failure reopens it and restarts the timeout."
HalfOpenResolves == []<>(breaker.phase # "half-open")

=============================================================================
