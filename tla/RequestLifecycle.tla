--------------------------- MODULE RequestLifecycle ---------------------------
(***************************************************************************)
(* The engine's event loop around one queueing node: arrivals, service     *)
(* completions, node timeouts, faults, retries and the single terminal of  *)
(* every request. Translated from the handlers of src/src/engine/engine.ts. *)
(*                                                                         *)
(* The requests come from a gateway that owns their retries and never      *)
(* queues: a retry re-enters the node after the backoff and one hop. The   *)
(* handlers' traits, metrics and traces are left out.                      *)
(***************************************************************************)
EXTENDS GGcKNode

CONSTANTS
  Arrivals,      \* when a request may first reach the node
  Budgets,       \* what may be left of a request's deadline by then
  ServiceTimes,  \* what the service-time distribution may draw, never 0
  NodeTimeout,   \* the node's timeout, 0 if it has none
  NodeErrors,    \* may the node's injected error rate strike?
  MaxAttempts,   \* the gateway's retry budget, the first attempt included
  RetryDelay,    \* its backoff
  Hop,           \* gateway service and edge transit
  Domains, NodeItself,  \* the region and zones the node is in, and the node as a target
  FaultPlans     \* sequences of the outages that strike it

ASSUME LifecycleAssumption ==
  /\ Arrivals \cup Budgets \subseteq Nat /\ ServiceTimes \subseteq Nat \ {0}
  /\ {NodeTimeout, MaxAttempts, RetryDelay} \subseteq Nat
  /\ Hop \in Nat \ {0} /\ NodeErrors \in BOOLEAN
  /\ NodeItself \notin Domains
  /\ FaultPlans \subseteq Seq([domain : Domains \cup {NodeItself}, from : Nat, lasts : Nat,
                              spec : FailureSpecs])
  /\ IsFiniteSet(Requests)

VARIABLES
  events,         \* the event queue, next event first
  deadline,       \* [Requests -> Nat]
  completionSeq, timeoutSeq,  \* generations that cancel a request's events
  retryCount,     \* retries spent on each request
  startTimes,     \* when the current service of each request began
  outcome,        \* how each request ended, "pending" until then
  outages,        \* the faults configured for this run
  holds           \* the domains that hold the node down

bookkeeping == <<deadline, completionSeq, timeoutSeq, retryCount, outcome>>
faultVars == <<outages, holds>>
lifeVars == <<events, bookkeeping, startTimes, faultVars>>

-----------------------------------------------------------------------------
(* The event queue: timestamp, then priority, then insertion order *)

PriorityOf(e) ==
  CASE e.type \in {"node-failure", "node-recovery"} -> 0
    [] e.type = "request-arrival" -> 1
    [] e.type \in {"processing-complete", "request-complete", "request-rejected"} -> 2
    [] e.type = "request-timeout" -> 4

Before(e, f) ==
  \/ e.at < f.at
  \/ e.at = f.at /\ PriorityOf(e) < PriorityOf(f)

NoEvent == [type |-> "none"]  \* where a handler has nothing to schedule

\* insert: behind every event that comes no later.
Schedule(q, e) ==
  IF e = NoEvent THEN q
  ELSE LET n == Cardinality({i \in DOMAIN q : ~Before(e, q[i])})
       IN  InsertAt(q, n + 1, e)

\* What is scheduled in s, the first to come first and of those that tie the one
\* scheduled first.
InEventOrder(s) ==
  LET Live == {i \in DOMAIN s : s[i] # NoEvent}
      Ahead(i) == {j \in Live : Before(s[j], s[i]) \/ (j < i /\ ~Before(s[i], s[j]))}
  IN  [k \in 1 .. Cardinality(Live) |-> s[CHOOSE i \in Live : Cardinality(Ahead(i)) = k - 1]]

\* The queue with all of new in it (a set of one sequence).
ScheduleAll(q, new) == {InEventOrder(s) : s \in {q \o new}}

Event(type, r, at, gen) == [type |-> type, req |-> r, at |-> at, gen |-> gen]
TimeoutEvent(scope, r, at, gen) ==
  [type |-> "request-timeout", scope |-> scope, req |-> r, at |-> at, gen |-> gen]

Smaller(a, b) == IF a <= b THEN a ELSE b

\* The event in hand is the head of the queue, and its time has come.
InHand(type) == events # <<>> /\ Head(events).at <= now /\ Head(events).type = type
Ended(r) == outcome[r] # "pending"

-----------------------------------------------------------------------------
(* Scheduling what a call into the node set in motion *)

Started == Elements(inService') \ Elements(inService)

CompletionEvent(r, service) == Event("processing-complete", r, now + service, completionSeq[r])

\* The request that starts service, if one does, gets a completion at its own
\* service time, before the handler schedules anything else.
ScheduleService(next) ==
  \/ /\ Started = {}
     /\ events' = Schedule(Tail(events), next)
     /\ UNCHANGED startTimes
  \/ \E r \in Started, service \in ServiceTimes :
       /\ startTimes' = [startTimes EXCEPT ![r] = now]
       /\ events' = Schedule(Schedule(Tail(events), CompletionEvent(r, service)), next)

\* So does each of those that start at once, in the order they start.
ScheduleServices(others) ==
  LET starting == SubSeq(inService', Len(inService) + 1, Len(inService'))
  IN  /\ startTimes' = [r \in Requests |-> IF r \in Started THEN now ELSE startTimes[r]]
      /\ \E service \in [Started -> ServiceTimes] :
           events' \in ScheduleAll(Tail(events),
             [i \in DOMAIN starting |-> CompletionEvent(starting[i], service[starting[i]])]
               \o others)

\* Mutant: the timeout ignores the request's deadline.
TimeoutPastDeadline(r) ==
  IF NodeTimeout = 0 THEN NoEvent
  ELSE TimeoutEvent("node", r, now + NodeTimeout, timeoutSeq[r])

NodeTimeoutEvent(r) ==
  IF NodeTimeout = 0 THEN NoEvent
  ELSE TimeoutEvent("node", r, Smaller(deadline[r], now + NodeTimeout), timeoutSeq[r])

\* Mutant: a held request gets no timeout.
NoHeldTimeout(r) == NoEvent

\* A held request has no service event: its timeout is scheduled in any case.
HeldTimeoutEvent(r) ==
  LET at == IF NodeTimeout = 0 THEN deadline[r] ELSE now + NodeTimeout
  IN  TimeoutEvent("node", r, Smaller(deadline[r], at), timeoutSeq[r])

CanRetry(r) ==
  retryCount[r] + 1 < MaxAttempts /\ now + RetryDelay < deadline[r]

\* The retry's arrival, or the deadline that catches it on the edge.
RetryEvent(r, gen) ==
  LET at == now + RetryDelay + Hop
  IN  IF deadline[r] <= at
        THEN TimeoutEvent("in-flight", r, deadline[r], gen)
        ELSE Event("request-arrival", r, at, gen)

\* The attempts of the requests in failed end: each is retried if its failure
\* is retryable and the budget allows, and otherwise reaches its terminal.
EndAttempts(failed, retryable, result) ==
  LET retried == {r \in Elements(failed) : retryable /\ CanRetry(r)}
      over == Elements(failed) \ retried
  IN  /\ retryCount' = [r \in Requests |->
           IF r \in retried THEN retryCount[r] + 1 ELSE retryCount[r]]
      /\ outcome' = [r \in Requests |-> IF r \in over THEN result ELSE outcome[r]]

\* Mutant: a retry that cannot arrive in time is dropped on the edge.
RetryInTime(r, retryable) ==
  IF retryable /\ CanRetry(r) /\ now + RetryDelay + Hop < deadline[r]
    THEN RetryEvent(r, timeoutSeq'[r]) ELSE NoEvent

NextAttempt(r, retryable) ==
  IF retryable /\ CanRetry(r) THEN RetryEvent(r, timeoutSeq'[r]) ELSE NoEvent

NextAttempts(failed) == [i \in DOMAIN failed |-> NextAttempt(failed[i], TRUE)]

-----------------------------------------------------------------------------
(* The handlers *)

DropEvent ==
  /\ events' = Tail(events)
  /\ UNCHANGED <<vars, bookkeeping, startTimes, faultVars>>

\* An event of a request that has ended, or of a superseded generation.
HandleStaleEvent ==
  /\ events # <<>> /\ Head(events).at <= now
  /\ LET e == Head(events)
     IN  /\ e.type \notin {"node-failure", "node-recovery"}
         /\ \/ Ended(e.req)
            \/ e.type = "processing-complete" /\ e.gen # completionSeq[e.req]
            \/ e.type = "request-timeout" /\ e.gen # timeoutSeq[e.req]
  /\ DropEvent

HandleRequestArrival ==
  /\ InHand("request-arrival")
  /\ LET r == Head(events).req
     IN  /\ ~Ended(r)
         /\ \/ /\ Rejects
               /\ events' = Schedule(Tail(events),
                    Event("request-rejected", r, now,
                          IF status = "failed" THEN "node_failed" ELSE "capacity_exceeded"))
               /\ UNCHANGED <<vars, startTimes>>
            \/ ArriveFailed(r) /\ ScheduleService(HeldTimeoutEvent(r))
            \/ ArriveServed(r) /\ ScheduleService(NodeTimeoutEvent(r))
            \/ ArriveQueued(r) /\ ScheduleService(NodeTimeoutEvent(r))
  /\ UNCHANGED <<bookkeeping, faultVars>>

HandleProcessingComplete ==
  /\ InHand("processing-complete")
  /\ LET e == Head(events)
         after == Event("request-complete", e.req, now, 0)
         error == Event("request-rejected", e.req, now, "node_error_rate")
     IN  /\ ~Ended(e.req) /\ e.gen = completionSeq[e.req]
         /\ IF e.req \in Elements(inService)
              THEN /\ HandleCompletion(e.req)
                   /\ \/ ScheduleService(after)
                      \/ NodeErrors /\ ScheduleService(error)
              ELSE DropEvent
  /\ UNCHANGED <<bookkeeping, faultVars>>

HandleRequestComplete ==
  /\ InHand("request-complete")
  /\ LET r == Head(events).req
     IN  /\ ~Ended(r)
         /\ outcome' = [outcome EXCEPT ![r] = "success"]
  /\ events' = Tail(events)
  /\ UNCHANGED <<vars, deadline, completionSeq, timeoutSeq, retryCount, startTimes, faultVars>>

HandleRequestTimeout ==
  /\ InHand("request-timeout")
  /\ LET e == Head(events)
         retryable == e.scope = "node" /\ now < deadline[e.req]
     IN  /\ ~Ended(e.req) /\ e.gen = timeoutSeq[e.req]
         /\ IF e.scope = "node" /\ NotFound(e.req)
              THEN DropEvent /\ UNCHANGED bookkeeping
              ELSE /\ IF e.scope = "node" THEN CancelRequest(e.req) ELSE UNCHANGED vars
                   /\ EndAttempts(<<e.req>>, retryable, "timeout")
                   /\ UNCHANGED <<deadline, completionSeq, timeoutSeq>>
                   /\ ScheduleService(NextAttempt(e.req, retryable))
  /\ UNCHANGED faultVars

HandleRequestRejected ==
  /\ InHand("request-rejected")
  /\ LET e == Head(events)
         retryable == e.gen \in {"node_failed", "node_error_rate"}
     IN  /\ ~Ended(e.req)
         /\ EndAttempts(<<e.req>>, retryable, "rejected")
         /\ UNCHANGED <<deadline, completionSeq, timeoutSeq>>
         /\ events' = Schedule(Tail(events), NextAttempt(e.req, retryable))
  /\ UNCHANGED <<vars, startTimes, faultVars>>

Bump(seq, who) == [r \in Requests |-> IF r \in who THEN seq[r] + 1 ELSE seq[r]]

\* A region or zone that fails holds each of its nodes down, beside others.
HandleNodeFailure ==
  /\ InHand("node-failure")
  /\ holds' = holds \cup ({Head(events).domain} \cap Domains)
  /\ LET spec == Head(events).spec
         reset == IF spec.mode # "degraded" /\ spec.inFlight = "reset"
                    THEN queue \o inService ELSE <<>>
         frozen == IF spec.mode # "degraded" /\ spec.inFlight = "hang"
                     THEN Elements(inService) ELSE {}
     IN  /\ FailDegraded(spec) \/ FailReset(spec) \/ FailHang(spec)
         /\ completionSeq' = Bump(completionSeq, Elements(reset) \cup frozen)
         /\ timeoutSeq' = Bump(timeoutSeq, Elements(reset))
         /\ EndAttempts(reset, TRUE, "connection_reset")
         /\ events' \in ScheduleAll(Tail(events), NextAttempts(reset))
  /\ UNCHANGED <<deadline, startTimes, outages>>

\* Mutant: any recovery ends every hold.
LiftAllHolds == holds' = {}

\* A recovery lifts the hold of its domain, and does no more while another holds.
LiftHold == holds' = holds \ {Head(events).domain}

RecoverNode ==
  LET reset == IF /\ failureSpec.mode \notin {"none", "degraded"}
                  /\ failureSpec.recovery = "reset"
                 THEN heldHang ELSE <<>>
  IN  /\ Recover
      /\ timeoutSeq' = Bump(timeoutSeq, Elements(reset))
      /\ EndAttempts(reset, TRUE, "connection_reset")
      /\ ScheduleServices(NextAttempts(reset))
      /\ UNCHANGED <<deadline, completionSeq>>

HandleNodeRecovery ==
  /\ InHand("node-recovery")
  /\ LiftHold
  /\ UNCHANGED outages
  /\ \/ holds' = {} /\ RecoverNode
     \/ /\ holds' # {}
        /\ events' = Tail(events)
        /\ UNCHANGED <<vars, bookkeeping, startTimes>>

\* The loop moves the clock to the next event's timestamp.
AdvanceClock ==
  /\ events # <<>> /\ now < Head(events).at
  /\ now' = Head(events).at
  /\ UNCHANGED <<serving, held, arrivalTimes, status, failureSpec, ceilings, targets>>
  /\ UNCHANGED lifeVars

-----------------------------------------------------------------------------
\* scheduleConfiguredFaults: an outage becomes a failure of the node and, unless it
\* is for good, a recovery, both with the domain that was struck.
FailureEvent(o) ==
  [type |-> "node-failure", at |-> o.from, spec |-> o.spec, domain |-> o.domain]
RecoveryEvent(o) ==
  IF o.lasts = 0 THEN NoEvent
  ELSE [type |-> "node-recovery", at |-> o.from + o.lasts, domain |-> o.domain]

FaultEvents(plan) ==
  [k \in 1 .. 2 * Len(plan) |->
     IF k % 2 = 1 THEN FailureEvent(plan[(k + 1) \div 2]) ELSE RecoveryEvent(plan[k \div 2])]

\* The run is over when no event is left.
Finished == events = <<>> /\ UNCHANGED <<vars, lifeVars>>

HandleEvent ==
  \/ HandleStaleEvent \/ HandleRequestArrival \/ HandleProcessingComplete
  \/ HandleRequestComplete \/ HandleRequestTimeout \/ HandleRequestRejected
  \/ HandleNodeFailure \/ HandleNodeRecovery

LInit ==
  /\ Init
  /\ outages \in FaultPlans /\ holds = {}
  /\ \E first \in [Requests -> Arrivals], budget \in [Requests -> Budgets],
        order \in SetToSeqs(Requests) :
       /\ deadline = [r \in Requests |-> first[r] + budget[r]]
       /\ events \in ScheduleAll(FaultEvents(outages),
            [i \in DOMAIN order |-> Event("request-arrival", order[i], first[order[i]], 0)])
  /\ completionSeq = [r \in Requests |-> 0] /\ timeoutSeq = [r \in Requests |-> 0]
  /\ retryCount = [r \in Requests |-> 0] /\ startTimes = [r \in Requests |-> NotHere]
  /\ outcome = [r \in Requests |-> "pending"]

LNext == HandleEvent \/ AdvanceClock \/ Finished

LSpec == LInit /\ [][LNext]_<<vars, lifeVars>> /\ WF_<<vars, lifeVars>>(LNext)

-----------------------------------------------------------------------------
(* Properties *)

\* A second fault that freezes the node forgets those the first froze: they have an
\* arrival time and no place, and never come out.
Overwritten == {r \in Requests : arrivalTimes[r] # NotHere /\ NotFound(r)}

\* A pending request has exactly one attempt under way, whatever races (a
\* completion with a timeout, a retry with a late event, a reset with both): it
\* is in the node, or on its way there, or its answer is on its way back. None
\* gets lost, none runs twice, and the node spends no worker, queue place or frozen
\* slot on a request that has ended.
CarriesAttempt(e) ==
  \/ e.type \in {"request-arrival", "request-complete", "request-rejected"}
  \/ e.type = "request-timeout" /\ e.scope = "in-flight"

OneAttemptAtATime ==
  \A r \in Requests \ Overwritten :
    LET inTransit == {i \in DOMAIN events : CarriesAttempt(events[i]) /\ events[i].req = r}
        inNode == IF NotFound(r) THEN 0 ELSE 1
    IN  IF Ended(r) THEN inNode = 0 ELSE Cardinality(inTransit) + inNode = 1

\* No request outlives its deadline: the clock never passes it while the
\* request is pending.
DeadlineBinds == \A r \in Requests \ Overwritten : Ended(r) \/ now <= deadline[r]

\* Every request that is not overwritten reaches a terminal: some event always leads
\* on to one, through queueing, freezing, recovery and every retry.
EveryRequestEnds == \A r \in Requests : <>(outcome[r] # "pending" \/ r \in Overwritten)

\* Region and zone outages may overlap, and a fault of the node itself may fall among
\* them: the node is down as long as any domain over it is ("stay failed"), and up
\* again once no outage of any kind is in force.
InForce(o) ==
  LET Pending(type) == \E i \in DOMAIN events :
        events[i].type = type /\ events[i].domain = o.domain
  IN  ~Pending("node-failure") /\ (o.lasts > 0 => Pending("node-recovery"))

DownWhileHeld ==
  LET InForceNow == {o \in Elements(outages) : o.spec.mode # "degraded" /\ InForce(o)}
  IN  /\ (\E o \in InForceNow : o.domain \in Domains) => status = "failed"
      /\ status = "failed" => InForceNow # {}

\* Every service that runs to completion has held its worker for real time
\* ("guarantees every task occupies its worker for real time on the clock").
ServiceTakesTime ==
  [][\A r \in Elements(inService) \ Elements(inService') :
       InHand("processing-complete") => startTimes[r] < now]_<<vars, lifeVars>>

=============================================================================
