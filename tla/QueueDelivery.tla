---------------------------- MODULE QueueDelivery ----------------------------
(***************************************************************************)
(* How a queue delivers an accepted message: the producer is acknowledged  *)
(* at once, a consumer attempt is forked into the queue's own workers, and *)
(* an attempt that fails, or outlives its visibility timeout, is followed  *)
(* by another until the receive limit, then by one in the dead-letter      *)
(* queue. Translated from traits/ackAndRelease.ts and engine.ts.           *)
(*                                                                         *)
(* Time is left out: an attempt that is forked arrives later, and a        *)
(* visibility timeout shorter than the service ends before the service.    *)
(* The queue node itself is GGcKNode's: here it may take any time to serve *)
(* a queued attempt and may turn any of them away.                         *)
(***************************************************************************)
EXTENDS Integers, Sequences, FiniteSets, SequencesExt

CONSTANTS
  Messages,         \* what producers send
  Queues,           \* the queue nodes
  Sources,          \* [Messages -> the queues a message may be sent to]
  Delivery,         \* the delivery configuration of each queue
  ProducerRetries,  \* retries a producer may have spent before its message is accepted
  MaxResumes,       \* bound on the services a hung queue node starts anew
  NoQueue

ASSUME DeliveryAssumption ==
  /\ Sources \in [Messages -> SUBSET Queues] /\ NoQueue \notin Queues
  /\ ProducerRetries \subseteq Nat /\ MaxResumes \in Nat
  /\ Delivery \in [Queues ->
       [semantics : {"at-most-once", "at-least-once"}, visibility : BOOLEAN,
        maxReceive : Nat \ {0}, dlq : Queues \cup {NoQueue}]]

VARIABLES
  attempts,      \* the consumer attempts of each message, in the order forked
  conservation,  \* the run's counts of accepted, delivered and lost work
  resumes        \* services started anew so far

deliveryVars == <<attempts, conservation, resumes>>

\* timer: the visibility timeout of the service under way; staleTimers: those of
\* services a freeze cut short. followUps and expiries count, for the properties,
\* the attempts forked from this one and its own visibility timeouts.
AttemptType ==
  [queue : Queues, retryCount : Nat, visibilityExpired : BOOLEAN,
   timer : BOOLEAN, staleTimers : Nat, followUps : Nat, expiries : Nat,
   state : {"queued", "processing", "consuming", "delivered", "failed"}]

Ids == UNION {{<<m, n>> : n \in DOMAIN attempts[m]} : m \in Messages}
At(id) == attempts[id[1]][id[2]]
Live(id) == At(id).state \notin {"delivered", "failed"}

-----------------------------------------------------------------------------
(* Forking attempts *)

\* A fresh attempt: everything of the parent's metadata that is not per attempt
\* comes along, the mark that its visibility expired included.
Attempt(queue, retryCount, expired) ==
  [queue |-> queue, retryCount |-> retryCount, visibilityExpired |-> expired,
   timer |-> FALSE, staleTimers |-> 0, followUps |-> 0, expiries |-> 0,
   state |-> "queued"]

\* Mutants: a message that already reappeared is redelivered on failure too, or a
\* dead letter is dropped.
FollowUpsTwice(a, byExpiry) ==
  IF \/ Delivery[a.queue].semantics = "at-most-once"
     \/ a.retryCount + 1 >= Delivery[a.queue].maxReceive
    THEN <<>>
    ELSE <<Attempt(a.queue, a.retryCount + 1, a.visibilityExpired)>>
FollowUpsUndead(a, byExpiry) ==
  IF a.visibilityExpired /\ ~byExpiry THEN <<>> ELSE FollowUpsTwice(a, byExpiry)

\* The attempt that follows a, if any: a redelivery, or a dead letter once the
\* receive limit is reached.
FollowUps(a, byExpiry) ==
  LET config == Delivery[a.queue]
      spent == a.visibilityExpired /\ ~byExpiry
  IN  IF spent \/ config.semantics = "at-most-once" THEN <<>>
      ELSE IF a.retryCount + 1 < config.maxReceive
        THEN <<Attempt(a.queue, a.retryCount + 1, a.visibilityExpired)>>
      ELSE IF config.dlq \in Queues \ {a.queue}
        THEN <<Attempt(config.dlq, a.retryCount, a.visibilityExpired)>>
      ELSE <<>>

Become(id, a) == attempts' = [attempts EXCEPT ![id[1]][id[2]] = a]

\* Mutant: a failed attempt is retried instead of being followed up.
RetryForEver(id, a, byExpiry) ==
  attempts' = [attempts EXCEPT ![id[1]][id[2]] =
    [a EXCEPT !.state = "queued", !.followUps = 1, !.expiries = 0]]

\* id becomes a, and whatever follows a joins its message's attempts.
BecomeAndFollowUp(id, a, byExpiry) ==
  LET next == FollowUps(a, byExpiry)
      past == attempts[id[1]]
      done == [a EXCEPT !.followUps = @ + Len(next)]
  IN  attempts' = [attempts EXCEPT ![id[1]] = [past EXCEPT ![id[2]] = done] \o next]

-----------------------------------------------------------------------------
DeliveryInit ==
  /\ attempts = [m \in Messages |-> <<>>]
  /\ conservation = [accepted |-> 0, delivered |-> 0, lost |-> 0]
  /\ resumes = 0

\* The queue accepts m: the producer is done, a consumer attempt is forked.
Produce(m) ==
  /\ attempts[m] = <<>>
  /\ \E q \in Sources[m], spent \in ProducerRetries :
       attempts' = [attempts EXCEPT ![m] = <<Attempt(q, spent, FALSE)>>]
  /\ conservation' = [conservation EXCEPT !.accepted = @ + 1]
  /\ UNCHANGED resumes

\* serviceStartObserver: does a service that starts now outlive the timeout?
ArmsTimer(id) ==
  LET config == Delivery[At(id).queue]
  IN  {slow \in BOOLEAN :
         slow => config.visibility /\ config.semantics # "at-most-once"}

BeginProcessing(id) ==
  /\ At(id).state = "queued"
  /\ \E armed \in ArmsTimer(id) :
       Become(id, [At(id) EXCEPT !.state = "processing", !.timer = armed])
  /\ UNCHANGED <<conservation, resumes>>

\* A hung queue node resumes: the service starts anew, and so does its timeout,
\* while the one of the service cut short still stands.
ResumeProcessing(id) ==
  /\ At(id).state = "processing" /\ resumes < MaxResumes
  /\ resumes' = resumes + 1
  /\ \E armed \in ArmsTimer(id) :
       Become(id, [At(id) EXCEPT !.timer = armed,
                                 !.staleTimers = IF At(id).timer THEN @ + 1 ELSE @])
  /\ UNCHANGED conservation

\* The message is still being processed: it reappears, and is delivered again.
HandleVisibilityExpire(id) ==
  /\ Live(id)
  /\ LET expired == [At(id) EXCEPT !.visibilityExpired = TRUE, !.expiries = @ + 1]
     IN  \/ At(id).timer
            /\ BecomeAndFollowUp(id, [expired EXCEPT !.timer = FALSE], TRUE)
         \/ At(id).staleTimers > 0
            /\ BecomeAndFollowUp(id, [expired EXCEPT !.staleTimers = @ - 1], TRUE)
  /\ UNCHANGED <<conservation, resumes>>

\* The worker is done and the attempt moves on to the consumer behind it.
FinishProcessing(id) ==
  /\ At(id).state = "processing" /\ ~At(id).timer
  /\ Become(id, [At(id) EXCEPT !.state = "consuming"])
  /\ UNCHANGED <<conservation, resumes>>

Deliver(id) ==
  /\ At(id).state = "consuming"
  /\ Become(id, [At(id) EXCEPT !.state = "delivered"])
  /\ conservation' = [conservation EXCEPT !.delivered = @ + 1]
  /\ UNCHANGED resumes

\* Mutant: every failed attempt counts as lost work.
LostAnyway(id) == conservation' = [conservation EXCEPT !.lost = @ + 1]

\* Work that ends without a successor is lost.
CountFailure(id) ==
  conservation' = [conservation EXCEPT
    !.lost = IF attempts'[id[1]][id[2]].followUps > 0 THEN @ ELSE @ + 1]

\* A timeout, a rejection or a reset ends the attempt. It has no retry owner.
FailAttempt(id) ==
  /\ Live(id)
  /\ BecomeAndFollowUp(id, [At(id) EXCEPT !.state = "failed"], FALSE)
  /\ CountFailure(id)
  /\ UNCHANGED resumes

AttemptStep(id) ==
  \/ BeginProcessing(id) \/ ResumeProcessing(id)
  \/ HandleVisibilityExpire(id) \/ FinishProcessing(id)
  \/ Deliver(id) \/ FailAttempt(id)

DeliveryNext ==
  \/ \E m \in Messages : Produce(m)
  \/ \E id \in Ids : AttemptStep(id)

\* Every attempt under way has an event in the engine's queue, and the loop goes on
\* as long as the queue has one.
LoopRuns == \E id \in Ids : AttemptStep(id)

DeliverySpec ==
  DeliveryInit /\ [][DeliveryNext]_deliveryVars /\ WF_deliveryVars(LoopRuns)

-----------------------------------------------------------------------------
(* Properties *)

AttemptsOK ==
  /\ attempts \in [Messages -> Seq(AttemptType)]
  /\ conservation \in [accepted : Nat, delivered : Nat, lost : Nat]
  /\ resumes \in 0 .. MaxResumes

\* A message that reappeared when its timeout ran out is not redelivered once
\* more when that consumer fails later: an attempt is followed by at most one
\* other, or by one for each time its own visibility ran out. Without an expired
\* visibility, a message is in one consumer's hands at most.
FollowedOnce ==
  \A id \in Ids : At(id).followUps <= 1 \/ At(id).followUps <= At(id).expiries
OneConsumerAtATime ==
  \A m \in Messages :
    (\A n \in DOMAIN attempts[m] : attempts[m][n].expiries = 0)
      => \A n, k \in DOMAIN attempts[m] :
           Live(<<m, n>>) /\ Live(<<m, k>>) => n = k
RedeliveredOnce == FollowedOnce /\ OneConsumerAtATime

\* The receive limit is kept on both sides. No attempt is numbered past its queue's
\* limit, wherever it was forked and however often the node froze, unless it came
\* with that number: it is the first, which the producer's retries count for, or a
\* dead letter of another queue.
ReceivesBounded ==
  \A m \in Messages : \A n \in DOMAIN attempts[m] :
    LET a == attempts[m][n]
    IN  \/ n = 1 \/ a.retryCount < Delivery[a.queue].maxReceive
        \/ \E k \in 1 .. n - 1 : /\ attempts[m][k].queue # a.queue
                                /\ attempts[m][k].retryCount = a.retryCount

\* And where visibility never ran out, a message of a redelivering queue that is not
\* delivered is given up only at the receive limit of a queue that names no other
\* for its dead letters.
AtLimit(a) ==
  \/ Delivery[a.queue].semantics = "at-most-once"
  \/ /\ a.retryCount + 1 >= Delivery[a.queue].maxReceive
     /\ Delivery[a.queue].dlq \notin Queues \ {a.queue}

GivenUpOnlyAtLimit ==
  \A m \in Messages :
    LET sent == attempts[m]
    IN  /\ sent # <<>> /\ \A n \in DOMAIN sent : sent[n].state = "failed"
        /\ \A n \in DOMAIN sent : sent[n].expiries = 0
        => AtLimit(sent[Len(sent)])

ReceiveLimitHeld == ReceivesBounded /\ GivenUpOnlyAtLimit

\* The run's ledger covers every accepted message: each is delivered, lost or
\* still on its way, and without an expired visibility it is exactly one of them.
OnItsWay == {m \in Messages : \E n \in DOMAIN attempts[m] : Live(<<m, n>>)}
AcceptedWorkConserved ==
  LET sum == conservation.delivered + conservation.lost + Cardinality(OnItsWay)
  IN  /\ conservation.accepted <= sum
      /\ (\A id \in Ids : At(id).expiries = 0) => conservation.accepted = sum

\* Every message comes to rest: redelivery and dead-lettering end.
Settled(m) == \A n \in DOMAIN attempts[m] : ~Live(<<m, n>>)
EveryMessageSettles == \A m \in Messages : attempts[m] # <<>> ~> Settled(m)

=============================================================================
