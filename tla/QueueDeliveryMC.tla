--------------------------- MODULE QueueDeliveryMC ---------------------------
(* Values for checking QueueDelivery with TLC. *)
EXTENDS QueueDelivery, TLC

CONSTANTS m1, m2, work, events, dead

MCMessages == {m1, m2}
MCQueues == {work, events, dead}
MCSources == m1 :> {work} @@ m2 :> {events}

Queue(s, v, n, d) == [semantics |-> s, visibility |-> v, maxReceive |-> n, dlq |-> d]
MCDelivery ==
  work :> Queue("at-least-once", TRUE, 2, dead)
  @@ events :> Queue("at-most-once", TRUE, 2, dead)
  @@ dead :> Queue("at-least-once", FALSE, 2, NoQueue)

=============================================================================
