----------------------- MODULE CoordinatedDeliveryMC -----------------------
(* Values for checking CoordinatedDelivery with TLC. *)
EXTENDS CoordinatedDelivery, TLC

CONSTANTS m1, m2, k, work, events, dead

MCMessages == {m1, m2}
MCKeys == {k}
MCKeyMaps == {m1 :> k @@ m2 :> k}

\* One queue redelivers, the other does not.
MCQueues == {work, events, dead}
MCSources == m1 :> {work} @@ m2 :> {events}
MCGuarded == {work, events}

Queue(s, v, n, d) == [semantics |-> s, visibility |-> v, maxReceive |-> n, dlq |-> d]
MCDelivery ==
  work :> Queue("at-least-once", TRUE, 2, dead)
  @@ events :> Queue("at-most-once", TRUE, 2, dead)
  @@ dead :> Queue("at-least-once", FALSE, 2, NoQueue)

Guard(j, r, p) == [journal |-> j, reconcile |-> r, probe |-> p]
MCGuardConfigs ==
  {Guard(FALSE, FALSE, "unknown"), Guard(TRUE, FALSE, "unknown"),
   Guard(TRUE, TRUE, "modeled")}

=============================================================================
