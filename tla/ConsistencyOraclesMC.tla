------------------------- MODULE ConsistencyOraclesMC -------------------------
(* A write and two reads of one session, over a leader and a follower that is   *)
(* three ticks behind.                                                          *)
EXTENDS ConsistencyOracles

CONSTANTS w1, r1, r2, slow, alice

MCLag == (slow :> 3)
MCSession == (w1 :> alice) @@ (r1 :> alice) @@ (r2 :> alice)
MCAttempts == (w1 :> 2) @@ (r1 :> 2) @@ (r2 :> 2)
MCHeld == {{}, {slow}}
MCModels == {"monotonic-reads", "read-your-writes", "strong"}

\* One request is retried, once, under the strong model, and then the run is two ticks
\* shorter. A read is retried after a timeout, which left something behind.
Retried == {q \in Requests : request[q].attempts > 1}
RetriesBounded ==
  Retried # {} =>
    /\ Cardinality(Retried) = 1 /\ model = "strong" /\ now < MaxTime - 1
    /\ \A q \in Retried \cap Reads : request[q].left # {}

\* Where the floor is set by writes only, there is one read.
Bounded ==
  /\ RetriesBounded
  /\ model = "read-your-writes" => \E r \in Reads : request[r].state = "new"

Symmetric == Permutations(Reads)

=============================================================================
