----------------------------- MODULE HeldRequestsMC -----------------------------
\* An instance of HeldRequests for TLC: three deliveries of one partition, two of them
\* changes of one key, and two clients that ask for that key, one of which is retried.
EXTENDS HeldRequests

CONSTANTS d1, d2, d3, c1, c2, k1, k2, lane

MCRequests == {d1, d2, d3, c1, c2}
MCKey == [r \in MCRequests |-> IF r = d3 THEN k2 ELSE k1]
MCLane == [r \in MCRequests |-> IF r \in {d1, d2, d3} THEN lane ELSE NoLane]
MCChange == (d1 :> 1) @@ (d2 :> 2) @@ (d3 :> 1) @@ (c1 :> 0) @@ (c2 :> 0)
MCMaxRetries == [r \in MCRequests |-> IF r = c1 THEN 1 ELSE 0]

=============================================================================
