-------------------------- MODULE NodeUtilizationMC --------------------------
(* Values for checking GGcKNode and NodeUtilization with TLC. *)
EXTENDS NodeUtilization, TLC

CONSTANTS r1, r2, r3

MCRequests == {r1, r2, r3}
MCPriority == r1 :> 2 @@ r2 :> 1 @@ r3 :> 1

\* Scale to nothing, down and up, and a size whose K the code must raise to c.
MCSizes == {[c |-> 0, k |-> 0], [c |-> 1, k |-> 2], [c |-> 2, k |-> 1]}

Failure(m, i, v) == [mode |-> m, inFlight |-> i, recovery |-> v]
MCFailureSpecs ==
  {Failure("reject", "reset", "reset"), Failure("blackhole", "hang", "reset"),
   Failure("hang", "hang", "resume"), Failure("hang", "reset", "resume"),
   Failure("degraded", "reset", "reset")}

\* Requests of one priority may trade places.
Symmetric == Permutations({r2, r3})

=============================================================================
