--------------------------- MODULE CircuitBreakerMC ---------------------------
(* Values for checking CircuitBreaker with TLC. *)
EXTENDS CircuitBreaker

CONSTANTS c1, c2, c3, c4

=============================================================================
