------------------------------ MODULE FencedLock ------------------------------
(***************************************************************************)
(* What a distributed lock with leases and fencing tokens promises: it is  *)
(* granted when every client still at work under an earlier grant has      *)
(* outlived its lease, and each grant has the newest token. The guarded    *)
(* consumers of CoordinatedDelivery implement it, with the lease table of  *)
(* traits/lockLease.ts and the releases of engine.ts.                      *)
(***************************************************************************)
EXTENDS Integers

CONSTANT Clients

VARIABLES
  token,  \* [Clients -> Nat], of the grant a client works under, 0 without one
  late,   \* the clients at work beyond their lease
  last    \* the newest token

lockVars == <<token, late, last>>

Holders == {c \in Clients : token[c] > 0}

Init == token = [c \in Clients |-> 0] /\ late = {} /\ last = 0

Grant(c) ==
  /\ token[c] = 0 /\ Holders \subseteq late
  /\ last' = last + 1
  /\ token' = [token EXCEPT ![c] = last']
  /\ UNCHANGED late

\* The lease runs out; its holder is not told.
Expire(c) ==
  /\ c \in Holders \ late
  /\ late' = late \cup {c}
  /\ UNCHANGED <<token, last>>

Release(c) ==
  /\ c \in Holders
  /\ token' = [token EXCEPT ![c] = 0]
  /\ late' = late \ {c}
  /\ UNCHANGED last

Next == \E c \in Clients : Grant(c) \/ Expire(c) \/ Release(c)

Spec == Init /\ [][Next]_lockVars

=============================================================================
