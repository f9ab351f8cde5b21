--------------------------- MODULE Linearizability ---------------------------
(***************************************************************************)
(* Linearizability of a single-key register, as the head comment of        *)
(* semantics/linearizability.ts defines it. An operation has a kind, a     *)
(* start, an end (Never, beyond all time, if the client did not learn its  *)
(* outcome) and a value.                                                   *)
(***************************************************************************)
EXTENDS Integers, Sequences, FiniteSets, SequencesExt

InitialValue == 0

\* A total order of operations is a witness if it respects real time (what had
\* returned before another was invoked comes first) and is a legal run of a register:
\* every read returns what the last write before it wrote, if there was one.
IsWitness(ops, order) ==
  LET Op(i) == ops[order[i]]
      Written(i) == {j \in 1 .. i - 1 : Op(j).kind = "write"}
      LastBefore(j, i) == j \in Written(i) /\ \A k \in Written(i) : k <= j
  IN  /\ \A i, j \in DOMAIN order : i < j => ~(Op(j).end < Op(i).start)
      /\ \A i \in DOMAIN order : Op(i).kind = "read" =>
           \/ Written(i) = {} /\ Op(i).value = InitialValue
           \/ \E j \in DOMAIN order : LastBefore(j, i) /\ Op(i).value = Op(j).value

\* Those of the operations that are numbered in which.
Linearizable(ops, which) == \E order \in SetToSeqs(which) : IsWitness(ops, order)

=============================================================================
