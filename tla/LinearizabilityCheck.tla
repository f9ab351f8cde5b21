------------------------- MODULE LinearizabilityCheck -------------------------
(***************************************************************************)
(* The linearizability checker: a search for a witness, one operation at a *)
(* time, that remembers where it has been and gives up after a number of   *)
(* steps. Translated from semantics/linearizability.ts.                    *)
(***************************************************************************)
EXTENDS Linearizability, TLC

-----------------------------------------------------------------------------
(* The search *)

InStartOrder(ops) ==
  SortSeq(ops, LAMBDA a, b : a.start < b.start \/ (a.start = b.start /\ a.end < b.end))

MinEnd(ops, done) ==
  LET ends == {ops[i].end : i \in DOMAIN ops \ done}
  IN  CHOOSE e \in ends : \A f \in ends : e <= f

\* Mutant: a pending operation that ends as another starts rules it out.
MayNotBeNext(ops, done, i) == ops[i].start >= MinEnd(ops, done)

\* A pending operation has finished before this one was invoked, and so before all
\* that start later.
TooLate(ops, done, i) == ops[i].start > MinEnd(ops, done)

RECURSIVE Search(_, _, _, _, _), TryFrom(_, _, _, _, _, _)

\* A search is what it has found, explored and spent so far.
Search(ops, maxSteps, done, value, s) ==
  IF done = DOMAIN ops THEN [s EXCEPT !.ok = TRUE]
  ELSE IF <<done, value>> \in s.explored THEN s
  ELSE TryFrom(1, ops, maxSteps, done, value, [s EXCEPT !.explored = @ \cup {<<done, value>>}])

TryFrom(i, ops, maxSteps, done, value, s) ==
  LET spent == [s EXCEPT !.steps = @ + 1]
      found == Search(ops, maxSteps, done \cup {i},
                      IF ops[i].kind = "write" THEN ops[i].value ELSE value, spent)
  IN  IF i > Len(ops) THEN s
      ELSE IF i \in done THEN TryFrom(i + 1, ops, maxSteps, done, value, s)
      ELSE IF TooLate(ops, done, i) THEN s
      ELSE IF s.steps = maxSteps THEN [s EXCEPT !.exhausted = TRUE]
      ELSE IF ops[i].kind = "read" /\ ops[i].value # value
        THEN TryFrom(i + 1, ops, maxSteps, done, value, spent)
      ELSE IF found.ok \/ found.exhausted THEN found
      ELSE TryFrom(i + 1, ops, maxSteps, done, value, found)

ReadsUnwritten(ops) ==
  \E i \in DOMAIN ops :
    /\ ops[i].kind = "read" /\ ops[i].value # InitialValue
    /\ \A j \in DOMAIN ops : ops[j].kind = "write" => ops[j].value # ops[i].value

CheckRegisterLinearizability(operations, maxSteps) ==
  LET ops == InStartOrder(operations)
      s == Search(ops, maxSteps, {}, InitialValue,
                  [ok |-> FALSE, exhausted |-> FALSE, steps |-> 0, explored |-> {}])
  IN  IF ReadsUnwritten(ops) THEN "violation"
      ELSE IF s.ok THEN "linearizable"
      ELSE IF s.exhausted THEN "inconclusive" ELSE "violation"

=============================================================================
