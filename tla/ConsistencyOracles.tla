-------------------------- MODULE ConsistencyOracles --------------------------
(***************************************************************************)
(* The run's consistency report: the linearizability check of the recorded *)
(* history beside the ledger's counts. Translated from buildReport in      *)
(* traits/consistencyModel.ts. The report may be built at any moment.      *)
(***************************************************************************)
EXTENDS ConsistencyModel, LinearizabilityCheck

CONSTANTS OpsPerKeyBound, CheckMaxSteps

Recorded ==
  LET kept == IF Len(history) <= OpsPerKeyBound THEN history
              ELSE SubSeq(history, 1, OpsPerKeyBound)
  IN  SelectSeq(kept, Finished)

Verdict == CheckRegisterLinearizability(Recorded, CheckMaxSteps)

-----------------------------------------------------------------------------
(* Properties *)

\* The check says what is true of the whole history. Running out of steps it is
\* "inconclusive, never linearizable", and the operations beyond the bound never
\* make it report a violation that the whole history does not have.
VerdictSound ==
  /\ Verdict = "violation" => ~Linearizable(history, Returned)
  /\ Verdict = "linearizable" /\ Len(history) <= OpsPerKeyBound
       => Linearizable(history, Returned)

=============================================================================
