----------------------- MODULE WorkerControllerProofs -----------------------
(***************************************************************************)
(* Machine-checked proofs about WorkerController, for any run and any      *)
(* commands: its state is well typed, its loop posts one terminal message  *)
(* for every run, a pause holds, and a full result is whole.               *)
(***************************************************************************)
EXTENDS WorkerController, TLAPS

\* What a slice leaves is a number of events.
LEMMA LeftIsTyped == TypeOK => Left \subseteq 0 .. Events
BY WorkerAssumption, SMT DEF TypeOK, Left

\* The worker starts well typed, with nothing to answer.
LEMMA InitInv == Init => TypeOK /\ LoopAnswersOnce
<1>. SUFFICES ASSUME Init PROVE TypeOK /\ LoopAnswersOnce
  OBVIOUS
<1>1. running \in BOOLEAN /\ paused \in BOOLEAN /\ stopped \in BOOLEAN
  BY Zenon DEF Init
<1>2. 0 \in 0 .. Events /\ 0 \in 0 .. Waits /\ 0 \in 0 .. MaxCommands /\ 0 <= 1
  BY WorkerAssumption, SMT
<1>3. LoopAnswersOnce
  BY <1>2 DEF Init, LoopAnswersOnce
<1>. QED
  BY <1>1, <1>2, <1>3, Zenon DEF Init, TypeOK

\* Every step keeps the state well typed.
LEMMA TypeStep == TypeOK /\ [Next]_vars => TypeOK'
<1>. SUFFICES ASSUME TypeOK, [Next]_vars PROVE TypeOK'
  OBVIOUS
<1>. USE WorkerAssumption
<1>1. CASE HandleRun
  <2>1. running' \in BOOLEAN /\ paused' \in BOOLEAN /\ stopped' \in BOOLEAN
    BY <1>1, Zenon DEF TypeOK, HandleRun, Receive, Refuse, run
  <2>. QED
    BY <1>1, <2>1, SMT DEF TypeOK, HandleRun, Receive, Refuse, run
<1>2. CASE HandleGrade
  BY <1>2, SMT DEF TypeOK, HandleGrade, Receive, Refuse, run
<1>3. CASE HandlePause
  BY <1>3, SMT DEF TypeOK, HandlePause, Receive, Silent
<1>4. CASE HandleResume
  <2>1. running' \in BOOLEAN /\ paused' \in BOOLEAN /\ stopped' \in BOOLEAN
    BY <1>4, Zenon DEF TypeOK, HandleResume, Receive, Silent
  <2>. QED
    BY <1>4, <2>1, SMT DEF TypeOK, HandleResume, Receive, Silent
<1>5. CASE HandleStop
  BY <1>5, SMT DEF TypeOK, HandleStop, Receive, Silent
<1>6. CASE HandleSetSpeed
  BY <1>6, SMT DEF TypeOK, HandleSetSpeed, Receive, Refuse, Silent, run
<1>7. CASE HandleStep
  <2>1. pending' \in 0 .. Events
    BY <1>7, LeftIsTyped DEF TypeOK, HandleStep, Refuse, run
  <2>2. running' \in BOOLEAN /\ stopped' \in BOOLEAN
    BY <1>7, Zenon DEF TypeOK, HandleStep, Refuse, run
  <2>3. paused' \in BOOLEAN
    <3>1. (pending' > 0) \in BOOLEAN
      BY <2>1, SMT
    <3>. QED
      BY <1>7, <3>1, Zenon DEF TypeOK, HandleStep, Refuse, run
  <2>. QED
    BY <1>7, <2>1, <2>2, <2>3, SMT
    DEF TypeOK, HandleStep, Receive, Refuse, Silent, Post, run
<1>8. CASE Finish
  <2>1. running' \in BOOLEAN /\ paused' \in BOOLEAN /\ stopped' \in BOOLEAN
    BY <1>8, Zenon DEF TypeOK, Finish, Post, Reset
  <2>. QED
    BY <1>8, <2>1, SMT DEF TypeOK, Finish, Post, Reset
<1>9. CASE IdleWhilePaused
  BY <1>9, SMT DEF TypeOK, IdleWhilePaused, run
<1>10. CASE Wait
  BY <1>10, SMT DEF TypeOK, Wait, CanAdvance, run
<1>11. CASE Advance
  <2>1. pending' \in 0 .. Events
    BY <1>11, LeftIsTyped DEF Advance
  <2>. QED
    BY <1>11, <2>1, SMT DEF TypeOK, Advance, CanAdvance
<1>12. CASE AdvanceThrows
  <2>1. running' \in BOOLEAN /\ paused' \in BOOLEAN /\ stopped' \in BOOLEAN
    BY <1>12, Zenon DEF TypeOK, AdvanceThrows, Post, Reset
  <2>. QED
    BY <1>12, <2>1, SMT DEF TypeOK, AdvanceThrows, Post, Reset
<1>13. CASE WakeYielding
  BY <1>13, SMT DEF TypeOK, WakeYielding, run
<1>14. CASE WakePausing
  BY <1>14, SMT DEF TypeOK, WakePausing, run
<1>15. CASE UNCHANGED vars
  BY <1>15 DEF TypeOK, vars, run
<1>. QED
  BY <1>1, <1>2, <1>3, <1>4, <1>5, <1>6, <1>7, <1>8, <1>9, <1>10, <1>11, <1>12,
     <1>13, <1>14, <1>15
  DEF Next, Message, RunChunked

\* The loop posts a terminal message only in the step that ends the run.
LEMMA TerminalStep ==
  ASSUME TypeOK, LoopAnswersOnce, [Next]_vars
  PROVE  LoopAnswersOnce'
<1>1. CASE HandleRun
  BY <1>1, SMT DEF LoopAnswersOnce, HandleRun, Receive, Refuse, run
<1>2. CASE HandleGrade
  BY <1>2, SMT DEF LoopAnswersOnce, HandleGrade, Refuse, run
<1>3. CASE HandlePause \/ HandleResume \/ HandleStop
  BY <1>3, SMT DEF LoopAnswersOnce, HandlePause, HandleResume, HandleStop, Silent
<1>4. CASE HandleSetSpeed
  BY <1>4, SMT DEF LoopAnswersOnce, HandleSetSpeed, Refuse, Silent, run
<1>5. CASE HandleStep
  BY <1>5, SMT DEF LoopAnswersOnce, HandleStep, Refuse, Silent, run
<1>6. CASE Finish \/ AdvanceThrows
  BY <1>6, SMT DEF LoopAnswersOnce, TypeOK, Finish, AdvanceThrows, CanAdvance, Post, Reset
<1>7. CASE IdleWhilePaused \/ Wait \/ WakeYielding \/ WakePausing
  BY <1>7, SMT
  DEF LoopAnswersOnce, IdleWhilePaused, Wait, WakeYielding, WakePausing, CanAdvance, run
<1>8. CASE Advance
  BY <1>8, SMT DEF LoopAnswersOnce, Advance, CanAdvance
<1>9. CASE UNCHANGED vars
  BY <1>9 DEF LoopAnswersOnce, vars, run
<1>. QED
  BY <1>1, <1>2, <1>3, <1>4, <1>5, <1>6, <1>7, <1>8, <1>9 DEF Next, Message, RunChunked

\* In every reachable state the worker's state is well typed.
THEOREM WorkerTypeCorrect == Spec => []TypeOK
<1>1. Init => TypeOK
  BY InitInv
<1>. QED
  BY <1>1, TypeStep, PTL DEF Spec

\* No run is answered by its loop more than once, and the loop lives exactly as
\* long as its run.
THEOREM RunsAnswerOnce == Spec => []LoopAnswersOnce
<1>1. Init => LoopAnswersOnce
  BY InitInv
<1>2. TypeOK /\ LoopAnswersOnce /\ [Next]_vars => LoopAnswersOnce'
  BY TerminalStep
<1>. QED
  BY <1>1, <1>2, WorkerTypeCorrect, PTL DEF Spec

\* The events of a paused run are processed in step messages only.
THEOREM PauseIsKept == Spec => PauseHolds
<1> DEFINE Holds == paused /\ running' /\ pending' # pending => commands' # commands
<1>1. TypeOK /\ [Next]_vars => [Holds]_vars
  <2> SUFFICES ASSUME TypeOK, Next, paused, running', pending' # pending
               PROVE  commands' # commands
    BY DEF vars
  <2>1. CASE Message
    <3>1. Receive
      BY <2>1 DEF Message, HandleRun, HandleGrade, HandlePause, HandleResume, HandleStop,
                  HandleSetSpeed, HandleStep
    <3>2. commands \in Nat /\ commands' = commands + 1
      BY <3>1, WorkerAssumption DEF Receive, TypeOK
    <3> QED BY <3>2
  <2>2. CASE Finish \/ AdvanceThrows
    BY <2>2 DEF Finish, AdvanceThrows, Reset
  <2>3. CASE IdleWhilePaused \/ Wait \/ WakeYielding \/ WakePausing
    BY <2>3 DEF IdleWhilePaused, Wait, WakeYielding, WakePausing, run
  <2>4. CASE Advance
    BY <2>4 DEF Advance, CanAdvance
  <2> QED BY <2>1, <2>2, <2>3, <2>4 DEF Next, RunChunked
<1> QED BY <1>1, WorkerTypeCorrect, PTL DEF Spec, PauseHolds

\* A run that posts a full result has left no event out, and nobody has stopped it.
THEOREM FullResultIsWhole == Spec => CompleteIsWhole
<1> DEFINE Whole == running /\ ~running' /\ answer' = "complete" => pending = 0 /\ ~stopped
<1>1. TypeOK /\ [Next]_vars => [Whole]_vars
  <2> SUFFICES ASSUME TypeOK, Next, running, ~running', answer' = "complete"
               PROVE  pending = 0 /\ ~stopped
    BY DEF vars
  <2>1. ~Message
    BY DEF Message, HandleRun, HandleGrade, HandlePause, HandleResume, HandleStop,
           HandleSetSpeed, HandleStep, Refuse, run
  <2>2. ~(IdleWhilePaused \/ Wait \/ Advance \/ WakeYielding \/ WakePausing)
    BY DEF IdleWhilePaused, Wait, Advance, WakeYielding, WakePausing, run
  <2>3. ~AdvanceThrows
    BY DEF AdvanceThrows, Post
  <2>4. Finish
    BY <2>1, <2>2, <2>3 DEF Next, RunChunked
  <2> QED BY <2>4 DEF Finish, Post
<1> QED BY <1>1, WorkerTypeCorrect, PTL DEF Spec, CompleteIsWhole

=============================================================================
