-------------------------- MODULE WorkerController --------------------------
(***************************************************************************)
(* The simulation worker: the loop that drives an engine in slices and the *)
(* messages it takes between them. Translated from                         *)
(* src/src/engine/worker/simulationWorkerController.ts; the contract it    *)
(* keeps with the renderer is the comment of protocols.ts.                 *)
(*                                                                         *)
(* The worker has one thread: a message handler, or the loop from one      *)
(* await to the next, is one step. A paced run is abstracted to how many   *)
(* short waits it still has before its next event is due. Telemetry and    *)
(* the analytic tier, which has no loop, are left out.                     *)
(***************************************************************************)
EXTENDS Naturals

CONSTANTS
  Events,       \* events of a run
  Chunk,        \* most events one slice of the loop processes
  Waits,        \* waits a paced run may need before its next event
  Throws,       \* the steps an engine error may strike: "advance", "step"
  MaxCommands   \* bound on the messages the renderer sends

ASSUME WorkerAssumption ==
  /\ {Events, Chunk} \subseteq Nat \ {0} /\ {Waits, MaxCommands} \subseteq Nat
  /\ Throws \subseteq {"advance", "step"}

VARIABLES
  running, paused, stopped,
  pending,    \* events the engine still has to process, 0 when none is loaded
  loop,       \* where the loop is: "none", "ready", or in one of its awaits
  waits,      \* waits before the next event is due, 0 at full speed
  answer,     \* what the last message posted says, "none" before any
  terminals,  \* history: terminal messages the loop has posted for the run
  commands    \* messages the renderer has sent

run == <<running, paused, stopped, pending>>
vars == <<run, loop, waits, answer, terminals, commands>>

Post(kind) == answer' = kind /\ terminals' = terminals + 1
Silent == UNCHANGED <<answer, terminals>>

\* What a slice of at most Chunk events may leave; a saturation halt leaves none.
Left == {n \in 0 .. pending : n = 0 \/ pending - n <= Chunk}

Reset ==
  /\ running' = FALSE /\ paused' = FALSE /\ stopped' = FALSE
  /\ pending' = 0 /\ loop' = "none" /\ waits' = 0

Init ==
  /\ running = FALSE /\ paused = FALSE /\ stopped = FALSE
  /\ pending = 0 /\ loop = "none" /\ waits = 0
  /\ answer = "none" /\ terminals = 0 /\ commands = 0

-----------------------------------------------------------------------------
(* Messages. They are taken only while the loop is in an await. *)

Receive ==
  /\ loop # "ready"
  /\ commands < MaxCommands /\ commands' = commands + 1

\* A command refused with a recoverable error.
Refuse ==
  /\ answer' = "refused"
  /\ UNCHANGED <<run, loop, waits, terminals>>

\* A run is refused while another is on; a bad one is answered with a fatal
\* error and nothing runs; otherwise the loop starts within the handler.
HandleRun ==
  /\ Receive
  /\ \/ running /\ Refuse
     \/ /\ ~running
        /\ answer' = "error" /\ terminals' = 1
        /\ UNCHANGED <<run, loop, waits>>
     \/ /\ ~running
        /\ running' = TRUE /\ paused' = FALSE /\ stopped' = FALSE
        /\ pending' = Events /\ loop' = "ready" /\ waits' \in 0 .. Waits
        /\ answer' = "none" /\ terminals' = 0

HandleGrade ==
  /\ Receive
  /\ \/ running /\ Refuse
     \/ /\ ~running
        /\ answer' \in {"graded", "error"}
        /\ UNCHANGED <<run, loop, waits, terminals>>

HandlePause ==
  /\ Receive /\ Silent
  /\ paused' = (paused \/ running)
  /\ UNCHANGED <<running, stopped, pending, loop, waits>>

HandleResume ==
  /\ Receive /\ Silent
  /\ paused' = FALSE
  /\ UNCHANGED <<running, stopped, pending, loop, waits>>

HandleStop ==
  /\ Receive /\ Silent
  /\ stopped' = (stopped \/ running)
  /\ paused' = (paused /\ ~running)
  /\ UNCHANGED <<running, pending, loop, waits>>

\* A new speed re-anchors the pace; an invalid one is refused.
HandleSetSpeed ==
  /\ Receive
  /\ \/ Refuse
     \/ Silent /\ waits' \in 0 .. Waits /\ UNCHANGED <<run, loop>>

\* Stepping past the last event unblocks the paused loop; an engine error stops it.
HandleStep ==
  /\ Receive
  /\ \/ ~(running /\ paused) /\ Refuse
     \/ /\ running /\ paused
        /\ pending' \in Left \cup {pending}
        /\ paused' = (pending' > 0)
        /\ Silent
        /\ UNCHANGED <<running, stopped, loop, waits>>
     \/ /\ running /\ paused /\ pending > 0 /\ "step" \in Throws
        /\ pending' \in Left
        /\ answer' = "error"
        /\ stopped' = TRUE /\ paused' = FALSE
        /\ UNCHANGED <<running, loop, waits, terminals>>

-----------------------------------------------------------------------------
(* The loop, from one await to the next *)

\* Mutant: a stopped run posts a full result.
FinishAsComplete ==
  /\ loop = "ready" /\ (pending = 0 \/ stopped)
  /\ Post("complete")
  /\ Reset
  /\ UNCHANGED commands

Finish ==
  /\ loop = "ready" /\ (pending = 0 \/ stopped)
  /\ Post(IF stopped THEN "stopped" ELSE "complete")
  /\ Reset
  /\ UNCHANGED commands

IdleWhilePaused ==
  /\ loop = "ready" /\ pending > 0 /\ ~stopped /\ paused
  /\ loop' = "pausing"
  /\ UNCHANGED <<run, waits, answer, terminals, commands>>

\* Mutant: the loop does not look at the pause flag again.
AdvancesPaused == loop = "ready" /\ pending > 0 /\ ~stopped

CanAdvance == loop = "ready" /\ pending > 0 /\ ~stopped /\ ~paused

\* A paced run whose next event is not due waits.
Wait ==
  /\ CanAdvance /\ waits > 0
  /\ waits' = waits - 1 /\ loop' = "yielding"
  /\ UNCHANGED <<run, answer, terminals, commands>>

Advance ==
  /\ CanAdvance /\ waits = 0
  /\ pending' \in Left \ {pending}
  /\ waits' \in 0 .. Waits /\ loop' = "yielding"
  /\ UNCHANGED <<running, paused, stopped, answer, terminals, commands>>

\* Mutant: an engine error is posted and the loop goes on.
ThrowsAndGoesOn ==
  /\ CanAdvance /\ waits = 0 /\ "advance" \in Throws
  /\ Post("error")
  /\ loop' = "yielding"
  /\ UNCHANGED <<run, waits, commands>>

AdvanceThrows ==
  /\ CanAdvance /\ waits = 0 /\ "advance" \in Throws
  /\ Post("error")
  /\ Reset
  /\ UNCHANGED commands

\* Back from an await. After a pause the pace is anchored anew.
WakeYielding ==
  /\ loop = "yielding" /\ loop' = "ready"
  /\ UNCHANGED <<run, waits, answer, terminals, commands>>

\* Mutant: the paused loop looks for a stop only.
WakeForStop ==
  /\ loop = "pausing" /\ stopped
  /\ loop' = "ready" /\ waits' \in 0 .. Waits
  /\ UNCHANGED <<run, answer, terminals, commands>>

WakePausing ==
  /\ loop = "pausing" /\ (paused => stopped)
  /\ loop' = "ready" /\ waits' \in 0 .. Waits
  /\ UNCHANGED <<run, answer, terminals, commands>>

Message ==
  \/ HandleRun \/ HandleGrade \/ HandlePause \/ HandleResume
  \/ HandleStop \/ HandleSetSpeed \/ HandleStep

RunChunked ==
  \/ Finish \/ IdleWhilePaused \/ Wait \/ Advance \/ AdvanceThrows
  \/ WakeYielding \/ WakePausing

Next == Message \/ RunChunked

\* Every sleep ends and its continuation is run; messages need not come.
Spec == Init /\ [][Next]_vars /\ WF_vars(RunChunked)

-----------------------------------------------------------------------------
(* Properties *)

TypeOK ==
  /\ running \in BOOLEAN /\ paused \in BOOLEAN /\ stopped \in BOOLEAN
  /\ pending \in 0 .. Events /\ waits \in 0 .. Waits /\ terminals \in Nat
  /\ loop \in {"none", "ready", "yielding", "pausing"}
  /\ answer \in {"none", "refused", "graded", "error", "complete", "stopped"}
  /\ commands \in 0 .. MaxCommands

\* The loop answers its run once, whatever commands and errors the worker met on
\* the way, and it lives exactly as long as the run has no answer from it. The
\* fatal error with which a step message answers an engine error is not the
\* loop's and is not counted.
LoopAnswersOnce ==
  /\ terminals <= 1
  /\ running <=> loop # "none"
  /\ running => terminals = 0

\* While a run is paused its events are processed by step messages only: the
\* loop looks at the flag again after each of its awaits.
PauseHolds ==
  [][paused /\ running' /\ pending' # pending => commands' # commands]_vars

\* Nobody but the renderer ends a run early, and a run that posts a full result
\* has left no event out.
CompleteIsWhole ==
  [][running /\ ~running' /\ answer' = "complete" => pending = 0 /\ ~stopped]_vars

\* A run comes to its end unless it is left paused, at any pace; and one that is
\* stopped always does ("Stop while paused does the same").
RunsEnd == []<>(~running \/ paused) /\ (stopped ~> ~running)

=============================================================================
