CONSTANTS
  Events = 4
  Chunk = 2
  Waits = 1
  Throws = {"advance", "step"}
  MaxCommands = 6
CHECK_DEADLOCK FALSE
SPECIFICATION Spec
INVARIANTS
  LoopAnswersOnce
PROPERTIES
  PauseHolds
  CompleteIsWhole
  RunsEnd
