SPECIFICATION Spec
CONSTANTS
  r = r
  a = a
  Client = {r, a}
  Runner = r
  Input <- InputOf
  MaxRuns = 2
  PipeSize = 1
  World <- Worlds
INVARIANTS InputInOrder OnlyRunnerEnds
PROPERTIES EofReaches InputFlows 
CHECK_DEADLOCK FALSE
