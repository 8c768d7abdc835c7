SPECIFICATION Spec
CONSTANTS
  a = a
  b = b
  Client = {a, b}
  MaxRuns = 2
  World <- AllWorlds
CHECK_DEADLOCK FALSE
INVARIANTS LogIsWhole NoGap NothingLost
PROPERTIES OutputFlows NextChunkWakes
