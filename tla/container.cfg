SPECIFICATION Spec
CONSTANTS
  Client = {c1, c2}
  Address = {a1, a2}
  MaxStarts = 2
  World <- Worlds
INVARIANTS
  RestartKeepsOneProcess
  ProcessHasResources
  NoDoubleRelease
  NoPanic
  RestingHoldsNothing
PROPERTIES StopLeavesNothing  IsLifecycle
CHECK_DEADLOCK FALSE
