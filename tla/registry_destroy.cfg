SPECIFICATION Spec
CONSTANTS
  Client = {c1}
  Id = {i1}
  Faults = {}
  MaxCrashes = 0
INVARIANT DestroyedIsGone
CHECK_DEADLOCK FALSE
