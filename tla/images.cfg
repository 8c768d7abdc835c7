SPECIFICATION Spec
CONSTANTS
  j1 = j1
  j2 = j2
  Job = {j1, j2}
  Base = base
  NoImage = noimage
  Absent = absent
  Members = 2
  foo = foo
  fooSlash = fooSlash
  Name = {foo, fooSlash}
  Clean <- CleanName
  Dest <- NameOf
  MaxPaths = 2
  MaxCrashes = 1
CHECK_DEADLOCK FALSE
INVARIANTS ImagesHaveLayers AnswerIsTrue LeavesNothing
PROPERTIES IsImageStore CreateEnds
