SPECIFICATION Spec
CONSTANTS
  Waiter = {w1}
  Helper = {h1}
  ExitCodes = {0, 1}
  MaxRuns = 2
  NoOne = NoOne
PROPERTIES WaitKeepsPromise SleepersGetCode
CHECK_DEADLOCK FALSE
