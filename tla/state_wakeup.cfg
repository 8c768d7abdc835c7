SPECIFICATION Spec
CONSTANTS
  Waiter = {w1}
  Helper = {}
  ExitCodes = {0, 1}
  MaxRuns = 1
  NoOne = NoOne
CHECK_DEADLOCK FALSE
PROPERTY WaitReturns
