CONSTANTS
  Jobs = {reprice}
  Daily = {}
  Every = 1
  Jitter = 1
  Day = 2
  At = 1
  Slots = {1, 2}
  MaxTime = 2
SPECIFICATION Spec
INVARIANT NoWriteCutAtShutdown
CHECK_DEADLOCK FALSE
