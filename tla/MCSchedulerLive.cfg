CONSTANTS
  Jobs = {reprice, zero_cd}
  Daily = {zero_cd}
  Every = 1
  Jitter = 0
  Day = 2
  At = 1
  Slots = {1}
  MaxTime = 2
SPECIFICATION FairSpec
PROPERTIES ShutdownEnds RunningClears DueJobsStart
CHECK_DEADLOCK FALSE
