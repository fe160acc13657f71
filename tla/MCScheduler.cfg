CONSTANTS
  Jobs = {reprice, zero_cd}
  Daily = {zero_cd}
  Every = 1
  Jitter = 2
  Day = 2
  At = 1
  Slots = {1, 2}
  MaxTime = 2
SPECIFICATION Spec
INVARIANTS NoOverlap CleanStopIsQuiet
PROPERTIES Paced
CHECK_DEADLOCK FALSE
