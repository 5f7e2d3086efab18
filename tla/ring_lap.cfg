SPECIFICATION RingSpec
CONSTANTS
  RingCap = 11
  Ent = 2
  Sizes = {2, 4}
  MaxPush = 5
  MaxReset = 1
  Faults = {"lap"}
INVARIANTS
  RecordsWhole
CHECK_DEADLOCK FALSE
