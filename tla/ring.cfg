SPECIFICATION RingSpec
CONSTANTS
  RingCap = 9
  Ent = 2
  Sizes = {2, 3}
  MaxPush = 5
  MaxReset = 1
  Faults = {}
INVARIANTS
  RecordsWhole
PROPERTIES
  ImplementsFifo
  RestartKeeps
CHECK_DEADLOCK FALSE
