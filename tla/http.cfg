SPECIFICATION FairSpec
CONSTANTS
  ImageLen = 4
  MetaLen = 2
  LocLen = 3
  Chunk = 2
  MetaRoom = 4
  LocRoom = 3
  MaxSync = 1
  MaxFault = 2
  Faults = {"drop", "slow", "garbled", "refused", "close", "late", "reset"}
INVARIANTS
  InPlace
PROPERTIES
  Downloaded
CHECK_DEADLOCK FALSE
