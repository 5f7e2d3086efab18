SPECIFICATION FairSpec
CONSTANTS
  MaxFrame = 3
  MaxCommand = 3
  MaxFail = 1
  QueueCap = 2
  BlockCap = 1
  Minutes = 2
  SaveEvery = 1
  Speeds = 2
  Events = {"resets", "sends"}
INVARIANTS
  AllCounted
  FileInOrder
  OneOwner
PROPERTIES
  SwitchedOff
CHECK_DEADLOCK FALSE
