SPECIFICATION Spec
CONSTANTS
  MaxRec = 3
  MaxBoot = 2
  Cap = 2
  SbCap = 1
  PacketRecs = 1
  MaxInflight = 1
  PacketNo = {1}
  Events = {"panic", "powerloss", "nocard", "purge", "standby"}
INVARIANTS
  NoSilentLoss
  CursorCovers
PROPERTIES
  PurgeSparesUndelivered
  FlashCopyKept
CHECK_DEADLOCK FALSE
