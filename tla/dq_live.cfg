SPECIFICATION FairSpec
CONSTANTS
  MaxRec = 3
  MaxBoot = 1
  Cap = 2
  SbCap = 0
  PacketRecs = 1
  MaxInflight = 1
  PacketNo = {1}
  Events = {"dead", "loss"}
PROPERTIES
  AllDelivered
CHECK_DEADLOCK FALSE
