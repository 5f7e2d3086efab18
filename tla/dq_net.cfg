SPECIFICATION Spec
CONSTANTS
  MaxRec = 2
  MaxBoot = 2
  Cap = 2
  SbCap = 0
  PacketRecs = 2
  MaxInflight = 2
  PacketNo = {1, 2}
  Events = {"damage", "powerloss", "loss", "dup", "resend"}
INVARIANTS
  TypeOK
  AckedIsStored
  NeverStranded
  IdentityRight
  SentWhole
CHECK_DEADLOCK FALSE
