CONSTANTS
  SilentCycles = 2
  RpmWindow = 3
  WakeWindow = 5
  LowTime = 3
  Grace = 2
  Countdown = 1
  Middle = 1
  Stationary = 2
  Longest = 2
  Limits = {65535, 1}
  MaxTime = 3
  MaxChange = 1
  Changes = {"reset", "off", "sniff", "limit", "miss"}
SPECIFICATION FairSpec
INVARIANTS
  OwnAnswer
PROPERTIES
  InOrder
  NoGhostTrip
  StopIsSilence
  TripFollows
