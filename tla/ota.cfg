SPECIFICATION FairSpec
CONSTANTS
  MaxImage = 2
  MaxFault = 2
  MaxBoot = 1
  Faults = {"crash", "link", "corrupt", "sd", "flash", "norange", "nosum", "upload", "settings"}
INVARIANTS
  BootsWhole
  MetaMeansVerified
PROPERTIES
  NotOverAnotherBuild
  PartialKept
  Updated
CHECK_DEADLOCK FALSE
