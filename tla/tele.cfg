SPECIFICATION FairSpec
CONSTANTS
  MaxErrors = 2
  MaxChange = 3
  Access = {"none", "good", "dead"}
  Commands = {"OFF"}
INVARIANTS
  LoggedIn
PROPERTIES
  Delivered
  ParkedReported
