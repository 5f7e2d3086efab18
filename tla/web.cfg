SPECIFICATION Spec
SYMMETRY Symmetry
CONSTANTS
  Clients = {c1, c2, c3}
  MaxClients = 2
  KeepAlive = 2
  MaxRequest = 2
  MaxLeave = 1
  Files = {1}
  Empty = {}
  Blocks = 3
  Room = 2
  Windows = {2}
  Kinds = {"log", "data", "sniff", "text", "page", "unknown", "reset"}
  Stalls = {"idle", "receiving"}
  None = None
INVARIANTS
  AnswersMatch
  FilesClosed
CHECK_DEADLOCK FALSE
