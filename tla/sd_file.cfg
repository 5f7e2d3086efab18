SPECIFICATION FairSpec
CONSTANTS
  MaxLine = 3
  PerRec = 1
  Ring = 2
  Marks = 1
  MaxFail = 2
  MaxSniff = 2
  Timeouts = {"open", "close", "sync", "finish"}
INVARIANTS
  FileIsStream
  ConfirmedOnCard
  LinesAccounted
PROPERTIES
  LinesSettle
  AnswerTrue
CHECK_DEADLOCK FALSE
