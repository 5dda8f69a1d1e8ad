CONSTANTS
  Size = 5
  PartSize = 2
  Concurrency = 2
  MaxAttempts = 2
  EarlyAnswers = TRUE
SPECIFICATION FairSpec
INVARIANTS
  PublishedWhole
  PartSentOnce

PROPERTIES
  NothingAfterAbort
  UploadEnds
CHECK_DEADLOCK FALSE
