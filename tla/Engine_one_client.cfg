CONSTANTS
  Jobs = {j1}
  NoJob = NoJob
  Requests = {c1}
  MaxPipes = 2
  MaxRestarts = 1
  Sources = {"torrent", "direct"}
  Files = {0, 1}
  Policies <- AllOrNothing
  DiskMayFail = FALSE
SPECIFICATION FairSpec
INVARIANTS
  PayloadKept
  TransferDriven
  OutcomesTrue
  UrlBeforeCleanup
PROPERTIES
  UrlNeverLost
  NeverRedownloads
  PipelineEnds
CHECK_DEADLOCK FALSE
