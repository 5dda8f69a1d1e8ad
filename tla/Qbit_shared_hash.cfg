CONSTANTS
  j1 = j1
  j2 = j2
  Jobs <- TwoJobs
  NoJob = NoJob
  Files = {0, 1}
  Selection <- OneEach
  MaxAdds = 2
  MaxRestarts = 1
  MayFail = TRUE
  UserActs = {"add", "remove", "tag"}
SPECIFICATION FairSpec
INVARIANTS
  OnlySelected
  KeptPayload
  CancelRemoves
PROPERTIES
  ForeignUntouched
  CancelEnds
CHECK_DEADLOCK FALSE
