CONSTANTS
  Jobs = {j1}
  NoJob = NoJob
  Requests = {c1}
  MaxPipes = 2
  MaxRestarts = 0
  Sources = {"torrent"}
  Files = {0, 1}
  Policies <- AllOrNothing
  DiskMayFail = FALSE
SPECIFICATION Spec
INVARIANTS
  NoJobAbandoned
CHECK_DEADLOCK FALSE
