CONSTANTS
  Jobs = {j1, j2}
  NoJob = NoJob
  Requests = {c1, c2}
  MaxPipes = 2
  MaxRestarts = 0
  Sources = {"direct"}
  Files = {0, 1}
  Policies <- OnlyKeep
  DiskMayFail = FALSE
SPECIFICATION Spec
INVARIANTS
  OneAtATime
  SlotsReleased
PROPERTIES
  ImplementsDelivery
SYMMETRY JobSymmetry
CHECK_DEADLOCK FALSE
