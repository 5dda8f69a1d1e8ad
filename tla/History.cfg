CONSTANTS
  Ids = {i1, i2, i3}
  Callers = {c1, c2}
  NoGen = NoGen
  New = New
  MaxRecords = 2
  SavesPerTick = 2
  MaxVersion = 4
  MaxRestarts = 1
  MayFail = TRUE
SPECIFICATION FairSpec
INVARIANTS
  AckedDurable
  OneObject
PROPERTIES
  FileForward
  SaveReturns
CHECK_DEADLOCK FALSE
