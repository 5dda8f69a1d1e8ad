CONSTANTS
  Files = {1, 2}
  Path <- MCPath
  Jobs = {j1, j2}
  NoJob = NoJob
  Slots = {1, 2}
  MaxPresses = 4
  MaxFaults = 2
SPECIFICATION FairSpec
INVARIANTS
  ScreenIsReal
  BoxesAgree
PROPERTIES
  StartedUnchanged
  Settles
CHECK_DEADLOCK FALSE
