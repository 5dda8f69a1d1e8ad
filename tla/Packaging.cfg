CONSTANTS
  Files = {1, 2}
  Size <- MCSize
  ReserveFloor = 2
  ZipPerFile = 1
  ZipFixed = 1
  WarningFloor = 1
  Capacity = 9
  MaxFaults = 3
SPECIFICATION FairSpec
INVARIANTS
  PackedSafely
  NothingSurvives
PROPERTIES
  PackagingEnds
CHECK_DEADLOCK FALSE
