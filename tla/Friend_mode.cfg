CONSTANTS
  j1 = j1
  j2 = j2
  Jobs = {j1, j2}
  NoJob = NoJob
  Magnets <- OneMagnet
  MaxFaults = 1
SPECIFICATION FairSpec
CONSTRAINT Undamaged
INVARIANTS
  QueuesAgree
  Driven
PROPERTIES
  FetchedOnce
  Arrives
CHECK_DEADLOCK FALSE
