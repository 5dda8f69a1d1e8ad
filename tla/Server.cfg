CONSTANTS
  Managers = {1, 2, 3}
  Addresses = {a1, a2}
  NoAddress = NoAddress
  Nobody = Nobody
  MaxFlaps = 2
  MaxBindFaults = 0
  MaxGraphs = 4
  MaxTokens = 1
  MaxCodes = 1
  MaxActive = 1
  Callers = {1, 2}
  Jobs = {1, 2}
  NoJob = 0
  MaxCalls = 3
  MaxTogether = 3
SPECIFICATION MCSpec
CONSTRAINTS
  Uncrossed
  Together
INVARIANTS
  NoStrayListener
  PairedLast
  Driven
PROPERTIES
  Recovers
CHECK_DEADLOCK FALSE
