CONSTANTS
  Managers = {r1}
  Addresses = {a1, a2}
  NoAddress = NoAddress
  Nobody = Nobody
  MaxFlaps = 3
  MaxBindFaults = 1
SPECIFICATION RelaySpec
INVARIANTS
  ListeningServes
CHECK_DEADLOCK FALSE
