CONSTANTS
  MaxJobs = 2
  Urls = {"local", "other"}
  DefaultUrl = "local"
  MaxClicks = 5
  MaxChanges = 1
  MaxEvents = 1
SPECIFICATION Spec
INVARIANTS StepsHold
PROPERTIES WindowCatchesUp
CHECK_DEADLOCK FALSE
