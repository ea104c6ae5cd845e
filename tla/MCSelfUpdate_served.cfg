CONSTANTS
  MaxVersion = 2
  NPlatforms = 1
  MaxRecords = 1
  MaxCrashes = 0
  MaxKills = 0
  MaxFaults = 0
  None = None
SPECIFICATION Spec
INVARIANTS ServedMatchesRunning
CHECK_DEADLOCK FALSE
