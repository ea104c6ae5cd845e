CONSTANTS
  MaxVersion = 2
  NPlatforms = 2
  MaxRecords = 3
  MaxCrashes = 1
  MaxKills = 1
  MaxFaults = 2
  None = None
SPECIFICATION FairSpec
INVARIANTS TypeOK RecordTells BinaryInstalled ServedWhole
PROPERTIES NoDowngrade UpdateEnds
CHECK_DEADLOCK FALSE
