CONSTANTS
  Keys = {own, hand, game}
  Own = {own}
  Operator = {hand}
  None = None
  MaxChanges = 3
  MaxFaults = 2
SPECIFICATION FairSpec
INVARIANTS TypeOK OperatorPortsKept
PROPERTIES RecordedStatusTrue WantedPortsOpen UnwantedPortsClose
