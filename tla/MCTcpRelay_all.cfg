CONSTANTS
  Cap = 2
  MaxBytes = 2
SPECIFICATION FairSpec
INVARIANTS TypeOK CountsTell
PROPERTIES Implements EndsArrive UserReleased
CHECK_DEADLOCK FALSE
