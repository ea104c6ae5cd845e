CONSTANTS
  MaxVersion = 2
  Callers = 2
  MaxSessions = 3
  MaxPushes = 2
  MaxEvents = 1
  None = None
SPECIFICATION FairSpec
INVARIANTS TypeOK ExeIntact DoneMeansRunning
PROPERTIES AnswerSettles
CHECK_DEADLOCK FALSE
