CONSTANTS
  Logins = {l1, l2}
  Changes = {c1, c2}
  Tokens = {t1}
  loginMaxFailures = 2
  MaxPassword = 3
  MaxSessions = 2
  MaxFaults = 1
  None = None
SPECIFICATION Spec
SYMMETRY Symmetric
INVARIANTS TypeOK OldSessionsEnd ConfirmedIsDurable FailuresLimited
CHECK_DEADLOCK FALSE
