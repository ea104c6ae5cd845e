CONSTANTS
  c1 = c1
  c2 = c2
  t1 = t1
  t2 = t2
  Conns = {k1, k2}
  Clients = {c1, c2}
  Tokens = {t1, t2, t3}
  FirstToken <- TwoTokens
  None = None
  SaveMayFail = TRUE
SPECIFICATION FairSpec
INVARIANTS TypeOK LiveSessionsListed SlotsVerified
PROPERTIES DeadSessionsLeave KickedSessionsClose
CHECK_DEADLOCK FALSE
