CONSTANTS
  c1 = c1
  c2 = c2
  t1 = t1
  t2 = t2
  Conns = {k1, k2, k3}
  Clients = {c1}
  Tokens = {t1, t2}
  FirstToken <- OneToken
  None = None
  SaveMayFail = FALSE
SYMMETRY Symmetry
SPECIFICATION Spec
INVARIANTS OldTokenDisconnected
CHECK_DEADLOCK FALSE
