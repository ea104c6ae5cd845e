CONSTANTS
  Clients = {c1, c2}
  Ids = {f1, f2}
  Ports = {1, 3}
  Reserved = {3}
  Targets = {t1}
  MaxGroup = 2
  None = None
  BindMayFail = TRUE
  SaveMayFail = TRUE
SYMMETRY Symmetry
SPECIFICATION Spec
INVARIANTS TypeOK SocketsExclusive ForwardsOwned
