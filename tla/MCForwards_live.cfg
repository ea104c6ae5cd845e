CONSTANTS
  Clients = {c1}
  Ids = {f1, f2, f3}
  Ports = {1}
  Reserved = {3}
  Targets = {t1}
  MaxGroup = 2
  None = None
  BindMayFail = FALSE
  SaveMayFail = FALSE
SPECIFICATION FairSpec
INVARIANTS ListenersMatch NoOrphanListener
PROPERTIES DeletedPortCloses GroupChangeEnds
