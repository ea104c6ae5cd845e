CONSTANTS
  Addrs = {a1}
  Streams = {s1, s2}
  None = None
SPECIFICATION FairSpec
INVARIANTS TypeOK StreamsTracked
PROPERTIES DeadPeersLeave IdlePeersReaped
CHECK_DEADLOCK FALSE
