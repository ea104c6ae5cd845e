CONSTANTS
  Addrs = {a1}
  Streams = {s1, s2}
  None = None
SPECIFICATION FairSpec
PROPERTIES StopEnds
CHECK_DEADLOCK FALSE
