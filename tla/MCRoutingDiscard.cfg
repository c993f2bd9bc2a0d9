SPECIFICATION FairSpec
CONSTANTS
  Nodes = {n1}
  Streams = {s1}
  Calls = {c1}
  None = None
  AssignedShard = 0
  FirstChar = 100
  ShedSafe = {}
  HalfCloses = {}
PROPERTIES
  DiscardedIsExpired
CHECK_DEADLOCK FALSE
