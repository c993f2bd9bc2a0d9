SPECIFICATION Spec
CONSTANTS
  Nodes = {n1}
  Streams = {s1, s2}
  Calls = {}
  None = None
  AssignedShard = 0
  FirstChar = 100
  ShedSafe = {}
  HalfCloses = {}
INVARIANTS
  EvictedIsTold
CHECK_DEADLOCK FALSE
