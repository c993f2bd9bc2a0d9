SPECIFICATION FairSpec
CONSTANTS
  Nodes = {n1}
  Streams = {s1, s2}
  Calls = {}
  None = None
  AssignedShard = 1
  FirstChar = 100
  ShedSafe = {s1}
  HalfCloses = {s1, s2}
INVARIANTS
  ShedIsReported
PROPERTIES
  EndedStreamIsReleased
  FailedOverStreamSheds
CHECK_DEADLOCK FALSE
