SPECIFICATION Spec
CONSTANTS
  Nodes = {n1}
  Streams = {s1, s2}
  Calls = {c1, c2}
  None = None
  AssignedShard = 0
  FirstChar = 100
  ShedSafe = {}
  HalfCloses = {}
SYMMETRY Symmetry
INVARIANTS
  NoDoubleClose
  ReplyIsGenuine
CHECK_DEADLOCK FALSE
