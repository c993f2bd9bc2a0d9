SPECIFICATION FairSpec
CONSTANTS
  Nodes = {n1, n2}
  Streams = {s1, s2}
  Calls = {c1}
  None = None
  AssignedShard = 0
  FirstChar = 100
  ShedSafe = {}
  HalfCloses = {s2}
INVARIANTS
  RegistryCurrent
  OneLiveConnectorPerNode
  InductiveInv
PROPERTIES
  FailsOnlyWithItsConnector
  ImplementsRequestReply
  BlockedCallerReleased
CHECK_DEADLOCK FALSE
