SPECIFICATION Spec
CONSTANTS
  MinClientVersion <- Floor
  minShedClientVersion <- ShedFloor
  k1 = k1
  k2 = k2
  Procs = {p1, p2}
  Keys = {k1, k2}
  Registration = Registration
  None = None
  Requests <- Calls
  NodeBurst = 2
  NodeRate = 1
  RegistrationBurst = 1
  RegistrationRate = 2
  MaxCalls = 4
  MaxTime = 2
INVARIANTS
  AdmissionInv
  GrantsBounded
  CallsAreCounted
  GateKeepsOrder
PROPERTIES
  RefusedOnlyWhenSpent
CHECK_DEADLOCK FALSE
