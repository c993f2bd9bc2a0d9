SPECIFICATION FairSpec
CONSTANTS
  Groups = {g1, g2}
  Tokens = {t1, t2}
  NodeNumbers = {1, 2}
  MaxCalls = 2
  Aliased = {g1}
  None = None
INVARIANTS
  SessionInv
  OnlineIsServed
  MapHoldsKnownGroups
PROPERTIES
  RequestReachesItsNode
  NoGhosts
CHECK_DEADLOCK FALSE
