SPECIFICATION FairSpec
CONSTANTS
  Groups = {g1}
  Tokens = {t1}
  NodeNumbers = {1}
  MaxCalls = 2
  Aliased = {}
  None = None
PROPERTIES
  SupersededByNewer
CHECK_DEADLOCK FALSE
