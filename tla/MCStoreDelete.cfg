SPECIFICATION Spec
CONSTANTS
  Procs = {p1, p2}
  Tokens = {t1}
  Kinds = {"mint", "register", "deleteGroup"}
  MaxNode = 1
  MaxVersion = 1
  MaxResets = 1
  None = None
INVARIANTS
  DeletedGroupHasNoNodes
CHECK_DEADLOCK FALSE
