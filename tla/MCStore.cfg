SPECIFICATION FairSpec
CONSTANTS
  Procs = {p1, p2}
  Tokens = {t1, t2}
  Kinds = {"mint", "expire", "register", "deregister", "roster", "deleteNode", "deleteGroup", "reset", "quota"}
  MaxNode = 2
  MaxVersion = 3
  MaxResets = 1
  None = None
INVARIANTS
  StoreInv
  TokenOneShot
PROPERTIES
  NumbersNeverReused
  NoRegistrationAfterDelete
  NoLostRosterUpdate
  DeletesOnlyRevoked
  QuotaCountsOnce
  ImplementsRegistry
  HandlersFinish
CHECK_DEADLOCK FALSE
