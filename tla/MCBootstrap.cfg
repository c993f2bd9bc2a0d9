SPECIFICATION Spec
CONSTANTS
  Hubs = {h1, h2, h3}
  Values = {v1, v2}
  Keys <- MCKeys
  None = None
  apiKeyEnv <- MCEnv
  Headers <- MCHeaders
  idBytesLen = 1
  idEncodedLen = 2
  secretBytesLen = 2
  secretEncodedLen = 3
CHECK_DEADLOCK FALSE
SYMMETRY Symmetry
INVARIANTS OneIdentity FileKeyWorks BootInv OpensForStoredKeysOnly
PROPERTIES IdentityStable
