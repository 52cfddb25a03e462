SPECIFICATION Spec
CONSTANTS
  Tokens <- MCTokens
  Requests <- MCCached
  NCtx = 6
  NSystem = 0
  AddBos = 1
  NBatch = 3
  EarlyRequest = FALSE
  DecodeFails = FALSE
  MaxRequests = 3
INVARIANTS
  GaplessContext
  CacheCoherent
PROPERTY ReusedWereComputed
CHECK_DEADLOCK FALSE
