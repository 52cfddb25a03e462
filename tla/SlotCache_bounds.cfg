SPECIFICATION Spec
CONSTANTS
  Tokens <- MCTokens
  Requests <- MCMixed
  NCtx = 6
  NSystem = 0
  AddBos = 1
  NBatch = 3
  EarlyRequest = TRUE
  DecodeFails = TRUE
  MaxRequests = 2
INVARIANT ContextFits
PROPERTY LoadingUnshifted
CHECK_DEADLOCK FALSE
