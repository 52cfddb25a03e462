SPECIFICATION Spec
CONSTANTS
  Tokens <- MCTokens
  Requests <- MCOne
  NCtx = 6
  NSystem = 0
  AddBos = 0
  NBatch = 3
  EarlyRequest = TRUE
  DecodeFails = FALSE
  MaxRequests = 2
PROPERTY ReusedWereComputed
CHECK_DEADLOCK FALSE
