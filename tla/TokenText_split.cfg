SPECIFICATION Spec
CONSTANTS
  Tokens <- MCMixedTokens
  Requests <- MCRequests
  NPredict <- Unlimited
  NCtxTrain = 6
  SelfExtend = FALSE
INVARIANT NoStopWordSent
