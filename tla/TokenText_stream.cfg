SPECIFICATION Spec
CONSTANTS
  Tokens <- MCTokens
  Requests <- MCRequests
  NPredict <- Unlimited
  NCtxTrain = 6
  SelfExtend = FALSE
INVARIANTS
  TypeOK
  StreamedIsPrefix
  NoStopWordSent
  WholeCharacters
  AnswerIsCompletion
  BudgetKept
