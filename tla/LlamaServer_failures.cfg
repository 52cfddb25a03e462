SPECIFICATION FairSpec
CONSTANTS
  Clients = {c1, c2}
  Requests <- MCAnswered
  NSlots = 2
  NBatch = 2
  NUBatch = 2
  NPredict = 1
  ContBatching = FALSE
  CachePrompt = FALSE
  DecodeResults <- MCAllResults
  ClockTies = FALSE
  MaxTasks = 2
INVARIANTS
  TypeOK
  NoLostRequest
  SleepsOnlyWhenDone
  AllSampled
PROPERTY RequestAnswered
CHECK_DEADLOCK FALSE
