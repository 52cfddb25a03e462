SPECIFICATION Spec
CONSTANTS
  Clients = {c1, c2}
  Requests <- MCRequests
  NSlots = 2
  NBatch = 2
  NUBatch = 2
  NPredict = 2
  ContBatching = TRUE
  CachePrompt = TRUE
  DecodeResults <- MCDecodes
  ClockTies = TRUE
  MaxTasks = 2
SYMMETRY ClientSymmetry
INVARIANTS
  NoLostRequest
  AnsweredOnce
  OwnLogits
  EmbeddingsUnmixed
  BatchWithinCapacity
  SleepsOnlyWhenDone
PROPERTY Service
CHECK_DEADLOCK FALSE
