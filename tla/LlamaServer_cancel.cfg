SPECIFICATION Spec
CONSTANTS
  Clients = {c1}
  Requests <- MCStreams
  NSlots = 1
  NBatch = 2
  NUBatch = 2
  NPredict = 2
  ContBatching = TRUE
  CachePrompt = FALSE
  DecodeResults <- MCDecodes
  ClockTies = FALSE
  MaxTasks = 1
PROPERTY CancelStops
CHECK_DEADLOCK FALSE
