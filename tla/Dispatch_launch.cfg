SPECIFICATION Spec
CONSTANTS
  Requests <- MCRequests
  NSlots = 2
  Similarity = 50
  Cap = 4
  GroupAttention = FALSE
  NVocab = 2
  Eos = 1
  ClockStep = 1
  MaxTasks = 4
INVARIANTS
  TypeOK
  LaunchedAsAsked
  DeferredBehindBusy
PROPERTY BestSlotTaken
CHECK_DEADLOCK FALSE
