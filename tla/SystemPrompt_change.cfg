SPECIFICATION Spec
CONSTANTS
  NSlots = 2
  Requests <- MCRequests
  AtStart <- MCAtStart
  SystemDecodes = {TRUE}
  NBatch = 3
  MaxTasks = 3
  MaxGenerated = 2
INVARIANTS
  TypeOK
  OwnPartComplete
