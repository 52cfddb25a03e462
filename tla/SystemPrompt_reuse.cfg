SPECIFICATION Spec
CONSTANTS
  NSlots = 2
  Requests <- MCReusing
  AtStart <- MCAtStart
  SystemDecodes = {TRUE}
  NBatch = 3
  MaxTasks = 3
  MaxGenerated = 2
INVARIANT ReuseIsComputed
