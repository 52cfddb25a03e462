SPECIFICATION FairSpec
CONSTANTS
  Users = {u1, u2}
  Models = {m1}
  MaxPasses = 2
INVARIANTS
  TypeOK
  
  HandlersBeforeLoop
PROPERTY TerminatedLoopEnds
CHECK_DEADLOCK FALSE
