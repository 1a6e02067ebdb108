\* Tasks of three applications, in two slots.
SPECIFICATION FairSpec
CONSTANTS
  MaxId = 2
  Ids <- MCIds
  Actors <- MCActors
  Main = 9
  NOBODY = NOBODY
  MaxValue = 1
  MaxDepth = 2
  MaxAttempts = 2
  MaxTries = 1
  Apps <- MCApps
INVARIANTS
  
  DeletedHasEnded
  RunningIsListed
  HookOfTask
  
PROPERTIES
  WaitLeavesNoLock
  DeletionsReturn
CHECK_DEADLOCK FALSE
