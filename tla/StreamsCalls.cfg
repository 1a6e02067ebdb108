SPECIFICATION FairSpec
CONSTANTS
  t1 = t1
  t2 = t2
  Tasks <- MCTasks
  Apps <- MCApps
  Ids <- MCIds
  Fds <- MCFds
  MaxId = 2
  MaxQueue = 1
INVARIANTS
  DescriptorsOwned
  UseKeepsDescriptor
  
  BindMeansListening
  CloseAllCloses
PROPERTY TimedCallsReturn
