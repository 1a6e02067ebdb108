SPECIFICATION FairSpec
CONSTANTS
  MaxId = 2
  Ids <- MCIds
  Tasks = {t1, t2}
  NOBODY = NOBODY
  Disks <- MCDisks
  Maps <- MCMaps
  MountPoints <- MCMountPoints
  Paths <- MCPaths
  MaxLocalLen = 6
INVARIANTS
  FoundIsMounted
  
PROPERTIES
  NewDiskUnmounted
  ReservationEnds
CHECK_DEADLOCK FALSE
