\* Two tasks and the callback threads of two time bases in one slot.
SPECIFICATION FairSpec
CONSTANTS
  TimeBases = {b1, b2}
  Slots = {s1}
  Users = {u1, u2}
  NONE = NONE
  RESERVED = RESERVED
  MaxTimers = 2
  Signals = {1}
  Faults <- MCAllFaults
INVARIANTS
  LivesWithTimers
  NoForeignCallback
  SyncFunctionKnown
PROPERTIES
  DeletedThreadEnds
CHECK_DEADLOCK FALSE
