\* Two tasks add and delete timers of the same time base.
SPECIFICATION Spec
CONSTANTS
  Timers = {c1, c2}
  Users = {u1, u2}
  Thread = Thread
  NONE = NONE
  IntMax = 6
  TickTimes <- MCTicks
  Settings <- MCSettings
SYMMETRY MCSymmetry
INVARIANTS
  EveryTimerInRing
CHECK_DEADLOCK FALSE
