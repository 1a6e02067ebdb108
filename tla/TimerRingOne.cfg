\* One task uses the timers while the callback thread serves them.
SPECIFICATION FairSpec
CONSTANTS
  Timers = {c1, c2, c3}
  Users = {u1}
  Thread = Thread
  NONE = NONE
  IntMax = 6
  TickTimes <- MCTicks
  Settings <- MCSettings
INVARIANTS
  
  NoCallbackAfterDelete
  BacklogBounded
  EveryTimerInRing
PROPERTIES
  TimerFires
CHECK_DEADLOCK FALSE
