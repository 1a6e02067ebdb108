\* Two tasks, one of which may be deleted, and the deletion of the semaphore.
SPECIFICATION FairSpec
CONSTANTS
  Tasks = {t1, t2}
  NoTask = NoTask
  DESTROYED = DESTROYED
  Cancellable = {t1}
  Deletable = TRUE
  MaxFlush = 2
INVARIANTS NoLostWakeup
PROPERTIES ImplementsBinSem GiveIsNoticed FlushReleases
CHECK_DEADLOCK FALSE
