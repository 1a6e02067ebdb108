SPECIFICATION FairSpec
CONSTANTS
  Tasks = {t1, t2}
  NoTask = NoTask
  MaxId = 2
  Mask = 3
  MaxAttempts = 2
  Names = {}
  NoName = NoName
  Modes = {"GLOBAL", "REFCOUNT", "EXCLUSIVE", "RESERVED"}
  SearchModes = {}
  HasLock = TRUE
  HandlerMayReject = FALSE
  Cancellable = {t2}
PROPERTIES
  TableLockReleased
