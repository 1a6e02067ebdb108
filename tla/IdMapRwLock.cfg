SPECIFICATION Spec
CONSTANTS
  Tasks = {t1, t2}
  NoTask = NoTask
  MaxId = 2
  Mask = 3
  MaxAttempts = 3
  Names = {n1}
  NoName = NoName
  Modes = {"GLOBAL", "REFCOUNT", "EXCLUSIVE", "RESERVED"}
  SearchModes = {"GLOBAL", "REFCOUNT", "EXCLUSIVE"}
  HasLock = FALSE
  HandlerMayReject = FALSE
  Cancellable = {}
CHECK_DEADLOCK FALSE
INVARIANT TableOwnedByOne
