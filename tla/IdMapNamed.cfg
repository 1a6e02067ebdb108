SPECIFICATION Spec
CONSTANTS
  Tasks = {t1, t2}
  NoTask = NoTask
  MaxId = 2
  Mask = 3
  MaxAttempts = 3
  Names = {n1}
  NoName = NoName
  Modes = {"GLOBAL", "REFCOUNT", "EXCLUSIVE", "RESERVED"}
  SearchModes = {"GLOBAL", "REFCOUNT", "EXCLUSIVE"}
  HasLock = TRUE
  HandlerMayReject = TRUE
  Cancellable = {t1, t2}
SYMMETRY TaskSymmetry
CHECK_DEADLOCK FALSE
INVARIANTS
  RefcountExact
  ReservationOwned
  HeldObjectStays
  NoFreeIdsMeansFull
PROPERTIES
  ImplementsObjTable
