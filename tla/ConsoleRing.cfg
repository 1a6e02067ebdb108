SPECIFICATION FairSpec
CONSTANTS
  Writers = {w1, w2}
  ConsoleTask = ConsoleTask
  NONE = NONE
  m1 = m1
  m2 = m2
  m3 = m3
  m4 = m4
  Messages = {m1, m2, m3, m4}
  Length <- MCLength
  BufSize = 4
INVARIANTS
  NoOverwrite
  OutputIsAccepted
  NoLockLeftBehind
PROPERTIES
  AcceptedIsOutput
