CONSTANTS
  t1 = t1  t2 = t2
  Threads = {t1, t2}
  U = 16
  Garbage = {0, 9, 14}
  BufSize = 1
  MaxTime = 7
  MaxMsgs = 4
SPECIFICATION Spec
SYMMETRY Symmetric
INVARIANTS
  WindowKept
PROPERTIES
  EraseWindow
  ReopenRestores
CHECK_DEADLOCK FALSE
