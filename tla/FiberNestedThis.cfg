CONSTANTS
  Threads = {t1}
  Fibers = {f1, f2}
  Nested = TRUE
  RunLoop = TRUE
  MaxMade = 2
  None = none
SPECIFICATION Spec
SYMMETRY Symmetric
INVARIANTS
  GetThisIsRunning
CHECK_DEADLOCK FALSE
