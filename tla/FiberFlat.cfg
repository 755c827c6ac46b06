CONSTANTS
  Threads = {t1, t2}
  Fibers = {f1, f2}
  Nested = FALSE
  RunLoop = TRUE
  MaxMade = 2
  None = none
SPECIFICATION Spec
SYMMETRY Symmetric
INVARIANTS
  NoAbort
  Defined
  GetThisIsRunning
  ContextsKept
  CountExact
CHECK_DEADLOCK FALSE
