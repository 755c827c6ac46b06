CONSTANTS
  t1 = t1  t2 = t2  f1 = f1  c1 = c1  c2 = c2  root = root  none = none  any = any
  Workers = {t1, t2}
  Setups <- SafetySetups
  ClientFibers = {f1}
  Cbs = {c1}
  Pins <- AllPins
  MaxYields = 1
  MaxQueue = 1
  Root = root
  None = none
  AnyThread = any
SPECIFICATION Spec
SYMMETRY Symmetric
INVARIANTS
  TypeOK
  NoAbort
  ExclusiveStack
  CountsExact
  Drained
  PinnedDrained
  DestroySafe
PROPERTIES
  ImplementsPool
CHECK_DEADLOCK FALSE
