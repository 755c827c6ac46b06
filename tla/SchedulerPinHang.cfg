CONSTANTS
  t1 = t1  t2 = t2  f1 = f1  c1 = c1  c2 = c2  root = root  none = none  any = any
  Workers = {t1, t2}
  Setups <- TwoPinned
  ClientFibers = {}
  Cbs = {c1}
  Pins <- AllPins
  MaxYields = 2
  MaxQueue = 3
  Root = root
  None = none
  AnyThread = any
SPECIFICATION FairSpec
PROPERTIES
  StopReturns
CHECK_DEADLOCK FALSE
