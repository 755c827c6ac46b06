CONSTANTS
  x1 = x1  x2 = x2  x3 = x3
  Objects = {x1, x2, x3}
  Kept = {x1, x2}
SPECIFICATION FairSpec
INVARIANTS
  Handshake
  InLifetime
  ReapedOnce
  JoinMeansDone
PROPERTIES
  OwnerProgress
CHECK_DEADLOCK FALSE
