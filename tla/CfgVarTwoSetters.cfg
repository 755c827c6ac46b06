CONSTANTS
  a = a  b = b  v0 = v0  v1 = v1  v2 = v2
  Threads = {a, b}
  Setters = {a, b}
  Calls = {"AddListener"}
  Apart = TRUE
  Kinds = {"ok"}
  Values = {v0, v1, v2}
  Default = v0
  MaxKey = 2
  MaxCalls = 3
  None = none
SPECIFICATION Spec
INVARIANTS
  ListenersFollow
CHECK_DEADLOCK FALSE
