CONSTANTS
  a = a  b = b  v0 = v0  v1 = v1  v2 = v2
  Threads = {a, b}
  Setters = {a}
  Calls = {"GetValue", "ToString", "AddListener", "DelListener", "GetListener", "ClearListener"}
  Apart = TRUE
  Kinds = {"ok", "throws", "null"}
  Values = {v0, v1, v2}
  Default = v0
  MaxKey = 2
  MaxCalls = 3
  None = none
SPECIFICATION FairSpec
INVARIANTS
  TypeOK
  NoRace
  ListenersFollow
PROPERTIES
  ListenersStay
  CallsReturn
CHECK_DEADLOCK FALSE
