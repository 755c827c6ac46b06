CONSTANTS
  s = s  c = c  net = net  root = root  r = r  u = u  a1 = a1  a2 = a2
  f0 = f0  f1 = f1  bad = bad  null = null
  Threads = {s, c}
  Setters = {s}
  Order <- NetRoot
  Root = root
  Appenders = {r, u, a1, a2}
  RootAppender = r
  Formatters = {f0, f1}
  Default = f0
  Bad = bad
  Null = null
  Mgr = mgr
  Api <- RootApi
  Configs <- NetConfigs
  Apart = TRUE
  MaxCalls = 3
SPECIFICATION FairSpec
INVARIANTS
  IteratorsValid
  FormattersFollow
  Delivered
  ConfigApplied
PROPERTIES
  CallsReturn
CHECK_DEADLOCK FALSE
