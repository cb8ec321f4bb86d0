SPECIFICATION Spec
CONSTANTS
  InitCapacity = 7
  MaxProbe = 3
  NumServers = 2
  Threads = {t1, t2}
  Asks <- TwoServerAsks
  SaveUnpacked = FALSE
  MaxCalls = 2
INVARIANT GetBringsValues
