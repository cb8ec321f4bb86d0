SPECIFICATION Spec
CONSTANTS
  InitCapacity = 3
  MaxProbe = 3
  NumServers = 1
  Threads = {t1, t2}
  Asks <- SingleAsks
  SaveUnpacked = TRUE
  MaxCalls = 2
INVARIANT LoadRestores
