SPECIFICATION Spec
CONSTANTS
  InitCapacity = 7
  MaxProbe = 3
  NumServers = 2
  Threads = {t1}
  Asks <- TwoServerAsks
  SaveUnpacked = FALSE
  MaxCalls = 5
INVARIANTS ServerInv WorkerInv
