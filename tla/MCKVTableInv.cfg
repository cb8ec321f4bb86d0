SPECIFICATION Spec
CONSTANTS
  InitCapacity = 7
  MaxProbe = 3
  NumServers = 2
  Threads = {t1, t2}
  Asks <- OneServerAsks
  SaveUnpacked = FALSE
  MaxCalls = 5
INVARIANTS ServerInv WorkerInv
