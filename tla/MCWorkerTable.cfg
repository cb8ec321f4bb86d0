SPECIFICATION Spec
CONSTANTS
  Clients = {c1, c2}
  Servers = {s1, s2}
  ServerSets <- OneOrAll
  Threads = {t1, t2}
  Ops = {"Get", "Add", "Load", "Store"}
  Targets <- KVTargets
  LoadWithMany = FALSE
  MaxCalls = 2
INVARIANTS WaiterIsThere ReturnsLast GetFillsBuffer
PROPERTY EveryWaitReturns
