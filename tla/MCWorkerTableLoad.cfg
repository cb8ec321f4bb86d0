SPECIFICATION Spec
CONSTANTS
  Clients = {c1}
  Servers = {s1, s2}
  ServerSets <- OneOrAll
  Threads = {t1, t2}
  Ops = {"Load", "Store"}
  Targets <- KVTargets
  LoadWithMany = TRUE
  MaxCalls = 2
INVARIANT WaiterIsThere
