SPECIFICATION Spec
CONSTANTS
  Workers = {w1, w2}
  Prog <- ProgMixed
  Blocking = {"Add"}
  WorkerThreads = 1
INVARIANT AfterAllUpdates
CHECK_DEADLOCK FALSE
