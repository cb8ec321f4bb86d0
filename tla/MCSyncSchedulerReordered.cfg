SPECIFICATION Spec
CONSTANTS
  Workers = {w1, w2}
  Prog <- ProgMixed
  Blocking = {"Get"}
  WorkerThreads = 2
INVARIANT AfterAllUpdates
CHECK_DEADLOCK FALSE
