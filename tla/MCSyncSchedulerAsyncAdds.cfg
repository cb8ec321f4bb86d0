SPECIFICATION Spec
CONSTANTS
  Workers = {w1, w2}
  Prog <- ProgMixed
  Blocking = {"Get"}
  WorkerThreads = 1
INVARIANTS ChecksHold AfterAllUpdates NoMutualWait
PROPERTY AllAnswered
