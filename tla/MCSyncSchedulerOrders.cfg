SPECIFICATION Spec
CONSTANTS
  Workers = {w1, w2}
  Prog <- ProgCrossed
  Blocking = {"Get", "Add"}
  WorkerThreads = 2
PROPERTY AllAnswered
CHECK_DEADLOCK FALSE
