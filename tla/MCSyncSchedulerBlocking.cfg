SPECIFICATION Spec
CONSTANTS
  Workers = {w1, w2, w3}
  Prog <- ProgMixed
  Blocking = {"Get", "Add"}
  WorkerThreads = 2
INVARIANTS TypeOK ChecksHold SameParameters AfterAllUpdates NoMutualWait OnePhaseApart IInv
PROPERTIES AllAnswered BulkSpec
