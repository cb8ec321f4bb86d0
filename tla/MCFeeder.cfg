SPECIFICATION Spec
CONSTANTS
  Threads = {t1, t2}
  Records = {"r1", "r2", "r3"}
  Counts <- SomeCounts
  Plans <- TwoPlans
  BatchSize = 2
  MaxQueue = 1
CHECK_DEADLOCK FALSE
INVARIANTS SamplesInOrder QueueBound TaskOfRecordIsThere
PROPERTIES OnlySourceServed StopReturns
