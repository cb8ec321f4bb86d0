SPECIFICATION Spec
CONSTANTS
  Threads = {t1, t2}
  Records = {"r2", "r3"}
  Counts <- SomeCounts
  Plans <- ShortPlans
  BatchSize = 2
  MaxQueue = 1
CHECK_DEADLOCK FALSE
PROPERTY EverySourceServed
