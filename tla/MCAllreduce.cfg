SPECIFICATION Spec
CONSTANTS
  Jobs <- SomeJobs
  SmallSize = 3
INVARIANTS EveryoneGetsTheSum LengthsAgree
PROPERTY AllFinish
