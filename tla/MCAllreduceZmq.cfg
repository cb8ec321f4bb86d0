SPECIFICATION Spec
CONSTANTS
  Jobs <- ThreeMachines
  SmallSize = 3
INVARIANT EveryoneGetsTheSum
