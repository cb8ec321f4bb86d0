SPECIFICATION Spec
CONSTANTS
  Workers = {w1, w2, w3}
  Servers = {s1, s2}
  Plans <- EqualPlans
INVARIANT Inv
