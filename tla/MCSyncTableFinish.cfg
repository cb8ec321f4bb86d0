SPECIFICATION Spec
CONSTANTS
  Workers = {w1, w2}
  Servers = {s1, s2}
  Plans <- OneLonger
INVARIANT ChecksHold
