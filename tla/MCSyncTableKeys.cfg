SPECIFICATION Spec
CONSTANTS
  Workers = {w1, w2}
  Servers = {s1, s2}
  Plans <- OwnKeys
PROPERTY AllAnswered
CHECK_DEADLOCK FALSE
