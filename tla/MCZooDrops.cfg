SPECIFICATION Spec
CONSTANTS
  N = 2
  Role <- DefaultRoles
  Rounds = 1
  DropsOnClose = TRUE
PROPERTY AllStop
CHECK_DEADLOCK FALSE
