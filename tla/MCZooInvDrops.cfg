SPECIFICATION Spec
CONSTANTS
  N = 2
  Role <- DefaultRoles
  Rounds = 1
  DropsOnClose = TRUE
INVARIANTS Inv
CHECK_DEADLOCK FALSE
