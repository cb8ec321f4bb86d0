SPECIFICATION Spec
CONSTANTS
  N = 3
  Role <- MixedRoles
  Rounds = 1
  DropsOnClose = FALSE
INVARIANTS Inv InvWithAnswers
