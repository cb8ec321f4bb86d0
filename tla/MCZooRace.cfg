SPECIFICATION Spec
CONSTANTS
  N = 2
  Role <- DefaultRoles
  Rounds = 1
  DropsOnClose = FALSE
INVARIANT ActorTableStable
