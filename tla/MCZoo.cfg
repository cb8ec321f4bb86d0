SPECIFICATION Spec
CONSTANTS
  N = 3
  Role <- MixedRoles
  Rounds = 1
  DropsOnClose = FALSE
INVARIANTS NoCheckFails BarrierHolds RepliesAreOut IdsAgree NothingLost
PROPERTY AllStop
