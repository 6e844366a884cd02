SPECIFICATION MCSpec
CHECK_DEADLOCK FALSE
CONSTANTS
  Typed = {"z", "b"}
  MaxMoves = 2
  MaxCommits = 4
  Nothing = nothing
  Malformed = malformed
INVARIANTS
  DisplayIsTree
PROPERTIES
  UserStateSurvives
  NewestMoveReported
