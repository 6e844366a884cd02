SPECIFICATION GuardSpec
CONSTANTS
  MaxCalls = 2
  MaxEvents = 2
  MaxPendingEvents = 1
  CallbackReenters = FALSE
CHECK_DEADLOCK FALSE
INVARIANTS
  OneProgram
  ReleasedHoldsNothing
PROPERTIES
  NewestCallWins
  NothingHangs
