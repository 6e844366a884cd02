SPECIFICATION GuardSpec
CONSTANTS
  MaxCalls = 3
  MaxEvents = 0
  MaxPendingEvents = 1
  CallbackReenters = TRUE
CHECK_DEADLOCK FALSE
PROPERTIES
  NewestCallWins
