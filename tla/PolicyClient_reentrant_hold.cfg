SPECIFICATION OpenSpec
CONSTANTS
  MaxRequests = 2
  MaxSessions = 2
  MaxGeneration = 0
  HasFrame = TRUE
  CallbackReenters = TRUE
  ExplicitGeneration = FALSE
  WorkerSays <- FewMessages
CHECK_DEADLOCK FALSE
INVARIANTS
  HeldUntilAttached
