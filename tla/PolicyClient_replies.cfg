SPECIFICATION OpenSpec
CONSTANTS
  MaxRequests = 2
  MaxSessions = 1
  MaxGeneration = 1
  HasFrame = TRUE
  CallbackReenters = FALSE
  ExplicitGeneration = TRUE
  WorkerSays <- AnyMessage
CHECK_DEADLOCK FALSE
INVARIANTS
  NoTreeToAFrameSession
  HeldUntilAttached
PROPERTIES
  OnlyCurrentSucceeds
