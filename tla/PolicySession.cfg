SPECIFICATION SessionSpec
CONSTANTS
  MaxRequests = 2
  MaxSessions = 2
  MaxGeneration = 1
  HasFrame = TRUE
  CallbackReenters = FALSE
  ExplicitGeneration = FALSE
  WorkerSays = {}
  QueueMax = 1
  MaxDocuments = 1
CHECK_DEADLOCK FALSE
INVARIANTS
  NoneUndeliverable
  PendingIsSomewhere
PROPERTIES
  DisplayNeverGoesBack
  ImplementsRenderService
