SPECIFICATION FairOpenSpec
CONSTANTS
  MaxRequests = 2
  MaxSessions = 3
  MaxGeneration = 0
  HasFrame = TRUE
  CallbackReenters = TRUE
  ExplicitGeneration = FALSE
  WorkerSays <- FewMessages
CHECK_DEADLOCK FALSE
INVARIANTS
  PendingXorSettled
  TimersWatchTheLiving
  NothingWithoutAWorker
  EveryRequestInPlace
PROPERTIES
  OutcomeFinal
  NobodyWaitsForever
