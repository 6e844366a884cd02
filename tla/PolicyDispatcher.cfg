SPECIFICATION MCSpec
CONSTANTS
  MaxRequests = 3
  MaxSessions = 2
  MaxGeneration = 0
  HasFrame = TRUE
  QueueMax = 1
CHECK_DEADLOCK FALSE
INVARIANTS
  EveryRequestAccounted
PROPERTIES
  PoisonIsFinal
