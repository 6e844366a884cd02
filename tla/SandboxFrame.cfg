SPECIFICATION FairMCSpec
CONSTANTS
  MaxRequests = 1
  MaxSessions = 2
  MaxGeneration = 0
  HasFrame = TRUE
  MaxDocuments = 2
  MaxSent = 2
  MaxSeq = 2
CHECK_DEADLOCK FALSE
INVARIANTS
  AttachNeverForgotten
  AnswersOnce
PROPERTIES
  NeverBackToOlderWorker
  FrameStagesEnd
