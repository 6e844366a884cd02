SPECIFICATION FairMCSpec
CONSTANTS
  MaxRequests = 1
  MaxSessions = 2
  MaxGeneration = 0
  HasFrame = TRUE
  MaxDocuments = 2
  MaxSent = 0
  MaxSeq = 2
CHECK_DEADLOCK FALSE
PROPERTIES
  TrueMeansBound
