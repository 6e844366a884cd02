SPECIFICATION MCSpec
CHECK_DEADLOCK FALSE
CONSTANTS
  MaxIntDigits = 2
  MaxMagnitude = 10
  MaxIntegerDigits = 3
  MaxPathNumbers = 3
  MaxAttrValueLength = 5
  LongFactor = 2
  MaxTransforms = 2
  MaxIdentLength = 3
  MaxIdRefs = 2
  Classes = {"card"}
  HalfUlpOfOne <- MCHalfUlpOfOne
  HalfLeastDouble <- MCHalfLeastDouble
  MaxNodes = 8
  MaxDepth = 3
  MaxTextLength = 2
  MaxTotalText = 3
  MaxAttrs = 2
  MaxTraversalDepth = 5
  MaxRawNodes = 8
  MaxRawPathNodes = 5
  MaxRawDepth = 4
  MaxRawCommentNodes = 2
  MaxRawTextCodeUnits = 3
  MaxRawTotalTextCodeUnits = 5
  MaxRawNameCodeUnits = 4
  MaxRawAttrsPerElement = 3
  MaxRawAttrBytes = 12
  MaxCandidateBytes = 18
  Configs = {own, other, long}
  OwnConfig = own
  NoConfig = none
  LongConfigs = {long}
  NoTree = noTree
  ClassLists = {noClasses, ownClasses, otherClasses}
  OwnClasses = ownClasses
  NoClasses = noClasses
  PreprocessHtml <- Preprocess
  CandidateBuilder <- BuildCandidate
  Excess <- Unsent
  IsTreeShaped <- TreeShaped
  MaxRequests = 2
  MaxReconfigures = 1
  MaxEdits = 2
  NoProfile = noProfile
  SampleValues <- MCSampleValues
  SampleLists <- MCSampleLists
INVARIANTS
  ConversionIsExact
  ProposalIsReference
  ProposalAccepted
  LeanInputBounded
  OnlyLeanAccepts
  WithinKernel
  GatesAreSound
  VerdictIsThisCalls
PROPERTIES
  TrapIsFinal
