SPECIFICATION FairSpec
CONSTANTS
  Workers = {w1, w2}
  MaxOverlaps = 1
  MaxVersion = 3
  MaxInterruptions = 1
INVARIANTS
  GateOrder
  WorkBehindReview
  ReviewedVersionIsNewest
  ReleasesAreFinal
  ApprovalOnFile
  RecordAgreesWithGates
  VerdictsAreFinal
PROPERTIES
  PublishedBehindGates
  ImplementsStageGates
  OpenedGateSettles
CHECK_DEADLOCK FALSE
