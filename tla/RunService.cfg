SPECIFICATION FairServiceSpec
CONSTANTS
  Workers = {w1}
  Clerks = {c1}
  MaxOverlaps = 0
  MaxMixed = 1
  MaxVersion = 2
  MaxInterruptions = 1
  Faults = {"publish_timeout", "metrics_failure"}
INVARIANTS
  OneReleaseBothWays
  RecordNamesPayload
  CompletedRunPublished
PROPERTIES
  PublicationCovered
  RunSettles
CHECK_DEADLOCK FALSE
