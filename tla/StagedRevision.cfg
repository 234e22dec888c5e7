SPECIFICATION FairSpec
CONSTANTS
  Workers = {w1}
  MaxOverlaps = 0
  MaxVersion = 3
  MaxInterruptions = 0
PROPERTY RevisionComesBack
CHECK_DEADLOCK FALSE
