SPECIFICATION ServiceSpec
CONSTANTS
  Workers = {w1}
  Clerks = {}
  MaxOverlaps = 0
  MaxMixed = 0
  MaxVersion = 2
  MaxInterruptions = 1
  Faults = {}
INVARIANT UnapprovedStaysLocked
CHECK_DEADLOCK FALSE
