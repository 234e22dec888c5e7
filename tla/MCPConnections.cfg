SPECIFICATION FairSpec
CONSTANTS
  Tasks = {t1, t2}
  RetryBudget = 1
  Threshold = 2
  MaxCalls = 5
  MaxOverlaps = 2
  MaxInterruptions = 1
INVARIANTS CircuitHolds 
PROPERTIES ConnectingSettles
CHECK_DEADLOCK FALSE
