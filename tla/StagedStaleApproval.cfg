SPECIFICATION Spec
CONSTANTS
  Workers = {w1, w2}
  MaxOverlaps = 1
  MaxVersion = 2
  MaxInterruptions = 0
PROPERTY NewVersionVoidsApprovals
CHECK_DEADLOCK FALSE
