SPECIFICATION Spec
CONSTANTS
  Streams = {s1, s2}
  Components = {agent, tool}
  Measured = {tool}
  MaxEvents = 4
  MaxOverlaps = 2
  MaxRestarts = 1
  MaxPrunes = 1
INVARIANTS RunningAreOpen GapsAreLostEvents
SYMMETRY StreamsAreAlike
CHECK_DEADLOCK FALSE
