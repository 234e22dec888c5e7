SPECIFICATION Spec
CONSTANTS
  Workers = {w1, w2, w3}
  MaxCalls = 5
  MaxCrashes = 1
SYMMETRY WorkersAreAlike
INVARIANTS NumbersStayBehind EvaluationIsLatest
PROPERTY ImplementsAtomicRecord
CHECK_DEADLOCK FALSE
