SPECIFICATION Spec
CONSTANTS
  Event = {1, 2, 3}
  Type <- MCType
  Capability = {1, 2}
  Pod = {p1, p2}
  BatchSize = 2
  MaxBreaks = 1
INVARIANT ScoresAreNumbers
CHECK_DEADLOCK FALSE
