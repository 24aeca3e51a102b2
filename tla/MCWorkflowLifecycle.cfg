SPECIFICATION FairSpec
CONSTANTS
  Id = {1, 2, 3, 4}
  None = None
  Type = {"triage", "seller", "buyer"}
  TypeOf <- MCTypeOf
  Concurrent = {"buyer"}
  HandsOff = {"triage"}
  Sweeper = {p1}
  MaxSteps = 2
  MaxSuspended = 1
  MaxBreaks = 1
  MaxExpired = 1
INVARIANT OneOpenPerType
PROPERTY FinishedStaysShut
PROPERTY ExpiredIsClosed
CHECK_DEADLOCK FALSE
