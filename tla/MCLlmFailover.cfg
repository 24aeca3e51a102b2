SPECIFICATION FailoverSpec
CONSTANTS
  Call = {c1, c2}
  Chain <- MCChain
  Threshold = 2
  MaxAttempts = 2
INVARIANT OneProbe
PROPERTY RecoveredIsUsed
