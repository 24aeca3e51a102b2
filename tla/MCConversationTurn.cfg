SPECIFICATION FairSpec
CONSTANTS
  Message = {"t1", "t2", "album"}
  Conv = {"c"}
  ConvOf <- MCConvOf
  Parts <- MCParts
  Workers = 2
  NoOne = NoOne
  Dead = Dead
  MaxWebhooks = 3
  MaxTries = 2
  MaxTrouble = 1
CHECK_DEADLOCK FALSE
INVARIANT ExclusiveUnlessLapsed
INVARIANT TurnSeesAllParts
INVARIANT TurnsExplained
PROPERTY StoredIsTold
