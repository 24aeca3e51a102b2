SPECIFICATION FairSpec
CONSTANTS
  LastMessage = 2
  Conv = {"c"}
  ConvOf <- MCConvOf
  TextOf <- MCSameText
  Sweeper = {s1, s2}
  BatchSize = 2
  MaxAttempts = 2
  MaxTrouble = 1
INVARIANT SettledForCause
INVARIANT DuplicatesExplained
PROPERTY QueuedIsSettled
