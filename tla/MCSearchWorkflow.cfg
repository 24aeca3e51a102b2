SPECIFICATION Spec
CONSTANTS
  weak = weak
  other = other
  near = near
  unlisted = unlisted
  Vendor <- MCVendor
  Brick = {"b1", "b2", "b3"}
  Segment = {"s0", "s1", "s2"}
  SegmentOf <- MCSegmentOf
  PrefixOf <- MCPrefixOf
  Belief <- MCBelief
  Listed = {weak, other, near}
  Near = {near}
  Overall = "overall"
  Record <- MCRecord
  PerCapability = 2
  Limit = 2
  MaxSteps = 12
  MaxAttempts = 3
  MaxBreaks = 1
  MaxRequests = 2
INVARIANTS AnswersOnce EffectsOnce RespondersTold HoldersFound
