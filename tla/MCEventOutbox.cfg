SPECIFICATION FairSpec
CONSTANTS
  Event = {1, 2, 3}
  Kind <- MCKind
  Batch <- MCBatch
  Vendor = {"v"}
  VendorOf <- MCVendorOf
  Pod = {p1}
  Producer = {p1}
  Relayer = {p1}
  None = 0
  MaxAttempts = 2
  MaxFaults = 1
INVARIANT PublishedIsServed
INVARIANT WelcomedOnce
INVARIANT BeliefsExplained
PROPERTY RecordedIsServed
CHECK_DEADLOCK FALSE
