SPECIFICATION FairSpec
CONSTANTS
  LastDelivery = 1
  Vendor = {"v"}
  VendorOf <- MCVendorOf
  Recharge = {100, 101}
  RechargeOf <- MCRechargeOf
  RechargeCredits <- MCRechargeCredits
  Fee = 1
  Turn = {t1, t2}
  Sweeper = {s1, s2}
  MaxTrouble = 3
INVARIANT RevealedIsPaid
INVARIANT ChargedIsShown
INVARIANT EvidenceIsBounded
INVARIANT ClosedIsHeard
PROPERTY DeliveryCloses
