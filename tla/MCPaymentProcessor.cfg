SPECIFICATION FairSpec
CONSTANTS
  Payment = {"whole", "small"}
  Wallet = {"w"}
  WalletOf <- MCWalletOf
  Unmatched = {}
  Kobo <- MCKobo
  KoboPerCredit = 100
  Worker = {w1, w2}
  None = None
  BatchSize = 2
  MaxAttempts = 2
  MaxDeliveries = 2
  MaxFaults = 2
INVARIANT AnnouncedOnce
INVARIANT ParkedForCause
PROPERTY RecordedIsSettled
