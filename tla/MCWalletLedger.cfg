SPECIFICATION WalletFairSpec
CONSTANTS
  Wallet = {"w1", "w2"}
  Ref <- MCRef
  WalletOf <- MCWalletOf
  Amount <- MCAmount
  Session = {s1, s2}
  NoOne = NoOne
INVARIANT BalanceNeverNegative
INVARIANT AppliedReturnedOnce
PROPERTY RefusalIsCurrent
PROPERTY ImplementsLedger
