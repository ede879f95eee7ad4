CONSTANTS
  MaxRequests = 1
  InitialShares = 2
  DecimalRate = 2
  InputAmounts = {2, 4}
  MaxSignatures = 1
  MaxSends = 1
  MaxCalls = 1
  ShareAmounts = {4}
  LtBalance = 0
  RelayFees = {0}
  MaxOps = 0
  MaxOutside = 0
  DepositAmounts = {1, 2}
  ZenBalance = 3
  WalletChains = {"hub", "spoke"}
  MaxRuns = 2
  MaxForms = 2
SPECIFICATION PagesSpec
INVARIANTS SentAsSigned
CHECK_DEADLOCK FALSE
