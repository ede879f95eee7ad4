CONSTANTS
  MaxRequests = 2
  InitialShares = 2
  DecimalRate = 2
  InputAmounts = {2}
  MaxSignatures = 0
  MaxSends = 0
  MaxCalls = 0
  ShareAmounts = {4}
  LtBalance = 0
  RelayFees = {0}
  MaxOps = 0
  MaxOutside = 0
  DepositAmounts = {1, 2}
  ZenBalance = 3
  WalletChains = {"hub", "spoke"}
  MaxRuns = 2
  MaxForms = 2
SPECIFICATION PagesSpec
INVARIANTS ConfirmedWasExecuted
CHECK_DEADLOCK FALSE
