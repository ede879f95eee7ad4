CONSTANTS
  MaxRequests = 2
  InitialShares = 2
  DecimalRate = 2
  InputAmounts = {2, 5}
  MaxSignatures = 2
  MaxSends = 2
  MaxCalls = 1
  ShareAmounts = {4}
  LtBalance = 8
  RelayFees = {0, 1}
  MaxOps = 3
  MaxOutside = 1
  DepositAmounts = {1, 2}
  ZenBalance = 3
  WalletChains = {"hub", "spoke"}
  MaxRuns = 2
  MaxForms = 2
SPECIFICATION PagesSpec
INVARIANTS RefusedNeverLands ConfirmedUnlessOvertaken LoneDepositLands PendingIsShown RedeemOfferedOnce CreditedUnlessMishap
PROPERTIES SubmissionSettles ArrivalIsSeen
CHECK_DEADLOCK FALSE
