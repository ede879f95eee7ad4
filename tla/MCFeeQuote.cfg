CONSTANTS
  OneEth = 4
  Bps = 10
  MaxGasFee = 6
  GasLimit = 1
  BufferBps = 4
  MarginBps = 0
  ProfitBps = 1
  FloorRate = 4
  DeviationBps = 3
  GasCeil = 5
  FloorPriority = 1
  CeilPriority = 2
  Amounts = {8, 40}
  Rates = {3, 9}
  BaseFees = {4}
  Priority = 1
  FallbackGas = 2
  QuoteTtl = 2
  GasTtl = 1
  FetchTime = 1
  MaxTyped = 2
  MaxTime = 4
SPECIFICATION Spec
INVARIANTS UsableQuoteAge GasHitFresh ReadyQuoteIsCurrent RefusedOnlyOnRise
PROPERTIES QuoteArrives
CHECK_DEADLOCK FALSE
