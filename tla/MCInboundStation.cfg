CONSTANTS
  a = a  b = b  endpoint = endpoint  oft = oft  otherOft = otherOft  base = base
  Owners = {a, b}
  ComposeCallers = {endpoint}
  ZenOfts = {oft, otherOft}
  SrcEids = {base}
  StLighters = {vault}
  StLighter = vault
  Route <- MCRoute
  Amounts = {1, 2}
  Messages <- MCMessages
  Signed <- MCSigned
  MaxNonce = 1
  Cancellers = {a}
  CreditNonces = {0, 1}
  MaxArrivals = 2
  MaxTime = 2
SPECIFICATION InboundSpec
INVARIANTS CreditsCovered CreditedAsSigned ComposesAreFunded ComposeNeverBlocked
PROPERTIES CreditNeedsSignature
CHECK_DEADLOCK FALSE
