CONSTANTS
  a = a  b = b
  Owners = {a, b}
  Bridges = {oft, slow}
  OftBridges = {oft}
  DecimalConversionRate = 2
  MaxGasFee = 1
  Fees = {0, 1}
  Messages <- MCMessages
  Signed <- MCSigned
  Cancellers = {a, b}
  RescueAmounts = {1, 2}
  MaxNonce = 1
  MaxTime = 2
SPECIFICATION EgressSpec
INVARIANTS OwnersKeepTheirZen PendingIsParked RefundNeverBlocked
CHECK_DEADLOCK FALSE
