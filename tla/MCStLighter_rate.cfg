CONSTANTS
  a = a  b = b
  Holders = {a, b}
  NoAccount = zero
  Vault = vault
  VIRTUAL_SHARES = 2
  BPS_DENOMINATOR = 4
  MAX_FEE_BPS = 2
  MAX_GAS_FEE_ZEN = 2
  ZenA = 2  ZenB = 0
  InitialZen <- MCZen
  DepositAmounts = {1, 2}
  Rewards = {1, 2}
  FeeLevels = {0, 2}
  GasFees = {0}
  SignedShares = {}
  Signers = {a}
  Relayer = b
  MaxNonce = 0
  MaxSigned = 0
  MaxTime = 2
  MaxPackets = 2
SPECIFICATION VaultSpec
INVARIANTS SharesMatchSupply SharesAreBacked VaultKeepsStrayZen RedeemNeverBlocked
PROPERTIES RateNeverFalls QuotedRateNeverFalls
CHECK_DEADLOCK FALSE
