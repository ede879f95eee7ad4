CONSTANTS
  a = a  b = b
  Holders = {a, b}
  NoAccount = zero
  Vault = vault
  VIRTUAL_SHARES = 2
  BPS_DENOMINATOR = 4
  MAX_FEE_BPS = 2
  MAX_GAS_FEE_ZEN = 2
  ZenA = 2  ZenB = 0
  InitialZen <- MCZen
  DepositAmounts = {2}
  Rewards = {0}
  FeeLevels = {0}
  GasFees = {0, 1}
  SignedShares = {2, 4}
  Signers = {a}
  Relayer = b
  MaxNonce = 2
  MaxSigned = 2
  MaxTime = 2
  MaxPackets = 0
SPECIFICATION VaultSpec
INVARIANTS FeesWithinSignatures
CHECK_DEADLOCK FALSE
