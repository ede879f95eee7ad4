CONSTANTS
  a = a  x = x  zero = zero  n = n
  Accounts = {a}
  NoAccount = zero
  Delegatees = {x}
  Notifiers = {n}
  Accumulator = n
  Admins = {root}
  REWARD_DURATION = 2
  SCALE_FACTOR = 1
  MAX_CLAIM_FEE = 0
  MAX_UINT96 = 4
  WalletA = 4
  InitialWallet <- MCWallet
  StakeAmounts = {1}
  RewardAmounts = {}
  Tips = {0}
  Fees = {0}
  MaxDeposits = 1
  MaxTime = 5
  MaxRewards = 20
  MAX_TIME_WINDOW = 2
  Windows = {1, 2}
  Contributions = {1, 2}
SPECIFICATION AccumulatorSpec
INVARIANTS AccumulatedIsHeld OnlyDustIsRefused
PROPERTIES FlushedOncePerWindow
CHECK_DEADLOCK FALSE
