CONSTANTS
  a = a  b = b  x = x  y = y  zero = zero
  Accounts = {a}
  NoAccount = zero
  Delegatees = {x}
  Notifiers = {n}
  Admins = {root}
  REWARD_DURATION = 2
  SCALE_FACTOR = 2
  MAX_CLAIM_FEE = 1
  MAX_UINT96 = 4
  WalletA = 2  WalletB = 0
  InitialWallet <- MCWallet
  StakeAmounts = {1, 2}
  RewardAmounts = {2}
  Tips = {0, 1}
  Fees = {0, 1}
  MaxDeposits = 2
  Observed = 0
  MaxTime = 3
  MaxRewards = 4
SPECIFICATION Spec
INVARIANTS RewardSolvency ExitNeverBlocked
PROPERTIES ImplementsPosition
CHECK_DEADLOCK FALSE
