CONSTANTS
  a = a  b = b  x = x  y = y  zero = zero
  Accounts = {a, b}
  NoAccount = zero
  Delegatees = {x, y}
  Notifiers = {n}
  Admins = {root}
  REWARD_DURATION = 2
  SCALE_FACTOR = 2
  MAX_CLAIM_FEE = 1
  MAX_UINT96 = 4
  InitialWallet <- MCWallet
  StakeAmounts = {1}
  RewardAmounts = {2}
  Tips = {0}
  Fees = {0}
  MaxDeposits = 2
  MaxTime = 3
  MaxRewards = 2
SPECIFICATION SubgraphSpec
INVARIANTS TotalsMatchDeposits SurrogatesBackDeposits IndexFollowsDeposits
PROPERTIES EarnedRewardsKept
CHECK_DEADLOCK FALSE
SYMMETRY MCSymmetry
