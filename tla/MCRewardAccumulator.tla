------------------------ MODULE MCRewardAccumulator ------------------------
\* Small instances of RewardAccumulator for TLC: one contributor who also stakes.
EXTENDS RewardAccumulator, TLC

CONSTANTS a, x, zero, n

CONSTANT WalletA

MCWallet == [acct \in Accounts |-> WalletA]
=============================================================================
