------------------------------ MODULE MCHistory ------------------------------
\* A small history of the vault for TLC: blocks without events, and blocks that
\* hold a redemption, a harvest and a deposit.
EXTENDS RateHistory

R == [name |-> "Redeemed"]
H == [name |-> "Harvested", rewardClaimed |-> 1]
D == [name |-> "Deposited"]

MCBlocks == {<< >>, <<R, H, D>>}
=============================================================================
