-------------------------- MODULE MCStakerSubgraph --------------------------
\* A small instance of the staking contract and its index for TLC.
EXTENDS StakerSubgraph, TLC

CONSTANTS a, b, x, y, zero

MCWallet == [acct \in Accounts |-> IF acct = a THEN 1 ELSE 0]

MCSymmetry == Permutations(Delegatees)
=============================================================================
