------------------------------ MODULE MCStaker ------------------------------
\* A small instance of the staking contract for TLC.
EXTENDS StakerPosition

CONSTANTS a, b, WalletA, WalletB

MCWallet == [acct \in Accounts |-> IF acct = a THEN WalletA ELSE WalletB]
=============================================================================
