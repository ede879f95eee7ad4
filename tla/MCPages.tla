------------------------------- MODULE MCPages -------------------------------
(***************************************************************************)
(* The pages of the web frontend, for TLC: redeeming, with the relay       *)
(* behind it, depositing on the hub chain, staking from the other chain,   *)
(* and redeeming to it.  They share no state; a user is at one of them.    *)
(***************************************************************************)
EXTENDS GaslessRedeem, DepositPage, CrossChainStake, RedeemToBase

VARIABLE page

allVars == <<page, redeemVars, depositVars, stakeVars, baseVars>>

PagesInit ==
  /\ page \in {"redeem", "deposit", "stake", "redeem-to-base"}
  /\ RedeemInit /\ DepositInit /\ StakeInit /\ BaseInit

AtRedeemPage ==
  /\ page = "redeem" /\ RedeemNext
  /\ UNCHANGED <<page, depositVars, stakeVars, baseVars>>
AtDepositPage ==
  /\ page = "deposit" /\ DepositNext
  /\ UNCHANGED <<page, redeemVars, stakeVars, baseVars>>
AtStakePage ==
  /\ page = "stake" /\ StakeNext
  /\ UNCHANGED <<page, redeemVars, depositVars, baseVars>>
AtBasePage ==
  /\ page = "redeem-to-base" /\ BaseNext
  /\ UNCHANGED <<page, redeemVars, depositVars, stakeVars>>

PagesNext == AtRedeemPage \/ AtDepositPage \/ AtStakePage \/ AtBasePage

PagesSpec == PagesInit /\ [][PagesNext]_allVars /\ RedeemFairness /\ BaseFairness
=============================================================================
