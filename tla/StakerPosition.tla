-------------------------- MODULE StakerPosition --------------------------
(***************************************************************************)
(* One deposit of the staking contract, seen through StakedPosition.       *)
(***************************************************************************)
EXTENDS Staker

CONSTANT Observed   \* the deposit looked at, opened or not

ASSUME ObservedAssumption == Observed \in DepositIds

Position == INSTANCE StakedPosition
  WITH balance <- deposits[Observed].balance,
       reward  <- UnclaimedReward(Observed),
       paidOut <- rewardsIn - stakerBalance

\* Every deposit is a StakedPosition: calls on other deposits, new rewards,
\* fees, bumps, changes of calculator and the roundings of the reward arithmetic
\* never change its stake, nor take from its reward what is not paid out.
ImplementsPosition == Position!Spec
=============================================================================
