-------------------------- MODULE StakedPosition --------------------------
(***************************************************************************)
(* What the staking contract promises the owner of one deposit, and all    *)
(* that the liquid-staking vault relies on: the stake changes only by what *)
(* is put in and taken out, the reward in whole ZEN only grows while time  *)
(* passes and stake is there to earn it, and it shrinks only by ZEN that   *)
(* leaves the contract.                                                    *)
(***************************************************************************)
EXTENDS Integers

VARIABLES now,       \* block.timestamp
          balance,   \* the deposit's stake
          reward,    \* its unclaimed reward, in whole ZEN
          paidOut    \* ZEN the contract ever paid out as rewards, fees and tips

Init == now \in Nat /\ balance = 0 /\ reward = 0 /\ paidOut = 0

Add == balance' >= balance /\ UNCHANGED <<now, reward, paidOut>>

Remove == balance' \in 0..balance /\ UNCHANGED <<now, reward, paidOut>>

Earn ==
  /\ now' > now
  /\ reward' >= reward
  /\ reward' > reward => balance > 0
  /\ UNCHANGED <<balance, paidOut>>

\* A claim or a tip.
Collect ==
  /\ reward' \in 0..reward
  /\ paidOut' - paidOut = reward - reward'
  /\ UNCHANGED <<now, balance>>

\* A payment from another deposit.
PayOther == paidOut' >= paidOut /\ UNCHANGED <<now, balance, reward>>

Next == Add \/ Remove \/ Earn \/ Collect \/ PayOther

Spec == Init /\ [][Next]_<<now, balance, reward, paidOut>>
=============================================================================
