------------------------------- MODULE Staker -------------------------------
(***************************************************************************)
(* The staking contract of src/Staker.sol, as ZenStaker deploys it: the    *)
(* stake token and the reward token are both ZEN, staked tokens sit in one *)
(* surrogate per delegatee, and rewards stream from the contract's own     *)
(* balance over REWARD_DURATION.                                           *)
(*                                                                         *)
(* A transaction is one action.  A call that reverts is an action that is  *)
(* not enabled: every require, checked subtraction, narrowing cast and     *)
(* token transfer of the source is a conjunct of the guard.                *)
(***************************************************************************)
EXTENDS Integers, FiniteSetsExt

CONSTANTS
  Accounts,          \* depositors, claimers, tip receivers, fee collectors
  NoAccount,         \* the zero address
  Delegatees,        \* delegatee addresses, each with its surrogate
  Notifiers,         \* reward notifier contracts the admin may enable
  Admins,            \* addresses that may hold the admin role
  REWARD_DURATION, SCALE_FACTOR, MAX_CLAIM_FEE, MAX_UINT96,
  InitialWallet,     \* ZEN each account starts with: a function on Accounts
  StakeAmounts,      \* amounts passed to stake, stakeMore and withdraw
  RewardAmounts,     \* amounts passed to notifyRewardAmount
  Tips,              \* tips requested of, and limits set by, the bump logic
  Fees,              \* claim fees the admin may set
  MaxDeposits,       \* bound: deposits ever opened
  MaxTime,           \* bound: last block timestamp
  MaxRewards         \* bound: total ZEN ever sent in as rewards

ASSUME StakerAssumption ==
  /\ NoAccount \notin Accounts /\ NoAccount \notin Delegatees
  /\ REWARD_DURATION \in Nat \ {0} /\ SCALE_FACTOR \in Nat \ {0}
  /\ MAX_CLAIM_FEE \in Nat /\ MAX_UINT96 \in Nat
  /\ InitialWallet \in [Accounts -> Nat]
  /\ StakeAmounts \subseteq Nat /\ RewardAmounts \subseteq Nat
  /\ Tips \subseteq Nat /\ Fees \subseteq Nat
  /\ MaxDeposits \in Nat /\ MaxTime \in Nat \ {0} /\ MaxRewards \in Nat

VARIABLES
  now,                                  \* block.timestamp
  nextDepositId, deposits,
  totalStaked, totalEarningPower,
  depositorTotalStaked, depositorTotalEarningPower,
  rewardEndTime, lastCheckpointTime, scaledRewardRate,
  rewardPerTokenAccumulatedCheckpoint,
  admin, isRewardNotifier, claimFee, feeCollector, maxBumpTip,
  eligible,      \* delegatees the calculator currently grants earning power
  wallet,        \* ZEN of each account
  surrogate,     \* ZEN of each delegatee's surrogate
  stakerBalance, \* ZEN of the staking contract itself
  rewardsIn      \* ZEN ever sent in by notifiers (the bound's counter)

clockVars    == <<now, rewardsIn>>
depositVars  == <<nextDepositId, deposits, totalStaked, totalEarningPower,
                  depositorTotalStaked, depositorTotalEarningPower>>
rewardVars   == <<rewardEndTime, lastCheckpointTime, scaledRewardRate,
                  rewardPerTokenAccumulatedCheckpoint>>
adminVars    == <<admin, isRewardNotifier, claimFee, feeCollector, maxBumpTip>>
tokenVars    == <<wallet, surrogate, stakerBalance>>
vars         == <<clockVars, depositVars, rewardVars, adminVars, eligible,
                  tokenVars>>

DepositIds == 0..(MaxDeposits - 1)
Opened     == {id \in DepositIds : id < nextDepositId}

Deposit ==
  [balance : Nat, owner : Accounts \cup {NoAccount}, earningPower : Nat,
   delegatee : Delegatees \cup {NoAccount}, claimer : Accounts \cup {NoAccount},
   rewardPerTokenCheckpoint : Nat, scaledUnclaimedRewardCheckpoint : Nat]

\* What the mapping holds for an identifier that was never used.
EmptyDeposit ==
  [balance |-> 0, owner |-> NoAccount, earningPower |-> 0,
   delegatee |-> NoAccount, claimer |-> NoAccount,
   rewardPerTokenCheckpoint |-> 0, scaledUnclaimedRewardCheckpoint |-> 0]

(***************************************************************************)
(* The reward arithmetic.                                                  *)
(***************************************************************************)

lastTimeRewardDistributed == IF rewardEndTime <= now THEN rewardEndTime ELSE now

rewardPerTokenAccumulated ==
  IF totalEarningPower = 0
    THEN rewardPerTokenAccumulatedCheckpoint
    ELSE rewardPerTokenAccumulatedCheckpoint
           + (scaledRewardRate * (lastTimeRewardDistributed - lastCheckpointTime))
               \div totalEarningPower

ScaledUnclaimedReward(id) ==
  deposits[id].scaledUnclaimedRewardCheckpoint
    + deposits[id].earningPower
        * (rewardPerTokenAccumulated - deposits[id].rewardPerTokenCheckpoint)

UnclaimedReward(id) == ScaledUnclaimedReward(id) \div SCALE_FACTOR

\* Mutant: the checkpoint is forgotten.
CheckpointGlobalRewardSkipped == UNCHANGED rewardVars

CheckpointGlobalReward ==
  /\ rewardPerTokenAccumulatedCheckpoint' = rewardPerTokenAccumulated
  /\ lastCheckpointTime' = lastTimeRewardDistributed
  /\ UNCHANGED <<rewardEndTime, scaledRewardRate>>

\* Mutant: the reward is credited, the deposit's own checkpoint is not moved.
CheckpointedTwice(id, balance, delegatee, claimer, power, paid) ==
  [balance |-> balance, owner |-> deposits[id].owner, earningPower |-> power,
   delegatee |-> delegatee, claimer |-> claimer,
   rewardPerTokenCheckpoint |-> deposits[id].rewardPerTokenCheckpoint,
   scaledUnclaimedRewardCheckpoint |->
     ScaledUnclaimedReward(id) - paid * SCALE_FACTOR]

\* The deposit a call leaves behind: _checkpointReward right after the global
\* checkpoint, the fields the call sets, and the reward it paid out, in ZEN.
Checkpointed(id, balance, delegatee, claimer, power, paid) ==
  [balance |-> balance, owner |-> deposits[id].owner, earningPower |-> power,
   delegatee |-> delegatee, claimer |-> claimer,
   rewardPerTokenCheckpoint |-> rewardPerTokenAccumulated,
   scaledUnclaimedRewardCheckpoint |->
     ScaledUnclaimedReward(id) - paid * SCALE_FACTOR]

\* The calculator: the whole stake of an eligible delegatee earns, no other does.
EarningPower(amount, delegatee) == IF delegatee \in eligible THEN amount ELSE 0

\* Mutant: the owner's total is not updated.
ReplaceEarningPowerGlobally(owner, old, new) ==
  /\ totalEarningPower + new >= old
  /\ totalEarningPower' = totalEarningPower + new - old
  /\ UNCHANGED depositorTotalEarningPower

\* old is replaced by new in the two earning power totals; the checked
\* arithmetic of _calculateTotalEarningPower reverts below zero.
ReplaceEarningPower(owner, old, new) ==
  /\ totalEarningPower + new >= old
  /\ depositorTotalEarningPower[owner] + new >= old
  /\ totalEarningPower' = totalEarningPower + new - old
  /\ depositorTotalEarningPower' =
       [depositorTotalEarningPower EXCEPT ![owner] = @ + new - old]

Pay(from, to, amount) ==
  /\ wallet[from] >= amount
  /\ wallet' = [wallet EXCEPT ![from] = @ - amount]
  /\ surrogate' = [surrogate EXCEPT ![to] = @ + amount]

(***************************************************************************)
(* The depositors' calls.                                                  *)
(***************************************************************************)

Stake(depositor, amount, delegatee, claimer) ==
  LET power == EarningPower(amount, delegatee) IN
  /\ nextDepositId < MaxDeposits
  /\ amount <= MAX_UINT96
  /\ CheckpointGlobalReward
  /\ nextDepositId' = nextDepositId + 1
  /\ totalStaked' = totalStaked + amount
  /\ depositorTotalStaked' = [depositorTotalStaked EXCEPT ![depositor] = @ + amount]
  /\ ReplaceEarningPower(depositor, 0, power)
  /\ deposits' = [deposits EXCEPT ![nextDepositId] =
       [balance |-> amount, owner |-> depositor, earningPower |-> power,
        delegatee |-> delegatee, claimer |-> claimer,
        rewardPerTokenCheckpoint |-> rewardPerTokenAccumulated,
        scaledUnclaimedRewardCheckpoint |-> 0]]
  /\ Pay(depositor, delegatee, amount)
  /\ UNCHANGED <<stakerBalance, clockVars, adminVars, eligible>>

StakeMore(id, amount) ==
  LET d          == deposits[id]
      newBalance == d.balance + amount
      power      == EarningPower(newBalance, d.delegatee) IN
  /\ newBalance <= MAX_UINT96
  /\ CheckpointGlobalReward
  /\ ReplaceEarningPower(d.owner, d.earningPower, power)
  /\ totalStaked' = totalStaked + amount
  /\ depositorTotalStaked' = [depositorTotalStaked EXCEPT ![d.owner] = @ + amount]
  /\ deposits' = [deposits EXCEPT ![id] =
       Checkpointed(id, newBalance, d.delegatee, d.claimer, power, 0)]
  /\ Pay(d.owner, d.delegatee, amount)
  /\ UNCHANGED <<nextDepositId, stakerBalance, clockVars, adminVars, eligible>>

\* Mutant: the stake stays with the old surrogate.
AlterDelegateeOnPaper(id, newDelegatee) ==
  LET d     == deposits[id]
      power == EarningPower(d.balance, newDelegatee) IN
  /\ CheckpointGlobalReward
  /\ ReplaceEarningPower(d.owner, d.earningPower, power)
  /\ deposits' = [deposits EXCEPT ![id] =
       Checkpointed(id, d.balance, newDelegatee, d.claimer, power, 0)]
  /\ UNCHANGED <<nextDepositId, totalStaked, depositorTotalStaked, tokenVars,
                 clockVars, adminVars, eligible>>

AlterDelegatee(id, newDelegatee) ==
  LET d     == deposits[id]
      power == EarningPower(d.balance, newDelegatee) IN
  /\ CheckpointGlobalReward
  /\ ReplaceEarningPower(d.owner, d.earningPower, power)
  /\ deposits' = [deposits EXCEPT ![id] =
       Checkpointed(id, d.balance, newDelegatee, d.claimer, power, 0)]
  /\ surrogate[d.delegatee] >= d.balance
  /\ surrogate' = [x \in Delegatees |->
       surrogate[x] - (IF x = d.delegatee THEN d.balance ELSE 0)
                    + (IF x = newDelegatee THEN d.balance ELSE 0)]
  /\ UNCHANGED <<nextDepositId, totalStaked, depositorTotalStaked, wallet,
                 stakerBalance, clockVars, adminVars, eligible>>

AlterClaimer(id, newClaimer) ==
  LET d     == deposits[id]
      power == EarningPower(d.balance, d.delegatee) IN
  /\ CheckpointGlobalReward
  /\ ReplaceEarningPower(d.owner, d.earningPower, power)
  /\ deposits' = [deposits EXCEPT ![id] =
       Checkpointed(id, d.balance, d.delegatee, newClaimer, power, 0)]
  /\ UNCHANGED <<nextDepositId, totalStaked, depositorTotalStaked, tokenVars,
                 clockVars, adminVars, eligible>>

Withdraw(id, amount) ==
  LET d          == deposits[id]
      newBalance == d.balance - amount
      power      == EarningPower(newBalance, d.delegatee) IN
  /\ d.balance >= amount
  /\ totalStaked >= amount /\ depositorTotalStaked[d.owner] >= amount
  /\ CheckpointGlobalReward
  /\ ReplaceEarningPower(d.owner, d.earningPower, power)
  /\ totalStaked' = totalStaked - amount
  /\ depositorTotalStaked' = [depositorTotalStaked EXCEPT ![d.owner] = @ - amount]
  /\ deposits' = [deposits EXCEPT ![id] =
       Checkpointed(id, newBalance, d.delegatee, d.claimer, power, 0)]
  /\ surrogate[d.delegatee] >= amount
  /\ surrogate' = [surrogate EXCEPT ![d.delegatee] = @ - amount]
  /\ wallet' = [wallet EXCEPT ![d.owner] = @ + amount]
  /\ UNCHANGED <<nextDepositId, stakerBalance, clockVars, adminVars, eligible>>

\* A claim whose payout is zero keeps the checkpoints and changes nothing else;
\* a reward below the fee reverts.
ClaimNothing(id, caller) ==
  LET d == deposits[id] IN
  /\ caller \in {d.owner, d.claimer}
  /\ UnclaimedReward(id) = claimFee
  /\ CheckpointGlobalReward
  /\ deposits' = [deposits EXCEPT ![id] =
       Checkpointed(id, d.balance, d.delegatee, d.claimer, d.earningPower, 0)]
  /\ UNCHANGED <<nextDepositId, totalStaked, totalEarningPower,
                 depositorTotalStaked, depositorTotalEarningPower,
                 tokenVars, clockVars, adminVars, eligible>>

\* The payout goes to the caller, the fee to the collector, and what is left
\* of the scaled reward after the division stays with the deposit.
ClaimReward(id, caller) ==
  LET d      == deposits[id]
      reward == UnclaimedReward(id)
      power  == EarningPower(d.balance, d.delegatee) IN
  /\ caller \in {d.owner, d.claimer}
  /\ reward > claimFee
  /\ CheckpointGlobalReward
  /\ ReplaceEarningPower(d.owner, d.earningPower, power)
  /\ deposits' = [deposits EXCEPT ![id] =
       Checkpointed(id, d.balance, d.delegatee, d.claimer, power, reward)]
  /\ stakerBalance >= reward
  /\ stakerBalance' = stakerBalance - reward
  /\ wallet' = [acct \in Accounts |->
       wallet[acct] + (IF acct = caller THEN reward - claimFee ELSE 0)
                    + (IF acct = feeCollector THEN claimFee ELSE 0)]
  /\ UNCHANGED <<nextDepositId, totalStaked, depositorTotalStaked, surrogate,
                 clockVars, adminVars, eligible>>

(***************************************************************************)
(* Rewards and earning power.                                              *)
(***************************************************************************)

\* An enabled notifier transfers the reward and reports it in the same
\* transaction, as RewardAccumulator and the notifiers of src/notifiers do.
NotifyRewardAmount(notifier, amount) ==
  LET remaining == IF now >= rewardEndTime
                     THEN 0
                     ELSE scaledRewardRate * (rewardEndTime - now)
      rate      == (remaining + amount * SCALE_FACTOR) \div REWARD_DURATION IN
  /\ notifier \in isRewardNotifier
  /\ rewardsIn + amount <= MaxRewards
  /\ rewardsIn' = rewardsIn + amount
  /\ stakerBalance' = stakerBalance + amount
  /\ rewardPerTokenAccumulatedCheckpoint' = rewardPerTokenAccumulated
  /\ scaledRewardRate' = rate
  /\ rewardEndTime' = now + REWARD_DURATION
  /\ lastCheckpointTime' = now
  /\ rate \div SCALE_FACTOR # 0
  /\ rate * REWARD_DURATION <= stakerBalance' * SCALE_FACTOR
  /\ UNCHANGED <<now, depositVars, adminVars, eligible, wallet, surrogate>>

\* A bump needs an earning power that changed.  An increase must cover the tip;
\* a decrease must also leave maxBumpTip for whoever bumps the deposit back.
\* (When a decrease qualifies is up to the calculator: any moment is allowed.)
BumpEarningPower(id, tipReceiver, tip) ==
  LET d         == deposits[id]
      unclaimed == UnclaimedReward(id)
      power     == EarningPower(d.balance, d.delegatee) IN
  /\ tip <= maxBumpTip
  /\ power # d.earningPower
  /\ power > d.earningPower => unclaimed >= tip
  /\ power < d.earningPower => unclaimed >= tip /\ unclaimed - tip >= maxBumpTip
  /\ CheckpointGlobalReward
  /\ ReplaceEarningPower(d.owner, d.earningPower, power)
  /\ stakerBalance >= tip
  /\ stakerBalance' = stakerBalance - tip
  /\ wallet' = [wallet EXCEPT ![tipReceiver] = @ + tip]
  /\ deposits' = [deposits EXCEPT ![id] =
       Checkpointed(id, d.balance, d.delegatee, d.claimer, power, tip)]
  /\ UNCHANGED <<nextDepositId, totalStaked, depositorTotalStaked, surrogate,
                 clockVars, adminVars, eligible>>

(***************************************************************************)
(* The admin's calls, and the environment.                                 *)
(***************************************************************************)

SetAdmin(caller, newAdmin) ==
  /\ caller = admin
  /\ admin' = newAdmin
  /\ UNCHANGED <<isRewardNotifier, claimFee, feeCollector, maxBumpTip, clockVars,
                 depositVars, rewardVars, eligible, tokenVars>>

SetRewardNotifier(caller, notifier, isEnabled) ==
  /\ caller = admin
  /\ isRewardNotifier' = IF isEnabled THEN isRewardNotifier \cup {notifier}
                                      ELSE isRewardNotifier \ {notifier}
  /\ UNCHANGED <<admin, claimFee, feeCollector, maxBumpTip, clockVars,
                 depositVars, rewardVars, eligible, tokenVars>>

SetClaimFeeParameters(caller, fee, collector) ==
  /\ caller = admin
  /\ fee <= MAX_CLAIM_FEE
  /\ collector = NoAccount => fee = 0
  /\ claimFee' = fee
  /\ feeCollector' = collector
  /\ UNCHANGED <<admin, isRewardNotifier, maxBumpTip, clockVars, depositVars,
                 rewardVars, eligible, tokenVars>>

SetMaxBumpTip(caller, tip) ==
  /\ caller = admin
  /\ maxBumpTip' = tip
  /\ UNCHANGED <<admin, isRewardNotifier, claimFee, feeCollector, clockVars,
                 depositVars, rewardVars, eligible, tokenVars>>

\* The admin installs another calculator, or the installed one changes its mind
\* about some delegatees: no deposit is touched until its next call or bump.
SetEarningPowerCalculator(caller, newEligible) ==
  /\ caller = admin
  /\ eligible' = newEligible
  /\ UNCHANGED <<clockVars, depositVars, rewardVars, adminVars, tokenVars>>

Tick ==
  /\ now < MaxTime
  /\ now' = now + 1
  /\ UNCHANGED <<rewardsIn, depositVars, rewardVars, adminVars, eligible, tokenVars>>

Init ==
  /\ now = 1 /\ rewardsIn = 0
  /\ nextDepositId = 0 /\ deposits = [id \in DepositIds |-> EmptyDeposit]
  /\ totalStaked = 0 /\ totalEarningPower = 0
  /\ depositorTotalStaked = [a \in Accounts |-> 0]
  /\ depositorTotalEarningPower = [a \in Accounts |-> 0]
  /\ rewardEndTime = 0 /\ lastCheckpointTime = 0
  /\ scaledRewardRate = 0 /\ rewardPerTokenAccumulatedCheckpoint = 0
  /\ admin \in Admins /\ maxBumpTip \in Tips
  /\ isRewardNotifier = {} /\ claimFee = 0 /\ feeCollector = NoAccount
  /\ eligible \in SUBSET Delegatees
  /\ wallet = InitialWallet
  /\ surrogate = [d \in Delegatees |-> 0] /\ stakerBalance = 0

\* A call about an open deposit, by its owner except where a caller is named.
DepositCall(id) ==
  \/ \E amount \in StakeAmounts : StakeMore(id, amount)
  \/ \E amount \in StakeAmounts : Withdraw(id, amount)
  \/ \E delegatee \in Delegatees : AlterDelegatee(id, delegatee)
  \/ \E claimer \in Accounts : AlterClaimer(id, claimer)
  \/ \E caller \in Accounts : ClaimReward(id, caller)
  \/ \E caller \in Accounts : ClaimNothing(id, caller)
  \/ \E receiver \in Accounts, tip \in Tips : BumpEarningPower(id, receiver, tip)

AdminCall(caller) ==
  \/ \E newAdmin \in Admins : SetAdmin(caller, newAdmin)
  \/ \E notifier \in Notifiers, on \in BOOLEAN : SetRewardNotifier(caller, notifier, on)
  \/ \E fee \in Fees, collector \in Accounts \cup {NoAccount} :
       SetClaimFeeParameters(caller, fee, collector)
  \/ \E tip \in Tips : SetMaxBumpTip(caller, tip)
  \/ \E E \in SUBSET Delegatees : SetEarningPowerCalculator(caller, E)

\* Everything but the arrival of rewards.
StakingNext ==
  \/ \E depositor, claimer \in Accounts, delegatee \in Delegatees, amount \in StakeAmounts :
       Stake(depositor, amount, delegatee, claimer)
  \/ \E id \in Opened : DepositCall(id)
  \/ \E caller \in Admins : AdminCall(caller)
  \/ Tick

Next ==
  \/ StakingNext
  \/ \E notifier \in Notifiers, amount \in RewardAmounts :
       NotifyRewardAmount(notifier, amount)

Spec == Init /\ [][Next]_vars

(***************************************************************************)
(* Properties.                                                             *)
(***************************************************************************)

\* Every variable holds a value of its Solidity type; in particular no
\* balance, reward or total is ever negative.
TypeOK ==
  /\ now \in Nat /\ rewardsIn \in Nat
  /\ nextDepositId \in Nat /\ nextDepositId <= MaxDeposits
  /\ deposits \in [DepositIds -> Deposit]
  /\ totalStaked \in Nat /\ totalEarningPower \in Nat
  /\ depositorTotalStaked \in [Accounts -> Nat]
  /\ depositorTotalEarningPower \in [Accounts -> Nat]
  /\ rewardEndTime \in Nat /\ lastCheckpointTime \in Nat
  /\ scaledRewardRate \in Nat /\ rewardPerTokenAccumulatedCheckpoint \in Nat
  /\ admin \in Admins /\ isRewardNotifier \in SUBSET Notifiers
  /\ claimFee \in Nat /\ claimFee <= MAX_CLAIM_FEE
  /\ feeCollector \in Accounts \cup {NoAccount} /\ maxBumpTip \in Nat
  /\ eligible \in SUBSET Delegatees
  /\ wallet \in [Accounts -> Nat] /\ surrogate \in [Delegatees -> Nat]
  /\ stakerBalance \in Nat

StakeOf(ids) == SumFunctionOnSet([id \in DepositIds |-> deposits[id].balance], ids)

EarningPowerOf(ids) == SumFunctionOnSet([id \in DepositIds |-> deposits[id].earningPower], ids)

OwnedBy(a) == {id \in DepositIds : deposits[id].owner = a}

\* The four cached totals are the sums of what the deposits hold, although each
\* is updated by its own increments in every call.
TotalsMatchDeposits ==
  /\ totalStaked = StakeOf(DepositIds)
  /\ totalEarningPower = EarningPowerOf(DepositIds)
  /\ \A a \in Accounts :
       /\ depositorTotalStaked[a] = StakeOf(OwnedBy(a))
       /\ depositorTotalEarningPower[a] = EarningPowerOf(OwnedBy(a))

\* Each surrogate holds exactly the stake of the deposits delegated to it: no
\* reward, fee or tip is ever paid from stake, though all are the same token.
SurrogatesBackDeposits ==
  \A d \in Delegatees :
    surrogate[d] = StakeOf({id \in DepositIds : deposits[id].delegatee = d})

\* What is still to be streamed of the rewards notified so far.
UndistributedReward ==
  IF now >= rewardEndTime THEN 0 ELSE scaledRewardRate * (rewardEndTime - now)

\* The contract holds enough ZEN for everything it owes: every deposit's live
\* reward and the rest of the stream, whatever was rounded on the way.
RewardSolvency ==
  stakerBalance * SCALE_FACTOR >=
    SumFunctionOnSet([id \in DepositIds |-> ScaledUnclaimedReward(id)], DepositIds)
      + UndistributedReward

\* No checked subtraction of the reward arithmetic can underflow, so no view and
\* no checkpoint ever reverts.
CheckpointsInOrder ==
  /\ lastCheckpointTime <= now
  /\ lastCheckpointTime <= rewardEndTime
  /\ \A id \in DepositIds :
       deposits[id].rewardPerTokenCheckpoint <= rewardPerTokenAccumulatedCheckpoint

\* An owner can always withdraw the whole deposit and collect a reward that
\* exceeds the fee: no revert path of the two calls is reachable.
ExitNeverBlocked ==
  \A id \in Opened :
    /\ ENABLED Withdraw(id, deposits[id].balance)
    /\ UnclaimedReward(id) > claimFee => ENABLED ClaimReward(id, deposits[id].owner)

\* The accumulator never goes back, whoever calls and however time passes
\* (the claim of the comment on rewardPerTokenAccumulated).
AccumulatorMonotone ==
  [][rewardPerTokenAccumulated' >= rewardPerTokenAccumulated]_vars

\* A call at time t leaves what every open deposit has earned up to t exactly as
\* it was: joining, leaving, delegating and new rewards touch only the future.
\* Only a claim or a bump may lower it, for that one deposit, by what was paid.
EarnedRewardsKept ==
  [][now' = now =>
       \A id \in Opened :
         \/ ScaledUnclaimedReward(id)' = ScaledUnclaimedReward(id)
         \/ /\ \A other \in Opened \ {id} :
                 ScaledUnclaimedReward(other)' = ScaledUnclaimedReward(other)
            /\ ScaledUnclaimedReward(id) - ScaledUnclaimedReward(id)'
                 = (stakerBalance - stakerBalance') * SCALE_FACTOR
    ]_vars
=============================================================================
