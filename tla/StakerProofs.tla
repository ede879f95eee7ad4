---------------------------- MODULE StakerProofs ----------------------------
(***************************************************************************)
(* What holds of Staker for every value of its constants.                  *)
(***************************************************************************)
EXTENDS Staker, ArithmeticLemmas

(***************************************************************************)
(* The inductive invariant: types need the order of the checkpoints, since *)
(* rewards are products of differences of checkpoints.                     *)
(***************************************************************************)

IInv == TypeOK /\ CheckpointsInOrder

\* The reward arithmetic yields natural numbers, and the live accumulator is
\* never behind the stored one.
LEMMA Arithmetic ==
  ASSUME IInv
  PROVE  /\ lastTimeRewardDistributed \in Nat
         /\ lastTimeRewardDistributed >= lastCheckpointTime
         /\ lastTimeRewardDistributed <= now
         /\ lastTimeRewardDistributed <= rewardEndTime
         /\ rewardPerTokenAccumulated \in Nat
         /\ rewardPerTokenAccumulated >= rewardPerTokenAccumulatedCheckpoint
         /\ \A id \in DepositIds : /\ ScaledUnclaimedReward(id) \in Nat
                                   /\ UnclaimedReward(id) \in Nat
                                   /\ UnclaimedReward(id) * SCALE_FACTOR
                                        <= ScaledUnclaimedReward(id)
<1> USE StakerAssumption DEF IInv, TypeOK, CheckpointsInOrder
<1>1. /\ lastTimeRewardDistributed \in Nat
      /\ lastTimeRewardDistributed >= lastCheckpointTime
      /\ lastTimeRewardDistributed <= now
      /\ lastTimeRewardDistributed <= rewardEndTime
  BY DEF lastTimeRewardDistributed
<1>2. /\ rewardPerTokenAccumulated \in Nat
      /\ rewardPerTokenAccumulated >= rewardPerTokenAccumulatedCheckpoint
  <2> DEFINE elapsed == lastTimeRewardDistributed - lastCheckpointTime
  <2>1. elapsed \in Nat
    BY <1>1
  <2>2. scaledRewardRate * elapsed \in Nat
    BY <2>1, MulNat
  <2>3. CASE totalEarningPower = 0
    BY <2>3 DEF rewardPerTokenAccumulated
  <2>4. CASE totalEarningPower # 0
    <3>1. (scaledRewardRate * elapsed) \div totalEarningPower \in Nat
      BY <2>2, <2>4, DivNat
    <3>2. QED
      BY <2>4, <3>1 DEF rewardPerTokenAccumulated
  <2>5. QED
    BY <2>3, <2>4
<1>3. ASSUME NEW id \in DepositIds
      PROVE  /\ ScaledUnclaimedReward(id) \in Nat
             /\ UnclaimedReward(id) \in Nat
             /\ UnclaimedReward(id) * SCALE_FACTOR <= ScaledUnclaimedReward(id)
  <2> DEFINE d == deposits[id]
  <2>1. /\ d.earningPower \in Nat
        /\ d.scaledUnclaimedRewardCheckpoint \in Nat
        /\ rewardPerTokenAccumulated - d.rewardPerTokenCheckpoint \in Nat
    BY <1>2 DEF Deposit
  <2>2. d.earningPower * (rewardPerTokenAccumulated - d.rewardPerTokenCheckpoint) \in Nat
    BY <2>1, MulNat
  <2>3. ScaledUnclaimedReward(id) \in Nat
    BY <2>1, <2>2 DEF ScaledUnclaimedReward
  <2>4. QED
    BY <2>3, DivNat, DivFloor DEF UnclaimedReward
<1>4. QED
  BY <1>1, <1>2, <1>3

LEMMA InitIInv == Init => IInv
  BY StakerAssumption
     DEF Init, IInv, TypeOK, CheckpointsInOrder, Deposit, EmptyDeposit, DepositIds

\* The global checkpoint keeps the stored accumulator ahead of every deposit.
LEMMA GlobalCheckpointOrdered ==
  ASSUME IInv, CheckpointGlobalReward
  PROVE  /\ rewardPerTokenAccumulatedCheckpoint' \in Nat
         /\ lastCheckpointTime' \in Nat /\ rewardEndTime' \in Nat
         /\ scaledRewardRate' \in Nat
         /\ lastCheckpointTime' <= now /\ lastCheckpointTime' <= rewardEndTime'
         /\ rewardPerTokenAccumulatedCheckpoint' >= rewardPerTokenAccumulatedCheckpoint
  BY Arithmetic DEF CheckpointGlobalReward, IInv, TypeOK

LEMMA PowerNat ==
  ASSUME NEW amount \in Nat, NEW delegatee
  PROVE  EarningPower(amount, delegatee) \in Nat
  BY DEF EarningPower

\* A call that checkpoints the pool and then one deposit keeps the order.
LEMMA OrderKept ==
  ASSUME IInv, CheckpointGlobalReward, now' = now,
         NEW id \in DepositIds, NEW d \in Deposit,
         d.rewardPerTokenCheckpoint = rewardPerTokenAccumulated,
         deposits' = [deposits EXCEPT ![id] = d]
  PROVE  CheckpointsInOrder' /\ deposits' \in [DepositIds -> Deposit]
<1>1. deposits' \in [DepositIds -> Deposit]
  BY DEF IInv, TypeOK
<1>2. ASSUME NEW i \in DepositIds
      PROVE  deposits'[i].rewardPerTokenCheckpoint <= rewardPerTokenAccumulatedCheckpoint'
  <2>1. CASE i = id
    BY <2>1, Arithmetic DEF CheckpointGlobalReward, IInv, TypeOK
  <2>2. CASE i # id
    <3>1. deposits'[i] = deposits[i] /\ deposits[i] \in Deposit
      BY <2>2 DEF IInv, TypeOK
    <3>2. deposits[i].rewardPerTokenCheckpoint <= rewardPerTokenAccumulatedCheckpoint
      BY DEF IInv, CheckpointsInOrder
    <3>3. QED
      BY <3>1, <3>2, GlobalCheckpointOrdered DEF Deposit, IInv, TypeOK
  <2>3. QED
    BY <2>1, <2>2
<1>3. QED
  BY <1>1, <1>2, GlobalCheckpointOrdered DEF CheckpointsInOrder

LEMMA StakeIInv ==
  ASSUME IInv, NEW depositor \in Accounts, NEW amount \in StakeAmounts,
         NEW delegatee \in Delegatees, NEW claimer \in Accounts,
         Stake(depositor, amount, delegatee, claimer)
  PROVE  IInv'
<1> USE StakerAssumption
<1> DEFINE power == EarningPower(amount, delegatee)
           d == [balance |-> amount, owner |-> depositor, earningPower |-> power,
                 delegatee |-> delegatee, claimer |-> claimer,
                 rewardPerTokenCheckpoint |-> rewardPerTokenAccumulated,
                 scaledUnclaimedRewardCheckpoint |-> 0]
<1>1. nextDepositId \in DepositIds /\ amount \in Nat
  BY DEF IInv, TypeOK, DepositIds, Stake
<1>2. power \in Nat
  BY <1>1, PowerNat
<1>3. /\ d \in Deposit /\ d.rewardPerTokenCheckpoint = rewardPerTokenAccumulated
      /\ deposits' = [deposits EXCEPT ![nextDepositId] = d]
      /\ CheckpointGlobalReward /\ now' = now
  BY <1>1, <1>2, Arithmetic DEF Deposit, Stake, clockVars
<1> HIDE DEF d
<1>4. CheckpointsInOrder' /\ deposits' \in [DepositIds -> Deposit]
  BY <1>1, <1>3, OrderKept
<1>5. TypeOK'
  BY <1>1, <1>2, <1>4, GlobalCheckpointOrdered
     DEF IInv, TypeOK, Stake, ReplaceEarningPower, Pay, clockVars, adminVars
<1>6. QED
  BY <1>4, <1>5 DEF IInv

\* The deposit a call leaves behind is well formed: what is paid out never
\* exceeds what the deposit had earned.
LEMMA CheckpointedOK ==
  ASSUME IInv, NEW id \in Opened, NEW balance \in Nat,
         NEW delegatee \in Delegatees \cup {NoAccount},
         NEW claimer \in Accounts \cup {NoAccount},
         NEW power \in Nat, NEW paid \in Nat, paid <= UnclaimedReward(id)
  PROVE  Checkpointed(id, balance, delegatee, claimer, power, paid) \in Deposit
<1>1. id \in DepositIds /\ deposits[id] \in Deposit
  BY DEF Opened, IInv, TypeOK
<1>2. /\ ScaledUnclaimedReward(id) \in Nat /\ UnclaimedReward(id) \in Nat
      /\ UnclaimedReward(id) * SCALE_FACTOR <= ScaledUnclaimedReward(id)
      /\ rewardPerTokenAccumulated \in Nat
  BY <1>1, Arithmetic
<1>3. /\ SCALE_FACTOR * paid <= SCALE_FACTOR * UnclaimedReward(id)
      /\ paid * SCALE_FACTOR = SCALE_FACTOR * paid
      /\ UnclaimedReward(id) * SCALE_FACTOR = SCALE_FACTOR * UnclaimedReward(id)
      /\ paid * SCALE_FACTOR \in Nat
  BY <1>2, MulMonotone, MulNat, StakerAssumption
<1>4. ScaledUnclaimedReward(id) - paid * SCALE_FACTOR \in Nat
  BY <1>2, <1>3, StakerAssumption
<1>5. QED
  BY <1>1, <1>2, <1>4 DEF Deposit, Checkpointed

\* Replacing one deposit's share keeps both earning power totals natural.
LEMMA ReplaceOK ==
  ASSUME IInv, NEW owner \in Accounts \cup {NoAccount}, NEW old \in Nat, NEW new \in Nat,
         ReplaceEarningPower(owner, old, new)
  PROVE  totalEarningPower' \in Nat /\ depositorTotalEarningPower' \in [Accounts -> Nat]
<1>1. totalEarningPower' \in Nat
  BY DEF IInv, TypeOK, ReplaceEarningPower
<1>2. ASSUME NEW acct \in Accounts
      PROVE  depositorTotalEarningPower'[acct] \in Nat
  BY DEF IInv, TypeOK, ReplaceEarningPower
<1>3. QED
  BY <1>1, <1>2 DEF IInv, TypeOK, ReplaceEarningPower

LEMMA StakeMoreIInv ==
  ASSUME IInv, NEW id \in Opened, NEW amount \in StakeAmounts,
         StakeMore(id, amount)
  PROVE  IInv'
<1> DEFINE d == deposits[id]
           balance == d.balance + amount
           power == EarningPower(balance, d.delegatee)
           paid == 0
           new == Checkpointed(id, balance, d.delegatee, d.claimer, power, paid)
<1>1. /\ id \in DepositIds
      /\ d.balance \in Nat /\ d.earningPower \in Nat
      /\ d.owner \in Accounts \cup {NoAccount} /\ d.claimer \in Accounts \cup {NoAccount}
      /\ d.delegatee \in Delegatees \cup {NoAccount}
      /\ UnclaimedReward(id) \in Nat
  BY Arithmetic DEF Opened, IInv, TypeOK, Deposit
<1>2. /\ balance \in Nat /\ power \in Nat
      /\ paid \in Nat /\ paid <= UnclaimedReward(id) /\ amount \in Nat
  BY <1>1, StakerAssumption DEF EarningPower, StakeMore
<1>3. /\ deposits' = [deposits EXCEPT ![id] = new]
      /\ CheckpointGlobalReward /\ now' = now
      /\ UNCHANGED <<nextDepositId, rewardsIn, adminVars, eligible>>
  BY DEF StakeMore, clockVars
<1>4. /\ ReplaceEarningPower(d.owner, d.earningPower, power)
      /\ totalStaked' = totalStaked + amount
      /\ depositorTotalStaked' = [depositorTotalStaked EXCEPT ![d.owner] = @ + amount]
      /\ wallet[d.owner] >= amount /\ stakerBalance' = stakerBalance
      /\ wallet' = [wallet EXCEPT ![d.owner] = @ - amount]
      /\ surrogate' = [surrogate EXCEPT ![d.delegatee] = @ + amount]
  BY DEF StakeMore, Pay
<1> HIDE DEF balance, power, paid, d
<1>5. new \in Deposit /\ new.rewardPerTokenCheckpoint = rewardPerTokenAccumulated
  <2>1. new \in Deposit
    BY <1>1, <1>2, CheckpointedOK, Zenon
  <2>2. new.rewardPerTokenCheckpoint = rewardPerTokenAccumulated
    BY DEF Checkpointed
  <2>3. QED
    BY <2>1, <2>2
<1> HIDE DEF new
<1>6. CheckpointsInOrder' /\ deposits' \in [DepositIds -> Deposit]
  BY <1>1, <1>3, <1>5, OrderKept
<1>7. totalEarningPower' \in Nat /\ depositorTotalEarningPower' \in [Accounts -> Nat]
  BY <1>1, <1>2, <1>4, ReplaceOK DEF IInv, TypeOK
<1>8. TypeOK'
  <2>1. totalStaked' \in Nat /\ stakerBalance' \in Nat
    BY <1>2, <1>4, CreditEntry, DebitEntry DEF IInv, TypeOK
  <2>2. depositorTotalStaked' \in [Accounts -> Nat]
    BY <1>2, <1>4, CreditEntry, DebitEntry DEF IInv, TypeOK
  <2>3. wallet' \in [Accounts -> Nat]
    BY <1>2, <1>4, CreditEntry, DebitEntry DEF IInv, TypeOK
  <2>4. surrogate' \in [Delegatees -> Nat]
    BY <1>2, <1>4, CreditEntry, DebitEntry DEF IInv, TypeOK
  <2>5. QED
    BY <1>3, <1>6, <1>7, <2>1, <2>2, <2>3, <2>4, GlobalCheckpointOrdered
       DEF IInv, TypeOK, adminVars
<1>9. QED
  BY <1>6, <1>8 DEF IInv

LEMMA AlterDelegateeIInv ==
  ASSUME IInv, NEW id \in Opened, NEW newDelegatee \in Delegatees,
         AlterDelegatee(id, newDelegatee)
  PROVE  IInv'
<1> DEFINE d == deposits[id]
           balance == d.balance
           power == EarningPower(balance, newDelegatee)
           paid == 0
           new == Checkpointed(id, balance, newDelegatee, d.claimer, power, paid)
<1>1. /\ id \in DepositIds
      /\ d.balance \in Nat /\ d.earningPower \in Nat
      /\ d.owner \in Accounts \cup {NoAccount} /\ d.claimer \in Accounts \cup {NoAccount}
      /\ d.delegatee \in Delegatees \cup {NoAccount}
      /\ UnclaimedReward(id) \in Nat
  BY Arithmetic DEF Opened, IInv, TypeOK, Deposit
<1>2. /\ balance \in Nat /\ power \in Nat
      /\ paid \in Nat /\ paid <= UnclaimedReward(id)
  BY <1>1, StakerAssumption DEF EarningPower, AlterDelegatee
<1>3. /\ deposits' = [deposits EXCEPT ![id] = new]
      /\ CheckpointGlobalReward /\ now' = now
      /\ UNCHANGED <<nextDepositId, rewardsIn, adminVars, eligible>>
  BY DEF AlterDelegatee, clockVars
<1>4. /\ ReplaceEarningPower(d.owner, d.earningPower, power)
      /\ UNCHANGED <<totalStaked, depositorTotalStaked>>
      /\ UNCHANGED <<wallet, stakerBalance>> /\ surrogate[d.delegatee] >= d.balance
      /\ surrogate' = [x \in Delegatees |->
           surrogate[x] - (IF x = d.delegatee THEN d.balance ELSE 0)
                        + (IF x = newDelegatee THEN d.balance ELSE 0)]
  BY DEF AlterDelegatee
<1> HIDE DEF balance, power, paid, d
<1>5. new \in Deposit /\ new.rewardPerTokenCheckpoint = rewardPerTokenAccumulated
  <2>1. new \in Deposit
    BY <1>1, <1>2, CheckpointedOK, Zenon
  <2>2. new.rewardPerTokenCheckpoint = rewardPerTokenAccumulated
    BY DEF Checkpointed
  <2>3. QED
    BY <2>1, <2>2
<1> HIDE DEF new
<1>6. CheckpointsInOrder' /\ deposits' \in [DepositIds -> Deposit]
  BY <1>1, <1>3, <1>5, OrderKept
<1>7. totalEarningPower' \in Nat /\ depositorTotalEarningPower' \in [Accounts -> Nat]
  BY <1>1, <1>2, <1>4, ReplaceOK DEF IInv, TypeOK
<1>8. TypeOK'
  <2>1. totalStaked' \in Nat /\ stakerBalance' \in Nat
    BY <1>1, <1>2, <1>4, StakerAssumption DEF IInv, TypeOK
  <2>2. depositorTotalStaked' \in [Accounts -> Nat]
    BY <1>1, <1>2, <1>4, StakerAssumption DEF IInv, TypeOK
  <2>3. wallet' \in [Accounts -> Nat]
    BY <1>1, <1>2, <1>4, StakerAssumption DEF IInv, TypeOK
  <2>4. surrogate' \in [Delegatees -> Nat]
    BY <1>1, <1>2, <1>4, StakerAssumption DEF IInv, TypeOK
  <2>5. QED
    BY <1>3, <1>6, <1>7, <2>1, <2>2, <2>3, <2>4, GlobalCheckpointOrdered
       DEF IInv, TypeOK, adminVars
<1>9. QED
  BY <1>6, <1>8 DEF IInv

LEMMA AlterClaimerIInv ==
  ASSUME IInv, NEW id \in Opened, NEW newClaimer \in Accounts,
         AlterClaimer(id, newClaimer)
  PROVE  IInv'
<1> DEFINE d == deposits[id]
           balance == d.balance
           power == EarningPower(d.balance, d.delegatee)
           paid == 0
           new == Checkpointed(id, balance, d.delegatee, newClaimer, power, paid)
<1>1. /\ id \in DepositIds
      /\ d.balance \in Nat /\ d.earningPower \in Nat
      /\ d.owner \in Accounts \cup {NoAccount} /\ d.claimer \in Accounts \cup {NoAccount}
      /\ d.delegatee \in Delegatees \cup {NoAccount}
      /\ UnclaimedReward(id) \in Nat
  BY Arithmetic DEF Opened, IInv, TypeOK, Deposit
<1>2. /\ balance \in Nat /\ power \in Nat
      /\ paid \in Nat /\ paid <= UnclaimedReward(id)
  BY <1>1, StakerAssumption DEF EarningPower, AlterClaimer
<1>3. /\ deposits' = [deposits EXCEPT ![id] = new]
      /\ CheckpointGlobalReward /\ now' = now
      /\ UNCHANGED <<nextDepositId, rewardsIn, adminVars, eligible>>
  BY DEF AlterClaimer, clockVars
<1>4. /\ ReplaceEarningPower(d.owner, d.earningPower, power)
      /\ UNCHANGED <<totalStaked, depositorTotalStaked>>
      /\ UNCHANGED <<wallet, surrogate, stakerBalance>>
  BY DEF AlterClaimer, tokenVars
<1> HIDE DEF balance, power, paid, d
<1>5. new \in Deposit /\ new.rewardPerTokenCheckpoint = rewardPerTokenAccumulated
  <2>1. new \in Deposit
    BY <1>1, <1>2, CheckpointedOK, Zenon
  <2>2. new.rewardPerTokenCheckpoint = rewardPerTokenAccumulated
    BY DEF Checkpointed
  <2>3. QED
    BY <2>1, <2>2
<1> HIDE DEF new
<1>6. CheckpointsInOrder' /\ deposits' \in [DepositIds -> Deposit]
  BY <1>1, <1>3, <1>5, OrderKept
<1>7. totalEarningPower' \in Nat /\ depositorTotalEarningPower' \in [Accounts -> Nat]
  BY <1>1, <1>2, <1>4, ReplaceOK DEF IInv, TypeOK
<1>8. TypeOK'
  <2>1. totalStaked' \in Nat /\ stakerBalance' \in Nat
    BY <1>1, <1>2, <1>4, StakerAssumption DEF IInv, TypeOK
  <2>2. depositorTotalStaked' \in [Accounts -> Nat]
    BY <1>1, <1>2, <1>4, StakerAssumption DEF IInv, TypeOK
  <2>3. wallet' \in [Accounts -> Nat]
    BY <1>1, <1>2, <1>4, StakerAssumption DEF IInv, TypeOK
  <2>4. surrogate' \in [Delegatees -> Nat]
    BY <1>1, <1>2, <1>4, StakerAssumption DEF IInv, TypeOK
  <2>5. QED
    BY <1>3, <1>6, <1>7, <2>1, <2>2, <2>3, <2>4, GlobalCheckpointOrdered
       DEF IInv, TypeOK, adminVars
<1>9. QED
  BY <1>6, <1>8 DEF IInv

LEMMA WithdrawIInv ==
  ASSUME IInv, NEW id \in Opened, NEW amount \in StakeAmounts,
         Withdraw(id, amount)
  PROVE  IInv'
<1> DEFINE d == deposits[id]
           balance == d.balance - amount
           power == EarningPower(balance, d.delegatee)
           paid == 0
           new == Checkpointed(id, balance, d.delegatee, d.claimer, power, paid)
<1>1. /\ id \in DepositIds
      /\ d.balance \in Nat /\ d.earningPower \in Nat
      /\ d.owner \in Accounts \cup {NoAccount} /\ d.claimer \in Accounts \cup {NoAccount}
      /\ d.delegatee \in Delegatees \cup {NoAccount}
      /\ UnclaimedReward(id) \in Nat
  BY Arithmetic DEF Opened, IInv, TypeOK, Deposit
<1>2. /\ balance \in Nat /\ power \in Nat
      /\ paid \in Nat /\ paid <= UnclaimedReward(id) /\ amount \in Nat
  BY <1>1, StakerAssumption DEF EarningPower, Withdraw
<1>3. /\ deposits' = [deposits EXCEPT ![id] = new]
      /\ CheckpointGlobalReward /\ now' = now
      /\ UNCHANGED <<nextDepositId, rewardsIn, adminVars, eligible>>
  BY DEF Withdraw, clockVars
<1>4. /\ ReplaceEarningPower(d.owner, d.earningPower, power)
      /\ d.balance >= amount /\ totalStaked >= amount /\ depositorTotalStaked[d.owner] >= amount
      /\ totalStaked' = totalStaked - amount
      /\ depositorTotalStaked' = [depositorTotalStaked EXCEPT ![d.owner] = @ - amount]
      /\ surrogate[d.delegatee] >= amount /\ stakerBalance' = stakerBalance
      /\ surrogate' = [surrogate EXCEPT ![d.delegatee] = @ - amount]
      /\ wallet' = [wallet EXCEPT ![d.owner] = @ + amount]
  BY DEF Withdraw
<1> HIDE DEF balance, power, paid, d
<1>5. new \in Deposit /\ new.rewardPerTokenCheckpoint = rewardPerTokenAccumulated
  <2>1. new \in Deposit
    BY <1>1, <1>2, CheckpointedOK, Zenon
  <2>2. new.rewardPerTokenCheckpoint = rewardPerTokenAccumulated
    BY DEF Checkpointed
  <2>3. QED
    BY <2>1, <2>2
<1> HIDE DEF new
<1>6. CheckpointsInOrder' /\ deposits' \in [DepositIds -> Deposit]
  BY <1>1, <1>3, <1>5, OrderKept
<1>7. totalEarningPower' \in Nat /\ depositorTotalEarningPower' \in [Accounts -> Nat]
  BY <1>1, <1>2, <1>4, ReplaceOK DEF IInv, TypeOK
<1>8. TypeOK'
  <2>1. totalStaked' \in Nat /\ stakerBalance' \in Nat
    BY <1>2, <1>4, CreditEntry, DebitEntry DEF IInv, TypeOK
  <2>2. depositorTotalStaked' \in [Accounts -> Nat]
    BY <1>2, <1>4, CreditEntry, DebitEntry DEF IInv, TypeOK
  <2>3. wallet' \in [Accounts -> Nat]
    BY <1>2, <1>4, CreditEntry, DebitEntry DEF IInv, TypeOK
  <2>4. surrogate' \in [Delegatees -> Nat]
    BY <1>2, <1>4, CreditEntry, DebitEntry DEF IInv, TypeOK
  <2>5. QED
    BY <1>3, <1>6, <1>7, <2>1, <2>2, <2>3, <2>4, GlobalCheckpointOrdered
       DEF IInv, TypeOK, adminVars
<1>9. QED
  BY <1>6, <1>8 DEF IInv

LEMMA ClaimNothingIInv ==
  ASSUME IInv, NEW id \in Opened, NEW caller \in Accounts,
         ClaimNothing(id, caller)
  PROVE  IInv'
<1> DEFINE d == deposits[id]
           balance == d.balance
           power == d.earningPower
           paid == 0
           new == Checkpointed(id, balance, d.delegatee, d.claimer, power, paid)
<1>1. /\ id \in DepositIds
      /\ d.balance \in Nat /\ d.earningPower \in Nat
      /\ d.owner \in Accounts \cup {NoAccount} /\ d.claimer \in Accounts \cup {NoAccount}
      /\ d.delegatee \in Delegatees \cup {NoAccount}
      /\ UnclaimedReward(id) \in Nat
  BY Arithmetic DEF Opened, IInv, TypeOK, Deposit
<1>2. /\ balance \in Nat /\ power \in Nat
      /\ paid \in Nat /\ paid <= UnclaimedReward(id)
  BY <1>1, StakerAssumption DEF EarningPower, ClaimNothing
<1>3. /\ deposits' = [deposits EXCEPT ![id] = new]
      /\ CheckpointGlobalReward /\ now' = now
      /\ UNCHANGED <<nextDepositId, rewardsIn, adminVars, eligible>>
  BY DEF ClaimNothing, clockVars
<1>4. /\ UNCHANGED <<totalStaked, depositorTotalStaked>>
      /\ UNCHANGED <<totalEarningPower, depositorTotalEarningPower>>
      /\ UNCHANGED <<wallet, surrogate, stakerBalance>>
  BY DEF ClaimNothing, tokenVars
<1> HIDE DEF balance, power, paid, d
<1>5. new \in Deposit /\ new.rewardPerTokenCheckpoint = rewardPerTokenAccumulated
  <2>1. new \in Deposit
    BY <1>1, <1>2, CheckpointedOK, Zenon
  <2>2. new.rewardPerTokenCheckpoint = rewardPerTokenAccumulated
    BY DEF Checkpointed
  <2>3. QED
    BY <2>1, <2>2
<1> HIDE DEF new
<1>6. CheckpointsInOrder' /\ deposits' \in [DepositIds -> Deposit]
  BY <1>1, <1>3, <1>5, OrderKept
<1>7. totalEarningPower' \in Nat /\ depositorTotalEarningPower' \in [Accounts -> Nat]
  BY <1>4 DEF IInv, TypeOK
<1>8. TypeOK'
  <2>1. totalStaked' \in Nat /\ stakerBalance' \in Nat
    BY <1>1, <1>2, <1>4, StakerAssumption DEF IInv, TypeOK
  <2>2. depositorTotalStaked' \in [Accounts -> Nat]
    BY <1>1, <1>2, <1>4, StakerAssumption DEF IInv, TypeOK
  <2>3. wallet' \in [Accounts -> Nat]
    BY <1>1, <1>2, <1>4, StakerAssumption DEF IInv, TypeOK
  <2>4. surrogate' \in [Delegatees -> Nat]
    BY <1>1, <1>2, <1>4, StakerAssumption DEF IInv, TypeOK
  <2>5. QED
    BY <1>3, <1>6, <1>7, <2>1, <2>2, <2>3, <2>4, GlobalCheckpointOrdered
       DEF IInv, TypeOK, adminVars
<1>9. QED
  BY <1>6, <1>8 DEF IInv

LEMMA ClaimRewardIInv ==
  ASSUME IInv, NEW id \in Opened, NEW caller \in Accounts,
         ClaimReward(id, caller)
  PROVE  IInv'
<1> DEFINE d == deposits[id]
           balance == d.balance
           power == EarningPower(d.balance, d.delegatee)
           paid == UnclaimedReward(id)
           new == Checkpointed(id, balance, d.delegatee, d.claimer, power, paid)
<1>1. /\ id \in DepositIds
      /\ d.balance \in Nat /\ d.earningPower \in Nat
      /\ d.owner \in Accounts \cup {NoAccount} /\ d.claimer \in Accounts \cup {NoAccount}
      /\ d.delegatee \in Delegatees \cup {NoAccount}
      /\ UnclaimedReward(id) \in Nat
  BY Arithmetic DEF Opened, IInv, TypeOK, Deposit
<1>2. /\ balance \in Nat /\ power \in Nat
      /\ paid \in Nat /\ paid <= UnclaimedReward(id)
  BY <1>1, StakerAssumption DEF EarningPower, ClaimReward
<1>3. /\ deposits' = [deposits EXCEPT ![id] = new]
      /\ CheckpointGlobalReward /\ now' = now
      /\ UNCHANGED <<nextDepositId, rewardsIn, adminVars, eligible>>
  BY DEF ClaimReward, clockVars
<1>4. /\ ReplaceEarningPower(d.owner, d.earningPower, power)
      /\ UNCHANGED <<totalStaked, depositorTotalStaked>>
      /\ surrogate' = surrogate /\ paid > claimFee /\ stakerBalance >= paid
      /\ stakerBalance' = stakerBalance - paid
      /\ wallet' = [acct \in Accounts |->
           wallet[acct] + (IF acct = caller THEN paid - claimFee ELSE 0)
                        + (IF acct = feeCollector THEN claimFee ELSE 0)]
  BY DEF ClaimReward
<1> HIDE DEF balance, power, paid, d
<1>5. new \in Deposit /\ new.rewardPerTokenCheckpoint = rewardPerTokenAccumulated
  <2>1. new \in Deposit
    BY <1>1, <1>2, CheckpointedOK, Zenon
  <2>2. new.rewardPerTokenCheckpoint = rewardPerTokenAccumulated
    BY DEF Checkpointed
  <2>3. QED
    BY <2>1, <2>2
<1> HIDE DEF new
<1>6. CheckpointsInOrder' /\ deposits' \in [DepositIds -> Deposit]
  BY <1>1, <1>3, <1>5, OrderKept
<1>7. totalEarningPower' \in Nat /\ depositorTotalEarningPower' \in [Accounts -> Nat]
  BY <1>1, <1>2, <1>4, ReplaceOK DEF IInv, TypeOK
<1>8. TypeOK'
  <2>1. totalStaked' \in Nat /\ stakerBalance' \in Nat
    BY <1>1, <1>2, <1>4, StakerAssumption DEF IInv, TypeOK
  <2>2. depositorTotalStaked' \in [Accounts -> Nat]
    BY <1>1, <1>2, <1>4, StakerAssumption DEF IInv, TypeOK
  <2>3. wallet' \in [Accounts -> Nat]
    BY <1>1, <1>2, <1>4, StakerAssumption DEF IInv, TypeOK
  <2>4. surrogate' \in [Delegatees -> Nat]
    BY <1>1, <1>2, <1>4, StakerAssumption DEF IInv, TypeOK
  <2>5. QED
    BY <1>3, <1>6, <1>7, <2>1, <2>2, <2>3, <2>4, GlobalCheckpointOrdered
       DEF IInv, TypeOK, adminVars
<1>9. QED
  BY <1>6, <1>8 DEF IInv

LEMMA BumpEarningPowerIInv ==
  ASSUME IInv, NEW id \in Opened, NEW receiver \in Accounts, NEW tip \in Tips,
         BumpEarningPower(id, receiver, tip)
  PROVE  IInv'
<1> DEFINE d == deposits[id]
           balance == d.balance
           power == EarningPower(d.balance, d.delegatee)
           paid == tip
           new == Checkpointed(id, balance, d.delegatee, d.claimer, power, paid)
<1>1. /\ id \in DepositIds
      /\ d.balance \in Nat /\ d.earningPower \in Nat
      /\ d.owner \in Accounts \cup {NoAccount} /\ d.claimer \in Accounts \cup {NoAccount}
      /\ d.delegatee \in Delegatees \cup {NoAccount}
      /\ UnclaimedReward(id) \in Nat
  BY Arithmetic DEF Opened, IInv, TypeOK, Deposit
<1>2. /\ balance \in Nat /\ power \in Nat
      /\ paid \in Nat /\ paid <= UnclaimedReward(id)
  BY <1>1, StakerAssumption DEF EarningPower, BumpEarningPower
<1>3. /\ deposits' = [deposits EXCEPT ![id] = new]
      /\ CheckpointGlobalReward /\ now' = now
      /\ UNCHANGED <<nextDepositId, rewardsIn, adminVars, eligible>>
  BY DEF BumpEarningPower, clockVars
<1>4. /\ ReplaceEarningPower(d.owner, d.earningPower, power)
      /\ UNCHANGED <<totalStaked, depositorTotalStaked>>
      /\ surrogate' = surrogate /\ stakerBalance >= paid
      /\ stakerBalance' = stakerBalance - paid
      /\ wallet' = [wallet EXCEPT ![receiver] = @ + paid]
  BY DEF BumpEarningPower
<1> HIDE DEF balance, power, paid, d
<1>5. new \in Deposit /\ new.rewardPerTokenCheckpoint = rewardPerTokenAccumulated
  <2>1. new \in Deposit
    BY <1>1, <1>2, CheckpointedOK, Zenon
  <2>2. new.rewardPerTokenCheckpoint = rewardPerTokenAccumulated
    BY DEF Checkpointed
  <2>3. QED
    BY <2>1, <2>2
<1> HIDE DEF new
<1>6. CheckpointsInOrder' /\ deposits' \in [DepositIds -> Deposit]
  BY <1>1, <1>3, <1>5, OrderKept
<1>7. totalEarningPower' \in Nat /\ depositorTotalEarningPower' \in [Accounts -> Nat]
  BY <1>1, <1>2, <1>4, ReplaceOK DEF IInv, TypeOK
<1>8. TypeOK'
  <2>1. totalStaked' \in Nat /\ stakerBalance' \in Nat
    BY <1>1, <1>2, <1>4, StakerAssumption DEF IInv, TypeOK
  <2>2. depositorTotalStaked' \in [Accounts -> Nat]
    BY <1>1, <1>2, <1>4, StakerAssumption DEF IInv, TypeOK
  <2>3. wallet' \in [Accounts -> Nat]
    BY <1>1, <1>2, <1>4, StakerAssumption DEF IInv, TypeOK
  <2>4. surrogate' \in [Delegatees -> Nat]
    BY <1>1, <1>2, <1>4, StakerAssumption DEF IInv, TypeOK
  <2>5. QED
    BY <1>3, <1>6, <1>7, <2>1, <2>2, <2>3, <2>4, GlobalCheckpointOrdered
       DEF IInv, TypeOK, adminVars
<1>9. QED
  BY <1>6, <1>8 DEF IInv

LEMMA NotifyRewardAmountIInv ==
  ASSUME IInv, NEW notifier \in Notifiers, NEW amount \in Nat,
         NotifyRewardAmount(notifier, amount)
  PROVE  IInv'
<1> USE StakerAssumption
<1> DEFINE remaining == IF now >= rewardEndTime THEN 0
                          ELSE scaledRewardRate * (rewardEndTime - now)
           rate == (remaining + amount * SCALE_FACTOR) \div REWARD_DURATION
<1>1. amount \in Nat /\ amount * SCALE_FACTOR \in Nat
  BY MulNat
<1>2. remaining \in Nat
  BY MulNat DEF IInv, TypeOK
<1>3. rate \in Nat
  BY <1>1, <1>2, DivNat
<1>4. scaledRewardRate' = rate
  BY DEF NotifyRewardAmount
<1> HIDE DEF rate
<1>5. TypeOK'
  BY <1>1, <1>3, <1>4, Arithmetic
     DEF IInv, TypeOK, NotifyRewardAmount, depositVars, adminVars
<1>6. CheckpointsInOrder'
  BY Arithmetic
     DEF IInv, TypeOK, CheckpointsInOrder, NotifyRewardAmount, Deposit, depositVars
<1>7. QED
  BY <1>5, <1>6 DEF IInv

LEMMA AdminIInv ==
  ASSUME IInv, NEW caller \in Admins, AdminCall(caller)
  PROVE  IInv'
  BY StakerAssumption
     DEF IInv, TypeOK, CheckpointsInOrder, AdminCall, SetAdmin, SetRewardNotifier,
         SetClaimFeeParameters, SetMaxBumpTip, SetEarningPowerCalculator,
         clockVars, depositVars, rewardVars, adminVars, tokenVars

LEMMA TickIInv == ASSUME IInv, Tick PROVE IInv'
  BY StakerAssumption
     DEF IInv, TypeOK, CheckpointsInOrder, Tick, depositVars, rewardVars, adminVars,
         tokenVars

LEMMA StutterIInv == ASSUME IInv, UNCHANGED vars PROVE IInv'
  BY DEF IInv, TypeOK, CheckpointsInOrder, vars, clockVars, depositVars, rewardVars,
         adminVars, tokenVars

LEMMA NextIInv == IInv /\ [Next]_vars => IInv'
<1> SUFFICES ASSUME IInv, [Next]_vars PROVE IInv'
  OBVIOUS
<1>1. CASE \E depositor, claimer \in Accounts, delegatee \in Delegatees,
             amount \in StakeAmounts : Stake(depositor, amount, delegatee, claimer)
  BY <1>1, StakeIInv
<1>2. CASE \E id \in Opened : DepositCall(id)
  BY <1>2, StakeMoreIInv, WithdrawIInv, AlterDelegateeIInv, AlterClaimerIInv,
     ClaimRewardIInv, ClaimNothingIInv, BumpEarningPowerIInv DEF DepositCall
<1>3. CASE \E notifier \in Notifiers, amount \in RewardAmounts :
             NotifyRewardAmount(notifier, amount)
  BY <1>3, NotifyRewardAmountIInv, StakerAssumption
<1>4. CASE \E caller \in Admins : AdminCall(caller)
  BY <1>4, AdminIInv
<1>5. CASE Tick
  BY <1>5, TickIInv
<1>6. CASE UNCHANGED vars
  BY <1>6, StutterIInv
<1>7. QED
  BY <1>1, <1>2, <1>3, <1>4, <1>5, <1>6 DEF Next, StakingNext

\* Every reachable state is well typed: no balance, total, rate or reward of the
\* pool is ever negative, for any duration, scale, fees, tips and callers.
THEOREM TypeCorrect == Spec => []TypeOK
<1>1. IInv => TypeOK
  BY DEF IInv
<1>2. QED
  BY <1>1, InitIInv, NextIInv, PTL DEF Spec

\* The reward arithmetic never underflows: the stored time and accumulator are
\* never ahead of the live ones, nor a deposit's checkpoint ahead of the pool's.
THEOREM CheckpointOrder == Spec => []CheckpointsInOrder
<1>1. IInv => CheckpointsInOrder
  BY DEF IInv
<1>2. QED
  BY <1>1, InitIInv, NextIInv, PTL DEF Spec

(***************************************************************************)
(* What a call may do to rewards already earned.                           *)
(***************************************************************************)

\* A global checkpoint leaves the live accumulator where it was, whatever the
\* call then does to the total earning power.
LEMMA CheckpointFreezes ==
  ASSUME IInv, IInv', CheckpointGlobalReward, now' = now
  PROVE  rewardPerTokenAccumulated' = rewardPerTokenAccumulated
<1>1. lastTimeRewardDistributed' = lastCheckpointTime'
  BY DEF lastTimeRewardDistributed, CheckpointGlobalReward
<1>2. /\ rewardPerTokenAccumulated \in Nat /\ totalEarningPower' \in Nat
      /\ scaledRewardRate' \in Nat /\ lastCheckpointTime' \in Nat
  BY Arithmetic DEF IInv, TypeOK
<1>3. scaledRewardRate' * (lastTimeRewardDistributed' - lastCheckpointTime') = 0
  BY <1>1, <1>2, NoTimeNoReward
<1>4. CASE totalEarningPower' = 0
  BY <1>4 DEF rewardPerTokenAccumulated, CheckpointGlobalReward
<1>5. CASE totalEarningPower' # 0
  BY <1>2, <1>3, <1>5, ZeroDiv DEF rewardPerTokenAccumulated, CheckpointGlobalReward
<1>6. QED
  BY <1>4, <1>5

\* New rewards start from the accumulator as it stands.
LEMMA NotifyFreezes ==
  ASSUME IInv, IInv', NEW notifier \in Notifiers, NEW amount \in Nat,
         NotifyRewardAmount(notifier, amount)
  PROVE  rewardPerTokenAccumulated' = rewardPerTokenAccumulated
<1>1. /\ now' = now /\ lastCheckpointTime' = now /\ rewardEndTime' = now + REWARD_DURATION
      /\ rewardPerTokenAccumulatedCheckpoint' = rewardPerTokenAccumulated
      /\ totalEarningPower' = totalEarningPower
  BY DEF NotifyRewardAmount, depositVars
<1>2. /\ rewardPerTokenAccumulated \in Nat /\ totalEarningPower \in Nat
      /\ scaledRewardRate' \in Nat /\ now \in Nat
  BY Arithmetic DEF IInv, TypeOK
<1>3. lastTimeRewardDistributed' = now
  BY <1>1, <1>2, StakerAssumption DEF lastTimeRewardDistributed
<1>4. scaledRewardRate' * (lastTimeRewardDistributed' - lastCheckpointTime') = 0
  BY <1>1, <1>2, <1>3, NoTimeNoReward
<1>5. CASE totalEarningPower = 0
  BY <1>1, <1>5 DEF rewardPerTokenAccumulated
<1>6. CASE totalEarningPower # 0
  <2>1. 0 \div totalEarningPower = 0
    BY <1>2, <1>6, ZeroDiv
  <2>2. rewardPerTokenAccumulated' = rewardPerTokenAccumulatedCheckpoint' + 0 \div totalEarningPower
    BY <1>1, <1>4, <1>6 DEF rewardPerTokenAccumulated
  <2>3. QED
    BY <1>1, <1>2, <2>1, <2>2
<1>7. QED
  BY <1>5, <1>6

\* A deposit's call settles that deposit, less what it paid out, and no other.
LEMMA Settle ==
  ASSUME IInv, IInv', CheckpointGlobalReward, now' = now, NEW id \in Opened,
         NEW balance, NEW delegatee, NEW claimer, NEW power \in Nat, NEW paid \in Nat,
         deposits' = [deposits EXCEPT ![id] =
                        Checkpointed(id, balance, delegatee, claimer, power, paid)]
  PROVE  /\ ScaledUnclaimedReward(id)' = ScaledUnclaimedReward(id) - paid * SCALE_FACTOR
         /\ \A other \in Opened \ {id} :
              ScaledUnclaimedReward(other)' = ScaledUnclaimedReward(other)
<1>1. rewardPerTokenAccumulated' = rewardPerTokenAccumulated
  BY CheckpointFreezes
<1>2. /\ id \in DepositIds /\ ScaledUnclaimedReward(id) \in Nat
      /\ rewardPerTokenAccumulated \in Nat
      /\ paid * SCALE_FACTOR \in Nat
  BY Arithmetic, MulNat, StakerAssumption DEF Opened
<1>3. ScaledUnclaimedReward(id)' = ScaledUnclaimedReward(id) - paid * SCALE_FACTOR
  <2>1. deposits'[id] = Checkpointed(id, balance, delegatee, claimer, power, paid)
    BY <1>2 DEF IInv, TypeOK
  <2>2. /\ deposits'[id].earningPower = power
        /\ deposits'[id].rewardPerTokenCheckpoint = rewardPerTokenAccumulated
        /\ deposits'[id].scaledUnclaimedRewardCheckpoint
             = ScaledUnclaimedReward(id) - paid * SCALE_FACTOR
    BY <2>1 DEF Checkpointed
  <2>3. ScaledUnclaimedReward(id)'
          = ScaledUnclaimedReward(id) - paid * SCALE_FACTOR
              + power * (rewardPerTokenAccumulated - rewardPerTokenAccumulated)
    BY <1>1, <2>2 DEF ScaledUnclaimedReward
  <2>4. power * (rewardPerTokenAccumulated - rewardPerTokenAccumulated) = 0
    BY <1>2
  <2>5. QED
    BY <1>2, <2>3, <2>4
<1>4. ASSUME NEW other \in Opened \ {id}
      PROVE  ScaledUnclaimedReward(other)' = ScaledUnclaimedReward(other)
  <2>1. deposits'[other] = deposits[other]
    BY <1>2 DEF IInv, TypeOK, Opened
  <2>2. QED
    BY <1>1, <2>1 DEF ScaledUnclaimedReward
<1>5. QED
  BY <1>3, <1>4

\* One call on an open deposit: the pool is checkpointed, the deposit is written
\* back with its checkpoint, and at most its reward is paid out; a call that pays
\* leaves the stake alone.
LEMMA DepositCallShape ==
  ASSUME IInv, NEW id \in Opened, DepositCall(id)
  PROVE  /\ CheckpointGlobalReward /\ now' = now /\ rewardsIn' = rewardsIn
         /\ nextDepositId' = nextDepositId
         /\ \E balance, delegatee, claimer, power, paid :
              /\ balance \in Nat /\ power \in Nat /\ paid \in Nat
              /\ paid <= UnclaimedReward(id)
              /\ paid # 0 => balance = deposits[id].balance
              /\ stakerBalance' = stakerBalance - paid
              /\ deposits' = [deposits EXCEPT ![id] =
                                Checkpointed(id, balance, delegatee, claimer, power, paid)]
<1> DEFINE d == deposits[id]
           Shape(balance, delegatee, claimer, power, paid) ==
             /\ balance \in Nat /\ power \in Nat /\ paid \in Nat
             /\ paid <= UnclaimedReward(id)
             /\ paid # 0 => balance = d.balance
             /\ stakerBalance' = stakerBalance - paid
             /\ deposits' = [deposits EXCEPT ![id] =
                               Checkpointed(id, balance, delegatee, claimer, power, paid)]
           Shaped == \E balance, delegatee, claimer, power, paid :
                       Shape(balance, delegatee, claimer, power, paid)
<1>1. /\ d.balance \in Nat /\ d.earningPower \in Nat /\ UnclaimedReward(id) \in Nat
      /\ stakerBalance \in Nat /\ id \in DepositIds
  BY Arithmetic DEF Opened, IInv, TypeOK, Deposit
<1>2. /\ CheckpointGlobalReward /\ now' = now /\ rewardsIn' = rewardsIn
      /\ nextDepositId' = nextDepositId
  BY DEF DepositCall, StakeMore, Withdraw, AlterDelegatee, AlterClaimer, ClaimReward,
         ClaimNothing, BumpEarningPower, clockVars
<1>3. Shaped
  <2>1. ASSUME NEW amount \in StakeAmounts, StakeMore(id, amount) PROVE Shaped
    <3>1. d.balance + amount \in Nat /\ EarningPower(d.balance + amount, d.delegatee) \in Nat
      BY <1>1, StakerAssumption DEF EarningPower
    <3>2. stakerBalance' = stakerBalance - 0
      BY <1>1, <2>1 DEF StakeMore
    <3>3. Shape(d.balance + amount, d.delegatee, d.claimer,
                EarningPower(d.balance + amount, d.delegatee), 0)
      BY <1>1, <2>1, <3>1, <3>2 DEF StakeMore
    <3>4. QED
      BY <3>3
  <2>2. ASSUME NEW amount \in StakeAmounts, Withdraw(id, amount) PROVE Shaped
    <3>1. d.balance - amount \in Nat /\ EarningPower(d.balance - amount, d.delegatee) \in Nat
      BY <1>1, <2>2, StakerAssumption DEF EarningPower, Withdraw
    <3>2. stakerBalance' = stakerBalance - 0
      BY <1>1, <2>2 DEF Withdraw
    <3>3. Shape(d.balance - amount, d.delegatee, d.claimer,
                EarningPower(d.balance - amount, d.delegatee), 0)
      BY <1>1, <2>2, <3>1, <3>2 DEF Withdraw
    <3>4. QED
      BY <3>3
  <2>3. ASSUME NEW delegatee \in Delegatees, AlterDelegatee(id, delegatee) PROVE Shaped
    <3>1. EarningPower(d.balance, delegatee) \in Nat
      BY <1>1 DEF EarningPower
    <3>2. stakerBalance' = stakerBalance - 0
      BY <1>1, <2>3 DEF AlterDelegatee
    <3>3. Shape(d.balance, delegatee, d.claimer, EarningPower(d.balance, delegatee), 0)
      BY <1>1, <2>3, <3>1, <3>2 DEF AlterDelegatee
    <3>4. QED
      BY <3>3
  <2>4. EarningPower(d.balance, d.delegatee) \in Nat
    BY <1>1 DEF EarningPower
  <2>5. ASSUME NEW claimer \in Accounts, AlterClaimer(id, claimer) PROVE Shaped
    <3>1. stakerBalance' = stakerBalance - 0
      BY <1>1, <2>5 DEF AlterClaimer, tokenVars
    <3>2. Shape(d.balance, d.delegatee, claimer, EarningPower(d.balance, d.delegatee), 0)
      BY <1>1, <2>4, <2>5, <3>1 DEF AlterClaimer
    <3>3. QED
      BY <3>2
  <2>6. ASSUME NEW caller \in Accounts, ClaimReward(id, caller) PROVE Shaped
    <3>1. Shape(d.balance, d.delegatee, d.claimer, EarningPower(d.balance, d.delegatee),
                UnclaimedReward(id))
      BY <1>1, <2>4, <2>6 DEF ClaimReward
    <3>2. QED
      BY <3>1
  <2>7. ASSUME NEW caller \in Accounts, ClaimNothing(id, caller) PROVE Shaped
    <3>1. stakerBalance' = stakerBalance - 0
      BY <1>1, <2>7 DEF ClaimNothing, tokenVars
    <3>2. Shape(d.balance, d.delegatee, d.claimer, d.earningPower, 0)
      BY <1>1, <2>7, <3>1 DEF ClaimNothing
    <3>3. QED
      BY <3>2
  <2>8. ASSUME NEW receiver \in Accounts, NEW tip \in Tips,
               BumpEarningPower(id, receiver, tip)
        PROVE  Shaped
    <3>1. tip \in Nat /\ tip <= UnclaimedReward(id)
      BY <1>1, <2>4, <2>8, StakerAssumption DEF BumpEarningPower
    <3>2. Shape(d.balance, d.delegatee, d.claimer, EarningPower(d.balance, d.delegatee), tip)
      BY <1>1, <2>4, <2>8, <3>1 DEF BumpEarningPower
    <3>3. QED
      BY <3>2
  <2>9. QED
    BY <2>1, <2>2, <2>3, <2>5, <2>6, <2>7, <2>8 DEF DepositCall
<1>4. QED
  BY <1>2, <1>3

\* The same call, in the terms of EarnedRewardsKept.
LEMMA DepositCallSettles ==
  ASSUME IInv, IInv', NEW id \in Opened, DepositCall(id)
  PROVE  /\ CheckpointGlobalReward /\ now' = now
         /\ \E paid \in Nat :
              /\ stakerBalance' = stakerBalance - paid
              /\ ScaledUnclaimedReward(id)' = ScaledUnclaimedReward(id) - paid * SCALE_FACTOR
         /\ \A other \in Opened \ {id} :
              ScaledUnclaimedReward(other)' = ScaledUnclaimedReward(other)
<1>1. CheckpointGlobalReward /\ now' = now
  BY DepositCallShape
<1>2. PICK balance, delegatee, claimer, power, paid :
        /\ power \in Nat /\ paid \in Nat /\ stakerBalance' = stakerBalance - paid
        /\ deposits' = [deposits EXCEPT ![id] =
                          Checkpointed(id, balance, delegatee, claimer, power, paid)]
  BY DepositCallShape
<1>3. QED
  BY <1>1, <1>2, Settle

\* Every step either lets time pass or leaves the live accumulator alone.
LEMMA StepAccumulator ==
  ASSUME IInv, IInv', [Next]_vars
  PROVE  \/ Tick
         \/ now' = now /\ rewardPerTokenAccumulated' = rewardPerTokenAccumulated
<1>1. ASSUME NEW depositor \in Accounts, NEW claimer \in Accounts,
             NEW delegatee \in Delegatees, NEW amount \in StakeAmounts,
             Stake(depositor, amount, delegatee, claimer)
      PROVE  now' = now /\ rewardPerTokenAccumulated' = rewardPerTokenAccumulated
  BY <1>1, CheckpointFreezes DEF Stake, clockVars
<1>2. ASSUME NEW id \in Opened, DepositCall(id)
      PROVE  now' = now /\ rewardPerTokenAccumulated' = rewardPerTokenAccumulated
  BY <1>2, DepositCallSettles, CheckpointFreezes
<1>3. ASSUME NEW notifier \in Notifiers, NEW amount \in RewardAmounts,
             NotifyRewardAmount(notifier, amount)
      PROVE  now' = now /\ rewardPerTokenAccumulated' = rewardPerTokenAccumulated
  BY <1>3, NotifyFreezes, StakerAssumption DEF NotifyRewardAmount
<1>4. ASSUME UNCHANGED <<now, depositVars, rewardVars>>
      PROVE  now' = now /\ rewardPerTokenAccumulated' = rewardPerTokenAccumulated
  BY <1>4 DEF depositVars, rewardVars, rewardPerTokenAccumulated, lastTimeRewardDistributed
<1>5. ASSUME NEW caller \in Admins, AdminCall(caller)
      PROVE  UNCHANGED <<now, depositVars, rewardVars>>
  BY <1>5 DEF AdminCall, SetAdmin, SetRewardNotifier, SetClaimFeeParameters,
              SetMaxBumpTip, SetEarningPowerCalculator, clockVars
<1>6. UNCHANGED vars => UNCHANGED <<now, depositVars, rewardVars>>
  BY DEF vars, clockVars
<1>7. QED
  BY <1>1, <1>2, <1>3, <1>4, <1>5, <1>6 DEF Next, StakingNext

\* As time passes the accumulator can only grow.
LEMMA TickAccumulates ==
  ASSUME IInv, IInv', Tick
  PROVE  /\ rewardPerTokenAccumulated' \in Nat
         /\ rewardPerTokenAccumulated' >= rewardPerTokenAccumulated
<1> DEFINE before == lastTimeRewardDistributed - lastCheckpointTime
           after  == lastTimeRewardDistributed' - lastCheckpointTime
<1>1. /\ now' = now + 1 /\ UNCHANGED <<depositVars, rewardVars>>
      /\ now \in Nat /\ rewardEndTime \in Nat /\ lastCheckpointTime \in Nat
      /\ scaledRewardRate \in Nat /\ totalEarningPower \in Nat
      /\ rewardPerTokenAccumulatedCheckpoint \in Nat
  BY DEF Tick, IInv, TypeOK
<1>2. before \in Nat /\ after \in Nat /\ before <= after
  BY <1>1, Arithmetic DEF lastTimeRewardDistributed, rewardVars
<1>3. /\ scaledRewardRate * before <= scaledRewardRate * after
      /\ scaledRewardRate * before \in Nat /\ scaledRewardRate * after \in Nat
  BY <1>1, <1>2, MulMonotone, MulNat
<1>4. CASE totalEarningPower = 0
  BY <1>1, <1>4 DEF rewardPerTokenAccumulated, depositVars, rewardVars
<1>5. CASE totalEarningPower # 0
  <2>1. /\ (scaledRewardRate * before) \div totalEarningPower
             <= (scaledRewardRate * after) \div totalEarningPower
        /\ (scaledRewardRate * before) \div totalEarningPower \in Nat
        /\ (scaledRewardRate * after) \div totalEarningPower \in Nat
    BY <1>1, <1>3, <1>5, DivMonotone, DivNat
  <2>2. /\ rewardPerTokenAccumulated = rewardPerTokenAccumulatedCheckpoint
             + (scaledRewardRate * before) \div totalEarningPower
        /\ rewardPerTokenAccumulated' = rewardPerTokenAccumulatedCheckpoint
             + (scaledRewardRate * after) \div totalEarningPower
    BY <1>1, <1>5 DEF rewardPerTokenAccumulated, depositVars, rewardVars
  <2> HIDE DEF before, after
  <2>3. QED
    BY <1>1, <2>1, <2>2
<1>6. QED
  BY <1>4, <1>5

\* The live reward per token never decreases: this is what makes every earned
\* reward final, and what the comment on rewardPerTokenAccumulated says of it.
THEOREM AccumulatorNeverDecreases == Spec => AccumulatorMonotone
<1>1. IInv /\ IInv' /\ [Next]_vars => [rewardPerTokenAccumulated' >= rewardPerTokenAccumulated]_vars
  <2> SUFFICES ASSUME IInv, IInv', [Next]_vars
               PROVE  rewardPerTokenAccumulated' >= rewardPerTokenAccumulated
    OBVIOUS
  <2>1. rewardPerTokenAccumulated \in Nat
    BY Arithmetic
  <2>2. CASE Tick
    BY <2>2, TickAccumulates
  <2>3. CASE rewardPerTokenAccumulated' = rewardPerTokenAccumulated
    BY <2>1, <2>3
  <2>4. QED
    BY <2>2, <2>3, StepAccumulator
<1>2. Spec => []IInv
  BY InitIInv, NextIInv, PTL DEF Spec
<1>3. QED
  BY <1>1, <1>2, PTL DEF Spec, AccumulatorMonotone

\* Whatever happens at one moment, what each deposit has earned until then is
\* kept to the last scaled unit; only its own claim or bump lowers it, by exactly
\* the ZEN that left the contract.
THEOREM EarnedRewardsAreKept == Spec => EarnedRewardsKept
<1> DEFINE KeptFor(id) ==
             \/ ScaledUnclaimedReward(id)' = ScaledUnclaimedReward(id)
             \/ /\ \A other \in Opened \ {id} :
                     ScaledUnclaimedReward(other)' = ScaledUnclaimedReward(other)
                /\ ScaledUnclaimedReward(id) - ScaledUnclaimedReward(id)'
                     = (stakerBalance - stakerBalance') * SCALE_FACTOR
           Kept == now' = now => \A id \in Opened : KeptFor(id)
<1>1. ASSUME IInv, IInv', [Next]_vars, now' = now, NEW id \in Opened
      PROVE  KeptFor(id)
  <2>1. ASSUME NEW j \in Opened, DepositCall(j) PROVE KeptFor(id)
    <3>1. CASE j # id
      BY <1>1, <2>1, <3>1, DepositCallSettles
    <3>2. CASE j = id
      <4>1. PICK paid \in Nat :
              /\ stakerBalance' = stakerBalance - paid
              /\ ScaledUnclaimedReward(id)' = ScaledUnclaimedReward(id) - paid * SCALE_FACTOR
        BY <1>1, <2>1, <3>2, DepositCallSettles
      <4>2. /\ stakerBalance \in Nat /\ ScaledUnclaimedReward(id) \in Nat
            /\ paid * SCALE_FACTOR \in Nat
        BY <1>1, Arithmetic, MulNat, StakerAssumption DEF IInv, TypeOK, Opened
      <4>3. stakerBalance - stakerBalance' = paid
        BY <4>1, <4>2
      <4>4. QED
        BY <1>1, <2>1, <3>2, <4>1, <4>2, <4>3, DepositCallSettles
    <3>3. QED
      BY <3>1, <3>2
  <2>2. CASE deposits' = [deposits EXCEPT ![nextDepositId] = deposits'[nextDepositId]]
             /\ rewardPerTokenAccumulated' = rewardPerTokenAccumulated
    <3>1. deposits'[id] = deposits[id]
      BY <1>1, <2>2 DEF IInv, TypeOK, Opened
    <3>2. QED
      BY <2>2, <3>1 DEF ScaledUnclaimedReward
  <2>3. CASE deposits' = deposits /\ rewardPerTokenAccumulated' = rewardPerTokenAccumulated
    BY <2>3 DEF ScaledUnclaimedReward
  <2>4. ~Tick
    BY <1>1 DEF Tick, IInv, TypeOK
  <2>5. rewardPerTokenAccumulated' = rewardPerTokenAccumulated
    BY <1>1, <2>4, StepAccumulator
  <2>6. ASSUME NEW depositor \in Accounts, NEW claimer \in Accounts,
               NEW delegatee \in Delegatees, NEW amount \in StakeAmounts,
               Stake(depositor, amount, delegatee, claimer)
        PROVE  KeptFor(id)
    <3>1. deposits'[id] = deposits[id]
      BY <1>1, <2>6 DEF IInv, TypeOK, Opened, Stake
    <3>2. QED
      BY <2>5, <3>1 DEF ScaledUnclaimedReward
  <2>7. ASSUME NEW notifier \in Notifiers, NEW amount \in RewardAmounts,
               NotifyRewardAmount(notifier, amount)
        PROVE  deposits' = deposits
    BY <2>7 DEF NotifyRewardAmount, depositVars
  <2>8. ASSUME NEW caller \in Admins, AdminCall(caller) PROVE deposits' = deposits
    BY <2>8 DEF AdminCall, SetAdmin, SetRewardNotifier, SetClaimFeeParameters,
                SetMaxBumpTip, SetEarningPowerCalculator, depositVars
  <2>9. UNCHANGED vars => deposits' = deposits
    BY DEF vars, depositVars
  <2>10. QED
    BY <1>1, <2>1, <2>3, <2>4, <2>5, <2>6, <2>7, <2>8, <2>9 DEF Next, StakingNext
<1>2. IInv /\ IInv' /\ [Next]_vars => [Kept]_vars
  BY <1>1
<1>3. Spec => []IInv
  BY InitIInv, NextIInv, PTL DEF Spec
<1>4. QED
  BY <1>2, <1>3, PTL DEF Spec, EarnedRewardsKept
=============================================================================
