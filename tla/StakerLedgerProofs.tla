------------------------ MODULE StakerLedgerProofs ------------------------
(***************************************************************************)
(* What the staking contract keeps track of, for every value of the        *)
(* constants: its totals are the sums of the deposits, its surrogates hold *)
(* their stake, its balance covers their rewards; every deposit is a       *)
(* StakedPosition; and behind the RewardAccumulator no ZEN is lost.        *)
(***************************************************************************)
EXTENDS RewardAccumulator, StakerPosition, StakerSubgraph, StakerProofs

(***************************************************************************)
(* Besides types and checkpoint order, the mapping needs to know that an   *)
(* identifier not yet used holds nothing: its reward is zero; and that no  *)
(* deposit earns by more than its stake: one without stake earns nothing.  *)
(***************************************************************************)

UnopenedAreEmpty == \A id \in DepositIds : id >= nextDepositId => deposits[id] = EmptyDeposit

PowerWithinStake == \A id \in DepositIds : deposits[id].earningPower <= deposits[id].balance

PInv == IInv /\ UnopenedAreEmpty /\ PowerWithinStake

LEMMA InitPInv == Init => PInv
  BY InitIInv DEF Init, PInv, UnopenedAreEmpty, PowerWithinStake, EmptyDeposit

\* Every call of a depositor, and every bump, asks the calculator again, for the stake it
\* leaves; a claim of nothing leaves stake and power as they were.
LEMMA PowerReplaced ==
  ASSUME IInv, NEW id \in Opened, DepositCall(id)
  PROVE  LET d == deposits'[id] IN
         \/ d.earningPower <= d.balance
         \/ d.earningPower = deposits[id].earningPower /\ d.balance = deposits[id].balance
<1> DEFINE d == deposits[id]
           Fits(e) == \/ e.earningPower <= e.balance
                      \/ e.earningPower = d.earningPower /\ e.balance = d.balance
<1>1. d.balance \in Nat /\ id \in DepositIds /\ deposits \in [DepositIds -> Deposit]
  BY DEF Opened, IInv, TypeOK, Deposit
<1>2. ASSUME NEW balance \in Nat, NEW delegatee, NEW by, NEW to, NEW paid,
             deposits' = [deposits EXCEPT ![id] =
               Checkpointed(id, balance, to, by, EarningPower(balance, delegatee), paid)]
      PROVE  Fits(deposits'[id])
  <2>1. EarningPower(balance, delegatee) <= balance
    BY DEF EarningPower
  <2>2. deposits'[id] = Checkpointed(id, balance, to, by, EarningPower(balance, delegatee), paid)
    BY <1>1, <1>2
  <2>3. QED
    BY <2>1, <2>2 DEF Checkpointed
<1>3. ASSUME NEW amount \in StakeAmounts, StakeMore(id, amount) PROVE Fits(deposits'[id])
  <2>1. d.balance + amount \in Nat
    BY <1>1, StakerAssumption
  <2>2. deposits' = [deposits EXCEPT ![id] =
          Checkpointed(id, d.balance + amount, d.delegatee, d.claimer,
                       EarningPower(d.balance + amount, d.delegatee), 0)]
    BY <1>3 DEF StakeMore
  <2>3. QED
    BY <1>2, <2>1, <2>2
<1>4. ASSUME NEW amount \in StakeAmounts, Withdraw(id, amount) PROVE Fits(deposits'[id])
  <2>1. d.balance - amount \in Nat
    BY <1>1, <1>4, StakerAssumption DEF Withdraw
  <2>2. deposits' = [deposits EXCEPT ![id] =
          Checkpointed(id, d.balance - amount, d.delegatee, d.claimer,
                       EarningPower(d.balance - amount, d.delegatee), 0)]
    BY <1>4 DEF Withdraw
  <2>3. QED
    BY <1>2, <2>1, <2>2
<1>5. ASSUME NEW delegatee \in Delegatees, AlterDelegatee(id, delegatee)
      PROVE  Fits(deposits'[id])
  BY <1>1, <1>2, <1>5 DEF AlterDelegatee
<1>6. ASSUME NEW claimer \in Accounts, AlterClaimer(id, claimer) PROVE Fits(deposits'[id])
  BY <1>1, <1>2, <1>6 DEF AlterClaimer
<1>7. ASSUME NEW caller \in Accounts, ClaimReward(id, caller) PROVE Fits(deposits'[id])
  BY <1>1, <1>2, <1>7 DEF ClaimReward
<1>8. ASSUME NEW caller \in Accounts, ClaimNothing(id, caller) PROVE Fits(deposits'[id])
  BY <1>1, <1>8 DEF ClaimNothing, Checkpointed
<1>9. ASSUME NEW receiver \in Accounts, NEW tip \in Tips, BumpEarningPower(id, receiver, tip)
      PROVE  Fits(deposits'[id])
  BY <1>1, <1>2, <1>9 DEF BumpEarningPower
<1> HIDE DEF Fits
<1>10. Fits(deposits'[id])
  BY <1>3, <1>4, <1>5, <1>6, <1>7, <1>8, <1>9 DEF DepositCall
<1>11. QED
  BY <1>10 DEF Fits

LEMMA NextPower == PInv /\ [Next]_vars => PowerWithinStake'
<1> SUFFICES ASSUME PInv, [Next]_vars PROVE PowerWithinStake'
  OBVIOUS
<1>1. deposits \in [DepositIds -> Deposit] /\ PowerWithinStake /\ IInv
  BY DEF PInv, IInv, TypeOK
<1>2. ASSUME NEW depositor \in Accounts, NEW claimer \in Accounts,
             NEW delegatee \in Delegatees, NEW amount \in StakeAmounts,
             Stake(depositor, amount, delegatee, claimer)
      PROVE  PowerWithinStake'
  <2>1. EarningPower(amount, delegatee) <= amount
    BY StakerAssumption DEF EarningPower
  <2> DEFINE d == [balance |-> amount, owner |-> depositor,
                   earningPower |-> EarningPower(amount, delegatee),
                   delegatee |-> delegatee, claimer |-> claimer,
                   rewardPerTokenCheckpoint |-> rewardPerTokenAccumulated,
                   scaledUnclaimedRewardCheckpoint |-> 0]
  <2>2. deposits' = [deposits EXCEPT ![nextDepositId] = d] /\ d.earningPower <= d.balance
    BY <1>2, <2>1 DEF Stake
  <2> HIDE DEF d
  <2>3. QED
    BY <1>1, <2>2 DEF PowerWithinStake
<1>3. ASSUME NEW id \in Opened, DepositCall(id) PROVE PowerWithinStake'
  <2>1. PICK d : deposits' = [deposits EXCEPT ![id] = d]
    BY <1>1, <1>3, DepositCallShape
  <2>2. deposits'[id].earningPower <= deposits'[id].balance
    BY <1>1, <1>3, PowerReplaced DEF PowerWithinStake, Opened
  <2>3. QED
    BY <1>1, <2>1, <2>2 DEF PowerWithinStake
<1>4. ASSUME UNCHANGED deposits PROVE PowerWithinStake'
  BY <1>1, <1>4 DEF PowerWithinStake
<1>5. QED
  BY <1>2, <1>3, <1>4
  DEF Next, StakingNext, NotifyRewardAmount, AdminCall, SetAdmin, SetRewardNotifier,
      SetClaimFeeParameters, SetMaxBumpTip, SetEarningPowerCalculator, Tick, vars, depositVars

LEMMA NextPInv == PInv /\ [Next]_vars => PInv'
<1> SUFFICES ASSUME PInv, [Next]_vars PROVE PInv'
  OBVIOUS
<1>1. IInv'
  BY NextIInv DEF PInv
<1>2. nextDepositId \in Nat /\ deposits \in [DepositIds -> Deposit]
  BY DEF PInv, IInv, TypeOK
<1>3. ASSUME NEW depositor \in Accounts, NEW claimer \in Accounts,
             NEW delegatee \in Delegatees, NEW amount \in StakeAmounts,
             Stake(depositor, amount, delegatee, claimer)
      PROVE  UnopenedAreEmpty'
  <2>1. nextDepositId' = nextDepositId + 1
    BY <1>3 DEF Stake
  <2>2. ASSUME NEW id \in DepositIds, id >= nextDepositId + 1
        PROVE  id >= nextDepositId /\ id # nextDepositId
    BY <1>2, <2>2 DEF DepositIds
  <2>3. ASSUME NEW id \in DepositIds, id # nextDepositId PROVE deposits'[id] = deposits[id]
    BY <1>2, <1>3, <2>3 DEF Stake
  <2>4. QED
    BY <2>1, <2>2, <2>3 DEF PInv, UnopenedAreEmpty
<1>4. ASSUME NEW id \in Opened, DepositCall(id) PROVE UnopenedAreEmpty'
  <2>1. nextDepositId' = nextDepositId
    BY <1>4, DepositCallShape DEF PInv
  <2>2. ASSUME NEW other \in DepositIds, other >= nextDepositId
        PROVE  deposits'[other] = deposits[other]
    <3>1. other # id
      BY <1>2, <2>2 DEF Opened, DepositIds
    <3>2. PICK d : deposits' = [deposits EXCEPT ![id] = d]
      BY <1>4, DepositCallShape DEF PInv
    <3>3. QED
      BY <1>2, <3>1, <3>2
  <2>3. QED
    BY <2>1, <2>2 DEF PInv, UnopenedAreEmpty
<1>5. ASSUME UNCHANGED <<nextDepositId, deposits>> PROVE UnopenedAreEmpty'
  BY <1>5 DEF PInv, UnopenedAreEmpty
<1>6. ASSUME NEW notifier \in Notifiers, NEW amount \in RewardAmounts,
             NotifyRewardAmount(notifier, amount)
      PROVE  UnopenedAreEmpty'
  BY <1>5, <1>6 DEF NotifyRewardAmount, depositVars
<1>7. ASSUME NEW caller \in Admins, AdminCall(caller) PROVE UnopenedAreEmpty'
  BY <1>5, <1>7 DEF AdminCall, SetAdmin, SetRewardNotifier, SetClaimFeeParameters,
                    SetMaxBumpTip, SetEarningPowerCalculator, depositVars
<1>8. ASSUME Tick \/ UNCHANGED vars PROVE UnopenedAreEmpty'
  BY <1>5, <1>8 DEF Tick, vars, depositVars
<1>9. UnopenedAreEmpty'
  BY <1>3, <1>4, <1>6, <1>7, <1>8 DEF Next, StakingNext
<1>10. QED
  BY <1>1, <1>9, NextPower DEF PInv

(***************************************************************************)
(* Sums over the table of deposits, and what rewriting one entry does.     *)
(***************************************************************************)

BalanceOf(table, ids) == SumFunctionOnSet([id \in DepositIds |-> table[id].balance], ids)
PowerOf(table, ids)   == SumFunctionOnSet([id \in DepositIds |-> table[id].earningPower], ids)
Owned(table, a)       == {id \in DepositIds : table[id].owner = a}
Delegated(table, x)   == {id \in DepositIds : table[id].delegatee = x}

LEMMA IdsFinite == IsFiniteSet(DepositIds)
<1>1. 0 \in Int /\ MaxDeposits - 1 \in Int
  BY StakerAssumption
<1>2. QED
  BY <1>1, FS_Interval DEF DepositIds

LEMMA IdsOfFinite ==
  ASSUME NEW ids \in SUBSET DepositIds
  PROVE  IsFiniteSet(ids)
BY IdsFinite, FS_Subset

LEMMA TableSums ==
  ASSUME NEW table \in [DepositIds -> Deposit], NEW ids \in SUBSET DepositIds
  PROVE  BalanceOf(table, ids) \in Nat /\ PowerOf(table, ids) \in Nat
<1>1. /\ \A id \in ids : [i \in DepositIds |-> table[i].balance][id] \in Nat
      /\ \A id \in ids : [i \in DepositIds |-> table[i].earningPower][id] \in Nat
  BY DEF Deposit
<1>2. QED
  BY <1>1, IdsOfFinite, SumNat DEF BalanceOf, PowerOf

Rewritten(table, id, d) == [table EXCEPT ![id] = d]

\* One entry is rewritten, and may move from one set of identifiers to another.
LEMMA EntryRewritten ==
  ASSUME NEW table \in [DepositIds -> Deposit], NEW id \in DepositIds, NEW d \in Deposit,
         NEW ids \in SUBSET DepositIds, NEW later \in SUBSET DepositIds,
         ids \ {id} = later \ {id}
  PROVE  /\ BalanceOf(Rewritten(table, id, d), later)
              = BalanceOf(table, ids) - (IF id \in ids THEN table[id].balance ELSE 0)
                                      + (IF id \in later THEN d.balance ELSE 0)
         /\ PowerOf(Rewritten(table, id, d), later)
              = PowerOf(table, ids) - (IF id \in ids THEN table[id].earningPower ELSE 0)
                                    + (IF id \in later THEN d.earningPower ELSE 0)
<1> DEFINE t == Rewritten(table, id, d)
           b1 == [i \in DepositIds |-> table[i].balance]
           b2 == [i \in DepositIds |-> t[i].balance]
           p1 == [i \in DepositIds |-> table[i].earningPower]
           p2 == [i \in DepositIds |-> t[i].earningPower]
<1>1. /\ \A i \in DepositIds : t[i] \in Deposit /\ (i # id => t[i] = table[i])
      /\ t[id] = d
  BY DEF Rewritten
<1> HIDE DEF t
<1>2. /\ \A i \in ids : b1[i] \in Int /\ p1[i] \in Int
      /\ \A i \in later : b2[i] \in Int /\ p2[i] \in Int
      /\ \A i \in ids \ {id} : b1[i] = b2[i] /\ p1[i] = p2[i]
      /\ b1[id] = table[id].balance /\ b2[id] = d.balance
      /\ p1[id] = table[id].earningPower /\ p2[id] = d.earningPower
  BY <1>1 DEF Deposit
<1>3. /\ BalanceOf(table, ids) = SumFunctionOnSet(b1, ids)
      /\ BalanceOf(t, later) = SumFunctionOnSet(b2, later)
      /\ PowerOf(table, ids) = SumFunctionOnSet(p1, ids)
      /\ PowerOf(t, later) = SumFunctionOnSet(p2, later)
  BY DEF BalanceOf, PowerOf
<1> HIDE DEF b1, b2, p1, p2
<1>4. IsFiniteSet(ids) /\ IsFiniteSet(later)
  BY IdsOfFinite
<1>5. SumFunctionOnSet(b2, later)
        = SumFunctionOnSet(b1, ids) - (IF id \in ids THEN b1[id] ELSE 0)
                                    + (IF id \in later THEN b2[id] ELSE 0)
  BY <1>2, <1>4, SumUpdate
<1>6. SumFunctionOnSet(p2, later)
        = SumFunctionOnSet(p1, ids) - (IF id \in ids THEN p1[id] ELSE 0)
                                    + (IF id \in later THEN p2[id] ELSE 0)
  BY <1>2, <1>4, SumUpdate
<1>7. QED
  BY <1>2, <1>3, <1>5, <1>6 DEF t

(***************************************************************************)
(* The totals and the surrogates.                                          *)
(***************************************************************************)

Totals(table, staked, power, stakedOf, powerOf) ==
  /\ staked = BalanceOf(table, DepositIds)
  /\ power = PowerOf(table, DepositIds)
  /\ \A a \in Accounts : /\ stakedOf[a] = BalanceOf(table, Owned(table, a))
                         /\ powerOf[a] = PowerOf(table, Owned(table, a))

Backed(table, held) == \A x \in Delegatees : held[x] = BalanceOf(table, Delegated(table, x))

Ledger ==
  /\ Totals(deposits, totalStaked, totalEarningPower, depositorTotalStaked,
            depositorTotalEarningPower)
  /\ Backed(deposits, surrogate)

LEMMA LedgerIs == Ledger <=> TotalsMatchDeposits /\ SurrogatesBackDeposits
BY DEF Ledger, Totals, Backed, BalanceOf, PowerOf, Owned, Delegated, TotalsMatchDeposits,
       SurrogatesBackDeposits, StakeOf, EarningPowerOf, OwnedBy

\* A call writes one deposit, and moves every total and surrogate by what the
\* deposit stopped and started counting for.
Tracks(id, d) ==
  /\ deposits' = Rewritten(deposits, id, d)
  /\ totalStaked' = totalStaked - deposits[id].balance + d.balance
  /\ totalEarningPower' = totalEarningPower - deposits[id].earningPower + d.earningPower
  /\ \A a \in Accounts :
       /\ depositorTotalStaked'[a]
            = depositorTotalStaked[a] - (IF deposits[id].owner = a THEN deposits[id].balance ELSE 0)
                                      + (IF d.owner = a THEN d.balance ELSE 0)
       /\ depositorTotalEarningPower'[a]
            = depositorTotalEarningPower[a]
                - (IF deposits[id].owner = a THEN deposits[id].earningPower ELSE 0)
                + (IF d.owner = a THEN d.earningPower ELSE 0)
  /\ \A x \in Delegatees :
       surrogate'[x]
         = surrogate[x] - (IF deposits[id].delegatee = x THEN deposits[id].balance ELSE 0)
                        + (IF d.delegatee = x THEN d.balance ELSE 0)

LEMMA TracksKeepsLedger ==
  ASSUME IInv, Ledger, NEW id \in DepositIds, NEW d \in Deposit, Tracks(id, d)
  PROVE  Ledger'
<1> DEFINE table == Rewritten(deposits, id, d)
<1>1. deposits \in [DepositIds -> Deposit] /\ table[id] = d
  BY DEF IInv, TypeOK, Rewritten
<1>2. /\ BalanceOf(table, DepositIds)
             = BalanceOf(deposits, DepositIds) - deposits[id].balance + d.balance
      /\ PowerOf(table, DepositIds)
             = PowerOf(deposits, DepositIds) - deposits[id].earningPower + d.earningPower
  BY <1>1, EntryRewritten
<1>3. ASSUME NEW a \in Accounts
      PROVE  /\ BalanceOf(table, Owned(table, a))
                   = BalanceOf(deposits, Owned(deposits, a))
                       - (IF deposits[id].owner = a THEN deposits[id].balance ELSE 0)
                       + (IF d.owner = a THEN d.balance ELSE 0)
             /\ PowerOf(table, Owned(table, a))
                   = PowerOf(deposits, Owned(deposits, a))
                       - (IF deposits[id].owner = a THEN deposits[id].earningPower ELSE 0)
                       + (IF d.owner = a THEN d.earningPower ELSE 0)
  <2>1. /\ Owned(deposits, a) \in SUBSET DepositIds /\ Owned(table, a) \in SUBSET DepositIds
        /\ Owned(deposits, a) \ {id} = Owned(table, a) \ {id}
        /\ id \in Owned(deposits, a) <=> deposits[id].owner = a
        /\ id \in Owned(table, a) <=> d.owner = a
    BY <1>1 DEF Owned, Rewritten
  <2>2. QED
    BY <1>1, <2>1, EntryRewritten
<1>4. ASSUME NEW x \in Delegatees
      PROVE  BalanceOf(table, Delegated(table, x))
               = BalanceOf(deposits, Delegated(deposits, x))
                   - (IF deposits[id].delegatee = x THEN deposits[id].balance ELSE 0)
                   + (IF d.delegatee = x THEN d.balance ELSE 0)
  <2>1. /\ Delegated(deposits, x) \in SUBSET DepositIds /\ Delegated(table, x) \in SUBSET DepositIds
        /\ Delegated(deposits, x) \ {id} = Delegated(table, x) \ {id}
        /\ id \in Delegated(deposits, x) <=> deposits[id].delegatee = x
        /\ id \in Delegated(table, x) <=> d.delegatee = x
    BY <1>1 DEF Delegated, Rewritten
  <2>2. QED
    BY <1>1, <2>1, EntryRewritten
<1>5. deposits' = table
  BY DEF Tracks
<1> HIDE DEF table
<1>6. /\ totalStaked' = BalanceOf(table, DepositIds)
      /\ totalEarningPower' = PowerOf(table, DepositIds)
  BY <1>2 DEF Tracks, Ledger, Totals
<1>7. ASSUME NEW a \in Accounts
      PROVE  /\ depositorTotalStaked'[a] = BalanceOf(table, Owned(table, a))
             /\ depositorTotalEarningPower'[a] = PowerOf(table, Owned(table, a))
  BY <1>3 DEF Tracks, Ledger, Totals
<1>8. ASSUME NEW x \in Delegatees
      PROVE  surrogate'[x] = BalanceOf(table, Delegated(table, x))
  BY <1>4 DEF Tracks, Ledger, Backed
<1>9. QED
  BY <1>5, <1>6, <1>7, <1>8, Zenon DEF Ledger, Totals, Backed

\* What a call does to the earning power totals, account by account.
LEMMA ReplacedPower ==
  ASSUME IInv, NEW owner, NEW old \in Nat, NEW new \in Nat, ReplaceEarningPower(owner, old, new)
  PROVE  /\ totalEarningPower' = totalEarningPower - old + new
         /\ \A a \in Accounts :
              depositorTotalEarningPower'[a]
                = depositorTotalEarningPower[a] - (IF owner = a THEN old ELSE 0)
                                                + (IF owner = a THEN new ELSE 0)
BY DEF ReplaceEarningPower, IInv, TypeOK

\* A call that keeps the deposit's owner and delegatee and changes its stake by delta.
LEMMA CallTracks ==
  ASSUME IInv, NEW id \in DepositIds, NEW d \in Deposit, NEW delta \in Int,
         d.owner = deposits[id].owner, d.delegatee = deposits[id].delegatee,
         d.balance = deposits[id].balance + delta,
         deposits' = Rewritten(deposits, id, d),
         ReplaceEarningPower(deposits[id].owner, deposits[id].earningPower, d.earningPower),
         totalStaked' = totalStaked + delta,
         \A a \in Accounts :
           depositorTotalStaked'[a]
             = depositorTotalStaked[a] + (IF a = deposits[id].owner THEN delta ELSE 0),
         \A x \in Delegatees :
           surrogate'[x] = surrogate[x] + (IF x = deposits[id].delegatee THEN delta ELSE 0)
  PROVE  Tracks(id, d)
<1>1. /\ deposits[id].earningPower \in Nat /\ d.earningPower \in Nat
      /\ deposits[id].balance \in Nat /\ totalStaked \in Nat
      /\ \A a \in Accounts : depositorTotalStaked[a] \in Nat
      /\ \A x \in Delegatees : surrogate[x] \in Nat
  BY DEF IInv, TypeOK, Deposit
<1>2. totalStaked' = totalStaked - deposits[id].balance + d.balance
  BY <1>1
<1>3. \A a \in Accounts :
         depositorTotalStaked'[a]
           = depositorTotalStaked[a] - (IF deposits[id].owner = a THEN deposits[id].balance ELSE 0)
                                     + (IF d.owner = a THEN d.balance ELSE 0)
  BY <1>1
<1>4. \A x \in Delegatees :
         surrogate'[x]
           = surrogate[x] - (IF deposits[id].delegatee = x THEN deposits[id].balance ELSE 0)
                          + (IF d.delegatee = x THEN d.balance ELSE 0)
  BY <1>1
<1>5. /\ totalEarningPower' = totalEarningPower - deposits[id].earningPower + d.earningPower
      /\ \A a \in Accounts :
           depositorTotalEarningPower'[a]
             = depositorTotalEarningPower[a]
                 - (IF deposits[id].owner = a THEN deposits[id].earningPower ELSE 0)
                 + (IF d.owner = a THEN d.earningPower ELSE 0)
  BY <1>1, ReplacedPower
<1>6. QED
  BY <1>2, <1>3, <1>4, <1>5 DEF Tracks

LEMMA OpenedDeposit ==
  ASSUME IInv, NEW id \in Opened
  PROVE  /\ id \in DepositIds /\ deposits[id] \in Deposit
         /\ deposits[id].delegatee \in Delegatees \cup {NoAccount}
         /\ deposits[id].balance \in Nat /\ deposits[id].earningPower \in Nat
         /\ deposits[id].claimer \in Accounts \cup {NoAccount}
         /\ deposits[id].balance + 0 = deposits[id].balance
         /\ UnclaimedReward(id) \in Nat
BY Arithmetic DEF Opened, IInv, TypeOK, Deposit

LEMMA StakeLedger ==
  ASSUME PInv, Ledger, NEW depositor \in Accounts, NEW claimer \in Accounts,
         NEW delegatee \in Delegatees, NEW amount \in StakeAmounts,
         Stake(depositor, amount, delegatee, claimer)
  PROVE  Ledger'
<1> DEFINE id == nextDepositId
           power == EarningPower(amount, delegatee)
           d == [balance |-> amount, owner |-> depositor, earningPower |-> power,
                 delegatee |-> delegatee, claimer |-> claimer,
                 rewardPerTokenCheckpoint |-> rewardPerTokenAccumulated,
                 scaledUnclaimedRewardCheckpoint |-> 0]
<1>1. id \in DepositIds /\ amount \in Nat /\ power \in Nat
  BY StakerAssumption, PowerNat DEF PInv, IInv, TypeOK, DepositIds, Stake
<1>2. d \in Deposit
  BY <1>1, Arithmetic DEF Deposit, PInv
<1>3. deposits[id] = EmptyDeposit
  BY <1>1 DEF PInv, UnopenedAreEmpty, IInv, TypeOK
<1>4. /\ deposits' = Rewritten(deposits, id, d)
      /\ totalStaked' = totalStaked + amount
      /\ ReplaceEarningPower(depositor, 0, power)
      /\ depositorTotalStaked' = [depositorTotalStaked EXCEPT ![depositor] = @ + amount]
      /\ surrogate' = [surrogate EXCEPT ![delegatee] = @ + amount]
  BY DEF Stake, Pay, Rewritten
<1>5. /\ totalStaked \in Nat /\ totalEarningPower \in Nat
      /\ depositorTotalStaked \in [Accounts -> Nat] /\ surrogate \in [Delegatees -> Nat]
  BY DEF PInv, IInv, TypeOK
<1>6. /\ deposits[id].balance = 0 /\ deposits[id].earningPower = 0
      /\ deposits[id].owner \notin Accounts /\ deposits[id].delegatee \notin Delegatees
  BY <1>3, StakerAssumption DEF EmptyDeposit
<1>7. /\ d.balance = amount /\ d.earningPower = power
      /\ d.owner = depositor /\ d.delegatee = delegatee
  OBVIOUS
<1>8. /\ totalEarningPower' = totalEarningPower - 0 + power
      /\ \A a \in Accounts :
           depositorTotalEarningPower'[a]
             = depositorTotalEarningPower[a] - (IF depositor = a THEN 0 ELSE 0)
                                             + (IF depositor = a THEN power ELSE 0)
  BY <1>1, <1>4, ReplacedPower DEF PInv
<1> HIDE DEF d, power, id
<1>9. Tracks(id, d)
  <2>1. totalStaked' = totalStaked - deposits[id].balance + d.balance
    BY <1>1, <1>4, <1>5, <1>6, <1>7
  <2>2. \A a \in Accounts :
           depositorTotalStaked'[a]
             = depositorTotalStaked[a]
                 - (IF deposits[id].owner = a THEN deposits[id].balance ELSE 0)
                 + (IF d.owner = a THEN d.balance ELSE 0)
    BY <1>1, <1>4, <1>5, <1>6, <1>7
  <2>3. \A x \in Delegatees :
           surrogate'[x]
             = surrogate[x] - (IF deposits[id].delegatee = x THEN deposits[id].balance ELSE 0)
                            + (IF d.delegatee = x THEN d.balance ELSE 0)
    BY <1>1, <1>4, <1>5, <1>6, <1>7
  <2>4. \A a \in Accounts :
           depositorTotalEarningPower'[a]
             = depositorTotalEarningPower[a]
                 - (IF deposits[id].owner = a THEN deposits[id].earningPower ELSE 0)
                 + (IF d.owner = a THEN d.earningPower ELSE 0)
    BY <1>6, <1>7, <1>8
  <2>5. QED
    BY <1>4, <1>6, <1>7, <1>8, <2>1, <2>2, <2>3, <2>4 DEF Tracks
<1>10. QED
  BY <1>1, <1>2, <1>9, TracksKeepsLedger DEF PInv

LEMMA DepositCallLedger ==
  ASSUME PInv, Ledger, NEW id \in Opened, DepositCall(id)
  PROVE  Ledger'
<1> DEFINE old == deposits[id]
<1>1. IInv
  BY DEF PInv
<1>2. /\ id \in DepositIds /\ old \in Deposit /\ old.balance \in Nat /\ old.earningPower \in Nat
      /\ old.delegatee \in Delegatees \cup {NoAccount}
      /\ old.claimer \in Accounts \cup {NoAccount} /\ old.balance + 0 = old.balance
      /\ UnclaimedReward(id) \in Nat
  BY <1>1, OpenedDeposit
<1>3. /\ totalStaked \in Nat /\ depositorTotalStaked \in [Accounts -> Nat]
      /\ surrogate \in [Delegatees -> Nat]
  BY <1>1 DEF IInv, TypeOK
\* A call that leaves the stake where it is.
<1>4. ASSUME NEW claimer \in Accounts \cup {NoAccount}, NEW power \in Nat, NEW paid \in Nat,
             paid <= UnclaimedReward(id),
             deposits' = [deposits EXCEPT ![id] =
                            Checkpointed(id, old.balance, old.delegatee, claimer, power, paid)],
             ReplaceEarningPower(old.owner, old.earningPower, power),
             UNCHANGED <<totalStaked, depositorTotalStaked, surrogate>>
      PROVE  Ledger'
  <2> DEFINE d == Checkpointed(id, old.balance + 0, old.delegatee, claimer, power, paid)
  <2>1. /\ d \in Deposit /\ d.owner = old.owner /\ d.delegatee = old.delegatee
        /\ d.earningPower = power /\ d.balance = old.balance + 0
    <3>1. old.balance + 0 \in Nat
      BY <1>2
    <3>2. d \in Deposit
      BY <1>1, <1>2, <1>4, <3>1, CheckpointedOK, Zenon
    <3>3. QED
      BY <3>2 DEF Checkpointed
  <2>2. deposits' = Rewritten(deposits, id, d)
    BY <1>2, <1>4 DEF Rewritten
  <2> HIDE DEF d
  <2>3. /\ totalStaked' = totalStaked + 0
        /\ \A a \in Accounts : depositorTotalStaked'[a]
                                = depositorTotalStaked[a] + (IF a = old.owner THEN 0 ELSE 0)
        /\ \A x \in Delegatees : surrogate'[x]
                                = surrogate[x] + (IF x = old.delegatee THEN 0 ELSE 0)
    BY <1>3, <1>4
  <2>4. Tracks(id, d)
    BY <1>1, <1>2, <1>4, <2>1, <2>2, <2>3, CallTracks
  <2>5. QED
    BY <1>1, <1>2, <2>1, <2>4, TracksKeepsLedger
<1>5. ASSUME NEW amount \in StakeAmounts, StakeMore(id, amount) PROVE Ledger'
  <2> DEFINE power == EarningPower(old.balance + amount, old.delegatee)
             d == Checkpointed(id, old.balance + amount, old.delegatee, old.claimer, power, 0)
  <2>1. amount \in Nat /\ old.balance + amount \in Nat /\ power \in Nat /\ 0 <= UnclaimedReward(id)
    BY <1>2, StakerAssumption, PowerNat
  <2>2. /\ d \in Deposit /\ d.owner = old.owner /\ d.delegatee = old.delegatee
        /\ d.earningPower = power /\ d.balance = old.balance + amount
    <3>1. old.balance + amount \in Nat /\ 0 \in Nat
      BY <1>2, <2>1
    <3>2. d \in Deposit
      BY <1>1, <1>2, <2>1, <3>1, CheckpointedOK, Zenon
    <3>3. QED
      BY <3>2 DEF Checkpointed
  <2>3. deposits' = Rewritten(deposits, id, d) /\ ReplaceEarningPower(old.owner, old.earningPower, power)
    BY <1>5 DEF Rewritten, StakeMore
  <2> HIDE DEF d
  <2>4. /\ totalStaked' = totalStaked + amount
        /\ \A a \in Accounts : depositorTotalStaked'[a]
                                = depositorTotalStaked[a] + (IF a = old.owner THEN amount ELSE 0)
        /\ \A x \in Delegatees : surrogate'[x]
                                = surrogate[x] + (IF x = old.delegatee THEN amount ELSE 0)
    BY <1>3, <1>5, <2>1 DEF StakeMore, Pay
  <2>5. Tracks(id, d)
    BY <1>1, <1>2, <2>1, <2>2, <2>3, <2>4, CallTracks
  <2>6. QED
    BY <1>1, <1>2, <2>2, <2>5, TracksKeepsLedger
<1>6. ASSUME NEW amount \in StakeAmounts, Withdraw(id, amount) PROVE Ledger'
  <2> DEFINE power == EarningPower(old.balance - amount, old.delegatee)
             d == Checkpointed(id, old.balance + -amount, old.delegatee, old.claimer, power, 0)
  <2>1. /\ amount \in Nat /\ -amount \in Int /\ old.balance + -amount = old.balance - amount
        /\ old.balance - amount \in Nat /\ power \in Nat /\ 0 <= UnclaimedReward(id)
    BY <1>2, <1>6, StakerAssumption, PowerNat DEF Withdraw
  <2>2. /\ d \in Deposit /\ d.owner = old.owner /\ d.delegatee = old.delegatee
        /\ d.earningPower = power /\ d.balance = old.balance + -amount
    <3>1. old.balance + -amount \in Nat /\ 0 \in Nat
      BY <1>2, <2>1
    <3>2. d \in Deposit
      BY <1>1, <1>2, <2>1, <3>1, CheckpointedOK, Zenon
    <3>3. QED
      BY <3>2 DEF Checkpointed
  <2>3. deposits' = Rewritten(deposits, id, d) /\ ReplaceEarningPower(old.owner, old.earningPower, power)
    BY <1>6, <2>1 DEF Rewritten, Withdraw
  <2> HIDE DEF d
  <2>4. /\ totalStaked' = totalStaked + -amount
        /\ \A a \in Accounts : depositorTotalStaked'[a]
                                = depositorTotalStaked[a] + (IF a = old.owner THEN -amount ELSE 0)
        /\ \A x \in Delegatees : surrogate'[x]
                                = surrogate[x] + (IF x = old.delegatee THEN -amount ELSE 0)
    BY <1>3, <1>6, <2>1 DEF Withdraw
  <2>5. Tracks(id, d)
    BY <1>1, <1>2, <2>1, <2>2, <2>3, <2>4, CallTracks
  <2>6. QED
    BY <1>1, <1>2, <2>2, <2>5, TracksKeepsLedger
<1>7. ASSUME NEW delegatee \in Delegatees, AlterDelegatee(id, delegatee) PROVE Ledger'
  <2> DEFINE power == EarningPower(old.balance, delegatee)
             d == Checkpointed(id, old.balance, delegatee, old.claimer, power, 0)
  <2>1. power \in Nat /\ 0 \in Nat /\ 0 <= UnclaimedReward(id)
    BY <1>2, PowerNat
  <2>2. d \in Deposit
    BY <1>1, <1>2, <2>1, CheckpointedOK, Zenon
  <2>3. /\ d.owner = old.owner /\ d.delegatee = delegatee
        /\ d.earningPower = power /\ d.balance = old.balance
    BY DEF Checkpointed
  <2>4. deposits' = Rewritten(deposits, id, d) /\ ReplaceEarningPower(old.owner, old.earningPower, power)
    BY <1>7 DEF Rewritten, AlterDelegatee
  <2> HIDE DEF d
  <2>5. /\ totalEarningPower' = totalEarningPower - old.earningPower + d.earningPower
        /\ \A a \in Accounts :
             depositorTotalEarningPower'[a]
               = depositorTotalEarningPower[a] - (IF old.owner = a THEN old.earningPower ELSE 0)
                                               + (IF d.owner = a THEN d.earningPower ELSE 0)
    BY <1>1, <1>2, <2>1, <2>3, <2>4, ReplacedPower
  <2>6. /\ totalStaked' = totalStaked - old.balance + d.balance
        /\ \A a \in Accounts :
             depositorTotalStaked'[a]
               = depositorTotalStaked[a] - (IF old.owner = a THEN old.balance ELSE 0)
                                         + (IF d.owner = a THEN d.balance ELSE 0)
    BY <1>2, <1>3, <1>7, <2>3 DEF AlterDelegatee
  <2>7. \A x \in Delegatees :
           surrogate'[x] = surrogate[x] - (IF old.delegatee = x THEN old.balance ELSE 0)
                                        + (IF d.delegatee = x THEN d.balance ELSE 0)
    BY <1>7, <2>3 DEF AlterDelegatee
  <2>8. Tracks(id, d)
    BY <2>4, <2>5, <2>6, <2>7 DEF Tracks
  <2>9. QED
    BY <1>1, <1>2, <2>2, <2>8, TracksKeepsLedger
<1>8. EarningPower(old.balance, old.delegatee) \in Nat /\ 0 \in Nat /\ 0 <= UnclaimedReward(id)
  BY <1>2, PowerNat
<1>9. ASSUME NEW claimer \in Accounts, AlterClaimer(id, claimer) PROVE Ledger'
  BY <1>4, <1>8, <1>9 DEF AlterClaimer, tokenVars
<1>10. ASSUME NEW caller \in Accounts, ClaimReward(id, caller) PROVE Ledger'
  <2>1. UnclaimedReward(id) <= UnclaimedReward(id)
    BY <1>2
  <2>2. QED
    BY <1>2, <1>4, <1>8, <1>10, <2>1 DEF ClaimReward
<1>11. ASSUME NEW caller \in Accounts, ClaimNothing(id, caller) PROVE Ledger'
  <2> DEFINE d == Checkpointed(id, old.balance, old.delegatee, old.claimer, old.earningPower, 0)
  <2>1. /\ deposits' = Rewritten(deposits, id, d)
        /\ UNCHANGED <<totalStaked, totalEarningPower, depositorTotalStaked,
                       depositorTotalEarningPower, surrogate>>
    BY <1>11 DEF ClaimNothing, Rewritten, tokenVars
  <2>2. d \in Deposit
    <3>1. old.delegatee \in Delegatees \cup {NoAccount}
      BY <1>2 DEF Deposit
    <3>2. QED
      BY <1>1, <1>2, <1>8, <3>1, CheckpointedOK, Zenon
  <2>3. /\ d.owner = old.owner /\ d.delegatee = old.delegatee
        /\ d.earningPower = old.earningPower /\ d.balance = old.balance
    BY DEF Checkpointed
  <2> HIDE DEF d
  <2>4. /\ totalEarningPower \in Nat /\ depositorTotalEarningPower \in [Accounts -> Nat]
    BY <1>1 DEF IInv, TypeOK
  <2>5. Tracks(id, d)
    BY <1>2, <1>3, <2>1, <2>3, <2>4 DEF Tracks
  <2>6. QED
    BY <1>1, <1>2, <2>2, <2>5, TracksKeepsLedger
<1>12. ASSUME NEW receiver \in Accounts, NEW tip \in Tips, BumpEarningPower(id, receiver, tip)
       PROVE  Ledger'
  <2>1. tip \in Nat /\ tip <= UnclaimedReward(id)
    BY <1>2, <1>8, <1>12, StakerAssumption DEF BumpEarningPower
  <2>2. QED
    BY <1>2, <1>4, <1>8, <1>12, <2>1 DEF BumpEarningPower
<1>13. QED
  BY <1>5, <1>6, <1>7, <1>9, <1>10, <1>11, <1>12 DEF DepositCall

LEMMA InitLedger == Init => Ledger
<1> SUFFICES ASSUME Init PROVE Ledger
  OBVIOUS
<1>1. IInv
  BY InitIInv
<1>2. deposits \in [DepositIds -> Deposit]
  BY <1>1 DEF IInv, TypeOK
<1>3. \A id \in DepositIds : deposits[id].balance = 0 /\ deposits[id].earningPower = 0
  BY DEF Init, EmptyDeposit
<1>4. ASSUME NEW ids \in SUBSET DepositIds
      PROVE  BalanceOf(deposits, ids) = 0 /\ PowerOf(deposits, ids) = 0
  <2>1. /\ \A id \in ids : [i \in DepositIds |-> deposits[i].balance][id] = 0
        /\ \A id \in ids : [i \in DepositIds |-> deposits[i].earningPower][id] = 0
    BY <1>3
  <2>2. QED
    BY <2>1, IdsOfFinite, SumZero DEF BalanceOf, PowerOf
<1>5. /\ \A a \in Accounts : Owned(deposits, a) \in SUBSET DepositIds
      /\ \A x \in Delegatees : Delegated(deposits, x) \in SUBSET DepositIds
      /\ DepositIds \in SUBSET DepositIds
  BY DEF Owned, Delegated
<1>6. QED
  BY <1>4, <1>5 DEF Init, Ledger, Totals, Backed

LEMMA NextLedger == PInv /\ Ledger /\ [Next]_vars => Ledger'
<1> SUFFICES ASSUME PInv, Ledger, [Next]_vars PROVE Ledger'
  OBVIOUS
<1>1. ASSUME NEW depositor \in Accounts, NEW claimer \in Accounts,
             NEW delegatee \in Delegatees, NEW amount \in StakeAmounts,
             Stake(depositor, amount, delegatee, claimer)
      PROVE  Ledger'
  BY <1>1, StakeLedger
<1>2. ASSUME NEW id \in Opened, DepositCall(id) PROVE Ledger'
  BY <1>2, DepositCallLedger
<1>3. ASSUME UNCHANGED depositVars, UNCHANGED surrogate PROVE Ledger'
  BY <1>3 DEF Ledger, Totals, Backed, depositVars, BalanceOf, PowerOf, Owned, Delegated
<1>4. ASSUME NEW notifier \in Notifiers, NEW amount \in RewardAmounts,
             NotifyRewardAmount(notifier, amount)
      PROVE  Ledger'
  BY <1>3, <1>4 DEF NotifyRewardAmount
<1>5. ASSUME NEW caller \in Admins, AdminCall(caller) PROVE Ledger'
  BY <1>3, <1>5 DEF AdminCall, SetAdmin, SetRewardNotifier, SetClaimFeeParameters,
                    SetMaxBumpTip, SetEarningPowerCalculator, tokenVars
<1>6. ASSUME Tick \/ UNCHANGED vars PROVE Ledger'
  BY <1>3, <1>6 DEF Tick, vars, tokenVars
<1>7. QED
  BY <1>1, <1>2, <1>4, <1>5, <1>6 DEF Next, StakingNext

\* The four cached totals are the sums over the deposits after every call: no
\* sequence of stakes, withdrawals, delegations and bumps makes them drift.
THEOREM TotalsMatch == Spec => []TotalsMatchDeposits
<1>1. Ledger => TotalsMatchDeposits
  BY LedgerIs
<1>2. QED
  BY <1>1, InitPInv, NextPInv, InitLedger, NextLedger, PTL DEF Spec

\* Each surrogate holds exactly the stake delegated to it, so every withdrawal is
\* covered by the surrogate it is paid from and no reward is paid out of stake.
THEOREM SurrogatesBackStake == Spec => []SurrogatesBackDeposits
<1>1. Ledger => SurrogatesBackDeposits
  BY LedgerIs
<1>2. QED
  BY <1>1, InitPInv, NextPInv, InitLedger, NextLedger, PTL DEF Spec

(***************************************************************************)
(* Solvency.  Between two checkpoints the contract owes what its deposits  *)
(* had earned at the last one and the whole stream since; only the totals  *)
(* matching the deposits keeps the two below its balance, for the stream   *)
(* is divided by the cached total and multiplied by each deposit's share.  *)
(***************************************************************************)

Due(d, accumulated) ==
  d.scaledUnclaimedRewardCheckpoint
    + d.earningPower * (accumulated - d.rewardPerTokenCheckpoint)

Owed(table, accumulated) ==
  SumFunctionOnSet([id \in DepositIds |-> Due(table[id], accumulated)], DepositIds)

StoredSolvency ==
  stakerBalance * SCALE_FACTOR >=
    Owed(deposits, rewardPerTokenAccumulatedCheckpoint)
      + scaledRewardRate * (rewardEndTime - lastCheckpointTime)

SInv == PInv /\ Ledger /\ StoredSolvency

LEMMA DueInt ==
  ASSUME NEW d \in Deposit, NEW accumulated \in Int
  PROVE  Due(d, accumulated) \in Int
BY DEF Due, Deposit

LEMMA OwedInt ==
  ASSUME NEW table \in [DepositIds -> Deposit], NEW accumulated \in Int
  PROVE  Owed(table, accumulated) \in Int
<1>1. \A id \in DepositIds :
        [i \in DepositIds |-> Due(table[i], accumulated)][id] \in Int
  BY DueInt
<1>2. QED
  BY <1>1, IdsFinite, SumInt DEF Owed

\* Distributing a reward per token adds that reward for every unit of power.
LEMMA OwedGrows ==
  ASSUME NEW table \in [DepositIds -> Deposit], NEW before \in Int, NEW after \in Int
  PROVE  Owed(table, after)
           = Owed(table, before) + (after - before) * PowerOf(table, DepositIds)
<1> DEFINE f == [id \in DepositIds |-> Due(table[id], before)]
           g == [id \in DepositIds |-> table[id].earningPower]
           h == [id \in DepositIds |-> Due(table[id], after)]
<1>1. \A id \in DepositIds : f[id] \in Int /\ g[id] \in Int
  BY DueInt DEF Deposit
<1>2. ASSUME NEW id \in DepositIds PROVE h[id] = f[id] + (after - before) * g[id]
  <2>1. /\ table[id].scaledUnclaimedRewardCheckpoint \in Nat
        /\ table[id].earningPower \in Nat /\ table[id].rewardPerTokenCheckpoint \in Nat
    BY DEF Deposit
  <2>2. \A s, p, c \in Int :
          s + p * (after - c) = (s + p * (before - c)) + (after - before) * p
    OBVIOUS
  <2>3. QED
    BY <2>1, <2>2 DEF Due
<1>3. after - before \in Int
  OBVIOUS
<1>4. /\ Owed(table, after) = SumFunctionOnSet(h, DepositIds)
      /\ Owed(table, before) = SumFunctionOnSet(f, DepositIds)
      /\ PowerOf(table, DepositIds) = SumFunctionOnSet(g, DepositIds)
  BY DEF Owed, PowerOf
<1> HIDE DEF f, g, h
<1>5. SumFunctionOnSet(h, DepositIds)
        = SumFunctionOnSet(f, DepositIds) + (after - before) * SumFunctionOnSet(g, DepositIds)
  BY <1>1, <1>2, <1>3, IdsFinite, SumLinear
<1>6. QED
  BY <1>4, <1>5

LEMMA OwedRewritten ==
  ASSUME NEW table \in [DepositIds -> Deposit], NEW id \in DepositIds, NEW d \in Deposit,
         NEW accumulated \in Int
  PROVE  Owed(Rewritten(table, id, d), accumulated)
           = Owed(table, accumulated) - Due(table[id], accumulated) + Due(d, accumulated)
<1> DEFINE t == Rewritten(table, id, d)
           f == [i \in DepositIds |-> Due(table[i], accumulated)]
           g == [i \in DepositIds |-> Due(t[i], accumulated)]
<1>1. /\ \A i \in DepositIds : t[i] \in Deposit /\ (i # id => t[i] = table[i])
      /\ t[id] = d
  BY DEF Rewritten
<1> HIDE DEF t
<1>2. /\ \A i \in DepositIds : f[i] \in Int /\ g[i] \in Int
      /\ \A i \in DepositIds \ {id} : f[i] = g[i]
      /\ f[id] = Due(table[id], accumulated) /\ g[id] = Due(d, accumulated)
  BY <1>1, DueInt
<1>3. /\ Owed(t, accumulated) = SumFunctionOnSet(g, DepositIds)
      /\ Owed(table, accumulated) = SumFunctionOnSet(f, DepositIds)
  BY DEF Owed
<1> HIDE DEF f, g
<1>4. SumFunctionOnSet(g, DepositIds) = SumFunctionOnSet(f, DepositIds) - f[id] + g[id]
  BY <1>2, IdsFinite, SumChange
<1>5. QED
  BY <1>2, <1>3, <1>4 DEF t

\* Bringing the accumulator up to date owes the deposits no more than the stream
\* of the time passed: the division by the total rounds in the pool's favour.
LEMMA LiveSolvency ==
  ASSUME SInv
  PROVE  /\ Owed(deposits, rewardPerTokenAccumulated) \in Int
         /\ scaledRewardRate * (rewardEndTime - lastTimeRewardDistributed) \in Nat
         /\ stakerBalance * SCALE_FACTOR >=
              Owed(deposits, rewardPerTokenAccumulated)
                + scaledRewardRate * (rewardEndTime - lastTimeRewardDistributed)
<1> DEFINE T  == totalEarningPower
           R  == scaledRewardRate
           e  == lastTimeRewardDistributed - lastCheckpointTime
           r  == rewardEndTime - lastTimeRewardDistributed
           A  == rewardPerTokenAccumulatedCheckpoint
           B  == rewardPerTokenAccumulated
           OA == Owed(deposits, A)
           OB == Owed(deposits, B)
           S  == stakerBalance * SCALE_FACTOR
<1>1. /\ deposits \in [DepositIds -> Deposit] /\ T \in Nat /\ R \in Nat /\ A \in Nat
      /\ B \in Nat /\ e \in Nat /\ r \in Nat /\ S \in Nat
      /\ rewardEndTime - lastCheckpointTime = e + r
  BY Arithmetic, MulNat, StakerAssumption DEF SInv, PInv, IInv, TypeOK
<1>2. OA \in Int /\ OB \in Int
  BY <1>1, OwedInt
<1>3. OB = OA + (B - A) * T
  BY <1>1, OwedGrows DEF SInv, Ledger, Totals
<1>4. S >= OA + R * (e + r)
  BY <1>1 DEF SInv, StoredSolvency
<1>5. B = IF T = 0 THEN A ELSE A + (R * e) \div T
  BY DEF rewardPerTokenAccumulated
<1> HIDE DEF T, R, e, r, A, B, OA, OB, S
<1>6. R * e \in Nat /\ R * r \in Nat
  BY <1>1, MulNat
<1>7. R * (e + r) = R * e + R * r
  BY <1>1
<1>8. (B - A) * T <= R * e /\ (B - A) * T \in Int
  <2>1. CASE T = 0
    BY <1>1, <1>5, <1>6, <2>1
  <2>2. CASE T # 0
    <3>1. (R * e) \div T \in Nat /\ ((R * e) \div T) * T <= R * e
      BY <1>1, <1>6, <2>2, DivNat, DivFloor
    <3>2. B - A = (R * e) \div T
      BY <1>1, <1>5, <2>2, <3>1
    <3>3. QED
      BY <1>1, <3>1, <3>2
  <2>3. QED
    BY <2>1, <2>2
<1> DEFINE gain == (B - A) * T
           past == R * e
           rest == R * r
<1>9. /\ gain \in Int /\ past \in Nat /\ rest \in Nat /\ gain <= past
      /\ OB = OA + gain /\ S >= OA + (past + rest)
  BY <1>3, <1>4, <1>6, <1>7, <1>8
<1> HIDE DEF gain, past, rest
<1>10. S >= OB + rest
  BY <1>1, <1>2, <1>9
<1>11. QED
  BY <1>2, <1>9, <1>10 DEF gain, past, rest, T, R, e, r, A, B, OA, OB, S

LEMMA SolvencyIs == SInv => RewardSolvency
<1> SUFFICES ASSUME SInv PROVE RewardSolvency
  OBVIOUS
<1>1. Owed(deposits, rewardPerTokenAccumulated)
        = SumFunctionOnSet([id \in DepositIds |-> ScaledUnclaimedReward(id)], DepositIds)
  BY DEF Owed, Due, ScaledUnclaimedReward
<1>2. /\ now \in Nat /\ rewardEndTime \in Nat /\ scaledRewardRate \in Nat
  BY DEF SInv, PInv, IInv, TypeOK
<1>3. UndistributedReward = scaledRewardRate * (rewardEndTime - lastTimeRewardDistributed)
  BY <1>2, NoTimeNoReward DEF UndistributedReward, lastTimeRewardDistributed
<1>4. QED
  BY <1>1, <1>3, LiveSolvency DEF RewardSolvency

\* The arithmetic of a checkpoint that pays paid out of the contract and writes
\* down what is owed by the same.
LEMMA PaidOut ==
  ASSUME NEW balance \in Nat, NEW scale \in Nat, NEW owed \in Int, NEW rest \in Nat,
         balance * scale >= owed + rest, NEW paid \in Int
  PROVE  (balance - paid) * scale >= (owed - paid * scale) + rest
<1>1. (balance - paid) * scale = balance * scale - paid * scale
  OBVIOUS
<1>2. balance * scale \in Int /\ paid * scale \in Int
  OBVIOUS
<1>3. QED
  BY <1>1, <1>2

\* A global checkpoint followed by one deposit's: what the deposit is owed falls
\* by what was paid to it.
LEMMA CheckpointSolvency ==
  ASSUME SInv, CheckpointGlobalReward, NEW id \in DepositIds, NEW d \in Deposit, NEW paid \in Nat,
         deposits' = Rewritten(deposits, id, d), stakerBalance' = stakerBalance - paid,
         Due(d, rewardPerTokenAccumulated)
           = Due(deposits[id], rewardPerTokenAccumulated) - paid * SCALE_FACTOR
  PROVE  StoredSolvency'
<1> DEFINE A  == rewardPerTokenAccumulated
           O  == Owed(deposits, A)
           rest == scaledRewardRate * (rewardEndTime - lastTimeRewardDistributed)
<1>1. /\ deposits \in [DepositIds -> Deposit] /\ A \in Int /\ stakerBalance \in Nat
      /\ deposits[id] \in Deposit /\ SCALE_FACTOR \in Nat
  BY Arithmetic, StakerAssumption DEF SInv, PInv, IInv, TypeOK
<1>2. O \in Int /\ rest \in Nat /\ stakerBalance * SCALE_FACTOR >= O + rest
  BY LiveSolvency
<1>3. Due(deposits[id], A) \in Int /\ Due(d, A) \in Int /\ paid * SCALE_FACTOR \in Int
  BY <1>1, DueInt
<1>4. Owed(Rewritten(deposits, id, d), A) = O - Due(deposits[id], A) + Due(d, A)
  BY <1>1, OwedRewritten
<1>5. Owed(Rewritten(deposits, id, d), A) = O - paid * SCALE_FACTOR
  BY <1>2, <1>3, <1>4
<1>6. (stakerBalance - paid) * SCALE_FACTOR >= (O - paid * SCALE_FACTOR) + rest
  BY <1>1, <1>2, PaidOut
<1>7. Owed(deposits', rewardPerTokenAccumulatedCheckpoint') = O - paid * SCALE_FACTOR
  BY <1>5 DEF CheckpointGlobalReward
<1>8. scaledRewardRate' * (rewardEndTime' - lastCheckpointTime') = rest
  BY DEF CheckpointGlobalReward
<1> HIDE DEF O, rest, A
<1>9. stakerBalance' * SCALE_FACTOR >=
         Owed(deposits', rewardPerTokenAccumulatedCheckpoint')
           + scaledRewardRate' * (rewardEndTime' - lastCheckpointTime')
  BY <1>6, <1>7, <1>8, Zenon
<1>10. QED
  BY <1>9 DEF StoredSolvency, Owed, Due

LEMMA StakeSolvency ==
  ASSUME SInv, NEW depositor \in Accounts, NEW claimer \in Accounts,
         NEW delegatee \in Delegatees, NEW amount \in StakeAmounts,
         Stake(depositor, amount, delegatee, claimer)
  PROVE  StoredSolvency'
<1> DEFINE id == nextDepositId
           power == EarningPower(amount, delegatee)
           d == [balance |-> amount, owner |-> depositor, earningPower |-> power,
                 delegatee |-> delegatee, claimer |-> claimer,
                 rewardPerTokenCheckpoint |-> rewardPerTokenAccumulated,
                 scaledUnclaimedRewardCheckpoint |-> 0]
<1>1. id \in DepositIds /\ amount \in Nat /\ power \in Nat
  BY StakerAssumption, PowerNat DEF SInv, PInv, IInv, TypeOK, DepositIds, Stake
<1>2. d \in Deposit
  BY <1>1, Arithmetic DEF Deposit, SInv, PInv
<1>3. deposits[id] = EmptyDeposit
  BY <1>1 DEF SInv, PInv, UnopenedAreEmpty, IInv, TypeOK
<1>4. rewardPerTokenAccumulated \in Nat /\ 0 * SCALE_FACTOR = 0 /\ stakerBalance \in Nat
  BY Arithmetic, StakerAssumption DEF SInv, PInv, IInv, TypeOK
<1>5. /\ Due(deposits[id], rewardPerTokenAccumulated) = 0
      /\ Due(d, rewardPerTokenAccumulated) = 0
  BY <1>1, <1>3, <1>4 DEF Due, EmptyDeposit
<1>6. /\ deposits' = Rewritten(deposits, id, d) /\ CheckpointGlobalReward
      /\ stakerBalance' = stakerBalance - 0
  BY <1>4 DEF Stake, Rewritten
<1>7. Due(d, rewardPerTokenAccumulated)
        = Due(deposits[id], rewardPerTokenAccumulated) - 0 * SCALE_FACTOR
  BY <1>4, <1>5
<1> HIDE DEF d, id
<1>8. QED
  BY <1>1, <1>2, <1>6, <1>7, CheckpointSolvency

LEMMA DepositCallSolvency ==
  ASSUME SInv, IInv', NEW id \in Opened, DepositCall(id)
  PROVE  StoredSolvency'
<1>1. IInv /\ CheckpointGlobalReward
  BY DepositCallShape DEF SInv, PInv
<1>2. PICK balance, delegatee, claimer, power, paid :
         /\ power \in Nat /\ paid \in Nat /\ stakerBalance' = stakerBalance - paid
         /\ deposits' = [deposits EXCEPT ![id] =
                           Checkpointed(id, balance, delegatee, claimer, power, paid)]
  BY <1>1, DepositCallShape
<1> DEFINE d == Checkpointed(id, balance, delegatee, claimer, power, paid)
<1>3. id \in DepositIds /\ deposits \in [DepositIds -> Deposit]
      /\ deposits' \in [DepositIds -> Deposit]
  BY <1>1 DEF Opened, IInv, TypeOK
<1>4. d \in Deposit
  <2>1. deposits'[id] = d /\ deposits'[id] \in Deposit
    BY <1>2, <1>3
  <2>2. QED
    BY <2>1
<1>5. /\ rewardPerTokenAccumulated \in Nat /\ ScaledUnclaimedReward(id) \in Nat
      /\ paid * SCALE_FACTOR \in Nat
  BY <1>1, <1>2, <1>3, Arithmetic, MulNat, StakerAssumption
<1>6. ScaledUnclaimedReward(id) = Due(deposits[id], rewardPerTokenAccumulated)
  BY DEF ScaledUnclaimedReward, Due
<1>7. /\ d.earningPower = power /\ d.rewardPerTokenCheckpoint = rewardPerTokenAccumulated
      /\ d.scaledUnclaimedRewardCheckpoint = ScaledUnclaimedReward(id) - paid * SCALE_FACTOR
  BY DEF Checkpointed
<1>8. deposits' = Rewritten(deposits, id, d)
  BY <1>2 DEF Rewritten
<1> HIDE DEF d
<1>9. power * (rewardPerTokenAccumulated - rewardPerTokenAccumulated) = 0
  BY <1>2, <1>5
<1>10. Due(d, rewardPerTokenAccumulated)
         = (ScaledUnclaimedReward(id) - paid * SCALE_FACTOR) + 0
  BY <1>7, <1>9 DEF Due
<1>11. Due(d, rewardPerTokenAccumulated)
         = Due(deposits[id], rewardPerTokenAccumulated) - paid * SCALE_FACTOR
  BY <1>5, <1>6, <1>10
<1>12. QED
  BY <1>1, <1>2, <1>3, <1>4, <1>8, <1>11, CheckpointSolvency

\* New rewards: the new stream is at most what was left of the old one and the
\* ZEN that came in, for the rate is rounded down.
LEMMA NotifySolvency ==
  ASSUME SInv, IInv', NEW notifier \in Notifiers, NEW amount \in Nat,
         NotifyRewardAmount(notifier, amount)
  PROVE  StoredSolvency'
<1> DEFINE remaining == IF now >= rewardEndTime THEN 0
                                                ELSE scaledRewardRate * (rewardEndTime - now)
           rest == scaledRewardRate * (rewardEndTime - lastTimeRewardDistributed)
           O    == Owed(deposits, rewardPerTokenAccumulated)
           S    == stakerBalance * SCALE_FACTOR
           in   == amount * SCALE_FACTOR
           rate == (remaining + in) \div REWARD_DURATION
<1>1. /\ now \in Nat /\ rewardEndTime \in Nat /\ scaledRewardRate \in Nat /\ amount \in Nat
      /\ stakerBalance \in Nat /\ in \in Nat /\ REWARD_DURATION \in Nat \ {0}
  BY StakerAssumption, MulNat DEF SInv, PInv, IInv, TypeOK
<1>2. O \in Int /\ rest \in Nat /\ S >= O + rest /\ S \in Nat
  BY <1>1, LiveSolvency, StakerAssumption, MulNat
<1>3. remaining = rest
  BY <1>1, NoTimeNoReward DEF lastTimeRewardDistributed
<1>4. /\ deposits' = deposits /\ stakerBalance' = stakerBalance + amount
      /\ rewardPerTokenAccumulatedCheckpoint' = rewardPerTokenAccumulated
      /\ scaledRewardRate' = rate /\ rewardEndTime' = now + REWARD_DURATION
      /\ lastCheckpointTime' = now
  BY DEF NotifyRewardAmount, depositVars
<1>5. (stakerBalance + amount) * SCALE_FACTOR = S + in
  BY <1>1, StakerAssumption
<1>6. rewardEndTime' - lastCheckpointTime' = REWARD_DURATION
  BY <1>1, <1>4
<1>7. Owed(deposits', rewardPerTokenAccumulatedCheckpoint') = O
  BY <1>4
<1> HIDE DEF remaining, rest, O, S, in
<1>8. rate * REWARD_DURATION <= rest + in /\ rate * REWARD_DURATION \in Nat
  BY <1>1, <1>2, <1>3, DivFloor, DivNat, MulNat
<1> HIDE DEF rate
<1>9. S + in >= O + rate * REWARD_DURATION
  BY <1>1, <1>2, <1>8
<1>10. stakerBalance' * SCALE_FACTOR >=
         Owed(deposits', rewardPerTokenAccumulatedCheckpoint')
           + scaledRewardRate' * (rewardEndTime' - lastCheckpointTime')
  BY <1>4, <1>5, <1>6, <1>7, <1>9, Zenon
<1>11. QED
  BY <1>10 DEF StoredSolvency, Owed, Due

LEMMA InitSInv == Init => SInv
<1> SUFFICES ASSUME Init PROVE SInv
  OBVIOUS
<1>1. \A id \in DepositIds : [i \in DepositIds |-> Due(deposits[i], 0)][id] = 0
  BY DEF Init, EmptyDeposit, Due
<1>2. Owed(deposits, 0) = 0
  BY <1>1, IdsFinite, SumZero DEF Owed
<1>3. StoredSolvency
  BY <1>2, StakerAssumption DEF StoredSolvency, Init
<1>4. QED
  BY <1>3, InitPInv, InitLedger DEF SInv

LEMMA NextSInv == SInv /\ [Next]_vars => SInv'
<1> SUFFICES ASSUME SInv, [Next]_vars PROVE SInv'
  OBVIOUS
<1>1. PInv' /\ Ledger'
  BY NextPInv, NextLedger DEF SInv
<1>2. IInv'
  BY <1>1 DEF PInv
<1>3. ASSUME NEW depositor \in Accounts, NEW claimer \in Accounts,
             NEW delegatee \in Delegatees, NEW amount \in StakeAmounts,
             Stake(depositor, amount, delegatee, claimer)
      PROVE  StoredSolvency'
  BY <1>3, StakeSolvency
<1>4. ASSUME NEW id \in Opened, DepositCall(id) PROVE StoredSolvency'
  BY <1>2, <1>4, DepositCallSolvency
<1>5. ASSUME NEW notifier \in Notifiers, NEW amount \in RewardAmounts,
             NotifyRewardAmount(notifier, amount)
      PROVE  StoredSolvency'
  BY <1>2, <1>5, NotifySolvency, StakerAssumption
<1>6. ASSUME UNCHANGED depositVars, UNCHANGED rewardVars, UNCHANGED stakerBalance
      PROVE  StoredSolvency'
  BY <1>6 DEF SInv, StoredSolvency, depositVars, rewardVars, Owed, Due
<1>7. ASSUME NEW caller \in Admins, AdminCall(caller) PROVE StoredSolvency'
  BY <1>6, <1>7 DEF AdminCall, SetAdmin, SetRewardNotifier, SetClaimFeeParameters,
                    SetMaxBumpTip, SetEarningPowerCalculator, tokenVars
<1>8. ASSUME Tick \/ UNCHANGED vars PROVE StoredSolvency'
  BY <1>6, <1>8 DEF Tick, vars, tokenVars
<1>9. StoredSolvency'
  BY <1>3, <1>4, <1>5, <1>7, <1>8 DEF Next, StakingNext
<1>10. QED
  BY <1>1, <1>9 DEF SInv

\* The contract can always pay what it owes: its ZEN covers every deposit's live
\* reward and the rest of the stream, whatever the rates, durations and roundings.
THEOREM RewardsAreFunded == Spec => []RewardSolvency
BY InitSInv, NextSInv, SolvencyIs, PTL DEF Spec

(***************************************************************************)
(* Every deposit of the staking contract is a StakedPosition.              *)
(***************************************************************************)

\* Taking whole units out of the dividend takes them out of the quotient.
LEMMA DivTake ==
  ASSUME NEW m \in Nat, NEW k \in Nat, NEW n \in Nat \ {0}, k <= m \div n
  PROVE  (m - k * n) \div n = (m \div n) - k
<1>1. /\ m \div n \in Nat /\ (m \div n) * n <= m
  BY DivNat, DivFloor
<1>2. n * k <= n * (m \div n) /\ n * k = k * n /\ n * (m \div n) = (m \div n) * n /\ k * n \in Nat
  BY <1>1, MulMonotone, MulNat
<1>3. m - k * n \in Nat
  BY <1>1, <1>2
<1> DEFINE r == m - k * n
<1>4. r \in Nat /\ r + k * n = m
  BY <1>2, <1>3
<1> HIDE DEF r
<1>5. m \div n = (r \div n) + k /\ r \div n \in Nat
  BY <1>4, DivShift, DivNat
<1>6. r \div n = (m \div n) - k
  BY <1>5
<1>7. QED
  BY <1>6 DEF r

\* A deposit that is not written, at an accumulator that does not move, keeps
\* its reward.
LEMMA Untouched ==
  ASSUME NEW id \in DepositIds, deposits'[id] = deposits[id],
         rewardPerTokenAccumulated' = rewardPerTokenAccumulated
  PROVE  UnclaimedReward(id)' = UnclaimedReward(id)
  BY DEF UnclaimedReward, ScaledUnclaimedReward

PositionStep ==
  [Position!Next]_<<now, deposits[Observed].balance, UnclaimedReward(Observed),
                    rewardsIn - stakerBalance>>

\* A call on another deposit may pay out, and touches nothing of this one.
LEMMA OtherCall ==
  ASSUME PInv, PInv', NEW id \in Opened, id # Observed, DepositCall(id)
  PROVE  PositionStep
<1>1. /\ Observed \in DepositIds /\ rewardsIn \in Nat /\ stakerBalance \in Nat
      /\ deposits \in [DepositIds -> Deposit] /\ CheckpointGlobalReward
      /\ now' = now /\ rewardsIn' = rewardsIn
  BY DepositCallShape, ObservedAssumption DEF PInv, IInv, TypeOK
<1>2. PICK paid, d : /\ paid \in Nat /\ stakerBalance' = stakerBalance - paid
                     /\ deposits' = [deposits EXCEPT ![id] = d]
  BY DepositCallShape DEF PInv
<1>3. deposits'[Observed] = deposits[Observed]
  BY <1>1, <1>2
<1>4. UnclaimedReward(Observed)' = UnclaimedReward(Observed)
  BY <1>1, <1>3, CheckpointFreezes, Untouched DEF PInv
<1>5. rewardsIn' - stakerBalance' >= rewardsIn - stakerBalance
  BY <1>1, <1>2
<1>6. Position!PayOther
  BY <1>1, <1>3, <1>4, <1>5 DEF Position!PayOther
<1>7. QED
  BY <1>6 DEF PositionStep, Position!Next

\* A call on this deposit changes its stake or pays from its reward, not both.
LEMMA OwnCall ==
  ASSUME PInv, PInv', Observed \in Opened, DepositCall(Observed)
  PROVE  PositionStep
<1> DEFINE before == deposits[Observed].balance
           reward == UnclaimedReward(Observed)
<1>1. /\ Observed \in DepositIds /\ rewardsIn \in Nat /\ stakerBalance \in Nat
      /\ deposits \in [DepositIds -> Deposit] /\ before \in Nat
      /\ now' = now /\ rewardsIn' = rewardsIn /\ CheckpointGlobalReward
      /\ SCALE_FACTOR \in Nat \ {0}
      /\ ScaledUnclaimedReward(Observed) \in Nat /\ reward \in Nat
  BY DepositCallShape, ObservedAssumption, StakerAssumption, Arithmetic
     DEF PInv, IInv, TypeOK, Deposit
<1>2. PICK balance, delegatee, claimer, power, paid :
        /\ balance \in Nat /\ power \in Nat /\ paid \in Nat
        /\ paid <= UnclaimedReward(Observed)
        /\ paid # 0 => balance = deposits[Observed].balance
        /\ stakerBalance' = stakerBalance - paid
        /\ deposits' = [deposits EXCEPT ![Observed] =
                          Checkpointed(Observed, balance, delegatee, claimer, power, paid)]
  BY DepositCallShape DEF PInv
<1>3. deposits'[Observed].balance = balance
  BY <1>1, <1>2 DEF Checkpointed
<1>4. ScaledUnclaimedReward(Observed)' = ScaledUnclaimedReward(Observed) - paid * SCALE_FACTOR
  BY <1>1, <1>2, Settle DEF PInv
<1>5. UnclaimedReward(Observed)' = reward - paid
  <2>1. (ScaledUnclaimedReward(Observed) - paid * SCALE_FACTOR) \div SCALE_FACTOR = reward - paid
    BY <1>1, <1>2, DivTake DEF UnclaimedReward
  <2>2. UnclaimedReward(Observed)' = ScaledUnclaimedReward(Observed)' \div SCALE_FACTOR
    BY DEF UnclaimedReward
  <2>3. QED
    BY <1>4, <2>1, <2>2
<1>6. CASE paid = 0
  <2>1. UnclaimedReward(Observed)' = UnclaimedReward(Observed)
    BY <1>1, <1>5, <1>6
  <2>2. rewardsIn' - stakerBalance' = rewardsIn - stakerBalance
    BY <1>1, <1>2, <1>6
  <2>3. balance >= before \/ balance \in 0..before
    BY <1>1, <1>2
  <2>4. Position!Add \/ Position!Remove
    BY <1>1, <1>3, <2>1, <2>2, <2>3 DEF Position!Add, Position!Remove
  <2>5. QED
    BY <2>4 DEF PositionStep, Position!Next
<1>7. CASE paid # 0
  <2>1. UnclaimedReward(Observed)' \in 0..UnclaimedReward(Observed)
    BY <1>1, <1>2, <1>5
  <2>2. (rewardsIn' - stakerBalance') - (rewardsIn - stakerBalance)
          = UnclaimedReward(Observed) - UnclaimedReward(Observed)'
    <3>1. rewardsIn' - stakerBalance' = (rewardsIn - stakerBalance) + paid
      BY <1>1, <1>2
    <3>2. reward - (reward - paid) = paid
      BY <1>1, <1>2
    <3>3. ((rewardsIn - stakerBalance) + paid) - (rewardsIn - stakerBalance) = paid
      BY <1>1, <1>2
    <3>4. QED
      BY <1>5, <3>1, <3>2, <3>3
  <2>3. deposits'[Observed].balance = deposits[Observed].balance
    BY <1>2, <1>3, <1>7
  <2>4. Position!Collect
    BY <1>1, <2>1, <2>2, <2>3 DEF Position!Collect
  <2>5. QED
    BY <2>4 DEF PositionStep, Position!Next
<1>8. QED
  BY <1>6, <1>7

\* A new deposit opens this position, or another one.
LEMMA OpeningCall ==
  ASSUME PInv, PInv', NEW depositor \in Accounts, NEW claimer \in Accounts,
         NEW delegatee \in Delegatees, NEW amount \in StakeAmounts,
         Stake(depositor, amount, delegatee, claimer)
  PROVE  PositionStep
<1>1. /\ Observed \in DepositIds /\ deposits \in [DepositIds -> Deposit] /\ amount \in Nat
      /\ now' = now /\ rewardsIn' = rewardsIn /\ stakerBalance' = stakerBalance
      /\ CheckpointGlobalReward
      /\ rewardPerTokenAccumulated \in Nat
  BY ObservedAssumption, StakerAssumption, Arithmetic
     DEF PInv, IInv, TypeOK, Stake, clockVars
<1>2. rewardPerTokenAccumulated' = rewardPerTokenAccumulated
  BY <1>1, CheckpointFreezes DEF PInv
<1>3. CASE nextDepositId = Observed
  <2>1. deposits[Observed] = EmptyDeposit
    BY <1>1, <1>3 DEF PInv, UnopenedAreEmpty, DepositIds
  <2>2. /\ deposits'[Observed].balance = amount
        /\ deposits'[Observed].earningPower = EarningPower(amount, delegatee)
        /\ deposits'[Observed].rewardPerTokenCheckpoint = rewardPerTokenAccumulated
        /\ deposits'[Observed].scaledUnclaimedRewardCheckpoint = 0
    BY <1>1, <1>3 DEF Stake
  <2>3. ScaledUnclaimedReward(Observed) = 0
    BY <1>1, <2>1 DEF ScaledUnclaimedReward, EmptyDeposit
  <2>4. ScaledUnclaimedReward(Observed)' = 0
    <3>1. EarningPower(amount, delegatee) \in Nat
      BY <1>1, PowerNat
    <3>2. EarningPower(amount, delegatee)
            * (rewardPerTokenAccumulated - rewardPerTokenAccumulated) = 0
      BY <1>1, <3>1, NoTimeNoReward
    <3>3. ScaledUnclaimedReward(Observed)' =
            0 + EarningPower(amount, delegatee)
                  * (rewardPerTokenAccumulated - rewardPerTokenAccumulated)
      BY <1>2, <2>2 DEF ScaledUnclaimedReward
    <3>4. QED
      BY <3>2, <3>3
  <2>5. UnclaimedReward(Observed)' = UnclaimedReward(Observed)
    BY <2>3, <2>4 DEF UnclaimedReward
  <2>6. amount >= deposits[Observed].balance
    BY <1>1, <2>1 DEF EmptyDeposit
  <2>7. Position!Add
    BY <1>1, <2>2, <2>5, <2>6 DEF Position!Add
  <2>8. QED
    BY <2>7 DEF PositionStep, Position!Next
<1>4. CASE nextDepositId # Observed
  <2>1. deposits'[Observed] = deposits[Observed]
    BY <1>1, <1>4 DEF Stake
  <2>2. UnclaimedReward(Observed)' = UnclaimedReward(Observed)
    BY <1>1, <1>2, <2>1, Untouched
  <2>3. QED
    BY <1>1, <2>1, <2>2 DEF PositionStep
<1>5. QED
  BY <1>3, <1>4

\* As time passes the reward in whole ZEN never shrinks.
LEMMA PassingTime == ASSUME PInv, PInv', Tick PROVE PositionStep
<1> DEFINE d == deposits[Observed]
           gain == rewardPerTokenAccumulated - d.rewardPerTokenCheckpoint
<1>1. /\ Observed \in DepositIds /\ now \in Nat /\ d \in Deposit
      /\ SCALE_FACTOR \in Nat \ {0}
      /\ rewardPerTokenAccumulated \in Nat
      /\ rewardPerTokenAccumulated >= rewardPerTokenAccumulatedCheckpoint
      /\ d.rewardPerTokenCheckpoint <= rewardPerTokenAccumulatedCheckpoint
      /\ rewardPerTokenAccumulatedCheckpoint \in Nat
  BY ObservedAssumption, StakerAssumption, Arithmetic
     DEF PInv, IInv, TypeOK, CheckpointsInOrder
<1>2. /\ now' = now + 1 /\ deposits' = deposits /\ rewardsIn' = rewardsIn
      /\ stakerBalance' = stakerBalance
  BY DEF Tick, depositVars, tokenVars
<1>3. PICK later \in Nat : later = rewardPerTokenAccumulated' /\ later >= rewardPerTokenAccumulated
  BY TickAccumulates, Arithmetic DEF PInv
<1> DEFINE laterGain == later - d.rewardPerTokenCheckpoint
<1>4. /\ d.earningPower \in Nat /\ d.scaledUnclaimedRewardCheckpoint \in Nat
      /\ gain \in Nat /\ laterGain \in Nat /\ gain <= laterGain
  BY <1>1, <1>3 DEF Deposit
<1>5. /\ ScaledUnclaimedReward(Observed)
           = d.scaledUnclaimedRewardCheckpoint + d.earningPower * gain
      /\ ScaledUnclaimedReward(Observed)'
           = d.scaledUnclaimedRewardCheckpoint + d.earningPower * laterGain
  BY <1>2, <1>3 DEF ScaledUnclaimedReward
<1> HIDE DEF gain, laterGain
<1>6. /\ d.earningPower * gain \in Nat /\ d.earningPower * laterGain \in Nat
      /\ d.earningPower * gain <= d.earningPower * laterGain
  BY <1>4, MulNat, MulMonotone
<1> DEFINE scaled == d.scaledUnclaimedRewardCheckpoint + d.earningPower * gain
           laterScaled == d.scaledUnclaimedRewardCheckpoint + d.earningPower * laterGain
<1>7. scaled \in Nat /\ laterScaled \in Nat /\ scaled <= laterScaled
  BY <1>4, <1>6
<1> HIDE DEF scaled, laterScaled
<1>8. laterScaled \div SCALE_FACTOR >= scaled \div SCALE_FACTOR
  <2>1. laterScaled \div SCALE_FACTOR \in Nat /\ scaled \div SCALE_FACTOR \in Nat
    BY <1>1, <1>7, DivNat
  <2>2. QED
    BY <1>1, <1>7, <2>1, DivMonotone
<1>9. /\ UnclaimedReward(Observed) = scaled \div SCALE_FACTOR
      /\ UnclaimedReward(Observed)' = laterScaled \div SCALE_FACTOR
  BY <1>5 DEF UnclaimedReward, scaled, laterScaled
<1>10. now' > now
  BY <1>1, <1>2
<1>11. ASSUME d.balance = 0 PROVE scaled = laterScaled
  <2>1. d.earningPower = 0
    BY <1>4, <1>11, ObservedAssumption DEF PInv, PowerWithinStake
  <2>2. d.earningPower * gain = 0 /\ d.earningPower * laterGain = 0
    BY <1>4, <2>1
  <2>3. QED
    BY <2>2 DEF scaled, laterScaled
<1>12. UnclaimedReward(Observed)' > UnclaimedReward(Observed) => deposits[Observed].balance > 0
  <2>1. UnclaimedReward(Observed)' > UnclaimedReward(Observed) => scaled # laterScaled
    <3>1. UnclaimedReward(Observed) \in Int
      BY <1>1, <1>7, <1>9, DivNat
    <3>2. QED
      BY <1>9, <3>1
  <2>2. d.balance \in Nat
    BY <1>1 DEF Deposit
  <2>3. QED
    BY <1>11, <2>1, <2>2
<1>13. Position!Earn
  BY <1>2, <1>8, <1>9, <1>10, <1>12 DEF Position!Earn
<1>14. QED
  BY <1>13 DEF PositionStep, Position!Next

LEMMA StepImplements == PInv /\ PInv' /\ [Next]_vars => PositionStep
<1> SUFFICES ASSUME PInv, PInv', [Next]_vars PROVE PositionStep
  OBVIOUS
<1>1. ASSUME NEW id \in Opened, DepositCall(id) PROVE PositionStep
  BY <1>1, OtherCall, OwnCall
<1>2. Observed \in DepositIds /\ rewardsIn \in Nat /\ stakerBalance \in Nat
  BY ObservedAssumption DEF PInv, IInv, TypeOK
<1>3. ASSUME UNCHANGED <<now, deposits>>, rewardPerTokenAccumulated' = rewardPerTokenAccumulated,
             rewardsIn' - stakerBalance' = rewardsIn - stakerBalance
      PROVE  PositionStep
  BY <1>2, <1>3, Untouched DEF PositionStep
<1>4. ASSUME NEW notifier \in Notifiers, NEW amount \in RewardAmounts,
             NotifyRewardAmount(notifier, amount)
      PROVE  PositionStep
  <2>1. amount \in Nat /\ UNCHANGED <<now, deposits>>
    BY <1>4, StakerAssumption DEF NotifyRewardAmount, depositVars
  <2>2. rewardsIn' = rewardsIn + amount /\ stakerBalance' = stakerBalance + amount
    BY <1>4 DEF NotifyRewardAmount
  <2>3. rewardsIn' - stakerBalance' = rewardsIn - stakerBalance
    BY <1>2, <2>1, <2>2
  <2>4. QED
    BY <1>3, <1>4, <2>1, <2>3, NotifyFreezes DEF PInv
<1>5. ASSUME UNCHANGED <<clockVars, depositVars, rewardVars, stakerBalance>> PROVE PositionStep
  BY <1>3, <1>5 DEF clockVars, depositVars, rewardVars, rewardPerTokenAccumulated,
                    lastTimeRewardDistributed
<1>6. ASSUME NEW caller \in Admins, AdminCall(caller) PROVE PositionStep
  BY <1>5, <1>6 DEF AdminCall, SetAdmin, SetRewardNotifier, SetClaimFeeParameters,
                    SetMaxBumpTip, SetEarningPowerCalculator, tokenVars
<1>7. CASE UNCHANGED vars
  BY <1>5, <1>7 DEF vars, tokenVars
<1>8. QED
  BY <1>1, <1>4, <1>6, <1>7, OpeningCall, PassingTime DEF Next, StakingNext

LEMMA InitImplements == Init => Position!Init
<1> SUFFICES ASSUME Init PROVE Position!Init
  OBVIOUS
<1>1. Observed \in DepositIds /\ deposits[Observed] = EmptyDeposit /\ now = 1
  BY ObservedAssumption DEF Init
<1>2. rewardsIn - stakerBalance = 0 /\ rewardPerTokenAccumulated = 0
  BY DEF Init, rewardPerTokenAccumulated
<1>3. ScaledUnclaimedReward(Observed) = 0
  BY <1>1, <1>2 DEF ScaledUnclaimedReward, EmptyDeposit
<1>4. UnclaimedReward(Observed) = 0
  BY <1>3, StakerAssumption, ZeroDiv DEF UnclaimedReward
<1>5. QED
  BY <1>1, <1>2, <1>4 DEF Position!Init, EmptyDeposit

\* The detailed contract implements the abstract one, deposit by deposit: what the
\* vault assumes of its position holds for any pool, calculator, fees and callers.
THEOREM PositionImplemented == Spec => ImplementsPosition
<1>1. Spec => []PInv
  BY InitPInv, NextPInv, PTL DEF Spec
<1>2. PInv /\ PInv' /\ [Next]_vars =>
        [Position!Next]_<<now, deposits[Observed].balance, UnclaimedReward(Observed),
                          rewardsIn - stakerBalance>>
  BY StepImplements DEF PositionStep
<1>3. QED
  BY <1>1, <1>2, InitImplements, PTL DEF Spec, ImplementsPosition, Position!Spec

(***************************************************************************)
(* The staking contract behind the accumulator that feeds it.              *)
(***************************************************************************)

\* The staking contract's invariant, the accumulator's types, the accounting, a
\* grid that is never ahead of the clock and whose latest point is the start of
\* the window flushed last.
AInv ==
  /\ IInv
  /\ lastRewardTime \in Nat /\ timeWindow \in Windows
  /\ whitelistEnabled \in BOOLEAN /\ whitelist \in SUBSET Accounts
  /\ accumulatedRewards \in Nat /\ accumulatorBalance \in Nat
  /\ AccumulatedIsHeld
  /\ lastRewardTime <= now
  /\ gridStart \in Nat /\ latestCell \in Nat
  /\ lastRewardTime = gridStart + latestCell * timeWindow

LEMMA AccumulatorInitAInv == AccumulatorInit => AInv
<1> SUFFICES ASSUME AccumulatorInit PROVE AInv
  OBVIOUS
<1>1. IInv /\ now \in Nat /\ lastRewardTime = now /\ gridStart = now /\ latestCell = 0
      /\ timeWindow \in Nat \ {0}
  BY InitIInv, AccumulatorAssumption DEF AccumulatorInit, Init
<1>2. gridStart + latestCell * timeWindow = lastRewardTime
  <2>1. \A w \in Nat, t \in Nat : t + 0 * w = t
    OBVIOUS
  <2>2. QED
    BY <1>1, <2>1
<1>3. QED
  BY <1>1, <1>2 DEF AccumulatorInit, AInv, AccumulatedIsHeld

\* Contributions touch the staking contract's state only in the sender's wallet.
LEMMA SendAInv ==
  ASSUME AInv, NEW user \in Accounts, NEW amount \in Contributions,
         Send(user, amount), UNCHANGED stakerButWallet
  PROVE  /\ IInv' /\ now' = now
         /\ accumulatorBalance' = accumulatorBalance + amount /\ amount \in Nat
<1>1. amount \in Nat /\ wallet \in [Accounts -> Nat]
  BY AccumulatorAssumption DEF AInv, IInv, TypeOK
<1>2. wallet' \in [Accounts -> Nat]
  BY <1>1, DebitEntry DEF Send
<1>3. UNCHANGED <<clockVars, depositVars, rewardVars, adminVars, eligible, surrogate,
                  stakerBalance>>
  BY DEF stakerButWallet
<1>4. TypeOK' /\ CheckpointsInOrder'
  BY <1>2, <1>3 DEF AInv, IInv, TypeOK, CheckpointsInOrder, clockVars, depositVars,
     rewardVars, adminVars
<1>5. QED
  BY <1>1, <1>3, <1>4 DEF IInv, Send, clockVars

\* The gate closes and the grid stays behind the clock, after any idle time.
LEMMA SnapBounds ==
  ASSUME AInv, SnapToGrid
  PROVE  /\ lastRewardTime' \in Nat /\ lastRewardTime' <= now
         /\ now < lastRewardTime' + timeWindow
         /\ Cell(now) \in Nat /\ lastRewardTime' = gridStart + Cell(now) * timeWindow
         /\ now >= nextRewardTime => Cell(now) > latestCell
<1> DEFINE steps == (now - lastRewardTime) \div timeWindow
<1>1. /\ now \in Nat /\ lastRewardTime \in Nat /\ now - lastRewardTime \in Nat
      /\ timeWindow \in Nat \ {0}
  BY AccumulatorAssumption DEF AInv, IInv, TypeOK
<1>2. steps \in Nat /\ steps * timeWindow \in Nat
  BY <1>1, DivNat, MulNat
<1>3. /\ steps * timeWindow <= now - lastRewardTime
      /\ now - lastRewardTime < steps * timeWindow + timeWindow
  BY <1>1, DivBounds
<1>4. lastRewardTime' = lastRewardTime + steps * timeWindow
  BY DEF SnapToGrid
<1>7. /\ Cell(now) = steps + latestCell /\ latestCell \in Nat /\ gridStart \in Nat
      /\ lastRewardTime = gridStart + latestCell * timeWindow
      /\ latestCell * timeWindow \in Nat
  <2>1. /\ gridStart \in Nat /\ latestCell \in Nat
        /\ lastRewardTime = gridStart + latestCell * timeWindow
        /\ latestCell * timeWindow \in Nat
    BY <1>1, MulNat DEF AInv
  <2>2. \A L \in Nat : lastRewardTime = gridStart + L
          => now - gridStart = (now - lastRewardTime) + L
    BY <1>1, <2>1
  <2>3. now - gridStart = (now - lastRewardTime) + latestCell * timeWindow
    BY <2>1, <2>2
  <2>4. ((now - lastRewardTime) + latestCell * timeWindow) \div timeWindow = steps + latestCell
    BY <1>1, <2>1, DivShift
  <2>5. QED
    BY <2>1, <2>3, <2>4, Zenon DEF Cell
<1>8. now >= nextRewardTime => steps >= 1
  <2>1. steps = 0 => steps * timeWindow = 0
    BY <1>1
  <2>2. now >= nextRewardTime => now - lastRewardTime >= timeWindow
    BY <1>1 DEF nextRewardTime
  <2>3. \A k \in Nat, w \in Nat \ {0}, e \in Nat : e < k + w /\ e >= w => k # 0
    OBVIOUS
  <2>4. now >= nextRewardTime => steps * timeWindow # 0
    BY <1>1, <1>2, <1>3, <2>2, <2>3
  <2>5. QED
    BY <1>2, <2>1, <2>4
<1> HIDE DEF steps
<1>9. lastRewardTime' = gridStart + Cell(now) * timeWindow
  <2>1. (steps + latestCell) * timeWindow = latestCell * timeWindow + steps * timeWindow
    BY <1>1, <1>2, <1>7
  <2>2. \A L \in Nat, S \in Nat : (gridStart + L) + S = gridStart + (L + S)
    BY <1>7
  <2>3. (gridStart + latestCell * timeWindow) + steps * timeWindow
          = gridStart + (latestCell * timeWindow + steps * timeWindow)
    BY <1>2, <1>7, <2>2
  <2>4. QED
    BY <1>4, <1>7, <2>1, <2>3, Zenon
<1>10. Cell(now) \in Nat /\ (now >= nextRewardTime => Cell(now) > latestCell)
  BY <1>2, <1>7, <1>8
<1> DEFINE advance == steps * timeWindow
<1>5. advance \in Nat /\ advance <= now - lastRewardTime
      /\ now - lastRewardTime < advance + timeWindow /\ lastRewardTime' = lastRewardTime + advance
  BY <1>2, <1>3, <1>4
<1> HIDE DEF advance
<1>6. /\ lastRewardTime' \in Nat /\ lastRewardTime' <= now
      /\ now < lastRewardTime' + timeWindow
  BY <1>1, <1>5
<1>11. QED
  BY <1>6, <1>9, <1>10

LEMMA FlushAInv == ASSUME AInv, SendRewardsToStaker PROVE AInv'
<1>1. /\ lastRewardTime' \in Nat /\ lastRewardTime' <= now
      /\ gridStart' = gridStart /\ gridStart \in Nat /\ latestCell' \in Nat
      /\ lastRewardTime' = gridStart' + latestCell' * timeWindow'
  <2>1. /\ latestCell' = Cell(now) /\ gridStart' = gridStart /\ timeWindow' = timeWindow
        /\ gridStart \in Nat
    BY DEF SendRewardsToStaker, configVars, AInv
  <2>2. /\ lastRewardTime' \in Nat /\ lastRewardTime' <= now /\ Cell(now) \in Nat
        /\ lastRewardTime' = gridStart + Cell(now) * timeWindow
    BY SnapBounds DEF SendRewardsToStaker
  <2>3. lastRewardTime' = gridStart' + latestCell' * timeWindow'
    BY <2>1, <2>2, Zenon
  <2>4. QED
    BY <2>1, <2>2, <2>3
<1>2. IInv' /\ now' = now
  <2>1. CASE accumulatedRewards > 0 /\ Deliver
    <3>1. NotifyRewardAmount(Accumulator, accumulatedRewards)
      BY <2>1 DEF Deliver
    <3>2. Accumulator \in Notifiers /\ accumulatedRewards \in Nat /\ IInv
      BY AccumulatorAssumption DEF AInv
    <3>3. QED
      BY <3>1, <3>2, NotifyRewardAmountIInv DEF NotifyRewardAmount
  <2>2. CASE UNCHANGED <<vars, fundVars>>
    BY <2>2, StutterIInv DEF AInv, vars, clockVars
  <2>3. QED
    BY <2>1, <2>2 DEF SendRewardsToStaker
<1>3. /\ accumulatedRewards' \in Nat /\ accumulatorBalance' \in Nat
      /\ accumulatedRewards' <= accumulatorBalance'
  BY DEF SendRewardsToStaker, Deliver, AInv, AccumulatedIsHeld, fundVars
<1>4. UNCHANGED configVars
  BY DEF SendRewardsToStaker
<1>5. QED
  BY <1>1, <1>2, <1>3, <1>4 DEF AInv, AccumulatedIsHeld, configVars

LEMMA StakingStep == ASSUME IInv, StakingNext PROVE IInv' /\ now' \in Nat /\ now' >= now
<1>1. IInv'
  BY NextIInv DEF Next
<1>2. now \in Nat
  BY DEF IInv, TypeOK
<1>3. Tick \/ now' = now
  BY <1>1, StepAccumulator DEF Next
<1>4. QED
  BY <1>1, <1>2, <1>3 DEF Tick

LEMMA AccumulatorNextAInv == AInv /\ [AccumulatorNext]_allVars => AInv'
<1> SUFFICES ASSUME AInv, [AccumulatorNext]_allVars PROVE AInv'
  OBVIOUS
<1>1. CASE StakingNext /\ UNCHANGED <<gridVars, configVars, fundVars>>
  <2>1. IInv' /\ now' \in Nat /\ now' >= now /\ now \in Nat
    BY <1>1, StakingStep DEF AInv, IInv, TypeOK
  <2>2. QED
    BY <1>1, <2>1 DEF AInv, AccumulatedIsHeld, gridVars, configVars, fundVars
<1>2. ASSUME NEW user \in Accounts, NEW amount \in Contributions,
             TransferAndNotifyRewards(user, amount)
      PROVE  AInv'
  BY <1>2, SendAInv DEF TransferAndNotifyRewards, AInv, AccumulatedIsHeld, gridVars, configVars
<1>3. ASSUME NEW user \in Accounts, NEW amount \in Contributions, DirectTransfer(user, amount)
      PROVE  AInv'
  BY <1>3, SendAInv DEF DirectTransfer, AInv, AccumulatedIsHeld, gridVars, configVars
<1>4. ASSUME NEW user \in Accounts, NEW amount \in Contributions,
             NotifyAlreadyTransferredRewards(user, amount)
      PROVE  AInv'
  <2>1. IInv' /\ now' = now
    BY <1>4, StutterIInv DEF NotifyAlreadyTransferredRewards, AInv, vars, clockVars
  <2>2. QED
    BY <1>4, <2>1, AccumulatorAssumption
       DEF NotifyAlreadyTransferredRewards, AInv, AccumulatedIsHeld, gridVars, configVars
<1>5. CASE SendRewardsToStaker
  BY <1>5, FlushAInv
<1>6. ASSUME UNCHANGED vars, UNCHANGED lastRewardTime, UNCHANGED fundVars,
             timeWindow' \in Windows, gridStart' \in Nat, latestCell' \in Nat,
             lastRewardTime' = gridStart' + latestCell' * timeWindow',
             whitelistEnabled' \in BOOLEAN,
             whitelist' \in SUBSET Accounts
      PROVE  AInv'
  BY <1>6, StutterIInv DEF AInv, AccumulatedIsHeld, vars, clockVars, fundVars
<1>7. ASSUME NEW window \in Windows, SetTimeWindow(window) PROVE AInv'
  <2>1. /\ timeWindow' \in Windows /\ gridStart' = lastRewardTime /\ latestCell' = 0
        /\ lastRewardTime' = lastRewardTime /\ lastRewardTime \in Nat
    BY <1>7 DEF SetTimeWindow, AInv
  <2>2. lastRewardTime' = gridStart' + latestCell' * timeWindow'
    <3>1. \A w \in Nat, t \in Nat : t = t + 0 * w
      OBVIOUS
    <3>2. timeWindow' \in Nat
      BY <2>1, AccumulatorAssumption
    <3>3. QED
      BY <2>1, <3>1, <3>2
  <2>3. QED
    BY <1>6, <1>7, <2>1, <2>2 DEF SetTimeWindow, AInv
<1>8. ASSUME NEW enabled \in BOOLEAN, SetWhitelistEnabled(enabled) PROVE AInv'
  BY <1>6, <1>8 DEF SetWhitelistEnabled, AInv, gridVars
<1>9. ASSUME NEW user \in Accounts, NEW enabled \in BOOLEAN, SetWhitelist(user, enabled)
      PROVE  AInv'
  BY <1>6, <1>9 DEF SetWhitelist, AInv, gridVars
<1>10. CASE UNCHANGED allVars
  BY <1>6, <1>10 DEF AInv, allVars, gridVars, configVars
<1>11. QED
  BY <1>1, <1>2, <1>3, <1>4, <1>5, <1>7, <1>8, <1>9, <1>10 DEF AccumulatorNext

\* Types of the composed system: the staking contract keeps its own under the
\* amounts the accumulator delivers.
THEOREM AccumulatorTypeCorrect == AccumulatorSpec => []AccumulatorTypeOK
<1>1. AInv => AccumulatorTypeOK
  BY DEF AInv, IInv, AccumulatorTypeOK
<1>2. QED
  BY <1>1, AccumulatorInitAInv, AccumulatorNextAInv, PTL DEF AccumulatorSpec

\* No interleaving of direct transfers and reports accounts for a token twice.
THEOREM AccumulatedIsAlwaysHeld == AccumulatorSpec => []AccumulatedIsHeld
<1>1. AInv => AccumulatedIsHeld
  BY DEF AInv
<1>2. QED
  BY <1>1, AccumulatorInitAInv, AccumulatorNextAInv, PTL DEF AccumulatorSpec

\* The reward arithmetic of the staking contract stays in order behind the
\* accumulator, whatever total a flush delivers.
THEOREM CheckpointOrderBehindAccumulator == AccumulatorSpec => []CheckpointsInOrder
<1>1. AInv => CheckpointsInOrder
  BY DEF AInv, IInv
<1>2. QED
  BY <1>1, AccumulatorInitAInv, AccumulatorNextAInv, PTL DEF AccumulatorSpec

\* Every flush falls in a later window of the grid than the one before it, after
\* any idle time, and the gate opens next when the next window starts.
THEOREM OneFlushPerWindow == AccumulatorSpec => FlushedOncePerWindow
<1>1. AInv /\ [AccumulatorNext]_allVars =>
        [SendRewardsToStaker =>
           /\ Cell(now) > latestCell
           /\ nextRewardTime' = gridStart + (Cell(now) + 1) * timeWindow]_allVars
  <2> SUFFICES ASSUME AInv, SendRewardsToStaker
               PROVE  /\ Cell(now) > latestCell
                      /\ nextRewardTime' = gridStart + (Cell(now) + 1) * timeWindow
    OBVIOUS
  <2>1. /\ now >= nextRewardTime /\ Cell(now) \in Nat
        /\ lastRewardTime' = gridStart + Cell(now) * timeWindow
        /\ Cell(now) > latestCell /\ timeWindow' = timeWindow
    BY SnapBounds DEF SendRewardsToStaker, configVars
  <2>2. \A g \in Nat, k \in Nat, w \in Nat : (g + k * w) + w = g + (k + 1) * w
    OBVIOUS
  <2>3. gridStart \in Nat /\ timeWindow \in Nat
    BY AccumulatorAssumption DEF AInv
  <2>4. (gridStart + Cell(now) * timeWindow) + timeWindow = gridStart + (Cell(now) + 1) * timeWindow
    BY <2>1, <2>2, <2>3
  <2>5. QED
    BY <2>1, <2>4, Zenon DEF nextRewardTime
<1>2. QED
  BY <1>1, AccumulatorInitAInv, AccumulatorNextAInv, PTL DEF AccumulatorSpec, FlushedOncePerWindow

(***************************************************************************)
(* Whom a deposit belongs to: an open one has an owner and a surrogate and *)
(* a fee is only charged when someone collects it.                         *)
(***************************************************************************)

OwnersKnown == \A id \in Opened : /\ deposits[id].owner \in Accounts
                                  /\ deposits[id].delegatee \in Delegatees

FeeHasCollector == feeCollector \in Accounts \/ claimFee = 0

LEMMA OwnersStayKnown ==
  ASSUME IInv, OwnersKnown, FeeHasCollector, StakingNext
  PROVE  OwnersKnown' /\ FeeHasCollector'
<1>1. deposits \in [DepositIds -> Deposit] /\ nextDepositId \in Nat
  BY DEF IInv, TypeOK
<1>2. ASSUME NEW depositor \in Accounts, NEW claimer \in Accounts,
             NEW delegatee \in Delegatees, NEW amount \in StakeAmounts,
             Stake(depositor, amount, delegatee, claimer)
      PROVE  OwnersKnown' /\ FeeHasCollector'
  <2>1. /\ nextDepositId' = nextDepositId + 1 /\ UNCHANGED <<claimFee, feeCollector>>
        /\ nextDepositId \in DepositIds
        /\ deposits'[nextDepositId].owner = depositor
        /\ deposits'[nextDepositId].delegatee = delegatee
        /\ \A id \in DepositIds \ {nextDepositId} : deposits'[id] = deposits[id]
    BY <1>1, <1>2, StakerAssumption DEF Stake, adminVars, DepositIds
  <2>2. ASSUME NEW id \in Opened' PROVE /\ deposits'[id].owner \in Accounts
                                        /\ deposits'[id].delegatee \in Delegatees
    <3>1. CASE id = nextDepositId
      BY <1>2, <2>1, <3>1
    <3>2. CASE id # nextDepositId
      <4>1. id \in Opened
        BY <1>1, <2>1, <3>2 DEF Opened, DepositIds
      <4>2. QED
        BY <2>1, <3>2, <4>1 DEF OwnersKnown, Opened
    <3>3. QED
      BY <3>1, <3>2
  <2>3. QED
    BY <2>1, <2>2 DEF OwnersKnown, FeeHasCollector
<1>3. ASSUME NEW id \in Opened, DepositCall(id) PROVE OwnersKnown' /\ FeeHasCollector'
  <2>1. id \in DepositIds /\ nextDepositId' = nextDepositId
    BY <1>3, DepositCallShape DEF Opened
  <2>2. UNCHANGED <<claimFee, feeCollector>>
    BY <1>3 DEF DepositCall, StakeMore, Withdraw, AlterDelegatee, AlterClaimer, ClaimReward,
                ClaimNothing, BumpEarningPower, adminVars
  <2>3. \E balance, claimer, power, paid : \E delegatee \in Delegatees :
           deposits' = [deposits EXCEPT ![id] =
                          Checkpointed(id, balance, delegatee, claimer, power, paid)]
    <3>1. deposits[id].delegatee \in Delegatees
      BY <1>3 DEF OwnersKnown
    <3>2. QED
      BY <1>3, <3>1 DEF DepositCall, StakeMore, Withdraw, AlterDelegatee, AlterClaimer,
                        ClaimReward, ClaimNothing, BumpEarningPower
  <2>4. PICK balance, claimer, power, paid : \E delegatee \in Delegatees :
           deposits' = [deposits EXCEPT ![id] =
                          Checkpointed(id, balance, delegatee, claimer, power, paid)]
    BY <2>3
  <2>5. /\ deposits'[id].owner = deposits[id].owner
        /\ deposits'[id].delegatee \in Delegatees
        /\ \A other \in DepositIds \ {id} : deposits'[other] = deposits[other]
    BY <1>1, <2>1, <2>4 DEF Checkpointed
  <2>6. ASSUME NEW other \in Opened PROVE /\ deposits'[other].owner \in Accounts
                                          /\ deposits'[other].delegatee \in Delegatees
    <3>1. CASE other = id
      BY <1>3, <2>5, <3>1 DEF OwnersKnown
    <3>2. CASE other # id
      BY <2>5, <3>2 DEF OwnersKnown, Opened
    <3>3. QED
      BY <3>1, <3>2
  <2>7. QED
    BY <2>1, <2>2, <2>6 DEF OwnersKnown, FeeHasCollector, Opened
<1>4. ASSUME UNCHANGED depositVars PROVE OwnersKnown'
  BY <1>4 DEF OwnersKnown, Opened, depositVars
<1>5. ASSUME UNCHANGED <<claimFee, feeCollector>> PROVE FeeHasCollector'
  BY <1>5 DEF FeeHasCollector
<1>6. ASSUME NEW caller \in Admins, AdminCall(caller) PROVE OwnersKnown' /\ FeeHasCollector'
  <2>1. UNCHANGED depositVars
    BY <1>6 DEF AdminCall, SetAdmin, SetRewardNotifier, SetClaimFeeParameters, SetMaxBumpTip,
                SetEarningPowerCalculator
  <2>2. \/ UNCHANGED <<claimFee, feeCollector>>
        \/ \E fee \in Fees, collector \in Accounts \cup {NoAccount} :
             SetClaimFeeParameters(caller, fee, collector)
    BY <1>6 DEF AdminCall, SetAdmin, SetRewardNotifier, SetMaxBumpTip,
                SetEarningPowerCalculator, adminVars
  <2>3. FeeHasCollector'
    BY <1>5, <2>2 DEF SetClaimFeeParameters, FeeHasCollector
  <2>4. QED
    BY <1>4, <2>1, <2>3
<1>7. ASSUME Tick PROVE OwnersKnown' /\ FeeHasCollector'
  BY <1>4, <1>5, <1>7 DEF Tick, adminVars
<1>8. QED
  BY <1>2, <1>3, <1>6, <1>7 DEF StakingNext

\* The staking contract's invariant survives contributions, and flushes are notifications.
LEMMA AccumulatorNextSInv == AInv /\ SInv /\ [AccumulatorNext]_allVars => AInv' /\ SInv'
<1> SUFFICES ASSUME AInv, SInv, [AccumulatorNext]_allVars PROVE SInv'
  BY AccumulatorNextAInv
<1>1. AInv' /\ IInv'
  BY AccumulatorNextAInv DEF AInv
<1>2. CASE StakingNext
  BY <1>2, NextSInv DEF Next
<1>3. ASSUME UNCHANGED <<depositVars, rewardVars, surrogate, stakerBalance>> PROVE SInv'
  BY <1>1, <1>3
     DEF SInv, PInv, UnopenedAreEmpty, PowerWithinStake, Ledger, Totals, Backed,
         StoredSolvency, Owed, Due, BalanceOf, PowerOf, Owned, Delegated, depositVars, rewardVars
<1>4. UNCHANGED vars \/ UNCHANGED stakerButWallet
        => UNCHANGED <<depositVars, rewardVars, surrogate, stakerBalance>>
  BY DEF vars, stakerButWallet, tokenVars
<1>5. ASSUME Deliver PROVE SInv'
  <2>1. NotifyRewardAmount(Accumulator, accumulatedRewards)
    BY <1>5 DEF Deliver
  <2>2. Accumulator \in Notifiers /\ accumulatedRewards \in Nat
    BY AccumulatorAssumption DEF AInv
  <2>3. StoredSolvency'
    BY <1>1, <2>1, <2>2, NotifySolvency
  <2>4. UNCHANGED depositVars /\ UNCHANGED surrogate
    BY <2>1 DEF NotifyRewardAmount
  <2>5. UnopenedAreEmpty' /\ PowerWithinStake' /\ Ledger'
    BY <2>4 DEF SInv, PInv, UnopenedAreEmpty, PowerWithinStake, Ledger, Totals, Backed,
                BalanceOf, PowerOf, Owned, Delegated, depositVars
  <2>6. QED
    BY <1>1, <2>3, <2>5 DEF SInv, PInv
<1>6. QED
  BY <1>2, <1>3, <1>4, <1>5
     DEF AccumulatorNext, TransferAndNotifyRewards, DirectTransfer,
         NotifyAlreadyTransferredRewards, SendRewardsToStaker, SetTimeWindow,
         SetWhitelistEnabled, SetWhitelist, allVars

\* The deployed system is solvent too: the accumulator's totals are whatever was
\* contributed in a window, and contributions touch no state the pool owes by.
THEOREM FundedBehindAccumulator == AccumulatorSpec => []RewardSolvency
<1>1. AccumulatorInit => AInv /\ SInv
  BY AccumulatorInitAInv, InitSInv DEF AccumulatorInit
<1>2. QED
  BY <1>1, AccumulatorNextSInv, SolvencyIs, PTL DEF AccumulatorSpec

(***************************************************************************)
(* Leaving.  The condition under which a call can be made is stated by     *)
(* itself: the call is that condition and one value for each variable.     *)
(***************************************************************************)

WithdrawAllowed(id, amount) ==
  LET d     == deposits[id]
      power == EarningPower(d.balance - amount, d.delegatee) IN
  /\ d.balance >= amount
  /\ totalStaked >= amount /\ depositorTotalStaked[d.owner] >= amount
  /\ totalEarningPower + power >= d.earningPower
  /\ depositorTotalEarningPower[d.owner] + power >= d.earningPower
  /\ surrogate[d.delegatee] >= amount

CheckpointSets(id, balance, power, paid) ==
  LET d == deposits[id] IN
  /\ rewardPerTokenAccumulatedCheckpoint' = rewardPerTokenAccumulated
  /\ lastCheckpointTime' = lastTimeRewardDistributed
  /\ UNCHANGED <<rewardEndTime, scaledRewardRate>>
  /\ totalEarningPower' = totalEarningPower + power - d.earningPower
  /\ depositorTotalEarningPower' =
       [depositorTotalEarningPower EXCEPT ![d.owner] = @ + power - d.earningPower]
  /\ deposits' = [deposits EXCEPT ![id] =
       Checkpointed(id, balance, d.delegatee, d.claimer, power, paid)]
  /\ UNCHANGED <<nextDepositId, clockVars, adminVars, eligible>>

WithdrawSets(id, amount) ==
  LET d == deposits[id] IN
  /\ CheckpointSets(id, d.balance - amount, EarningPower(d.balance - amount, d.delegatee), 0)
  /\ totalStaked' = totalStaked - amount
  /\ depositorTotalStaked' = [depositorTotalStaked EXCEPT ![d.owner] = @ - amount]
  /\ surrogate' = [surrogate EXCEPT ![d.delegatee] = @ - amount]
  /\ wallet' = [wallet EXCEPT ![d.owner] = @ + amount]
  /\ UNCHANGED stakerBalance

\* A withdrawal has no other condition.
LEMMA WithdrawIs ==
  ASSUME NEW id, NEW amount
  PROVE  Withdraw(id, amount) <=> WithdrawAllowed(id, amount) /\ WithdrawSets(id, amount)
BY DEF Withdraw, WithdrawAllowed, WithdrawSets, CheckpointSets, CheckpointGlobalReward,
       ReplaceEarningPower

ClaimAllowed(id, caller) ==
  LET d     == deposits[id]
      power == EarningPower(d.balance, d.delegatee) IN
  /\ caller \in {d.owner, d.claimer}
  /\ UnclaimedReward(id) > claimFee
  /\ totalEarningPower + power >= d.earningPower
  /\ depositorTotalEarningPower[d.owner] + power >= d.earningPower
  /\ stakerBalance >= UnclaimedReward(id)

ClaimSets(id, caller) ==
  LET d      == deposits[id]
      reward == UnclaimedReward(id) IN
  /\ CheckpointSets(id, d.balance, EarningPower(d.balance, d.delegatee), reward)
  /\ stakerBalance' = stakerBalance - reward
  /\ wallet' = [acct \in Accounts |->
       wallet[acct] + (IF acct = caller THEN reward - claimFee ELSE 0)
                    + (IF acct = feeCollector THEN claimFee ELSE 0)]
  /\ UNCHANGED <<totalStaked, depositorTotalStaked, surrogate>>

\* Nor has a claim that pays.
LEMMA ClaimIs ==
  ASSUME NEW id, NEW caller
  PROVE  ClaimReward(id, caller) <=> ClaimAllowed(id, caller) /\ ClaimSets(id, caller)
BY DEF ClaimReward, ClaimAllowed, ClaimSets, CheckpointSets, CheckpointGlobalReward,
       ReplaceEarningPower

ExitIsOpen ==
  \A id \in Opened :
    /\ WithdrawAllowed(id, deposits[id].balance)
    /\ UnclaimedReward(id) > claimFee => ClaimAllowed(id, deposits[id].owner)

\* A deposit is part of every total it counts for.
LEMMA PartOfTotals ==
  ASSUME SInv, OwnersKnown, NEW id \in Opened
  PROVE  /\ deposits[id].balance <= totalStaked
         /\ deposits[id].balance <= depositorTotalStaked[deposits[id].owner]
         /\ deposits[id].balance <= surrogate[deposits[id].delegatee]
         /\ deposits[id].earningPower <= totalEarningPower
         /\ deposits[id].earningPower <= depositorTotalEarningPower[deposits[id].owner]
<1> DEFINE b == [i \in DepositIds |-> deposits[i].balance]
           p == [i \in DepositIds |-> deposits[i].earningPower]
<1>1. /\ deposits \in [DepositIds -> Deposit] /\ id \in DepositIds
      /\ deposits[id].owner \in Accounts /\ deposits[id].delegatee \in Delegatees
  BY DEF SInv, PInv, IInv, TypeOK, OwnersKnown, Opened
<1>2. /\ \A i \in DepositIds : b[i] \in Nat /\ p[i] \in Nat
      /\ b[id] = deposits[id].balance /\ p[id] = deposits[id].earningPower
  BY <1>1 DEF Deposit
<1>3. /\ \A ids : BalanceOf(deposits, ids) = SumFunctionOnSet(b, ids)
      /\ \A ids : PowerOf(deposits, ids) = SumFunctionOnSet(p, ids)
  BY DEF BalanceOf, PowerOf
<1> HIDE DEF b, p
<1>4. ASSUME NEW ids \in SUBSET DepositIds, id \in ids
      PROVE  /\ deposits[id].balance <= BalanceOf(deposits, ids)
             /\ deposits[id].earningPower <= PowerOf(deposits, ids)
  <2>1. IsFiniteSet(ids)
    BY IdsOfFinite
  <2>2. b[id] <= SumFunctionOnSet(b, ids) /\ p[id] <= SumFunctionOnSet(p, ids)
    BY <1>2, <1>4, <2>1, EntryAtMostSum
  <2>3. QED
    BY <1>2, <1>3, <2>2
<1>5. /\ id \in Owned(deposits, deposits[id].owner)
      /\ id \in Delegated(deposits, deposits[id].delegatee)
      /\ Owned(deposits, deposits[id].owner) \in SUBSET DepositIds
      /\ Delegated(deposits, deposits[id].delegatee) \in SUBSET DepositIds
  BY <1>1 DEF Owned, Delegated
<1>6. QED
  BY <1>1, <1>4, <1>5 DEF SInv, Ledger, Totals, Backed

\* What is claimed is part of what the balance covers.
LEMMA RewardIsHeld ==
  ASSUME SInv, NEW id \in DepositIds
  PROVE  UnclaimedReward(id) \in Nat /\ UnclaimedReward(id) <= stakerBalance
<1> DEFINE f == [i \in DepositIds |-> ScaledUnclaimedReward(i)]
<1>1. /\ \A i \in DepositIds : f[i] \in Nat
      /\ f[id] = ScaledUnclaimedReward(id)
      /\ UnclaimedReward(id) \in Nat
      /\ UnclaimedReward(id) * SCALE_FACTOR <= ScaledUnclaimedReward(id)
  BY Arithmetic DEF SInv, PInv
<1>2. Owed(deposits, rewardPerTokenAccumulated) = SumFunctionOnSet(f, DepositIds)
  BY DEF Owed, Due, ScaledUnclaimedReward
<1> HIDE DEF f
<1>3. f[id] <= SumFunctionOnSet(f, DepositIds)
  BY <1>1, IdsFinite, EntryAtMostSum
<1>4. /\ stakerBalance \in Nat /\ SCALE_FACTOR \in Nat \ {0}
      /\ stakerBalance * SCALE_FACTOR \in Nat /\ UnclaimedReward(id) * SCALE_FACTOR \in Nat
  BY <1>1, MulNat, StakerAssumption DEF SInv, PInv, IInv, TypeOK
<1>5. SumFunctionOnSet(f, DepositIds) <= stakerBalance * SCALE_FACTOR
  BY <1>2, <1>4, LiveSolvency
<1>6. SumFunctionOnSet(f, DepositIds) \in Nat
  BY <1>1, IdsFinite, SumNat
<1>7. UnclaimedReward(id) * SCALE_FACTOR <= stakerBalance * SCALE_FACTOR
  BY <1>1, <1>3, <1>4, <1>5, <1>6
<1>8. \A r \in Nat, b \in Nat, n \in Nat \ {0} : r * n <= b * n => r <= b
  OBVIOUS
<1>9. QED
  BY <1>1, <1>4, <1>7, <1>8

LEMMA ExitStaysOpen == SInv /\ OwnersKnown => ExitIsOpen
<1> SUFFICES ASSUME SInv, OwnersKnown, NEW id \in Opened
             PROVE  /\ WithdrawAllowed(id, deposits[id].balance)
                    /\ UnclaimedReward(id) > claimFee => ClaimAllowed(id, deposits[id].owner)
  BY DEF ExitIsOpen
<1>1. /\ id \in DepositIds /\ deposits[id] \in Deposit
      /\ deposits[id].owner \in Accounts
      /\ totalStaked \in Nat /\ totalEarningPower \in Nat
      /\ depositorTotalEarningPower[deposits[id].owner] \in Nat
  BY DEF SInv, PInv, IInv, TypeOK, OwnersKnown, Opened
<1>2. /\ deposits[id].balance \in Nat /\ deposits[id].earningPower \in Nat
      /\ \A amount \in Nat : EarningPower(amount, deposits[id].delegatee) \in Nat
      /\ deposits[id].balance - deposits[id].balance = 0
  BY <1>1 DEF Deposit, EarningPower
<1>3. WithdrawAllowed(id, deposits[id].balance)
  BY <1>1, <1>2, PartOfTotals DEF WithdrawAllowed
<1>4. ASSUME UnclaimedReward(id) > claimFee PROVE ClaimAllowed(id, deposits[id].owner)
  BY <1>1, <1>2, <1>4, PartOfTotals, RewardIsHeld DEF ClaimAllowed
<1>5. QED
  BY <1>3, <1>4

\* The owner of a deposit can always withdraw all of it, and collect a reward above the
\* fee: no checked subtraction on the totals, no surrogate and no balance of the
\* contract stands in the way (ExitNeverBlocked, without ENABLED).
THEOREM ExitAlwaysOpen == Spec => []ExitIsOpen
<1>1. Init => SInv /\ OwnersKnown /\ FeeHasCollector
  BY InitSInv DEF Init, OwnersKnown, FeeHasCollector, Opened, DepositIds
<1>2. SInv /\ OwnersKnown /\ FeeHasCollector /\ [Next]_vars
        => SInv' /\ OwnersKnown' /\ FeeHasCollector'
  <2> SUFFICES ASSUME SInv, OwnersKnown, FeeHasCollector, [Next]_vars
               PROVE  OwnersKnown' /\ FeeHasCollector'
    BY NextSInv
  <2>1. StakingNext => OwnersKnown' /\ FeeHasCollector'
    BY OwnersStayKnown DEF SInv, PInv
  <2>2. ASSUME UNCHANGED <<depositVars, adminVars>> PROVE OwnersKnown' /\ FeeHasCollector'
    BY <2>2 DEF OwnersKnown, Opened, FeeHasCollector, depositVars, adminVars
  <2>3. QED
    BY <2>1, <2>2 DEF Next, NotifyRewardAmount, vars
<1>3. QED
  BY <1>1, <1>2, ExitStaysOpen, PTL DEF Spec

(***************************************************************************)
(* Flushing.                                                               *)
(***************************************************************************)

Remaining == IF now >= rewardEndTime THEN 0 ELSE scaledRewardRate * (rewardEndTime - now)

NewRate(amount) == (Remaining + amount * SCALE_FACTOR) \div REWARD_DURATION

NotifyAllowed(notifier, amount) ==
  /\ notifier \in isRewardNotifier
  /\ rewardsIn + amount <= MaxRewards
  /\ NewRate(amount) \div SCALE_FACTOR # 0
  /\ NewRate(amount) * REWARD_DURATION <= (stakerBalance + amount) * SCALE_FACTOR

NotifySets(amount) ==
  /\ rewardsIn' = rewardsIn + amount
  /\ stakerBalance' = stakerBalance + amount
  /\ rewardPerTokenAccumulatedCheckpoint' = rewardPerTokenAccumulated
  /\ scaledRewardRate' = NewRate(amount)
  /\ rewardEndTime' = now + REWARD_DURATION
  /\ lastCheckpointTime' = now
  /\ UNCHANGED <<now, depositVars, adminVars, eligible, wallet, surrogate>>

LEMMA NotifyIs ==
  ASSUME NEW notifier, NEW amount
  PROVE  NotifyRewardAmount(notifier, amount)
           <=> NotifyAllowed(notifier, amount) /\ NotifySets(amount)
<1>1. stakerBalance' = stakerBalance + amount
        => (NewRate(amount) * REWARD_DURATION <= stakerBalance' * SCALE_FACTOR
              <=> NewRate(amount) * REWARD_DURATION <= (stakerBalance + amount) * SCALE_FACTOR)
  OBVIOUS
<1>2. QED
  BY <1>1 DEF NotifyRewardAmount, NotifyAllowed, NotifySets, NewRate, Remaining

FlushAllowed ==
  /\ now >= nextRewardTime
  /\ accumulatedRewards > 0 => /\ NotifyAllowed(Accumulator, accumulatedRewards)
                               /\ accumulatorBalance >= accumulatedRewards

FlushSets ==
  /\ IF accumulatedRewards > 0
       THEN /\ NotifySets(accumulatedRewards)
            /\ accumulatorBalance' = accumulatorBalance - accumulatedRewards
            /\ accumulatedRewards' = 0
       ELSE UNCHANGED <<vars, fundVars>>
  /\ SnapToGrid
  /\ latestCell' = Cell(now)
  /\ UNCHANGED <<gridStart, configVars>>

LEMMA FlushIs == AInv => (SendRewardsToStaker <=> FlushAllowed /\ FlushSets)
<1> SUFFICES ASSUME AInv PROVE SendRewardsToStaker <=> FlushAllowed /\ FlushSets
  OBVIOUS
<1>1. accumulatedRewards = 0 <=> ~(accumulatedRewards > 0)
  BY DEF AInv
<1>2. QED
  BY <1>1, NotifyIs DEF SendRewardsToStaker, Deliver, FlushAllowed, FlushSets

\* What a tranche must be for the rounded rate to be worth a unit, and what it may
\* be for the contract to afford it.
LEMMA RateOfTranche ==
  ASSUME NEW m \in Nat, NEW a \in Nat, NEW s \in Nat \ {0}, NEW d \in Nat \ {0}, NEW b \in Nat,
         d <= a, m <= b * s
  PROVE  /\ ((m + a * s) \div d) \div s # 0
         /\ ((m + a * s) \div d) * d <= (b + a) * s
<1> DEFINE total == m + a * s
           rate  == total \div d
<1>1. a * s \in Nat /\ d * s \in Nat /\ b * s \in Nat /\ s * d \in Nat
  BY MulNat
<1>2. total \in Nat
  BY <1>1
<1>3. s * d <= a * s
  <2>1. s * d <= s * a
    BY MulMonotone
  <2>2. QED
    BY <2>1
<1>4. s * d <= total
  BY <1>1, <1>3
<1>5. total <= (b + a) * s
  <2>1. (b + a) * s = b * s + a * s
    OBVIOUS
  <2>2. QED
    BY <1>1, <2>1
<1> HIDE DEF total
<1>6. (s * d) \div d <= rate /\ rate \in Nat /\ rate * d <= total
  BY <1>1, <1>2, <1>4, DivMonotone, DivNat, DivFloor
<1>7. s <= rate
  BY <1>6, DivExact
<1>8. 1 <= rate \div s
  <2>1. (1 * s) \div s = 1
    BY DivExact
  <2>2. s \div s <= rate \div s
    BY <1>6, <1>7, DivMonotone
  <2>3. QED
    BY <2>1, <2>2
<1>9. rate * d \in Nat /\ (b + a) * s \in Nat /\ rate \div s \in Nat
  BY <1>6, MulNat, DivNat, AddNat
<1>10. rate * d <= (b + a) * s
  BY <1>2, <1>5, <1>6, <1>9
<1>11. rate \div s # 0
  BY <1>8, <1>9
<1>12. QED
  BY <1>10, <1>11 DEF total

\* The rest of the running stream is covered besides everything earned.
LEMMA RestIsHeld ==
  ASSUME SInv
  PROVE  Remaining \in Nat /\ Remaining <= stakerBalance * SCALE_FACTOR
<1>1. /\ now \in Nat /\ rewardEndTime \in Nat /\ scaledRewardRate \in Nat
      /\ stakerBalance * SCALE_FACTOR \in Nat
      /\ \A id \in DepositIds : ScaledUnclaimedReward(id) \in Nat
  BY Arithmetic, MulNat, StakerAssumption DEF SInv, PInv, IInv, TypeOK
<1>2. Remaining = scaledRewardRate * (rewardEndTime - lastTimeRewardDistributed)
  BY <1>1, NoTimeNoReward DEF Remaining, lastTimeRewardDistributed
<1>3. Owed(deposits, rewardPerTokenAccumulated)
        = SumFunctionOnSet([id \in DepositIds |-> ScaledUnclaimedReward(id)], DepositIds)
  BY DEF Owed, Due, ScaledUnclaimedReward
<1>4. SumFunctionOnSet([id \in DepositIds |-> ScaledUnclaimedReward(id)], DepositIds) \in Nat
  BY <1>1, IdsFinite, SumNat
<1>5. /\ scaledRewardRate * (rewardEndTime - lastTimeRewardDistributed) \in Nat
      /\ stakerBalance * SCALE_FACTOR >=
           Owed(deposits, rewardPerTokenAccumulated)
             + scaledRewardRate * (rewardEndTime - lastTimeRewardDistributed)
  BY LiveSolvency
<1> HIDE DEF Remaining
<1>6. QED
  BY <1>1, <1>2, <1>3, <1>4, <1>5

FlushIsOpen ==
  /\ Accumulator \in isRewardNotifier
  /\ now >= nextRewardTime
  /\ accumulatedRewards = 0 \/ accumulatedRewards >= REWARD_DURATION
  /\ rewardsIn + accumulatedRewards <= MaxRewards
  => FlushAllowed

LEMMA FlushStaysOpen == AInv /\ SInv => FlushIsOpen
<1> SUFFICES ASSUME AInv, SInv, Accumulator \in isRewardNotifier, now >= nextRewardTime,
                    accumulatedRewards = 0 \/ accumulatedRewards >= REWARD_DURATION,
                    rewardsIn + accumulatedRewards <= MaxRewards, accumulatedRewards > 0
             PROVE  /\ NotifyAllowed(Accumulator, accumulatedRewards)
                    /\ accumulatorBalance >= accumulatedRewards
  BY DEF FlushIsOpen, FlushAllowed
<1>1. /\ accumulatedRewards \in Nat /\ accumulatorBalance \in Nat
      /\ accumulatorBalance >= accumulatedRewards
      /\ stakerBalance \in Nat
      /\ SCALE_FACTOR \in Nat \ {0} /\ REWARD_DURATION \in Nat \ {0}
      /\ REWARD_DURATION <= accumulatedRewards
  BY StakerAssumption DEF AInv, IInv, TypeOK, AccumulatedIsHeld
<1>2. Remaining \in Nat /\ Remaining <= stakerBalance * SCALE_FACTOR
  BY RestIsHeld
<1>3. /\ NewRate(accumulatedRewards) \div SCALE_FACTOR # 0
      /\ NewRate(accumulatedRewards) * REWARD_DURATION
           <= (stakerBalance + accumulatedRewards) * SCALE_FACTOR
  BY <1>1, <1>2, RateOfTranche DEF NewRate
<1>4. QED
  BY <1>1, <1>3 DEF NotifyAllowed

\* While the staking contract takes the accumulator for a notifier, an open gate is
\* refused only to a total below REWARD_DURATION: a larger one always gives a rate
\* of at least a unit that the contract's balance covers, whatever it owes already
\* (OnlyDustIsRefused, without ENABLED; MaxRewards bounds the instance, not the code).
THEOREM TrancheAlwaysAccepted == AccumulatorSpec => []FlushIsOpen
<1>1. AccumulatorInit => AInv /\ SInv
  BY AccumulatorInitAInv, InitSInv DEF AccumulatorInit
<1>2. QED
  BY <1>1, AccumulatorNextSInv, FlushStaysOpen, PTL DEF AccumulatorSpec

(***************************************************************************)
(* The index of the subgraph.                                              *)
(***************************************************************************)

IsStored == TRUE

EntityOf(owner, delegatee, claimer, stakedAmount) ==
  [stored |-> IsStored, owner |-> owner, delegatee |-> delegatee, claimer |-> claimer,
   stakedAmount |-> stakedAmount]

\* The entity that says all of a deposit.
Mirror(d) == EntityOf(d.owner, d.delegatee, d.claimer, d.balance)

\* The index is a function of the contract's state: every deposit that was opened, and no other
\* identifier, has the entity that mirrors it.
IndexInv ==
  /\ IInv
  /\ notifiedInIndex = rewardsIn
  /\ indexed = [id \in DepositIds |->
                  IF id < nextDepositId THEN Mirror(deposits[id]) ELSE NoEntity]

WithStake(entity, value) == [entity EXCEPT !.stakedAmount = value]
WithDelegatee(entity, value) == [entity EXCEPT !.delegatee = value]
WithClaimer(entity, value) == [entity EXCEPT !.claimer = value]
Put(index, id, entity) == [index EXCEPT ![id] = entity]

LEMMA EntityFields ==
  ASSUME NEW owner, NEW delegatee, NEW claimer, NEW stakedAmount, NEW value
  PROVE  /\ WithStake(EntityOf(owner, delegatee, claimer, stakedAmount), value)
              = EntityOf(owner, delegatee, claimer, value)
         /\ WithDelegatee(EntityOf(owner, delegatee, claimer, stakedAmount), value)
              = EntityOf(owner, value, claimer, stakedAmount)
         /\ WithClaimer(EntityOf(owner, delegatee, claimer, stakedAmount), value)
              = EntityOf(owner, delegatee, value, stakedAmount)
  BY DEF WithStake, WithDelegatee, WithClaimer, EntityOf

LEMMA EntityIsStored ==
  ASSUME NEW owner, NEW delegatee, NEW claimer, NEW stakedAmount
  PROVE  EntityOf(owner, delegatee, claimer, stakedAmount) # NoEntity
<1>1. EntityOf(owner, delegatee, claimer, stakedAmount).stored = TRUE
  BY DEF EntityOf, IsStored
<1>2. NoEntity.stored = FALSE
  BY DEF NoEntity
<1>3. QED
  BY <1>1, <1>2

\* What a handler finds, in an index that has nothing of the deposit and in one that has.
LEMMA FoundIs ==
  ASSUME NEW index, NEW id, NEW owner
  PROVE  /\ index[id] = NoEntity
              => Found(index, id, owner) = EntityOf(owner, NoAccount, NoAccount, 0)
         /\ index[id] # NoEntity => Found(index, id, owner) = index[id]
  BY Zenon DEF Found, EntityOf, IsStored

LEMMA PutRead ==
  ASSUME NEW S, NEW V, NEW index \in [S -> V], NEW id \in S, NEW entity
  PROVE  Put(index, id, entity)[id] = entity
  BY DEF Put

LEMMA PutTwice ==
  ASSUME NEW index, NEW id, NEW first, NEW second
  PROVE  Put(Put(index, id, first), id, second) = Put(index, id, second)
  BY DEF Put

\* What each handler makes of its event.
LEMMA Handled ==
  ASSUME NEW index, NEW id, NEW owner, NEW value
  PROVE  /\ Handle(index, StakeDeposited(id, owner, value))
              = Put(index, id, WithStake(Found(index, id, owner), value))
         /\ Handle(index, StakeWithdrawn(id, owner, value))
              = Put(index, id, WithStake(Found(index, id, owner), value))
         /\ Handle(index, DelegateeAltered(id, value))
              = Put(index, id, WithDelegatee(Found(index, id, NoAccount), value))
         /\ Handle(index, ClaimerAltered(id, value))
              = Put(index, id, WithClaimer(Found(index, id, NoAccount), value))
<1>1. Handle(index, StakeDeposited(id, owner, value))
        = Put(index, id, WithStake(Found(index, id, owner), value))
  <2> DEFINE e == StakeDeposited(id, owner, value)
  <2>1. e.name = "StakeDeposited" /\ e.id = id /\ e.owner = owner /\ e.balance = value
    BY DEF StakeDeposited
  <2> HIDE DEF e
  <2>2. Handle(index, e) = handleStakeDeposited(index, e)
    BY <2>1 DEF Handle
  <2>3. QED
    BY <2>1, <2>2, Zenon DEF handleStakeDeposited, e, Put, WithStake
<1>2. Handle(index, StakeWithdrawn(id, owner, value))
        = Put(index, id, WithStake(Found(index, id, owner), value))
  <2> DEFINE e == StakeWithdrawn(id, owner, value)
  <2>1. e.name = "StakeWithdrawn" /\ e.id = id /\ e.owner = owner /\ e.balance = value
    BY DEF StakeWithdrawn
  <2> HIDE DEF e
  <2>2. Handle(index, e) = handleStakeWithdrawn(index, e)
    BY <2>1 DEF Handle
  <2>3. QED
    BY <2>1, <2>2, Zenon DEF handleStakeWithdrawn, e, Put, WithStake
<1>3. Handle(index, DelegateeAltered(id, value))
        = Put(index, id, WithDelegatee(Found(index, id, NoAccount), value))
  <2> DEFINE e == DelegateeAltered(id, value)
  <2>1. e.name = "DelegateeAltered" /\ e.id = id /\ e.new = value
    BY DEF DelegateeAltered
  <2> HIDE DEF e
  <2>2. Handle(index, e) = handleDelegateeAltered(index, e)
    BY <2>1 DEF Handle
  <2>3. QED
    BY <2>1, <2>2, Zenon DEF handleDelegateeAltered, e, Put, WithDelegatee
<1>4. Handle(index, ClaimerAltered(id, value))
        = Put(index, id, WithClaimer(Found(index, id, NoAccount), value))
  <2> DEFINE e == ClaimerAltered(id, value)
  <2>1. e.name = "ClaimerAltered" /\ e.id = id /\ e.new = value
    BY DEF ClaimerAltered
  <2> HIDE DEF e
  <2>2. Handle(index, e) = handleClaimerAltered(index, e)
    BY <2>1 DEF Handle
  <2>3. QED
    BY <2>1, <2>2, Zenon DEF handleClaimerAltered, e, Put, WithClaimer
<1>5. QED
  BY <1>1, <1>2, <1>3, <1>4

LEMMA InitIndexInv == SubgraphInit => IndexInv
<1> SUFFICES ASSUME SubgraphInit PROVE IndexInv
  OBVIOUS
<1>1. IInv /\ notifiedInIndex = rewardsIn /\ nextDepositId = 0
  BY InitIInv DEF SubgraphInit, Init
<1>2. \A id \in DepositIds : ~(id < 0)
  BY StakerAssumption DEF DepositIds
<1>3. indexed = [id \in DepositIds |-> NoEntity]
  BY DEF SubgraphInit
<1>4. QED
  BY <1>1, <1>2, <1>3 DEF IndexInv

\* A call that replaces one deposit and puts its mirror in the index keeps the index.
LEMMA IndexedOne ==
  ASSUME IndexInv, IInv', notifiedInIndex' = rewardsIn', NEW id \in DepositIds,
         \/ id < nextDepositId /\ nextDepositId' = nextDepositId
         \/ id = nextDepositId /\ nextDepositId' = nextDepositId + 1,
         NEW d, deposits' = [deposits EXCEPT ![id] = d],
         indexed' = Put(indexed, id, Mirror(d))
  PROVE  IndexInv'
<1>1. nextDepositId \in Nat /\ deposits \in [DepositIds -> Deposit] /\ DepositIds \subseteq Int
  BY StakerAssumption DEF IndexInv, IInv, TypeOK, DepositIds
<1>2. ASSUME NEW i \in DepositIds
      PROVE  indexed'[i] = IF i < nextDepositId' THEN Mirror(deposits'[i]) ELSE NoEntity
  <2>1. indexed[i] = IF i < nextDepositId THEN Mirror(deposits[i]) ELSE NoEntity
    BY DEF IndexInv
  <2>2. CASE i = id
    <3>1. indexed'[i] = Mirror(d) /\ deposits'[i] = d /\ i < nextDepositId'
      BY <1>1, <2>2 DEF IndexInv, Put
    <3>2. QED
      BY <3>1, Zenon
  <2>3. CASE i # id
    <3>1. indexed'[i] = indexed[i] /\ deposits'[i] = deposits[i]
      BY <1>1, <2>3 DEF IndexInv, Put
    <3>2. i < nextDepositId' <=> i < nextDepositId
      BY <1>1, <2>3
    <3>3. QED
      BY <2>1, <3>1, <3>2, Zenon
  <2>4. QED
    BY <2>2, <2>3
<1>3. indexed' = [i \in DepositIds |-> indexed'[i]]
  BY DEF IndexInv, Put
<1>4. QED
  BY <1>2, <1>3 DEF IndexInv

\* A call the index does not follow changes none of the fields it holds.
LEMMA IndexUntouched ==
  ASSUME IndexInv, IInv', UNCHANGED <<indexed, nextDepositId>>, notifiedInIndex' = rewardsIn',
         \A id \in DepositIds : Mirror(deposits'[id]) = Mirror(deposits[id])
  PROVE  IndexInv'
  BY DEF IndexInv

\* The three events of a new deposit, in the order the contract emits them, build its entity.
LEMMA StakeIndexed ==
  ASSUME IndexInv, IInv', NEW depositor \in Accounts, NEW amount \in StakeAmounts,
         NEW delegatee \in Delegatees, NEW claimer \in Accounts,
         Stake(depositor, amount, delegatee, claimer), IndexStake(StakeEvents(nextDepositId))
  PROVE  IndexInv'
<1> DEFINE id == nextDepositId
           d == [balance |-> amount, owner |-> depositor,
                 earningPower |-> EarningPower(amount, delegatee),
                 delegatee |-> delegatee, claimer |-> claimer,
                 rewardPerTokenCheckpoint |-> rewardPerTokenAccumulated,
                 scaledUnclaimedRewardCheckpoint |-> 0]
           fresh == EntityOf(depositor, NoAccount, NoAccount, amount)
           claimed == EntityOf(depositor, NoAccount, claimer, amount)
           whole == EntityOf(depositor, delegatee, claimer, amount)
<1>1. id \in DepositIds /\ id \in Nat
  BY StakerAssumption DEF IndexInv, IInv, TypeOK, DepositIds, Stake
<1>2. deposits' = [deposits EXCEPT ![id] = d] /\ nextDepositId' = nextDepositId + 1
  BY DEF Stake
<1>3. deposits'[id] = d
  BY <1>1, <1>2 DEF IndexInv, IInv, TypeOK
<1>4. indexed[id] = NoEntity
  BY <1>1 DEF IndexInv
<1>5. /\ StakeEvents(id)[1] = StakeDeposited(id, depositor, amount)
      /\ StakeEvents(id)[2] = ClaimerAltered(id, claimer)
      /\ StakeEvents(id)[3] = DelegateeAltered(id, delegatee)
  BY <1>3 DEF StakeEvents
<1>6. \A entity : Put(indexed, id, entity)[id] = entity
  BY <1>1 DEF IndexInv, Put
<1>7. Mirror(d) = whole /\ notifiedInIndex' = rewardsIn'
  BY DEF Mirror, IndexInv, IndexStake, Stake, clockVars
<1>8. Found(indexed, id, depositor) = EntityOf(depositor, NoAccount, NoAccount, 0)
  BY <1>4, FoundIs, Zenon
<1>9. indexed' = Put(indexed, id, Mirror(d))
  <2> HIDE DEF d
  <2>1. Handle(indexed, StakeDeposited(id, depositor, amount)) = Put(indexed, id, fresh)
    BY <1>8, Handled, EntityFields
  <2>2. Found(Put(indexed, id, fresh), id, NoAccount) = fresh
    BY <1>6, FoundIs, EntityIsStored
  <2>3. Handle(Put(indexed, id, fresh), ClaimerAltered(id, claimer)) = Put(indexed, id, claimed)
    BY <2>2, Handled, EntityFields, PutTwice
  <2>4. Found(Put(indexed, id, claimed), id, NoAccount) = claimed
    BY <1>6, FoundIs, EntityIsStored
  <2>5. Handle(Put(indexed, id, claimed), DelegateeAltered(id, delegatee))
          = Put(indexed, id, whole)
    BY <2>4, Handled, EntityFields, PutTwice
  <2>6. QED
    BY <1>5, <1>7, <2>1, <2>3, <2>5, Zenon DEF IndexStake
<1> HIDE DEF d
<1>10. QED
  BY <1>1, <1>2, <1>7, <1>9, IndexedOne

\* Each other call emits the event of the field it changes, or none.
LEMMA DepositCallIndexed ==
  ASSUME IndexInv, IInv', NEW id \in Opened, IndexedDepositCall(id)
  PROVE  IndexInv'
<1> DEFINE old == deposits[id]
<1>1. id \in DepositIds /\ id < nextDepositId
  BY DEF Opened
<1>2. indexed[id] = EntityOf(old.owner, old.delegatee, old.claimer, old.balance)
  BY <1>1 DEF IndexInv, Mirror
<1>3. \A owner : Found(indexed, id, owner)
                   = EntityOf(old.owner, old.delegatee, old.claimer, old.balance)
  BY <1>2, FoundIs, EntityIsStored
<1>4. deposits \in [DepositIds -> Deposit]
  BY DEF IndexInv, IInv, TypeOK
<1>5. ASSUME NEW d, deposits' = [deposits EXCEPT ![id] = d], indexed' = Put(indexed, id, Mirror(d)),
             UNCHANGED <<nextDepositId, rewardsIn, notifiedInIndex>>
      PROVE  IndexInv'
  <2>1. notifiedInIndex' = rewardsIn'
    BY <1>5 DEF IndexInv
  <2>2. QED
    BY <1>1, <1>5, <2>1, IndexedOne
<1>6. ASSUME NEW amount \in StakeAmounts, StakeMore(id, amount),
             Index(StakeDeposited(id, deposits'[id].owner, deposits'[id].balance))
      PROVE  IndexInv'
  <2> DEFINE balance == old.balance + amount
             power == EarningPower(balance, old.delegatee)
             d == Checkpointed(id, balance, old.delegatee, old.claimer, power, 0)
  <2>1. deposits' = [deposits EXCEPT ![id] = d] /\ UNCHANGED <<nextDepositId, rewardsIn>>
    BY <1>6 DEF StakeMore, clockVars
  <2>2. Mirror(d) = EntityOf(old.owner, old.delegatee, old.claimer, balance)
    BY DEF Mirror, Checkpointed
  <2>3. deposits'[id].balance = balance
    BY <1>1, <1>4, <2>1 DEF Checkpointed
  <2> HIDE DEF d, balance, power
  <2>4. indexed' = Put(indexed, id, Mirror(d)) /\ notifiedInIndex' = notifiedInIndex
    BY <1>3, <1>6, <2>2, <2>3, Handled, EntityFields DEF Index
  <2>5. QED
    BY <1>5, <2>1, <2>4
<1>7. ASSUME NEW amount \in StakeAmounts, Withdraw(id, amount),
             Index(StakeWithdrawn(id, deposits'[id].owner, deposits'[id].balance))
      PROVE  IndexInv'
  <2> DEFINE balance == old.balance - amount
             power == EarningPower(balance, old.delegatee)
             d == Checkpointed(id, balance, old.delegatee, old.claimer, power, 0)
  <2>1. deposits' = [deposits EXCEPT ![id] = d] /\ UNCHANGED <<nextDepositId, rewardsIn>>
    BY <1>7 DEF Withdraw, clockVars
  <2>2. Mirror(d) = EntityOf(old.owner, old.delegatee, old.claimer, balance)
    BY DEF Mirror, Checkpointed
  <2>3. deposits'[id].balance = balance
    BY <1>1, <1>4, <2>1 DEF Checkpointed
  <2> HIDE DEF d, balance, power
  <2>4. indexed' = Put(indexed, id, Mirror(d)) /\ notifiedInIndex' = notifiedInIndex
    BY <1>3, <1>7, <2>2, <2>3, Handled, EntityFields DEF Index
  <2>5. QED
    BY <1>5, <2>1, <2>4
<1>8. ASSUME NEW delegatee \in Delegatees, AlterDelegatee(id, delegatee),
             Index(DelegateeAltered(id, delegatee))
      PROVE  IndexInv'
  <2> DEFINE power == EarningPower(old.balance, delegatee)
             d == Checkpointed(id, old.balance, delegatee, old.claimer, power, 0)
  <2>1. deposits' = [deposits EXCEPT ![id] = d] /\ UNCHANGED <<nextDepositId, rewardsIn>>
    BY <1>8 DEF AlterDelegatee, clockVars
  <2>2. Mirror(d) = EntityOf(old.owner, delegatee, old.claimer, old.balance)
    BY DEF Mirror, Checkpointed
  <2> HIDE DEF d, power
  <2>3. indexed' = Put(indexed, id, Mirror(d)) /\ notifiedInIndex' = notifiedInIndex
    BY <1>3, <1>8, <2>2, Handled, EntityFields DEF Index
  <2>4. QED
    BY <1>5, <2>1, <2>3
<1>9. ASSUME NEW claimer \in Accounts, AlterClaimer(id, claimer),
             Index(ClaimerAltered(id, claimer))
      PROVE  IndexInv'
  <2> DEFINE power == EarningPower(old.balance, old.delegatee)
             d == Checkpointed(id, old.balance, old.delegatee, claimer, power, 0)
  <2>1. deposits' = [deposits EXCEPT ![id] = d] /\ UNCHANGED <<nextDepositId, rewardsIn>>
    BY <1>9 DEF AlterClaimer, clockVars
  <2>2. Mirror(d) = EntityOf(old.owner, old.delegatee, claimer, old.balance)
    BY DEF Mirror, Checkpointed
  <2> HIDE DEF d, power
  <2>3. indexed' = Put(indexed, id, Mirror(d)) /\ notifiedInIndex' = notifiedInIndex
    BY <1>3, <1>9, <2>2, Handled, EntityFields DEF Index
  <2>4. QED
    BY <1>5, <2>1, <2>3
<1>10. ASSUME NEW power, NEW paid, UNCHANGED <<subgraphVars, nextDepositId, rewardsIn>>,
              deposits' = [deposits EXCEPT ![id] =
                Checkpointed(id, old.balance, old.delegatee, old.claimer, power, paid)]
       PROVE  IndexInv'
  <2>1. ASSUME NEW i \in DepositIds PROVE Mirror(deposits'[i]) = Mirror(deposits[i])
    <3>1. /\ deposits'[i].owner = deposits[i].owner
          /\ deposits'[i].delegatee = deposits[i].delegatee
          /\ deposits'[i].claimer = deposits[i].claimer
          /\ deposits'[i].balance = deposits[i].balance
      BY <1>1, <1>4, <1>10 DEF Checkpointed
    <3>2. QED
      BY <3>1, Zenon DEF Mirror
  <2>2. UNCHANGED indexed /\ notifiedInIndex' = rewardsIn'
    BY <1>10 DEF subgraphVars, IndexInv
  <2>3. QED
    BY <1>10, <2>1, <2>2, IndexUntouched
<1>11. ASSUME NEW caller \in Accounts, ClaimReward(id, caller), UNCHANGED subgraphVars
       PROVE  IndexInv'
  BY <1>10, <1>11 DEF ClaimReward, clockVars
<1>12. ASSUME NEW caller \in Accounts, ClaimNothing(id, caller), UNCHANGED subgraphVars
       PROVE  IndexInv'
  BY <1>10, <1>12 DEF ClaimNothing, clockVars
<1>13. ASSUME NEW receiver \in Accounts, NEW tip \in Tips, BumpEarningPower(id, receiver, tip),
              UNCHANGED subgraphVars
       PROVE  IndexInv'
  BY <1>10, <1>13 DEF BumpEarningPower, clockVars
<1>14. QED
  BY <1>6, <1>7, <1>8, <1>9, <1>11, <1>12, <1>13, Zenon
     DEF IndexedDepositCall, handleRewardClaimed

\* The indexer watches the contract and never steers it.
LEMMA IndexedIsNext == SubgraphNext => Next
  BY DEF SubgraphNext, IndexedDepositCall, Next, StakingNext, DepositCall

LEMMA NextIndexInv == IndexInv /\ [SubgraphNext]_<<vars, subgraphVars>> => IndexInv'
<1> SUFFICES ASSUME IndexInv, [SubgraphNext]_<<vars, subgraphVars>> PROVE IndexInv'
  OBVIOUS
<1>1. IInv'
  BY IndexedIsNext, NextIInv DEF IndexInv
<1>2. ASSUME UNCHANGED <<deposits, nextDepositId, indexed>>, notifiedInIndex' = rewardsIn'
      PROVE  IndexInv'
  BY <1>1, <1>2, IndexUntouched
<1>3. ASSUME NEW caller \in Admins, AdminCall(caller), UNCHANGED subgraphVars
      PROVE  IndexInv'
  <2>1. UNCHANGED <<deposits, nextDepositId, rewardsIn>>
    BY <1>3 DEF AdminCall, SetAdmin, SetRewardNotifier, SetClaimFeeParameters, SetMaxBumpTip,
                SetEarningPowerCalculator, clockVars, depositVars
  <2>2. QED
    BY <1>2, <1>3, <2>1 DEF subgraphVars, IndexInv
<1>4. CASE Tick /\ UNCHANGED subgraphVars
  BY <1>2, <1>4 DEF Tick, depositVars, subgraphVars, IndexInv
<1>5. ASSUME NEW notifier \in Notifiers, NEW amount \in RewardAmounts,
             NotifyRewardAmount(notifier, amount), handleRewardNotified(amount)
      PROVE  IndexInv'
  BY <1>2, <1>5 DEF NotifyRewardAmount, handleRewardNotified, depositVars, IndexInv
<1>6. CASE UNCHANGED <<vars, subgraphVars>>
  BY <1>2, <1>6 DEF vars, depositVars, clockVars, subgraphVars, IndexInv
<1>7. ASSUME NEW depositor \in Accounts, NEW claimer \in Accounts, NEW delegatee \in Delegatees,
             NEW amount \in StakeAmounts, Stake(depositor, amount, delegatee, claimer),
             IndexStake(StakeEvents(nextDepositId))
      PROVE  IndexInv'
  BY <1>1, <1>7, StakeIndexed
<1>8. ASSUME NEW id \in Opened, IndexedDepositCall(id) PROVE IndexInv'
  BY <1>1, <1>8, DepositCallIndexed
<1>9. QED
  BY <1>3, <1>4, <1>5, <1>6, <1>7, <1>8 DEF SubgraphNext

\* The subgraph knows every deposit with its owner, delegatee, claimer and stake, and has counted
\* every reward once, after every call of the contract it indexes.
THEOREM IndexIsExact == SubgraphSpec => []IndexFollowsDeposits
<1>1. IndexInv => IndexFollowsDeposits
  <2>1. SUFFICES ASSUME IndexInv, NEW id \in DepositIds
                 PROVE  IF id >= nextDepositId THEN indexed[id] = NoEntity
                        ELSE /\ indexed[id] # NoEntity
                             /\ indexed[id].owner = deposits[id].owner
                             /\ indexed[id].delegatee = deposits[id].delegatee
                             /\ indexed[id].claimer = deposits[id].claimer
                             /\ indexed[id].stakedAmount = deposits[id].balance
    BY Zenon DEF IndexFollowsDeposits, IndexInv
  <2>2. id \in Int /\ nextDepositId \in Int
    BY <2>1, StakerAssumption DEF DepositIds, IndexInv, IInv, TypeOK
  <2>3. CASE id < nextDepositId
    <3>1. indexed[id] = Mirror(deposits[id]) /\ indexed[id] # NoEntity
      BY <2>1, <2>3, EntityIsStored DEF IndexInv, Mirror
    <3>2. QED
      BY <2>2, <2>3, <3>1 DEF Mirror, EntityOf
  <2>4. CASE ~(id < nextDepositId)
    BY <2>1, <2>2, <2>4 DEF IndexInv
  <2>5. QED
    BY <2>3, <2>4
<1>2. QED
  BY <1>1, InitIndexInv, NextIndexInv, PTL DEF SubgraphSpec
=============================================================================
