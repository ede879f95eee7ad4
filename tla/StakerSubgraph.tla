--------------------------- MODULE StakerSubgraph ---------------------------
(***************************************************************************)
(* The index of deposits that zen-staker.ts of the subgraph keeps, beside  *)
(* the staking contract whose events it reads.  The indexer commits a      *)
(* block with all its events at once and in order, so that the index is    *)
(* looked at here after every call.  What is only appended to (the rows of *)
(* single events, the activity feed), the block numbers and the stored     *)
(* earning power, which no claim and no bump renews, are left out.         *)
(***************************************************************************)
EXTENDS Staker

VARIABLES
  indexed,             \* the Deposit entities; NoEntity where none is stored
  notifiedInIndex      \* cumulativeRewardNotified of ProtocolMeta

subgraphVars == <<indexed, notifiedInIndex>>

NoEntity == [stored |-> FALSE]

(***************************************************************************)
(* The events of src/Staker.sol and the calls that emit them.              *)
(***************************************************************************)

StakeDeposited(id, owner, balance) ==
  [name |-> "StakeDeposited", id |-> id, owner |-> owner, balance |-> balance]
StakeWithdrawn(id, owner, balance) ==
  [name |-> "StakeWithdrawn", id |-> id, owner |-> owner, balance |-> balance]
DelegateeAltered(id, new) ==
  [name |-> "DelegateeAltered", id |-> id, new |-> new]
ClaimerAltered(id, new) ==
  [name |-> "ClaimerAltered", id |-> id, new |-> new]

\* Mutant: the settings of a new deposit are announced before the deposit is.
StakeEventsSettingsFirst(id) ==
  LET d == deposits'[id] IN
  << ClaimerAltered(id, d.claimer),
     DelegateeAltered(id, d.delegatee),
     StakeDeposited(id, d.owner, d.balance) >>

StakeEvents(id) ==
  LET d == deposits'[id] IN
  << StakeDeposited(id, d.owner, d.balance),
     ClaimerAltered(id, d.claimer),
     DelegateeAltered(id, d.delegatee) >>

(***************************************************************************)
(* The handlers: each finds the entity of the deposit or makes one with    *)
(* the zero address and no stake where its event does not say.             *)
(***************************************************************************)

Found(index, id, owner) ==
  IF index[id] # NoEntity THEN index[id]
  ELSE [stored |-> TRUE, owner |-> owner, delegatee |-> NoAccount, claimer |-> NoAccount,
        stakedAmount |-> 0]

handleStakeDeposited(index, e) ==
  [index EXCEPT ![e.id] = [Found(index, e.id, e.owner) EXCEPT !.stakedAmount = e.balance]]

handleStakeWithdrawn(index, e) ==
  [index EXCEPT ![e.id] = [Found(index, e.id, e.owner) EXCEPT !.stakedAmount = e.balance]]

handleDelegateeAltered(index, e) ==
  [index EXCEPT ![e.id] = [Found(index, e.id, NoAccount) EXCEPT !.delegatee = e.new]]

handleClaimerAltered(index, e) ==
  [index EXCEPT ![e.id] = [Found(index, e.id, NoAccount) EXCEPT !.claimer = e.new]]

Handle(index, e) ==
  CASE e.name = "StakeDeposited" -> handleStakeDeposited(index, e)
    [] e.name = "StakeWithdrawn" -> handleStakeWithdrawn(index, e)
    [] e.name = "DelegateeAltered" -> handleDelegateeAltered(index, e)
    [] e.name = "ClaimerAltered" -> handleClaimerAltered(index, e)

Index(e) == indexed' = Handle(indexed, e) /\ UNCHANGED notifiedInIndex

\* The only call that emits several events for the index.
IndexStake(events) ==
  /\ indexed' = Handle(Handle(Handle(indexed, events[1]), events[2]), events[3])
  /\ UNCHANGED notifiedInIndex

\* The total of the rewards; the rate it also samples belongs to RateHistory.
handleRewardNotified(amount) ==
  notifiedInIndex' = notifiedInIndex + amount /\ UNCHANGED indexed

\* RewardClaimed only gets rows of its own, EarningPowerBumped has no handler.
handleRewardClaimed == UNCHANGED subgraphVars

SubgraphInit ==
  Init /\ indexed = [id \in DepositIds |-> NoEntity] /\ notifiedInIndex = 0

IndexedDepositCall(id) ==
  LET d == deposits'[id] IN
  \/ \E amount \in StakeAmounts :
       StakeMore(id, amount) /\ Index(StakeDeposited(id, d.owner, d.balance))
  \/ \E amount \in StakeAmounts :
       Withdraw(id, amount) /\ Index(StakeWithdrawn(id, d.owner, d.balance))
  \/ \E delegatee \in Delegatees :
       AlterDelegatee(id, delegatee) /\ Index(DelegateeAltered(id, delegatee))
  \/ \E claimer \in Accounts :
       AlterClaimer(id, claimer) /\ Index(ClaimerAltered(id, claimer))
  \/ \E caller \in Accounts : ClaimReward(id, caller) /\ handleRewardClaimed
  \/ \E caller \in Accounts : ClaimNothing(id, caller) /\ UNCHANGED subgraphVars
  \/ \E receiver \in Accounts, tip \in Tips :
       BumpEarningPower(id, receiver, tip) /\ UNCHANGED subgraphVars

SubgraphNext ==
  \/ \E depositor, claimer \in Accounts, delegatee \in Delegatees, amount \in StakeAmounts :
       Stake(depositor, amount, delegatee, claimer) /\ IndexStake(StakeEvents(nextDepositId))
  \/ \E id \in Opened : IndexedDepositCall(id)
  \/ \E caller \in Admins : AdminCall(caller) /\ UNCHANGED subgraphVars
  \/ Tick /\ UNCHANGED subgraphVars
  \/ \E notifier \in Notifiers, amount \in RewardAmounts :
       NotifyRewardAmount(notifier, amount) /\ handleRewardNotified(amount)

SubgraphSpec == SubgraphInit /\ [][SubgraphNext]_<<vars, subgraphVars>>

(***************************************************************************)
(* Properties.                                                             *)
(***************************************************************************)

\* The index knows every deposit with its owner, delegatee, claimer and stake,
\* although no event carries all four and any of them may be the first a handler
\* sees of a deposit; and it has counted every reward once.
IndexFollowsDeposits ==
  /\ notifiedInIndex = rewardsIn
  /\ \A id \in DepositIds :
       IF id >= nextDepositId THEN indexed[id] = NoEntity
       ELSE /\ indexed[id] # NoEntity
            /\ indexed[id].owner = deposits[id].owner
            /\ indexed[id].delegatee = deposits[id].delegatee
            /\ indexed[id].claimer = deposits[id].claimer
            /\ indexed[id].stakedAmount = deposits[id].balance
=============================================================================
