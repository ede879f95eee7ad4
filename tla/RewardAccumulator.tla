-------------------------- MODULE RewardAccumulator --------------------------
(***************************************************************************)
(* The notifier ZenStaker is deployed with (src/RewardAccumulator.sol),    *)
(* together with the staking contract it feeds: contributions wait in the  *)
(* accumulator until a flush, open to anyone once per time window, sends   *)
(* them on and reports them in the same transaction.                       *)
(***************************************************************************)
EXTENDS Staker

CONSTANTS
  Accumulator,        \* the accumulator, as a notifier of the staking contract
  MAX_TIME_WINDOW,
  Windows,            \* windows the constructor or the owner may choose
  Contributions       \* amounts contributed in one call

ASSUME AccumulatorAssumption ==
  /\ Accumulator \in Notifiers
  /\ MAX_TIME_WINDOW \in Nat
  /\ Windows \subseteq 1..MAX_TIME_WINDOW
  /\ Contributions \subseteq Nat

VARIABLES lastRewardTime, timeWindow, whitelistEnabled, whitelist,
          accumulatedRewards,
          accumulatorBalance,   \* ZEN the accumulator holds
          gridStart,            \* history: start of the grid of windows in force
          latestCell            \* history: the window of that grid flushed last

configVars == <<timeWindow, whitelistEnabled, whitelist>>
fundVars   == <<accumulatedRewards, accumulatorBalance>>
gridVars   == <<lastRewardTime, gridStart, latestCell>>
allVars    == <<vars, gridVars, configVars, fundVars>>

nextRewardTime == lastRewardTime + timeWindow

\* The window of the grid that holds time t, counted from the start of the grid.
Cell(t) == (t - gridStart) \div timeWindow

MayContribute(user) == whitelistEnabled => user \in whitelist

\* An account sends ZEN to the accumulator.
Send(user, amount) ==
  /\ wallet[user] >= amount
  /\ wallet' = [wallet EXCEPT ![user] = @ - amount]
  /\ accumulatorBalance' = accumulatorBalance + amount

stakerButWallet == <<clockVars, depositVars, rewardVars, adminVars, eligible,
                     surrogate, stakerBalance>>

TransferAndNotifyRewards(user, amount) ==
  /\ MayContribute(user)
  /\ Send(user, amount)
  /\ accumulatedRewards' = accumulatedRewards + amount
  /\ UNCHANGED <<stakerButWallet, gridVars, configVars>>

\* A plain token transfer, which the contract does not see.
DirectTransfer(user, amount) ==
  /\ Send(user, amount)
  /\ UNCHANGED <<stakerButWallet, gridVars, configVars, accumulatedRewards>>

\* Mutant: compares with the whole balance, not with what is unaccounted for.
NotifyAlreadyTransferredTwice(user, amount) ==
  /\ MayContribute(user)
  /\ accumulatorBalance >= amount
  /\ accumulatedRewards' = accumulatedRewards + amount
  /\ UNCHANGED <<vars, gridVars, configVars, accumulatorBalance>>

\* Whoever may contribute can report any part of the tokens not yet accounted
\* for, those another account sent included.
NotifyAlreadyTransferredRewards(user, amount) ==
  /\ MayContribute(user)
  /\ accumulatorBalance - accumulatedRewards >= amount
  /\ accumulatedRewards' = accumulatedRewards + amount
  /\ UNCHANGED <<vars, gridVars, configVars, accumulatorBalance>>

\* Mutant: one window on, however many went by without a flush.
SnapOneWindow == lastRewardTime' = lastRewardTime + timeWindow

\* The latest point of the window grid that is not in the future.
SnapToGrid ==
  lastRewardTime' = lastRewardTime + ((now - lastRewardTime) \div timeWindow) * timeWindow

\* Mutant: the rewards sent on stay accounted for.
DeliverAndKeep ==
  /\ NotifyRewardAmount(Accumulator, accumulatedRewards)
  /\ accumulatorBalance >= accumulatedRewards
  /\ accumulatorBalance' = accumulatorBalance - accumulatedRewards
  /\ UNCHANGED accumulatedRewards

\* The transfer, the staking contract's notifyRewardAmount and the reset.
Deliver ==
  /\ NotifyRewardAmount(Accumulator, accumulatedRewards)
  /\ accumulatorBalance >= accumulatedRewards
  /\ accumulatorBalance' = accumulatorBalance - accumulatedRewards
  /\ accumulatedRewards' = 0

\* Anyone may flush; with nothing accumulated only the grid advances.
SendRewardsToStaker ==
  /\ now >= nextRewardTime
  /\ \/ accumulatedRewards > 0 /\ Deliver
     \/ accumulatedRewards = 0 /\ UNCHANGED <<vars, fundVars>>
  /\ SnapToGrid
  /\ latestCell' = Cell(now)
  /\ UNCHANGED <<gridStart, configVars>>

\* The windows that follow are counted from the last point of the old grid.
SetTimeWindow(window) ==
  /\ timeWindow' = window
  /\ gridStart' = lastRewardTime /\ latestCell' = 0
  /\ UNCHANGED <<vars, lastRewardTime, whitelistEnabled, whitelist, fundVars>>

SetWhitelistEnabled(enabled) ==
  /\ whitelistEnabled' = enabled
  /\ UNCHANGED <<vars, gridVars, timeWindow, whitelist, fundVars>>

SetWhitelist(user, enabled) ==
  /\ whitelist' = IF enabled THEN whitelist \cup {user} ELSE whitelist \ {user}
  /\ UNCHANGED <<vars, gridVars, timeWindow, whitelistEnabled, fundVars>>

AccumulatorInit ==
  /\ Init
  /\ lastRewardTime = now /\ timeWindow \in Windows
  /\ whitelistEnabled \in BOOLEAN /\ whitelist = {}
  /\ accumulatedRewards = 0 /\ accumulatorBalance = 0
  /\ gridStart = now /\ latestCell = 0

AccumulatorNext ==
  \/ StakingNext /\ UNCHANGED <<gridVars, configVars, fundVars>>
  \/ \E user \in Accounts, amount \in Contributions : TransferAndNotifyRewards(user, amount)
  \/ \E user \in Accounts, amount \in Contributions : DirectTransfer(user, amount)
  \/ \E user \in Accounts, amount \in Contributions :
       NotifyAlreadyTransferredRewards(user, amount)
  \/ SendRewardsToStaker
  \/ \E window \in Windows : SetTimeWindow(window)
  \/ \E enabled \in BOOLEAN : SetWhitelistEnabled(enabled)
  \/ \E user \in Accounts, enabled \in BOOLEAN : SetWhitelist(user, enabled)

AccumulatorSpec == AccumulatorInit /\ [][AccumulatorNext]_allVars

(***************************************************************************)
(* Properties.                                                             *)
(***************************************************************************)

AccumulatorTypeOK ==
  /\ TypeOK
  /\ lastRewardTime \in Nat /\ timeWindow \in Windows
  /\ whitelistEnabled \in BOOLEAN /\ whitelist \in SUBSET Accounts
  /\ accumulatedRewards \in Nat /\ accumulatorBalance \in Nat
  /\ gridStart \in Nat /\ latestCell \in Nat

\* However direct transfers and the reports of different contributors interleave,
\* no token is accounted for twice: what is accumulated is there to be sent.
AccumulatedIsHeld == accumulatedRewards <= accumulatorBalance

\* Through idle windows and flushes at any moment of a window, the gate lets one
\* flush through per window of a fixed grid: a flush falls in a later window than
\* the one before it, and the gate opens next exactly when the next window of the
\* grid starts - not later because this flush was late, nor earlier because
\* windows went by without one (sendRewardsToStaker's comment on its grid).
\* The grid is fixed until the owner sets the window; a shorter one may open the
\* gate at once.
FlushedOncePerWindow ==
  [][SendRewardsToStaker =>
       /\ Cell(now) > latestCell
       /\ nextRewardTime' = gridStart + (Cell(now) + 1) * timeWindow]_allVars

\* While the staking contract accepts the accumulator, an open gate is refused
\* only to a total below REWARD_DURATION: no state of the pool, of the balances
\* or of the schedule ever blocks the distribution of a real tranche.
OnlyDustIsRefused ==
  /\ Accumulator \in isRewardNotifier
  /\ now >= nextRewardTime
  /\ accumulatedRewards = 0 \/ accumulatedRewards >= REWARD_DURATION
  => ENABLED SendRewardsToStaker
=============================================================================
