# ZEN staking layer: TLA+ models, model checking and proofs

This directory specifies the ZEN staking layer: its contracts (staking, reward
accumulator, liquid-staking vault with a cross-chain share token, the two stations
that bring ZEN to the vault from the other chain and back), the relay backend that
submits what users sign, the pages of the web frontend that move money, the gas price
provider behind the relay's fees, and the subgraphs that index the events. Every
definition is translated from the code; `PROJECT.json` maps each one to its lines. TLC
checks the properties on small instances, and TLAPS proves the ones that matter most
for every value of the constants.

## The system

| Part | Source | State | Operations | Model |
|---|---|---|---|---|
| Staking contract | `src/Staker.sol`, `ZenStaker.sol` | deposits, cached totals, reward stream, admin settings | stake, stakeMore, alterDelegatee, alterClaimer, withdraw, claimReward, notifyRewardAmount, bumpEarningPower, setters | `Staker` |
| Delegation surrogates | `DelegationSurrogate*.sol` | the ZEN staked for one delegatee | moved by the staking contract only | in `Staker` |
| Earning power calculators | `calculators/` | delegatee scores, staleness, eligibility delay | answer the staking contract | only their answer, in `Staker` |
| Reward notifiers | `notifiers/` | amount, interval, next time | transfer and notify in one transaction | only the notification, in `Staker` |
| Extensions | `extensions/` | nonces, cap | signed and permit variants of the same calls | only the calls they wrap |
| Reward accumulator | `RewardAccumulator.sol` | accumulated rewards, window grid, whitelist | contribute, report a transfer, flush, administer | `RewardAccumulator` |
| Vault | `stlighter/StLighter.sol` | one deposit, `issuedShares`, fee, pause, nonces | deposit, redeem, harvest, the signed variants, administration | `StLighter` |
| Share token | `stlighter/LtZEN.sol` | balances on hub and spoke | mint and burn by the vault, transfer, OFT send and receive | `LtZEN` |
| Stations | `stlighter/station/` | credits, unassigned float, pending transfers | compose credit, pay for a deposit, redeem and credit, bridge, refund, withdraw, sweep | `InboundStation`, `EgressStation` over `StationAccounting` |
| Relay: jobs | `server/relay/{submit,validate,jobs,rrelayer}.ts` | jobs in a Map | accept, refuse, broadcast, wait, report | `RelayService` |
| Relay: fees | `server/relay/{cost,quote}.ts`, `fee-quote/route.ts` | rate cache | quote, check a signed maximum | `FeeMath`, `FeeQuote` |
| Gas provider | `deploy/gas-provider/main.go` | price cache | estimate | in `FeeQuote` |
| Redeem page | `useRedeem.ts`, `RedeemForm.tsx`, `httpRelayer.ts`, `useTxLifecycle.ts` | phases of a gasless and a standard redemption | sign, submit, poll, give up, fall back | `GaslessRedeem` over `RelayService` |
| Deposit page | `useDeposit.ts`, `StakeForm.tsx`, `chainGating.ts`, `Toast.tsx` | form, runs of deposit, cached queries, one toast | approve, deposit, switch chain | `DepositPage` |
| Cross-chain stake page | `useCrossChainStake.ts`, its wizard | signature, phase, what it read last | sign a credit, bridge, stake or withdraw | `CrossChainStake` |
| Redeem-to-base page | `useRedeemToBase.ts`, its wizard | phase, credit and balances read | redeem, bridge, wait, withdraw, reload | `RedeemToBase` |
| History | `subgraphs/src/st-lighter.ts`, `useRateHistory.ts`, `useHarvestHistory.ts` | index of the vault's events, chart | index a block, query, sample | `RateHistory` |
| Staking subgraph | `subgraphs/src/zen-staker.ts` | Deposit entities | event handlers | `StakerSubgraph` over `Staker` |
| Rest of the frontend, deployment | layout, texts, read-only hooks, `script/`, `devnet/` | none that outlives a rendering | | not modelled |

How the parts interact. Users call the staking contract directly, or own shares of the
vault, which is itself the owner of one deposit. The accumulator collects ZEN from
contributors and, once per window, hands it to the staking contract, which streams it
over `REWARD_DURATION` to the deposits in proportion to their earning power. Earning
power is a cached answer of the calculator: anyone may "bump" a deposit whose answer
changed and take a tip from its reward. The vault claims its deposit's reward at every
entry point (`_harvest`), skims a protocol fee and stakes the rest. Its shares move
between two chains as LayerZero packets; the stations hold ZEN that arrives from, or
leaves for, the other chain. A page asks the backend for a fee quote, which comes from
an exchange rate and a gas price, each behind a cache; it lets the wallet sign a
message with the quoted maximum and posts it; the backend prices it again, checks it,
answers with a job's id, and broadcasts through rrelayer in the background while the
page polls. What the pages show besides comes from queries that lag behind the chains
and from the subgraph.

What is hard here. On chain a transaction is atomic, so the difficulty is the order of
transactions of different people: bumps, flushes, harvests and signed messages are open
to anyone at any time, packets arrive in any order, settings change between a user's
calls, arithmetic rounds at every step of long sequences, and what one contract caches
of another may be stale when used. Off chain every `await` is an interleaving point:
functions capture what they use and go on after the form was reset, answers come late
and out of order, the process restarts and forgets its jobs, a wait ends in an error
although the transaction lands, and a page must decide from queries that lag.
`PROJECT.json` lists each of these under "hazards", with the properties that would
notice it going wrong.

Per component, correctness means:

* staking contract: the balance covers every reward that can be claimed; the totals
  equal the deposits; the tokens are in the surrogates the deposits name; nobody
  loses reward already earned; a depositor can always leave;
* accumulator: nothing is counted twice, a real tranche is never blocked, one flush
  per window of a grid that late flushes and idle time do not shift;
* vault: stake per share never falls, shares are always backed, no ZEN of its own
  stays behind in the vault nor is ZEN sent there by mistake ever spent, fees stay
  within signatures, redemption is always open;
* stations: what is credited is held, a signed credit counts once, tokens that wait
  for their compose are not spent on others, every ZEN redeemed is its owner's until
  it reaches them, a refund is always accepted;
* share token: the supply over both chains and in flight is what the vault counts;
* relay: what it refuses never lands, what it confirms was executed, every submission
  comes to an end on the page, a signed quote is refused for its price only after a
  real rise, quotes and prices are not older than their lifetimes add up to;
* pages: a transfer carries the signature that credits it, a step is not offered
  again while its effect waits, an arrival is seen, a transaction under way is shown,
  a deposit does not fail for want of what the page was to arrange;
* indexes: they say what the contracts say, at the block they say it for.

## Modules

### Contracts

One transaction is one action. A call that reverts is an action that is not enabled, so
each `require`, checked subtraction, narrowing cast and token transfer is a conjunct of
a guard. Time is a counter.

* `Staker` is the whole staking contract. `Stake` ... `BumpEarningPower` are the
  internal functions `_stake` ... with the authorisation of their external callers
  (`DepositCall` collects the owner's); `ClaimReward` and `ClaimNothing` are the two
  outcomes of `_claimReward`. `Checkpointed` is the record a call leaves behind:
  `_checkpointReward` after `_checkpointGlobalReward`, with the fields the call sets.
  The calculator is the set `eligible` of delegatees whose stake earns, which may
  change at any moment: this covers the binary oracle's answers (all or nothing) and
  the identity calculator's (`eligible` never changes). `NotifyRewardAmount` includes
  the transfer that every notifier makes in the same transaction.
* `RewardAccumulator` extends `Staker`: its actions run next to all of the staking
  contract's, and a flush is one action that includes `NotifyRewardAmount`.
  `gridStart` and `latestCell` remember where the grid of windows began and the window
  of the latest flush, for the property that compares with them.
* `StakedPosition` is the abstract specification of one deposit as its owner sees it: a
  stake, and a reward in whole ZEN that grows with time while there is stake and shrinks
  only by what is paid out. `StakerPosition` gives the mapping from `Staker`.
* `LtZEN` has both chains' balances and the packets in flight. LayerZero's OFT is
  external: it burns at the source and mints once, at any later time, in any order.
* `StLighter` extends `LtZEN`. It sees the staking contract as `StakedPosition` promises
  (stake, and a reward that only time increases, and only while there is stake).
  `HarvestedZen` and `HarvestedStake` are `_harvest`, which every entry point runs
  first; `DepositInto` and `RedeemFrom` are `_deposit` and `_redeem`. Any signed message
  may be submitted by anyone, any number of times, with any fee. A receiver may be the
  vault itself, and `Donate` is a plain transfer of ZEN to it (the donation tests make
  one): `strayZen` counts what was sent there to stay, which no function recovers.
* `StationAccounting` is the bookkeeping both stations inherit: `Credit` and
  `AddUnassigned` end with the solvency check of the code (`Solvent'` as a guard),
  `Debit` and `RescueUnassigned` do not check it.
* `InboundStation` takes a LayerZero transfer in its two steps: `Arrive` (external)
  brings the tokens and queues the compose, `LzCompose` executes it, at any later time,
  in any order; one that reverts stays queued. A transfer's payload and amount need not
  match, nor be signed. `PayForDeposit` is the vault's signed deposit with the station
  as payer, with the vault's nonce.
* `EgressStation` credits a redemption in the transaction that makes it
  (`RedeemAndCredit`), unless it is handed to the vault directly (`RedeemDirectly`).
  `BridgeViaOft` is `bridgeToBase` with `ZenOftStationBridge.bridgeZen` and its two
  callbacks inside; `BridgeAndWait` is the same call with a bridge that answers later,
  as the interface `IStationBridge` allows. `SetBridge` may come between.

### Backend, pages and indexes

One action is the code from one `await` (or event) to the next. What a function captured
before is a variable of its run; what it reads again is read in the later action.

* `FeeMath` has the pure arithmetic: clamped rate, fast gas tier, fee, buffer and caps.
  Errors are the codes of `RelayCostError`.
* `FeeQuote` follows a request through rate cache, rate fetch, gas cache, gas fetch and
  answer (`req[r].step`), for the quotes of the page (one per change of the amount,
  after the debounce) and for the submission. `read` remembers when a reading was begun,
  which no program variable does. Outside calls may fail or last up to `FetchTime`.
* `RelayService` is the backend for one user's signed redemptions: `Accept` and
  `Refuse` are the two outcomes of a POST, `Broadcast`, `WaitConfirms` and `WaitThrows`
  the background task, `Restart` the loss of the Map. rrelayer and chain are external:
  `Mine` checks nonce, balance and deadline again and may revert, `ExpireTx` gives up.
* `GaslessRedeem` puts the page over it. A flow is one run of `redeemGasless`; it goes
  on, and writes the page's phase, after the form was reset and another flow started.
  The standard redemption runs beside it. The form's check of the balance is left out
  of `CanSubmit`: its query may be stale or missing, so any click may come.
* `DepositPage` keeps runs of `deposit()` with the amount and approval they captured.
  The form goes when the wallet leaves the hub chain (`getAvailability` is
  `chainGating.ts`) and comes back empty, while its runs go on. `crossed` records runs
  that met another or started from data out of date.
* `CrossChainStake` and `RedeemToBase` derive their step from what they remember and
  what they read last, as the `useMemo` of their hooks does (`StakeStep`, `BaseStep`).
  `OftDust` is what both truncate with. On the stake page each click on the bridge
  button is a run of its own (`click`): it asks the wallet for the other chain before it
  sets the phase (`StartBridge`, `BaseReady`), and until then the button can be clicked
  again. On the redeem-to-base page `creditRead` says whether the query of the credit
  has data: until it has, the page shows 0 (`data ?? 0n`), after `ReloadPage` too.
  `mishap` and `misled` record that a call went through, or a read failed, without the
  page being told; `Acceptable` is what the inbound station asks of a compose, in the
  terms of `InboundStation`.
* `RateHistory` indexes blocks of events (`IndexBlock`, handlers by name), answers the
  two queries, and lets loads overlap, fail and be late. A rate is represented by the
  block whose state it was read from, so that a rate read at another block is visible.
  The session's samples are taken of a polled rate (`PollRate`), which may be of an
  earlier block than the time it is stored with (`add`); after the page was left and
  opened again (`Remount`), the cached rate is sampled once more, and a reload keeps what
  the browser has stored.
* `StakerSubgraph` extends `Staker`: every call also hands its events to the handlers,
  in the order the contract emits them.

`MCPages` joins the four pages, of which a user is at one; they share no state, and one
run checks all.

### Theorems

`StakerProofs` is about the staking contract by itself; `StakerLedgerProofs` about its
sums and about what is put around it: the deposit's owner, the accumulator, the
subgraph. `StLighterProofs`, `InboundStationProofs`, `EgressStationProofs` and
`FeeQuoteProofs` are about the modules of their names, `PagesProofs` about the four
pages and the overview page's history. `ArithmeticLemmas` has what they share: floor
division, minima and maxima of two, and sums over finite sets.

### Abstractions

Of the vault: a signed deposit is paid from its user's own wallet (a station as payer is
in `InboundStation`), the receiver of a signed call is its user, permit variants are the
same call after an allowance, the 96-bit limit of the vault's deposit is not reached,
and the protocol fee's recipient is a holder or the vault. The vault as a holder of
shares would be one more holder who never calls. A `setMinter` migration is left out.
ZEN sent straight to a surrogate is not modelled: it would be more than the surrogate's
deposits.

Of the stations: the messages owners ever sign are a constant, since a message signed
later can only be submitted less often; recipients and relayers are outside the station
(a withdrawal or rescue to the station itself excepted), a redemption's payout is part
of the message, and the identifier of a bridge transfer is its owner and nonce, which
the hash contains. History variables (`swept`, `everCredited`, `owed`, and `crossed`,
`mishap`, `misled`, `late` and `read` of the other modules) record what the properties
compare with and guard nothing.

Of backend and pages: a request is one kind (the redemption), each for one unit of
shares; that a fee rose above the signed maximum is one reason among others to refuse in
`RelayService`, and is `FeeQuote`'s subject. A signature is what it is over (nonce,
amount), not bytes. Signing on the redeem-to-base and stake pages is two steps, relaying
is one. A fetch of the polling loop has no timeout of its own (`httpRelayer.ts:95`) and
is taken to return. Texts, explorer links and logs are left out; so are, on the deposit
page, the user's clearing of the input and closing of toasts, and the faucet.

## Runs

| Run | Shows |
|---|---|
| `staker_delegation` | Totals, surrogate holdings, earned rewards and the subgraph's deposits stay exact, with two delegatees, changing eligibility, claimers and administration. |
| `staker_rewards` | With overlapping streams, claim fees, bump tips and unequal stakes: solvency of the rounded stream, exits open, and each deposit behaves as `StakedPosition`. |
| `accumulator` | Contributions by both routes, direct transfers, idle windows, changed windows and flushes by anyone: no token counted twice, one flush per window of the grid, no real tranche refused. |
| `vault_rate` | Rounding, harvests with and without fee, last exits, donations and payouts to the vault itself, and shares abroad or in flight. |
| `vault_gasless` | Signed messages, repeated, late and competing for a nonce, with nonces invalidated in between. |
| `inbound_station` | Composes late, repeated, reordered or forged, next to deposits, withdrawals, cancelled nonces, pauses, sweeps and rescues. |
| `egress_station` | Redemptions through and past the station, both kinds of bridge, dust, refunds, a bridge replaced while a transfer is under way. |
| `fee_quote` | Overlapping quotes and a submission over two caches, slow and failing sources and a market that moves: what may be signed is current and recent, and a signed maximum is refused only after a rise. |
| `pages` | Redeem, deposit, stake-from-the-other-chain and redeem-to-base pages with lost answers, restarts, reverts, expiries, late landings, overlapping runs, stale or unanswered reads and reloads. |
| `vault_history` | A lagging index, overlapping, failing, late queries, polled rates and a page opened again: the chart is history, and it catches up. |
| `relay_confirmed`, `signed_amount` | Two statements of the repository that the code does not keep; see Findings. |

Types. The type invariants (`TypeOK`, `VaultTypeOK`, `QuoteTypeOK` ...) of the modules
with proofs are theorems and not repeated in the runs; `RedeemTypeOK` documents the
variables of the redeem page.

Bounds. On chain, amounts are a few ZEN wei against a `REWARD_DURATION` of 2 and a
`SCALE_FACTOR` of 1 or 2, so that every division rounds (with the real 10^36 scale the
interesting remainders would need long runs to appear). `MaxTime` is at least one
duration past the first notification, so that a second stream starts inside and at the
end of the first. `MaxDeposits = 2` is the least at which a deposit can be harmed by
another. In the vault, `VIRTUAL_SHARES = 2` and `BPS_DENOMINATOR = 4` keep the virtual
offset and the fee's rounding visible; two packets are enough to be reordered, two
signed messages and two nonces enough to compete and to repeat. In `inbound_station` one
owner signs two credits and a deposit, the other a credit and a withdrawal that soon
expire, and a credit and a withdrawal are forged. In `egress_station` the conversion
rate is 2, so that odd amounts leave dust; the pages use the same rate.
`staker_delegation` uses symmetry on the two delegatees, which only invariants and a
step property read. `fee_quote` lets the amount change twice (a late answer needs one
change, an answer overtaken by another two), with a rate the clamp leaves and one it
replaces, a margin of 0 (the property's condition), and a fee cap that cuts some buffers
short. `pages`: two flows, runs, signatures and transfers, and three calls on the last
page (a redemption, a bridging, and one more after them), are the least at which one
meets another; one call of the stake page is enough to withdraw a credit between two
transfers, which is when the signature must be forgotten; the wallet is on the hub or
the spoke chain (a third chain gates the deposit page like the spoke); the form is
mounted twice. `vault_history`: three blocks over two days, blocks with no event or with
several of different kinds (which share a timestamp), two loads at once, one failure,
the page opened twice. `MIN_GAP` and `MAX_POINTS` are 2, so that samples are skipped and
dropped.

ENABLED. `ExitNeverBlocked`, `OnlyDustIsRefused`, `RedeemNeverBlocked`,
`ComposeNeverBlocked` and `RefundNeverBlocked` say that a call can be made, by anyone
who wants to, in every reachable state.

Fairness. The contracts act only when somebody calls them, so their specifications
assume none. Off chain it is weak fairness of what the code's event loops and timers
do of themselves, never of the user:

* `FeeQuote`: a debounce timer fires, an outside call ends (with an error at the
  latest: each has a timeout), and the server and the page handle what is due.
* `GaslessRedeem`: the backend's task and handler go on, rrelayer and the chain settle a
  transaction they took (mined, reverted or expired), the page takes an answer, and its
  polling loop reaches the deadline, which every round of it checks. Restarts and lost
  answers need no bound: each flow meets its own deadline.
* `RedeemToBase`: the bridge delivers what it sent and the page polls while it waits.
* `RateHistory`: the indexer reads on, the page's timer ticks, a query that does not
  fail is answered; failures are bounded, since a page whose every query fails shows
  nothing.

Deadlock is not checked because every bounded instance stops: at `MaxTime`, with the
wallets spent, or with the user done.

## Proofs

| Theorem | States | From |
|---|---|---|
| `TypeCorrect`, `CheckpointOrder`, `AccumulatorNeverDecreases`, `EarnedRewardsAreKept` | `Staker`'s `TypeOK`, `CheckpointsInOrder`, `AccumulatorMonotone`, `EarnedRewardsKept` | `IInv` |
| `TotalsMatch`, `SurrogatesBackStake` | `TotalsMatchDeposits`, `SurrogatesBackDeposits` | `PInv /\ Ledger` |
| `RewardsAreFunded` | `RewardSolvency` | `SInv` |
| `PositionImplemented` | `Spec => ImplementsPosition` | `PInv` |
| `IndexIsExact` | `IndexFollowsDeposits` | `IndexInv` |
| `AccumulatorTypeCorrect`, `AccumulatedIsAlwaysHeld`, `CheckpointOrderBehindAccumulator`, `OneFlushPerWindow` | the same for the composed accumulator, `FlushedOncePerWindow` | `AInv` |
| `FundedBehindAccumulator` | `RewardSolvency` of the composed system | `AInv /\ SInv` |
| `ExitAlwaysOpen`, `TrancheAlwaysAccepted` | `ExitIsOpen`, `FlushIsOpen` (below) | `SInv /\ OwnersKnown /\ FeeHasCollector`; `AInv /\ SInv` |
| `VaultTypeCorrect`, `OnlyStrayZenStays`, `SharesAlwaysBacked`, `RateNeverDecreases`, `QuotedRateNeverDecreases` | the vault | `VInv` |
| `SupplyIsCounted`, `RelayersPaidAsSigned` | `SharesMatchSupply`, `FeesWithinSignatures` | `SupplyInv`, `FeesInv` |
| `RoundTripNeverGains`, `IdleSharesKeepValue` | deposit and redeem again, and the value of shares nobody touches (below) | `VInv`; `VInv` and `QuotedRateNeverDecreases` |
| `RedeemAlwaysOpen` | `RedeemIsOpen` | `VInv /\ SupplyInv` |
| `InboundTypeCorrect`, `InboundAlwaysSolvent`, `InboundCreditNeedsSignature` | the inbound station | `InboundStationProofs!IInv` |
| `InboundCreditsCovered`, `InboundComposesAreFunded`, `InboundCreditedAsSigned` | `CreditsCovered`, `ComposesAreFunded`, `CreditedAsSigned` | `TotalIsSum`, itself, `CreditedIs` |
| `ComposeAlwaysOpen` | `ComposeIsOpen` | `IInv /\ ComposesAreFunded` |
| `EgressTypeCorrect`, `EgressAlwaysSolvent`, `EgressCreditNeedsSignature` | the egress station | `EgressStationProofs!IInv` |
| `EgressCreditsCovered`, `EgressPendingIsParked`, `EgressOwnersKeepTheirZen` | `CreditsCovered`, `PendingIsParked`, `OwnersKeepTheirZen` | `TotalIsSum`, `Transfers`, `Kept` |
| `RefundAlwaysOpen` | `RefundIsOpen` | `IInv /\ Transfers /\ NoEmptyTransfer` |
| `QuoteTypeCorrect`, `UsableQuotesAreYoung`, `GasHitsAreFresh`, `ReadyQuotesAreCurrent`, `RefusalsAreRises` | the fee quote | `QuoteInv` |
| `RefusedStaysOut`, `ConfirmedOrOvertaken` | `RefusedNeverLands`, `ConfirmedUnlessOvertaken` | `RedeemInv` |
| `LoneDepositNeverReverts`, `PendingToastStays` | `LoneDepositLands`, `PendingIsShown` | `DepositInv` |
| `RedeemNotOfferedTwice` | `RedeemOfferedOnce` | `BaseInv` |
| `TransfersAreCredited` | `CreditedUnlessMishap` | `StakePageInv` |
| `ChartIsAlwaysHistory` | `ChartIsHistory` | `HistoryInv` |

The constants are constrained only by the named assumptions in each module. Those that
the sums need say that there are finitely many holders, owners and
messages (`HoldersFinite`, `OwnersFinite`, parts of
`InboundAssumption`): of an address space of 160 bits, that is so.

* `IInv == TypeOK /\ CheckpointsInOrder`. Types alone are not inductive: a reward is
  `earningPower * (accumulator - checkpoint)`, a natural number only because every
  deposit's checkpoint is behind the accumulator, and the accumulator advances by the
  time since `lastCheckpointTime`, which must not be ahead of the clock or of the
  stream's end. `Arithmetic` draws these consequences once. That earned rewards are
  kept follows from the shape of a call: `DepositCallShape` says every owner's call
  leaves `Checkpointed` behind, `Settle` that this record's reward is the live one less
  what was paid.
* `PInv` adds that deposits not yet opened are empty; without it a `Stake` would not be
  an `Add` step of the abstract deposit, whose reward must not jump. It also says that no
  deposit earns by more than its stake (`PowerWithinStake`), the calculator's answer
  being all of it or nothing: so a deposit without stake earns nothing, which is what
  the vault's `Tick` takes for granted and `StakedPosition` promises.
* Sums. The library's induction theorems are out of reach (below), so `ArithmeticLemmas`
  derives what it needs of `SumFunctionOnSet` from a table of partial sums and the least
  cardinality at which a claim could fail: a sum loses what an entry held and gains what
  it holds now (`SumUpdate`), is at least each entry, splits over subsets, and moves
  between two functions without change (`SumTransferred`).
* `Ledger` is `Totals /\ Backed`: every call of `Staker` rewrites one entry of the table
  of deposits and adjusts each total by its own increment, and `EntryRewritten` says that
  the sum over each owner's and each delegatee's deposits changes by just that, the
  change of owner or delegatee included.
* `SInv == PInv /\ Ledger /\ StoredSolvency`. Solvency is stated of what is stored at
  the last checkpoint: the balance covers what each deposit was due then and the whole
  stream since. Between checkpoints the live form follows, because the stream is divided
  by the cached total and multiplied by each deposit's power, and the cached total is the
  sum of the powers: without `Ledger` the property is not inductive.
* `AInv` adds `accumulatedRewards <= accumulatorBalance` and that `lastRewardTime` is a
  point of the grid, that of the latest flush's window, and not after the clock: this
  makes the grid's division a natural number, and a flush, which the gate allows
  from the next point on, falls in a later window (`OneFlushPerWindow`). The grid is fixed
  until the owner sets the window; a shorter window may open the gate at once.
* `IndexInv` says the index is a function of the contract's state, entity by entity, for
  opened deposits and for others. A call changes one deposit, and the handlers of its
  events turn the old mirror into the new one; for `stake` that is the composition of
  three handlers in the order of their events.
* `VInv` adds to the types that the vault holds what was sent to it to stay and no more,
  that shares are backed (`issuedShares <= VIRTUAL_SHARES * staked`), that a fee has a
  recipient, and that an uninitialised vault is empty. Backing is what makes a
  redemption's value at most the pool, so `staked` stays a natural number; the rate is
  then one inequality between products per operation (`DepositKeepsRate`,
  `RedeemKeepsRate`), with the roundings given by `DivFloor`. Three consequences are
  drawn for the user: the shares a deposit has just minted, all or a part, redeem for at
  most what was staked for them (`PartOfMint`; when they are all there is, because a
  vault without shares had no pool); shares left alone are never quoted less while no
  protocol fee is due (`ValueKeeps`, the promise of the vault's invariant suite, per
  share and not per rate); and a redemption's value is at most the pool.
* `SupplyInv` needs that each packet in flight has a nonce below the counter: a packet
  added to the set is then a new element, and the sum over the set grows by its amount.
  `FeesInv` compares the fees paid with the messages signed so far, of which signing adds
  one and executing uses a nonce.
* The stations' `IInv` adds `Solvent` to the types: a sweep or a rescue keeps the
  balance natural only because what is assigned is held. The code asserts it at credits
  and sweeps; that debits, transfers out and rescues keep it is `DebitKeeps` and the
  cases of `GovernanceCallKeeps`. Inbound, `IInv` also says that what is unassigned was
  swept. On it rest `TotalIsSum` (the running total is the sum), the funding of the
  queue, which a credit takes from the float and from the queue alike, and `CreditedIs`,
  in which a credit is charged to a nonce nobody has used.
* `Transfers` pairs what the egress station believes under way with what bridges hold:
  finite sets with one element per identifier that `Agree`. With it a refund is of the
  amount the station noted, and `Kept` (credit plus transfers under way equals what is
  owed, per owner) is carried through a bridging, its dust, and its end.
* `QuoteInv` follows the age of a reading from the fetch that began it through the
  request and the cache into the quote, one bound per place; that a key shown belongs to
  the quote shown; and, for the message, that its maximum is the buffered fee of the cost
  it was quoted at. `CeilDivLeast` (the ceiling is the least quotient that covers) gives
  `BufferCoversCost` and `QuoteCovers`: a cost within the buffer, rounded up three times,
  still fits the maximum rounded up twice.
* `RedeemInv` says how far a request can have come, given what page and service know of
  it, and that the nonce it signed is not ahead of the chain: a transaction that reverts
  was overtaken, and stays so.
* `DepositInv` says what a run that met no other can rely on (`LoneRunOK`): it is the only
  one running, its amount is within balance and, from the confirmed approval on, within
  the allowance, and its toast is the one shown, with no timer left from an earlier step.
* `BaseInv`: unless misled, the page waits for the one call under way, and the credit it
  has read, once it has read it, is the station's or about to be read again.
* `StakePageInv`: unless there was a mishap, one run of the transfer is open at a time,
  the signature held is over the amount shown, no two transfers that count carry one
  signature, and once a transfer carries the signature still held the page is nowhere it
  could use it again (`CarriedOK`). The last is what the property depends on, and what
  each handler must restore.

* `HistoryInv` says of the index that its snapshots are in order, each at the rate of its
  block, and that every indexed block with an event has one; of each day's row what its
  first and last blocks make of it; and of every answer under way and of what is shown
  that it is such a history up to some block. A block's events are folded by the
  handlers: the theorems on folds being out of reach, `FoldTableExists` gives the table
  of the fold's intermediate results (by the least position at which there could be
  none), `IndexedInSteps` reads it one handler at a time, and `Grown` says in closed form
  what the first k events have made of the index. The chart's sort is a choice of the
  sequence in order of time, which exists because each point has its place, the number
  of points not after it (`OrderExists`). Any first part of the snapshots is without
  gaps, whatever `RATE_QUERY_FIRST`. Of the session's window, whatever `MAX_POINTS` and
  `MIN_GAP`, it says that times and rates are in order and that no rate is ahead of its
  time: a polled rate is at least the one before.

* What is never blocked. The prover does not reason about ENABLED, so the condition under
  which a call goes through is stated by itself (`WithdrawAllowed`, `FlushAllowed`,
  `RedeemAllowed`, `ComposeAllowed`, `RefundAllowed`), and a lemma per call shows that
  the action is that condition and one value for each variable (`WithdrawIs`,
  `LzComposeIs`, ...). The theorems say that the condition always holds where the
  ENABLED property says the action is enabled; `RedeemAlwaysOpen` says so for every part
  of the shares and every fee. `TrancheAlwaysAccepted` sets aside the states in which the
  model's bound `MaxRewards` would be exceeded, which is no limit of the code.

Only model-checked: the ENABLED properties `ExitNeverBlocked`, `OnlyDustIsRefused`,
`RedeemNeverBlocked`, `ComposeNeverBlocked` and `RefundNeverBlocked`, of which the prover
establishes the conditions, as said above, but not ENABLED itself; and the properties that
depend on fairness (`SubmissionSettles`, `ArrivalIsSeen`, `QuoteArrives`,
`ChartCatchesUp`), since it does not reason about liveness. Every other property of a run
is a theorem. `useHarvestHistory`'s rows are checked by `ChartCatchesUp` only.

## Findings

1. `relay_confirmed`: after an error of rrelayer, `waitForRrelayerTx`
   (`rrelayer.ts:185-193`) takes any receipt for success and never looks at its status.
   A relayed transaction that reverted is reported "confirmed" to the user.
   `ConfirmedUnlessOvertaken` is what does hold: then another transaction of the user
   came first, the deadline passed, or the shares were gone.
2. `signed_amount`: the amount on the cross-chain stake page can be edited while the
   wallet asks for the signature (`CrossChainStakeWizard.tsx:222`), and the transfer then
   carries another amount than the signature it is sent with, which the inbound station
   rejects. The comments at `useCrossChainStake.ts:207` and `304` assume they are equal.

Met while modelling, from comments and docs, without a run:

* `Staker.sol:350-352` says an unclaimed reward only increases until it is claimed; the
  tip of a bump comes out of it.
* `RewardAccumulator.sol:127-129` says a total below `REWARD_DURATION` reverts; while a
  stream runs, its rest is added first and the call goes through (`OnlyDustIsRefused`
  is stated accordingly).
* `test/StLighter.invariants.t.sol:71-76` says an idle holder's redeemable value never
  falls; with a protocol fee a harvest lowers it, because `totalAssets` counts the
  unclaimed reward before the fee. The suite runs with no fee, where
  `QuotedRateNeverFalls` holds.
* `useRateHistory.ts:31` asks for the first 200 snapshots in ascending order, where
  `docs/stLighter-subgraph-goldsky-guide.md:428-431` asks for the latest N: past 200
  the chart stops at the oldest, however often it is refreshed. `ChartCatchesUp` holds
  the chart of rates to the newest only while one query can hold all the snapshots; the
  run has histories on both sides of the limit.
* The session's chart dates a rate from the query cache with the present time
  (`useRateHistory.ts:90`) and samples it again at every mount: a point may show an
  older rate than its time had. `ChartIsHistory` asks of these points only that they
  do not run backwards and show no rate before it was there.
* `docs/stLighter-crosschain-gasless-spec.md:236` has progress persisted, so that a page
  loaded again goes on. `useRedeemToBase` persists nothing and shows a credit of
  `data ?? 0n` (line 150) with no gate on loading or error: loaded again while a credit
  waits, the page offers to redeem until its query answers. `RedeemOfferedOnce` speaks of
  a page that has its answer.
* The bridge button of the cross-chain stake page stays enabled while the wallet is asked
  to switch chains (`CrossChainStakeWizard.tsx:173`, `useCrossChainStake.ts:274`): a
  second click starts another transfer with the same signature, of which the station
  credits one. `CreditedUnlessMishap` counts this among the mishaps.
* `docs/stLighter-gasless-fee-spec.md:418` has an expiring quote refreshed or the
  signing disabled; `useFeeQuote` does neither, and `redeemGasless` refuses on the click.
* `useRedeemToBase` counts the phase "waiting" as busy, which disables the button that
  would call `markDone` or `startOver`: they cannot be reached.
* The `earningPower` of an indexed deposit is not renewed by claims and bumps, and
  `subgraph.yaml` wires the vault's handlers only; wired beside them, `zen-staker.ts`
  would add its rate samples to the same day rows.

## Not modelled

* The binary oracle's own state (scores, staleness, delay, override), the notifiers'
  schedules, and the signed and capped variants of the staking calls: the deployment
  uses the identity calculator and the accumulator, and `Staker` takes any answer, any
  notification and any caller's order, so its properties do not depend on them.
* `setMinter` of the share token, native-token sweeps, upgradeable storage layouts.
* The mock and direct relayers of the development setup, the other gas tiers, the
  market adapters' parsing, HTTP configuration, read-only displays, texts, layout.
* Deployment scripts, containers, the devnet.
* What a user does in two browser tabs at once, and two pages at once: the chain's
  answer to it is in the contracts' modules.
