---------------------------- MODULE RateHistory ----------------------------
(***************************************************************************)
(* The history of the vault: the subgraph that indexes its events block by *)
(* block (st-lighter.ts, shared.ts) and the two hooks that show the index, *)
(* useRateHistory on the overview and useHarvestHistory on the             *)
(* transparency page.                                                      *)
(*                                                                         *)
(* The chain, and the store that answers queries, are external.  A rate is *)
(* represented by the block whose final state it was read from, and a time *)
(* by the block at the head of the chain.  The reads of sampleRate do not  *)
(* revert on the deployed vault.                                           *)
(***************************************************************************)
EXTENDS Integers, SequencesExt, FiniteSetsExt

CONSTANTS
  RATE_QUERY_FIRST, HARVEST_QUERY_FIRST, MAX_POINTS,
  MIN_GAP,          \* MIN_GAP_MS, in blocks
  BlocksPerDay,     \* daySecs, in blocks
  BlockContents,    \* what a block may hold: sequences of vault events
  MaxBlocks,        \* bound: blocks
  MaxLoads,         \* bound: queries of the page under way at once
  MaxFailures,      \* bound: queries that fail
  MaxVisits         \* bound: times the page is opened again

\* The vault's events that the index is built from.
VaultEvents ==
  [name : {"Deposited", "Redeemed"}] \cup [name : {"Harvested"}, rewardClaimed : Nat]

ASSUME HistoryAssumption ==
  /\ {RATE_QUERY_FIRST, HARVEST_QUERY_FIRST, MAX_POINTS, BlocksPerDay} \subseteq Nat \ {0}
  /\ {MIN_GAP, MaxBlocks, MaxLoads, MaxFailures, MaxVisits} \subseteq Nat
  /\ BlockContents \subseteq Seq(VaultEvents)

VARIABLES
  blocks,           \* the chain: the vault's events of each block
  store,            \* the index
  shownBy,          \* the hook on the page: "rates" or "harvests"
  configured,       \* isSubgraphConfigured
  loads,            \* subgraphQuery: the queries under way and their answers
  points,           \* points of useRateHistory, rows of useHarvestHistory
  chartStatus,
  read,             \* the latest rate that a poll of useExchangeRate has answered
  polled,           \* its query's cached data, or 0 when there is none
  sampled,          \* points of rateStore: the rates this browser has seen
  failures, visits  \* the bounds' counters

indexVars == <<blocks, store, shownBy, configured>>
chartVars == <<loads, points, chartStatus, failures>>
sessionVars == <<read, polled, sampled>>
historyVars == <<indexVars, chartVars, sessionVars, visits>>

Loads == 1..MaxLoads
NoLoad == [step |-> "none", rows |-> << >>]
head == Len(blocks)

(***************************************************************************)
(* The index.                                                              *)
(***************************************************************************)

\* loadMeta makes the totals with zeros when there are none.
EmptyStore == [upto |-> 0, snapshots |-> << >>, harvests |-> << >>, flows |-> << >>,
               days |-> [d \in {} |-> 0], cumulative |-> 0]

updateDay(index, b, rate, rewardAccrued) ==
  LET total == index.cumulative + rewardAccrued
      day   == b \div BlocksPerDay
      open  == IF day \in DOMAIN index.days THEN index.days[day].rateOpen ELSE rate
  IN [index EXCEPT !.cumulative = total,
        !.days = [d \in DOMAIN @ \cup {day} |->
                    IF d = day THEN [rateOpen |-> open, rateClose |-> rate, cumulative |-> total]
                    ELSE @[d]]]

\* Mutant: the rate is read from the chain as it is, not as it was.
sampleRateAtHead(index, b, trigger, rewardAccrued) ==
  updateDay([index EXCEPT !.snapshots = Append(@, [t |-> b, rate |-> head, trigger |-> trigger])],
            b, head, rewardAccrued)

\* The contract is called at the block of the event.
sampleRate(index, b, trigger, rewardAccrued) ==
  updateDay([index EXCEPT !.snapshots = Append(@, [t |-> b, rate |-> b, trigger |-> trigger])],
            b, b, rewardAccrued)

handleDeposited(index, b, e) ==
  sampleRate([index EXCEPT !.flows = Append(@, [t |-> b, kind |-> "deposit"])], b, "deposit", 0)

handleRedeemed(index, b, e) ==
  sampleRate([index EXCEPT !.flows = Append(@, [t |-> b, kind |-> "redeem"])], b, "redeem", 0)

handleHarvested(index, b, e) ==
  sampleRate([index EXCEPT !.harvests = Append(@, [t |-> b, rewardClaimed |-> e.rewardClaimed])],
             b, "harvest", e.rewardClaimed)

HandleEvent(index, b, e) ==
  CASE e.name = "Deposited" -> handleDeposited(index, b, e)
    [] e.name = "Redeemed"  -> handleRedeemed(index, b, e)
    [] e.name = "Harvested" -> handleHarvested(index, b, e)

\* The indexer reads the next block, with all its events, and commits.
IndexBlock ==
  LET b == store.upto + 1 IN
  /\ b <= head
  /\ store' = [FoldLeft(LAMBDA index, e : HandleEvent(index, b, e), store, blocks[b])
                 EXCEPT !.upto = b]
  /\ UNCHANGED <<blocks, shownBy, configured, chartVars, sessionVars, visits>>

MineBlock(events) ==
  /\ head < MaxBlocks
  /\ blocks' = Append(blocks, events)
  /\ UNCHANGED <<store, shownBy, configured, chartVars, sessionVars, visits>>

(***************************************************************************)
(* The queries.                                                            *)
(***************************************************************************)

\* RATE_HISTORY_QUERY: orderBy blockTimestamp, orderDirection asc.
RateQuery == SubSeq(store.snapshots, 1, Min({RATE_QUERY_FIRST, Len(store.snapshots)}))

\* HARVESTS_QUERY: orderBy blockTimestamp, orderDirection desc.
HarvestQuery ==
  SubSeq(Reverse(store.harvests), 1, Min({HARVEST_QUERY_FIRST, Len(store.harvests)}))

\* One point for each timestamp, the last one; in order of time.
dedupeByTimestamp(rows) ==
  LET last == {i \in DOMAIN rows : \A j \in DOMAIN rows : rows[j].t = rows[i].t => j <= i}
      kept == {[t |-> rows[i].t, rate |-> rows[i].rate] : i \in last}
  IN CHOOSE s \in [1..Cardinality(kept) -> kept] :
       \A i, j \in DOMAIN s : i < j => s[i].t < s[j].t

\* What the page makes of the store's answer.
Query == IF shownBy = "rates" THEN dedupeByTimestamp(RateQuery) ELSE HarvestQuery

\* Mutant: the page asks once, when it opens.
LoadOnMount(i) ==
  /\ configured /\ loads[i] = NoLoad /\ chartStatus = "loading"
  /\ loads' = [loads EXCEPT ![i] = [step |-> "asked", rows |-> << >>]]
  /\ UNCHANGED <<indexVars, points, chartStatus, failures, sessionVars, visits>>

\* When the page opens, every minute and whenever its window gets the focus; an
\* earlier query may still be under way.
Load(i) ==
  /\ configured /\ loads[i] = NoLoad
  /\ loads' = [loads EXCEPT ![i] = [step |-> "asked", rows |-> << >>]]
  /\ UNCHANGED <<indexVars, points, chartStatus, failures, sessionVars, visits>>

ExecuteQuery(i) ==
  /\ loads[i].step = "asked"
  /\ loads' = [loads EXCEPT ![i] = [step |-> "answered", rows |-> Query]]
  /\ UNCHANGED <<indexVars, points, chartStatus, failures, sessionVars, visits>>

TakeAnswer(i) ==
  /\ loads[i].step = "answered"
  /\ points' = loads[i].rows /\ chartStatus' = "ready"
  /\ loads' = [loads EXCEPT ![i] = NoLoad]
  /\ UNCHANGED <<indexVars, failures, sessionVars, visits>>

\* subgraphQuery throws: no answer in time, an HTTP error, GraphQL errors, no data.
LoadFails(i) ==
  /\ loads[i] # NoLoad /\ failures < MaxFailures
  /\ failures' = failures + 1
  /\ chartStatus' = "error"
  /\ loads' = [loads EXCEPT ![i] = NoLoad]
  /\ UNCHANGED <<indexVars, points, sessionVars, visits>>

(***************************************************************************)
(* The session's samples.                                                  *)
(***************************************************************************)

\* rateStore.add: the rate with the time of now.  A repeat is skipped only when the
\* last sample is recent.
add(samples, rate) ==
  LET longer == Append(samples, [t |-> head, rate |-> rate])
  IN IF /\ samples # << >> /\ head - Last(samples).t < MIN_GAP
        /\ Last(samples).rate = rate
     THEN samples
     ELSE SubSeq(longer, Max({1, Len(longer) - MAX_POINTS + 1}), Len(longer))

\* Every few seconds useExchangeRate reads the rate, one read after the other; the
\* answer may come when the chain is further.  A rate that has changed is sampled
\* (the effect of useSessionRateHistory).
PollRate(b) ==
  /\ shownBy = "rates" /\ read <= b /\ b # polled
  /\ read' = b /\ polled' = b
  /\ sampled' = add(sampled, b)
  /\ UNCHANGED <<indexVars, chartVars, visits>>

\* The page is left and opened again.  Its queries are dropped (cancelled), and the
\* effect runs again: a rate still in the query cache is sampled at once.  After a
\* reload that cache is empty and the samples are those of the browser's storage,
\* if any.
Remount ==
  /\ visits < MaxVisits /\ visits' = visits + 1
  /\ loads' = [i \in Loads |-> NoLoad] /\ points' = << >>
  /\ chartStatus' = IF configured THEN "loading" ELSE "disabled"
  /\ \/ /\ sampled' = IF polled # 0 THEN add(sampled, polled) ELSE sampled
        /\ UNCHANGED polled
     \/ polled' = 0 /\ sampled' \in {sampled, << >>}
  /\ UNCHANGED <<indexVars, failures, read>>

historySource ==
  IF ~configured \/ (chartStatus = "error" /\ points = << >>) THEN "session" ELSE "subgraph"

ShownRates == IF historySource = "session" THEN sampled ELSE points

HistoryInit ==
  /\ blocks = << >> /\ store = EmptyStore
  /\ shownBy \in {"rates", "harvests"} /\ configured \in BOOLEAN
  /\ loads = [i \in Loads |-> NoLoad] /\ points = << >>
  /\ read = 0 /\ polled = 0 /\ sampled = << >>
  /\ failures = 0 /\ visits = 0
  /\ chartStatus = IF configured THEN "loading" ELSE "disabled"

HistoryNext ==
  \/ \E events \in BlockContents : MineBlock(events)
  \/ IndexBlock
  \/ \E i \in Loads : Load(i) \/ ExecuteQuery(i) \/ TakeAnswer(i) \/ LoadFails(i)
  \/ \E b \in 1..head : PollRate(b)
  \/ Remount

\* The indexer keeps up, the page's timer ticks, and a query that does not fail is
\* answered.
HistoryFairness ==
  /\ WF_historyVars(IndexBlock)
  /\ \A i \in Loads :
       WF_historyVars(Load(i)) /\ WF_historyVars(ExecuteQuery(i)) /\ WF_historyVars(TakeAnswer(i))

HistorySpec == HistoryInit /\ [][HistoryNext]_historyVars /\ HistoryFairness

(***************************************************************************)
(* Properties.                                                             *)
(***************************************************************************)

\* Which events the first blocks hold, and the rewards they compounded.
EventsUpTo(b) == UNION {{c} \X DOMAIN blocks[c] : c \in 1..b}
RewardOf(e) == IF e.name = "Harvested" THEN e.rewardClaimed ELSE 0
HarvestedUpTo(b) ==
  SumFunctionOnSet([k \in EventsUpTo(b) |-> RewardOf(blocks[k[1]][k[2]])], EventsUpTo(b))

DaysIndexed == {b \div BlocksPerDay : b \in {k \in 1..store.upto : blocks[k] # << >>}}
BlocksOfDay(d) == {b \in 1..store.upto : b \div BlocksPerDay = d /\ blocks[b] # << >>}

\* However far the index lags behind the chain and whatever order answers arrive
\* in, the chart drawn from the index is a stretch of history without gaps, each
\* rate being that of its own block; the chart drawn from the session's samples,
\* which dates a cached rate with the time of its sampling, shows no rate before it
\* was there and never runs backwards, across remounts and reloads; and each day's
\* row opens and closes with the rates of its first and last event and carries the
\* rewards compounded by its end.
ChartIsHistory ==
  /\ shownBy = "rates" =>
       \A i \in DOMAIN ShownRates :
         /\ ShownRates[i].rate <= ShownRates[i].t
         /\ i > 1 => /\ ShownRates[i - 1].t <= ShownRates[i].t
                     /\ ShownRates[i - 1].rate <= ShownRates[i].rate
  /\ shownBy = "rates" /\ historySource = "subgraph" =>
       /\ \A i \in DOMAIN points :
            /\ points[i].rate = points[i].t
            /\ i > 1 => points[i - 1].t < points[i].t
       /\ \A b \in 1..head :
            (blocks[b] # << >> /\ \E i \in DOMAIN points : points[i].t > b)
              => \E i \in DOMAIN points : points[i].t = b
  /\ DOMAIN store.days = DaysIndexed
  /\ \A d \in DaysIndexed :
       /\ store.days[d].rateOpen = Min(BlocksOfDay(d))
       /\ store.days[d].rateClose = Max(BlocksOfDay(d))
       /\ store.days[d].cumulative = HarvestedUpTo(Max(BlocksOfDay(d)))

NewestShown == points # << >> /\ Last(points).t = Last(store.snapshots).t

\* Once the chain is quiet the page comes to show the newest of it, although
\* overlapping queries may be answered late and out of order and the page be opened
\* again: the newest harvests, newest first; and the newest rate, as long as one
\* query can hold all the snapshots there are.
ChartCatchesUp ==
  configured => <>[](
    /\ store.upto = head
    /\ shownBy = "harvests" =>
         /\ Len(points) = Min({HARVEST_QUERY_FIRST, Len(store.harvests)})
         /\ \A i \in DOMAIN points :
              points[i] = store.harvests[Len(store.harvests) + 1 - i]
    /\ shownBy = "rates" /\ Len(store.snapshots) \in 1..RATE_QUERY_FIRST => NewestShown)
=============================================================================
