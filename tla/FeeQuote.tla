------------------------------ MODULE FeeQuote -------------------------------
(***************************************************************************)
(* How a fee comes about: the page asks for a quote while the user types   *)
(* (useFeeQuote), the backend takes an exchange rate (getZenEthQuote) and  *)
(* a gas price (resolveEffectiveGasPrice, deploy/gas-provider), each       *)
(* behind a cache with a lifetime, the user signs the quoted maximum, and  *)
(* on submission the backend computes the fee again (queueRelay).          *)
(*                                                                         *)
(* Requests overlap: each is a sequence of steps around its awaits, and    *)
(* time passes in between.  A reading of the market or of the node may be  *)
(* as old as the start of its fetch; `read` is that moment.                *)
(***************************************************************************)
EXTENDS FeeMath

CONSTANTS
  Amounts,          \* what the user may type, in units of ZEN the redemption gives
  Rates,            \* ZEN per ETH the market may be read at
  BaseFees,         \* base fees the node may be read at
  Priority,         \* the node's priority fee
  FallbackGas,      \* price of fallback.json, or eth_gasPrice's fallback
  QuoteTtl, GasTtl, \* QUOTE_TTL_SEC, CACHE_TTL_SECONDS
  FetchTime,        \* longest an outside call takes before it times out
  MaxTyped, MaxTime \* bounds: changes of the amount, and the clock

ASSUME QuoteAssumption ==
  /\ {QuoteTtl, GasTtl, FetchTime, MaxTyped, MaxTime, Priority, FallbackGas} \subseteq Nat
  /\ Amounts \subseteq Nat \ {0} /\ Rates \subseteq Nat \ {0} /\ BaseFees \subseteq Nat

Quotes == 1..MaxTyped        \* one GET per change of the amount
Submission == 0              \* the one POST of the signed message
Requests == Quotes \cup {Submission}

VARIABLES
  now,
  rateCache,        \* `cache` of quote.ts
  gasCache,         \* the provider's cache entry of the hub chain
  req,              \* requests being handled
  amount, typed,    \* the page: the amount typed (0: none), changes so far
  latest,           \* the request whose answer the page still wants, 0 if none
  shown, shownKey,  \* quote and fetchKey
  message           \* the signed message and what became of it

vars == <<now, rateCache, gasCache, req, amount, typed, latest, shown, shownKey, message>>

None == [none |-> TRUE]
Unused == [step |-> "none", amount |-> 0, since |-> 0, rate |-> 0, read |-> 0, gas |-> 0,
           lastGood |-> 0]

Init ==
  /\ now = 0 /\ rateCache = None /\ gasCache = None
  /\ req = [r \in Requests |-> Unused]
  /\ amount = 0 /\ typed = 0 /\ latest = 0 /\ shown = None /\ shownKey = 0
  /\ message = None

pageVars == <<amount, typed, latest, shown, shownKey, message>>

(***************************************************************************)
(* Exchange rate: getZenEthQuote.                                          *)
(***************************************************************************)

FreshRate == rateCache # None /\ rateCache.expires > now

\* A request arrives and looks at the cache, or starts a fetch.
AskRate(r, a) ==
  req' = [req EXCEPT ![r] =
    IF FreshRate
    THEN [Unused EXCEPT !.step = "gas", !.amount = a, !.since = now,
                        !.rate = rateCache.rate, !.read = rateCache.read]
    ELSE [Unused EXCEPT !.step = "rate", !.amount = a, !.since = now]]

TakeRate(r, rate, read) ==
  req' = [req EXCEPT ![r] = [@ EXCEPT !.step = "gas", !.since = now, !.rate = rate, !.read = read]]

\* Mutant: the lifetime starts when the fetch returns.
KeepRateFromAnswer(rate, read) ==
  rateCache' = [rate |-> rate, read |-> read, expires |-> now + QuoteTtl]
\* The lifetime starts when the fetch did, and a slow fetch overwrites what a later one brought.
KeepRate(rate, read) ==
  rateCache' = [rate |-> rate, read |-> read, expires |-> read + QuoteTtl]

RateRead(r) ==
  /\ req[r].step = "rate"
  /\ \E live \in Rates :
       /\ KeepRate(RateUsed(live), req[r].since)
       /\ TakeRate(r, RateUsed(live), req[r].since)
  /\ UNCHANGED <<now, gasCache, pageVars>>

\* The fetch fails: the configured rate, kept for as long, or quote_unavailable.
RateFails(r) ==
  /\ req[r].step = "rate"
  /\ IF FloorRate # 0
     THEN KeepRate(FloorRate, req[r].since) /\ TakeRate(r, FloorRate, req[r].since)
     ELSE /\ req' = [req EXCEPT ![r].step = "failed"]
          /\ UNCHANGED rateCache
  /\ UNCHANGED <<now, gasCache, pageVars>>

(***************************************************************************)
(* Gas price: estimate of the provider, called by resolveEffectiveGasPrice.*)
(***************************************************************************)

FreshGas == gasCache # None /\ now - gasCache.fetched < GasTtl

TakeGas(r, price) ==
  req' = [req EXCEPT ![r] = [@ EXCEPT !.step = "priced", !.since = now,
                                         !.gas = EffectiveGasPrice(price), !.lastGood = 0]]

\* Mutant: last-good answers are put back into the cache.
KeepLastGood(r) ==
  gasCache' = IF req[r].lastGood = 0 THEN gasCache ELSE [gasCache EXCEPT !.fetched = now]
\* A last-good answer leaves the cache as it is, so that the next request tries again.
LeaveCache(r) == UNCHANGED gasCache

\* The entry is read under the lock, the fetch runs outside it.
AskGas(r) ==
  /\ req[r].step = "gas"
  /\ IF FreshGas THEN TakeGas(r, gasCache.price)
     ELSE req' = [req EXCEPT ![r] =
            [@ EXCEPT !.step = "fetch", !.since = now,
                      !.lastGood = IF gasCache = None THEN 0 ELSE gasCache.price]]
  /\ UNCHANGED <<now, rateCache, gasCache, pageVars>>

\* The entry is stamped when the fetch returns.
KeepGas(price, read) ==
  gasCache' = [price |-> price, read |-> read, fetched |-> now]

GasRead(r) ==
  /\ req[r].step = "fetch"
  /\ \E base \in BaseFees :
       /\ KeepGas(FastMaxFee(base, Priority), req[r].since)
       /\ TakeGas(r, FastMaxFee(base, Priority))
  /\ UNCHANGED <<now, rateCache, pageVars>>

\* The node or the provider fails: the last good entry of any age, or a fallback.
GasFails(r) ==
  /\ req[r].step = "fetch"
  /\ \E price \in {req[r].lastGood, FallbackGas} \ {0} : TakeGas(r, price)
  /\ LeaveCache(r)
  /\ UNCHANGED <<now, rateCache, pageVars>>

(***************************************************************************)
(* The page: useFeeQuote and the start of redeemGasless.                   *)
(***************************************************************************)

CostOf(r) == RelayedCost(req[r].gas, req[r].rate)

\* The amount changes: the effect's cleanup cancels timer and answer of the last one.
TypeAmount(a) ==
  /\ typed < MaxTyped /\ a # amount
  /\ amount' = a /\ typed' = typed + 1 /\ latest' = 0
  /\ UNCHANGED <<now, rateCache, gasCache, req, shown, shownKey, message>>

\* The debounce timer of the last change fires.
SendQuote ==
  /\ amount # 0 /\ req[typed].step = "none"
  /\ latest' = typed
  /\ AskRate(typed, amount)
  /\ UNCHANGED <<now, rateCache, gasCache, amount, typed, shown, shownKey, message>>

\* What the route answers once rate and gas price are known.
QuoteFor(r) ==
  [max |-> MaxFeeZen(FeeZen(CostOf(r), req[r].amount), req[r].amount),
   cost |-> CostOf(r), amount |-> req[r].amount, read |-> req[r].read,
   expires |-> req[r].since + QuoteTtl]

\* Mutant: an answer counts whether or not its effect was cancelled.
WantedAlways(r) == TRUE
\* The effect that asked has not been cleaned up.
Wanted(r) == r = latest

\* The key captured by the effect that asked.
KeyOf(r) == req[r].amount

Answered(r) == req[r].step \in {"failed", "priced"}

\* Mutant: any answer is taken for the amount that is typed by now.
TakeQuoteForNow(r) ==
  /\ r \in Quotes /\ Answered(r)
  /\ req' = [req EXCEPT ![r] = [Unused EXCEPT !.step = "over"]]
  /\ shown' = IF req[r].step = "priced" /\ CostCode(CostOf(r), req[r].amount) = "ok"
              THEN QuoteFor(r) ELSE None
  /\ shownKey' = amount
  /\ UNCHANGED <<now, rateCache, gasCache, amount, typed, latest, message>>

\* setQuote (or setError) and setFetchKey.
TakeQuote(r) ==
  /\ r \in Quotes /\ Answered(r)
  /\ req' = [req EXCEPT ![r] = [Unused EXCEPT !.step = "over"]]
  /\ IF Wanted(r)
     THEN /\ shown' = IF req[r].step = "priced" /\ CostCode(CostOf(r), req[r].amount) = "ok"
                      THEN QuoteFor(r) ELSE None
          /\ shownKey' = KeyOf(r)
     ELSE UNCHANGED <<shown, shownKey>>
  /\ UNCHANGED <<now, rateCache, gasCache, amount, typed, latest, message>>

Active == amount # 0 /\ shownKey = amount
Ready == Active /\ shown # None

\* isQuoteExpired refuses before the wallet is asked; signing may take any time.
SignQuote ==
  /\ message = None /\ Ready /\ now < shown.expires
  /\ message' = [amount |-> amount, max |-> shown.max, cost |-> shown.cost, fate |-> "signed"]
  /\ UNCHANGED <<now, rateCache, gasCache, req, amount, typed, latest, shown, shownKey>>

(***************************************************************************)
(* Submission: queueRelay up to the job.                                   *)
(***************************************************************************)

Submit ==
  /\ message # None /\ message.fate = "signed" /\ req[Submission].step = "none"
  /\ AskRate(Submission, message.amount)
  /\ UNCHANGED <<now, rateCache, gasCache, pageVars>>

\* assertSignedMaxCoversFee.
Covered(r) == FeeZen(CostOf(r), req[r].amount) <= message.max

\* computeRelayCost and assertSignedMaxCoversFee decide.
Decide ==
  LET r == Submission
      code == CostCode(CostOf(r), req[r].amount)
  IN  /\ Answered(r)
      /\ req' = [req EXCEPT ![r] = [@ EXCEPT !.step = "over", !.since = 0, !.read = 0]]
      /\ message' = [message EXCEPT !.fate =
           IF req[r].step = "failed" THEN "quote_unavailable"
           ELSE IF code # "ok" THEN code
           ELSE IF ~Covered(r) THEN "fee_quote_stale" ELSE "relayed"]
      /\ UNCHANGED <<now, rateCache, gasCache, amount, typed, latest, shown, shownKey>>

\* Outside calls time out; the gas provider runs beside the backend, and is asked at once.
Tick ==
  /\ now < MaxTime
  /\ \A r \in Requests : req[r].step # "gas"
  /\ \A r \in Requests : req[r].step \in {"rate", "fetch"} => now - req[r].since < FetchTime
  /\ now' = now + 1
  /\ UNCHANGED <<rateCache, gasCache, req, pageVars>>

Serve(r) == RateRead(r) \/ RateFails(r) \/ AskGas(r) \/ GasRead(r) \/ GasFails(r) \/ TakeQuote(r)

Next ==
  \/ \E a \in Amounts \cup {0} : TypeAmount(a)
  \/ SendQuote \/ SignQuote \/ Submit \/ Decide \/ Tick
  \/ \E r \in Requests : Serve(r)

\* Timers fire, outside calls end, and the server and the page handle their events.
QuoteFairness == WF_vars(SendQuote) /\ \A r \in Requests : WF_vars(Serve(r))

Spec == Init /\ [][Next]_vars /\ QuoteFairness

(***************************************************************************)
(* Properties.                                                             *)
(***************************************************************************)

StepName == {"none", "rate", "gas", "fetch", "priced", "failed", "over"}

QuoteTypeOK ==
  /\ now \in Nat /\ amount \in Amounts \cup {0} /\ shownKey \in Amounts \cup {0}
  /\ typed \in 0..MaxTyped /\ latest \in 0..MaxTyped
  /\ rateCache = None \/ rateCache \in [rate : Nat, read : Nat, expires : Nat]
  /\ gasCache = None \/ gasCache \in [price : Nat, read : Nat, fetched : Nat]
  /\ req \in [Requests -> [step : StepName, amount : Amounts \cup {0}, since : Nat, rate : Nat,
                          read : Nat, gas : Nat, lastGood : Nat]]
  /\ shown = None \/ shown \in [max : Nat, cost : Nat, amount : Amounts, read : Nat,
                              expires : Nat]

\* Hazard: rate cached while its fetch was slow, quote stamped with a lifetime of its own after
\* another call.  A quote the page still lets the user sign rests on a rate read within its own
\* lifetime, that of the cache (or the fetch, if longer) and one call, counted in whole ticks.
UsableQuoteAge ==
  shown # None /\ now < shown.expires =>
    now - shown.read <= MaxOf(QuoteTtl - 1, FetchTime) + FetchTime + QuoteTtl - 1

\* Hazard: several fetches of the provider overlap and one that failed serves an older answer.
\* A price served as a cache hit was read at most one lifetime and one call ago.
GasHitFresh == FreshGas => now - gasCache.read < GasTtl + FetchTime

\* Hazard: an answer to what was typed before.  The quote on the page is for the amount on it.
ReadyQuoteIsCurrent == Ready => shown.amount = amount

\* Hazard: the fee is computed twice, from different readings and with rounding in between.  With
\* no margin configured, a signed quote is refused for its price only when the cost rose by more
\* than the buffer, unless a cap had cut the buffer short.
RefusedForPrice == {"fee_quote_stale", "fee_hits_cap", "amount_too_small"}
RefusedOnlyOnRise ==
  MarginBps = 0 /\ message # None /\ message.fate \in RefusedForPrice =>
    \/ CostOf(Submission) * Bps > message.cost * (Bps + BufferBps)
    \/ message.max \in {MaxGasFee, BasisCap(message.amount)}

\* Hazard: answers in another order than their questions.  An amount that stays on the page gets
\* its quote, or an error, whatever is answered late.
QuoteArrives == \A a \in Amounts : amount = a ~> amount # a \/ Active
=============================================================================
