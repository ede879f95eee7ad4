--------------------------- MODULE FeeQuoteProofs ---------------------------
(***************************************************************************)
(* Proofs about FeeQuote: the age of what a quote rests on, the quote that *)
(* belongs to the amount on the page, and when a signed quote may be       *)
(* refused, for all rates, prices, lifetimes and fee parameters.           *)
(***************************************************************************)
EXTENDS FeeQuote, ArithmeticLemmas

(***************************************************************************)
(* Arithmetic of the fee.                                                  *)
(***************************************************************************)

\* ceilDiv is the least quotient that covers its dividend.
LEMMA CeilDivLeast ==
  ASSUME NEW a \in Nat, NEW b \in Nat \ {0}
  PROVE  /\ CeilDiv(a, b) \in Nat
         /\ a <= CeilDiv(a, b) * b
         /\ \A k \in Nat : a <= k * b => CeilDiv(a, b) <= k
<1>1. CASE a = 0
  <2>1. CeilDiv(a, b) = 0
    BY <1>1 DEF CeilDiv
  <2>2. QED
    BY <1>1, <2>1
<1>2. CASE a # 0
  <2> DEFINE n == a + b - 1
             q == n \div b
  <2>1. n \in Nat /\ q \in Nat
    BY DivNat
  <2>2. q * b <= n /\ n < q * b + b
    BY <2>1, DivBounds
  <2>3. CeilDiv(a, b) = q
    BY <1>2 DEF CeilDiv
  <2>4. a <= q * b
    <3> DEFINE p == q * b
    <3>1. p \in Nat
      BY <2>1, MulNat
    <3>2. n < p + b
      BY <2>2
    <3> HIDE DEF p, q
    <3>3. a <= p
      BY <3>1, <3>2
    <3>4. QED
      BY <3>3 DEF p
  <2>5. ASSUME NEW k \in Nat, a <= k * b PROVE q <= k
    <3>1. SUFFICES ASSUME k + 1 <= q PROVE FALSE
      BY <2>1
    <3>2. b * (k + 1) <= b * q
      BY <2>1, <3>1, MulMonotone
    <3>3. k * b + b <= q * b
      BY <2>1, <3>2
    <3>4. QED
      BY <2>1, <2>2, <2>5, <3>3
  <2>6. QED
    BY <2>1, <2>3, <2>4, <2>5
<1>3. QED
  BY <1>1, <1>2

LEMMA CeilDivMonotone ==
  ASSUME NEW a \in Nat, NEW c \in Nat, a <= c, NEW b \in Nat \ {0}
  PROVE  CeilDiv(a, b) <= CeilDiv(c, b)
<1>1. CeilDiv(c, b) \in Nat /\ c <= CeilDiv(c, b) * b
  BY CeilDivLeast
<1>2. a <= CeilDiv(c, b) * b
  <2> DEFINE p == CeilDiv(c, b) * b
  <2>1. p \in Nat
    BY <1>1, MulNat
  <2>2. QED
    BY <1>1, <2>1
<1>3. QED
  BY <1>1, <1>2, CeilDivLeast

\* A factor that is divided away again changes nothing.
LEMMA CeilDivExact ==
  ASSUME NEW n \in Nat, NEW b \in Nat \ {0}
  PROVE  CeilDiv(n * b, b) = n
<1> DEFINE m == n * b
<1>1. m \in Nat
  BY MulNat
<1>2. CeilDiv(m, b) \in Nat /\ CeilDiv(m, b) <= n /\ n * b <= CeilDiv(m, b) * b
  BY <1>1, CeilDivLeast
<1>3. n <= CeilDiv(m, b)
  <2> DEFINE q == CeilDiv(m, b)
  <2>1. SUFFICES ASSUME q + 1 <= n PROVE FALSE
    BY <1>2
  <2>2. b * (q + 1) <= b * n
    BY <1>2, <2>1, MulMonotone
  <2> HIDE DEF q
  <2>3. q \in Nat /\ n * b <= q * b
    BY <1>2 DEF q
  <2>4. QED
    BY <2>2, <2>3
<1>4. QED
  BY <1>2, <1>3

LEMMA BufferedFeeType ==
  ASSUME NEW fee \in Nat
  PROVE  BufferedFee(fee) \in Nat /\ fee <= BufferedFee(fee)
<1>1. Bps \in Nat \ {0} /\ BufferBps \in Nat
  BY FeeAssumption
<1>2. fee * Bps \in Nat /\ fee * (Bps + BufferBps) \in Nat
  BY <1>1, MulNat
<1>3. Bps * fee <= (Bps + BufferBps) * fee
  <2>1. fee * Bps <= fee * (Bps + BufferBps)
    BY <1>1, MulMonotone
  <2>2. QED
    BY <1>1, <2>1
<1>4. CeilDiv(fee * Bps, Bps) = fee
  BY <1>1, CeilDivExact
<1>5. fee * Bps <= fee * (Bps + BufferBps)
  BY <1>1, MulMonotone
<1>6. CeilDiv(fee * Bps, Bps) <= CeilDiv(fee * (Bps + BufferBps), Bps)
  BY <1>1, <1>2, <1>5, CeilDivMonotone
<1>7. QED
  BY <1>1, <1>2, <1>4, <1>6, CeilDivLeast DEF BufferedFee

LEMMA FeeTypes ==
  ASSUME NEW cost \in Nat, NEW basis \in Nat
  PROVE  /\ FeeOfCost(cost) \in Nat /\ FeeZen(cost, basis) \in Nat
         /\ FeeOfCost(cost) <= FeeZen(cost, basis)
         /\ BasisCap(basis) \in Nat
         /\ MaxFeeZen(FeeZen(cost, basis), basis) \in Nat
<1>1. /\ {OneEth, Bps} \subseteq Nat \ {0}
      /\ {MaxGasFee, BufferBps, MarginBps, ProfitBps} \subseteq Nat
  BY FeeAssumption
<1>2. CeilDiv(cost, OneEth) \in Nat
  BY <1>1, CeilDivLeast
<1>3. CeilDiv(cost, OneEth) * (Bps + MarginBps) \in Nat
  BY <1>1, <1>2, MulNat
<1>4. FeeOfCost(cost) \in Nat
  BY <1>1, <1>3, CeilDivLeast DEF FeeOfCost
<1>5. BasisCap(basis) \in Nat
  BY DEF BasisCap, MaxOf
<1>6. (basis * ProfitBps) \div Bps \in Nat
  BY <1>1, MulNat, DivNat
<1>7. FeeZen(cost, basis) \in Nat /\ FeeOfCost(cost) <= FeeZen(cost, basis)
  BY <1>1, <1>4, <1>5, <1>6 DEF FeeZen, MaxOf, MinOf
<1>8. BufferedFee(FeeZen(cost, basis)) \in Nat
  BY <1>7, BufferedFeeType
<1>9. MaxFeeZen(FeeZen(cost, basis), basis) \in Nat
  BY <1>1, <1>5, <1>8 DEF MaxFeeZen, MinOf
<1>10. QED
  BY <1>4, <1>5, <1>7, <1>9

\* The last refusal of computeCostFromInputs ("buffer truncation under hard cap") is never the
\* reason: a fee below the caps is below its own maximum, whatever the buffer.
LEMMA FeeBelowItsMax ==
  ASSUME NEW fee \in Nat, NEW basis \in Nat, fee <= MaxGasFee, fee <= BasisCap(basis)
  PROVE  fee <= MaxFeeZen(fee, basis)
BY FeeAssumption, BufferedFeeType DEF MaxFeeZen, MinOf, BasisCap, MaxOf

\* The buffer covers a rise of the cost by its own share, rounding included.
LEMMA BufferCoversCost ==
  ASSUME MarginBps = 0, NEW c \in Nat, NEW d \in Nat, d * Bps <= c * (Bps + BufferBps)
  PROVE  FeeOfCost(d) <= BufferedFee(FeeOfCost(c))
<1>1. OneEth \in Nat \ {0} /\ Bps \in Nat \ {0} /\ BufferBps \in Nat
  BY FeeAssumption
<1> DEFINE f == CeilDiv(c, OneEth)
           w == Bps + BufferBps
           g == CeilDiv(f * w, Bps)
<1>2. f \in Nat /\ c <= f * OneEth
  BY <1>1, CeilDivLeast
<1>3. w \in Nat /\ f * w \in Nat
  BY <1>1, <1>2, MulNat
<1>4. g \in Nat /\ f * w <= g * Bps
  BY <1>1, <1>3, CeilDivLeast
<1>5. ASSUME NEW n \in Nat PROVE FeeOfCost(n) = CeilDiv(n, OneEth)
  <2>1. CeilDiv(n, OneEth) \in Nat
    BY <1>1, CeilDivLeast
  <2>2. Bps + MarginBps = Bps
    BY <1>1
  <2>3. QED
    BY <1>1, <2>1, <2>2, CeilDivExact DEF FeeOfCost
<1>6. d <= g * OneEth
  <2> HIDE DEF f, g, w
  <2>1. c * w \in Nat /\ d * Bps \in Nat /\ f * OneEth \in Nat /\ g * OneEth \in Nat /\ g * Bps \in Nat
    BY <1>1, <1>2, <1>3, <1>4, MulNat
  <2>2. w * c <= w * (f * OneEth)
    BY <1>2, <1>3, <2>1, MulMonotone
  <2>3. OneEth * (f * w) <= OneEth * (g * Bps)
    BY <1>1, <1>3, <1>4, <2>1, MulMonotone
  <2>4. w * (f * OneEth) = OneEth * (f * w)
    BY <1>1, <1>2, <1>3
  <2>5. OneEth * (g * Bps) = Bps * (g * OneEth)
    BY <1>1, <1>4
  <2>6. d * Bps <= c * w
    BY DEF w
  <2>7. c * w = w * c /\ d * Bps = Bps * d
    BY <1>1, <1>3
  <2>8. Bps * d <= Bps * (g * OneEth)
    BY <2>1, <2>2, <2>3, <2>4, <2>5, <2>6, <2>7, <1>1, <1>2, <1>3, <1>4
  <2> DEFINE e == g * OneEth
  <2>9. SUFFICES ASSUME e + 1 <= d PROVE FALSE
    BY <2>1
  <2>10. e \in Nat
    BY <2>1
  <2> HIDE DEF e
  <2>11. Bps * (e + 1) <= Bps * d
    BY <1>1, <2>9, <2>10, MulMonotone
  <2>12. Bps * (e + 1) = Bps * e + Bps
    BY <1>1, <2>10
  <2>13. Bps * d <= Bps * e
    BY <2>8 DEF e
  <2>14. Bps * e \in Nat /\ Bps * d \in Nat
    BY <1>1, <2>10, MulNat
  <2>15. QED
    BY <1>1, <2>11, <2>12, <2>13, <2>14
<1>7. CeilDiv(d, OneEth) <= g
  BY <1>1, <1>4, <1>6, CeilDivLeast
<1>8. QED
  BY <1>5, <1>7 DEF BufferedFee

\* A quote whose maximum no cap has cut is accepted again at any cost within the buffer.
LEMMA QuoteCovers ==
  ASSUME MarginBps = 0, NEW c \in Nat, NEW d \in Nat, NEW basis \in Nat \ {0},
         d * Bps <= c * (Bps + BufferBps),
         MaxFeeZen(FeeZen(c, basis), basis) \notin {MaxGasFee, BasisCap(basis)}
  PROVE  /\ CostCode(d, basis) = "ok"
         /\ FeeZen(d, basis) <= MaxFeeZen(FeeZen(c, basis), basis)
<1> DEFINE fee == FeeZen(c, basis)
           max == MaxFeeZen(fee, basis)
           low == MinOf((basis * ProfitBps) \div Bps, MinOf(MaxGasFee, BasisCap(basis)))
<1>1. MaxGasFee \in Nat /\ Bps \in Nat \ {0} /\ ProfitBps \in Nat /\ BufferBps \in Nat
  BY FeeAssumption
<1>2. /\ FeeOfCost(c) \in Nat /\ FeeOfCost(d) \in Nat /\ fee \in Nat
      /\ FeeZen(d, basis) \in Nat /\ BasisCap(basis) \in Nat
      /\ FeeOfCost(c) <= fee /\ FeeOfCost(d) <= FeeZen(d, basis)
  BY FeeTypes
<1>3. (basis * ProfitBps) \div Bps \in Nat
  BY <1>1, MulNat, DivNat
<1>4. low \in Nat /\ low <= fee
  <2>1. low \in Nat
    BY <1>1, <1>2, <1>3 DEF MinOf
  <2>2. fee = MaxOf(FeeOfCost(c), low)
    BY DEF FeeZen
  <2> HIDE DEF low, fee
  <2>3. QED
    BY <1>2, <2>1, <2>2 DEF MaxOf
<1>5. BufferedFee(fee) \in Nat /\ fee <= BufferedFee(fee)
  BY <1>2, BufferedFeeType
<1>6. max = BufferedFee(fee) /\ max < MaxGasFee /\ max < BasisCap(basis)
  <2> HIDE DEF fee
  <2>1. max = MinOf(BufferedFee(fee), MinOf(MaxGasFee, BasisCap(basis)))
    BY DEF MaxFeeZen
  <2>2. max \notin {MaxGasFee, BasisCap(basis)}
    BY DEF fee
  <2> HIDE DEF max
  <2>3. QED
    BY <1>1, <1>2, <1>5, <2>1, <2>2 DEF MinOf
<1>7. BufferedFee(FeeOfCost(c)) <= BufferedFee(fee)
  <2>1. FeeOfCost(c) * (Bps + BufferBps) <= fee * (Bps + BufferBps)
    <3>1. (Bps + BufferBps) * FeeOfCost(c) <= (Bps + BufferBps) * fee
      BY <1>1, <1>2, MulMonotone
    <3> HIDE DEF fee
    <3>2. QED
      BY <1>1, <1>2, <3>1
  <2>2. FeeOfCost(c) * (Bps + BufferBps) \in Nat /\ fee * (Bps + BufferBps) \in Nat
    BY <1>1, <1>2, MulNat
  <2>3. QED
    BY <1>1, <2>1, <2>2, CeilDivMonotone DEF BufferedFee
<1>8. FeeOfCost(d) <= max
  <2>1. FeeOfCost(d) <= BufferedFee(FeeOfCost(c))
    BY BufferCoversCost
  <2>2. BufferedFee(FeeOfCost(c)) \in Nat
    BY <1>2, BufferedFeeType
  <2> HIDE DEF fee, max
  <2>3. QED
    BY <1>2, <1>5, <1>6, <1>7, <2>1, <2>2
<1>9. FeeZen(d, basis) <= max
  <2>1. FeeZen(d, basis) = MaxOf(FeeOfCost(d), low)
    BY DEF FeeZen
  <2> HIDE DEF fee, max, low
  <2>2. QED
    BY <1>2, <1>4, <1>5, <1>6, <1>8, <2>1 DEF MaxOf
<1>10. FeeZen(d, basis) <= MaxGasFee /\ FeeZen(d, basis) <= BasisCap(basis)
  <2> HIDE DEF fee, max
  <2>1. QED
    BY <1>1, <1>2, <1>5, <1>6, <1>9
<1>11. FeeZen(d, basis) <= MaxFeeZen(FeeZen(d, basis), basis)
  BY <1>2, <1>10, FeeBelowItsMax
<1>12. MaxFeeZen(FeeZen(d, basis), basis) \in Nat
  BY FeeTypes
<1>13. FeeZen(d, basis) < basis
  BY <1>2, <1>10 DEF BasisCap, MaxOf
<1>14. CostCode(d, basis) = "ok"
  <2>1. ~(FeeOfCost(d) > MaxGasFee)
    BY <1>1, <1>2, <1>10
  <2>2. ~(basis <= 0 \/ FeeZen(d, basis) >= basis)
    BY <1>2, <1>13
  <2>3. ~(FeeZen(d, basis) > MaxFeeZen(FeeZen(d, basis), basis))
    BY <1>2, <1>11, <1>12
  <2>4. QED
    BY <2>1, <2>2, <2>3 DEF CostCode
<1>15. QED
  BY <1>9, <1>14

(***************************************************************************)
(* The inductive invariant.                                                *)
(***************************************************************************)

\* How old the rate of a request may be when the gas price is asked for.
RateAge == MaxOf(QuoteTtl - 1, FetchTime)

RequestSet == [step : StepName, amount : Amounts \cup {0}, since : Nat, rate : Nat,
               read : Nat, gas : Nat, lastGood : Nat]

\* Every request moves on within FetchTime of its last step, and knows how old its rate is.
RequestOK(q, t) ==
  /\ q \in RequestSet
  /\ q.since <= t
  /\ q.step = "rate" => t - q.since <= FetchTime
  /\ q.step = "gas" => q.since = t /\ t - q.read <= RateAge
  /\ q.step = "fetch" => t - q.since <= FetchTime /\ q.since - q.read <= RateAge
  /\ q.step = "priced" => q.since - q.read <= RateAge + FetchTime
  /\ q.step \in {"rate", "gas", "fetch", "priced", "failed"} => q.amount # 0

RequestsOK ==
  /\ req \in [Requests -> RequestSet]
  /\ \A r \in Requests : RequestOK(req[r], now)

CachesOK ==
  /\ now \in Nat
  /\ rateCache # None =>
       /\ rateCache \in [rate : Nat, read : Nat, expires : Nat]
       /\ rateCache.read <= now /\ rateCache.expires = rateCache.read + QuoteTtl
  /\ gasCache # None =>
       /\ gasCache \in [price : Nat, read : Nat, fetched : Nat]
       /\ gasCache.fetched <= now /\ gasCache.fetched - gasCache.read <= FetchTime

PageOK ==
  /\ amount \in Amounts \cup {0} /\ shownKey \in Amounts \cup {0}
  /\ typed \in 0..MaxTyped /\ latest \in 0..MaxTyped
  /\ amount # 0 => typed # 0

\* The maximum is the one computeCostFromInputs gives for the cost.
FairMax(q) ==
  /\ CostCode(q.cost, q.amount) = "ok"
  /\ q.max = MaxFeeZen(FeeZen(q.cost, q.amount), q.amount)

QuoteSet == [max : Nat, cost : Nat, amount : Amounts, read : Nat, expires : Nat]

ShownOK ==
  shown # None =>
    /\ shown \in QuoteSet /\ shown.amount = shownKey /\ FairMax(shown)
    /\ shown.expires - shown.read <= RateAge + FetchTime + QuoteTtl

Fates == {"signed", "quote_unavailable", "fee_hits_cap", "amount_too_small", "fee_quote_stale",
          "relayed"}

MessageOK ==
  message # None =>
    message \in [amount : Amounts, max : Nat, cost : Nat, fate : Fates] /\ FairMax(message)

\* The submission works on the message's amount, and its request keeps what it was decided on.
SubmissionOK ==
  /\ req[Submission].step # "none" => message # None /\ req[Submission].amount = message.amount
  /\ message # None /\ message.fate # "signed" => req[Submission].step = "over"
  /\ message # None /\ message.fate \in RefusedForPrice =>
       CostCode(CostOf(Submission), message.amount) # "ok" \/ ~Covered(Submission)

QuoteInv == RequestsOK /\ CachesOK /\ PageOK /\ ShownOK /\ MessageOK /\ SubmissionOK

LEMMA Natural ==
  /\ {QuoteTtl, GasTtl, FetchTime, MaxTyped, MaxTime, Priority, FallbackGas} \subseteq Nat
  /\ RateAge \in Nat /\ QuoteTtl - 1 <= RateAge /\ FetchTime <= RateAge
BY QuoteAssumption DEF RateAge, MaxOf

\* The gas price a request takes is a natural number, whatever was read.
LEMMA GasTypes ==
  /\ \A price \in Nat : EffectiveGasPrice(price) \in Nat
  /\ \A rate \in Nat : RateUsed(rate) \in Nat
  /\ \A base \in BaseFees : FastMaxFee(base, Priority) \in Nat
<1>1. \A a, b \in Nat : MinOf(a, b) \in Nat /\ MaxOf(a, b) \in Nat
  BY DEF MinOf, MaxOf
<1>2. /\ GasCeil \in Nat /\ FloorRate \in Nat /\ FloorPriority \in Nat /\ CeilPriority \in Nat
      /\ Priority \in Nat /\ BaseFees \subseteq Nat
  BY FeeAssumption, QuoteAssumption
<1>3. \A a, b, c \in Nat : Clamp(a, b, c) \in Nat
  BY <1>1 DEF Clamp
<1>4. \A n \in Nat : OneAndAHalf(n) \in Nat
  <2>1. \A n \in Nat : (3 * n) \div 2 \in Nat
    OBVIOUS
  <2>2. QED
    BY <2>1 DEF OneAndAHalf
<1>5. ASSUME NEW base \in BaseFees PROVE FastMaxFee(base, Priority) \in Nat
  <2> DEFINE low == Clamp(Priority, FloorPriority, CeilPriority)
             prio == Clamp(2 * low, FloorPriority, CeilPriority)
  <2>1. low \in Nat
    BY <1>2, <1>3
  <2>2. 2 * low \in Nat
    BY <2>1
  <2>3. prio \in Nat
    BY <1>2, <1>3, <2>2
  <2>4. base \in Nat /\ OneAndAHalf(base) \in Nat
    BY <1>2, <1>4
  <2>5. FastMaxFee(base, Priority) =
          MaxOf(MinOf(OneAndAHalf(base) + prio, GasCeil), base + prio)
    BY DEF FastMaxFee
  <2> HIDE DEF prio
  <2>6. OneAndAHalf(base) + prio \in Nat /\ base + prio \in Nat
    BY <2>3, <2>4
  <2>7. MinOf(OneAndAHalf(base) + prio, GasCeil) \in Nat
    BY <1>1, <1>2, <2>6
  <2>8. QED
    BY <1>1, <2>5, <2>6, <2>7
<1>6. QED
  BY <1>1, <1>2, <1>5 DEF EffectiveGasPrice, RateUsed

LEMMA CostType ==
  ASSUME NEW r, req[r] \in RequestSet
  PROVE  CostOf(r) \in Nat
<1>1. GasLimit \in Nat /\ req[r].gas \in Nat /\ req[r].rate \in Nat
  BY FeeAssumption DEF RequestSet
<1>2. GasLimit * req[r].gas \in Nat
  BY <1>1, MulNat
<1>3. QED
  BY <1>1, <1>2, MulNat DEF CostOf, RelayedCost

LEMMA RequestUpdate ==
  ASSUME RequestsOK, NEW r \in Requests, NEW q, RequestOK(q, now),
         req' = [req EXCEPT ![r] = q], now' = now
  PROVE  RequestsOK'
<1>1. q \in RequestSet
  BY DEF RequestOK
<1>2. req' \in [Requests -> RequestSet]
  BY <1>1 DEF RequestsOK
<1>3. ASSUME NEW k \in Requests PROVE RequestOK(req'[k], now)
  <2>1. CASE k = r
    BY <2>1 DEF RequestsOK
  <2>2. CASE k # r
    BY <2>2 DEF RequestsOK
  <2>3. QED
    BY <2>1, <2>2
<1>4. QED
  BY <1>2, <1>3 DEF RequestsOK, RequestOK

\* Where an asked request starts from.
LEMMA AskRateOK ==
  ASSUME RequestsOK, CachesOK, NEW r \in Requests, NEW a \in Amounts, AskRate(r, a), now' = now
  PROVE  /\ RequestsOK'
         /\ req'[r].amount = a /\ req'[r].step \in {"rate", "gas"}
         /\ \A k \in Requests \ {r} : req'[k] = req[k]
<1> DEFINE q == IF FreshRate
                THEN [Unused EXCEPT !.step = "gas", !.amount = a, !.since = now,
                                    !.rate = rateCache.rate, !.read = rateCache.read]
                ELSE [Unused EXCEPT !.step = "rate", !.amount = a, !.since = now]
<1>1. req' = [req EXCEPT ![r] = q]
  BY DEF AskRate
<1>2. a # 0 /\ a \in Amounts \cup {0}
  BY QuoteAssumption
<1>3. RequestOK(q, now) /\ q.amount = a /\ q.step \in {"rate", "gas"}
  <2>1. CASE FreshRate
    <3>1. rateCache.rate \in Nat /\ rateCache.read \in Nat /\ now \in Nat
          /\ rateCache.read <= now /\ now < rateCache.read + QuoteTtl
      BY <2>1, QuoteAssumption DEF CachesOK, FreshRate
    <3>2. q = [step |-> "gas", amount |-> a, since |-> now, rate |-> rateCache.rate,
               read |-> rateCache.read, gas |-> 0, lastGood |-> 0]
      BY <2>1 DEF Unused
    <3>3. now - rateCache.read <= RateAge
      BY <3>1, Natural
    <3> HIDE DEF q
    <3>4. QED
      BY <1>2, <3>1, <3>2, <3>3, Natural DEF RequestOK, RequestSet, StepName
  <2>2. CASE ~FreshRate
    <3>1. q = [step |-> "rate", amount |-> a, since |-> now, rate |-> 0,
               read |-> 0, gas |-> 0, lastGood |-> 0]
      BY <2>2 DEF Unused
    <3>2. now \in Nat
      BY DEF CachesOK
    <3> HIDE DEF q
    <3>3. QED
      BY <1>2, <3>1, <3>2, Natural DEF RequestOK, RequestSet, StepName
  <2>3. QED
    BY <2>1, <2>2
<1>4. RequestsOK'
  <2> HIDE DEF q
  <2>1. QED
    BY <1>1, <1>3, RequestUpdate
<1>5. req'[r] = q /\ \A k \in Requests \ {r} : req'[k] = req[k]
  <2> HIDE DEF q
  <2>1. QED
    BY <1>1 DEF RequestsOK
<1>6. QED
  BY <1>3, <1>4, <1>5

LEMMA QuoteInit == Init => QuoteInv
<1> SUFFICES ASSUME Init PROVE QuoteInv
  OBVIOUS
<1> USE DEF Init
<1>1. Unused \in RequestSet /\ RequestOK(Unused, 0)
  BY DEF Unused, RequestSet, RequestOK, StepName
<1>2. RequestsOK
  BY <1>1 DEF RequestsOK
<1>3. CachesOK /\ PageOK /\ ShownOK /\ MessageOK
  BY Natural DEF CachesOK, PageOK, ShownOK, MessageOK
<1>4. SubmissionOK
  <2>1. Submission \in Requests
    BY DEF Requests
  <2>2. req[Submission].step = "none"
    BY <2>1 DEF Unused
  <2>3. QED
    BY <2>2 DEF SubmissionOK
<1>5. QED
  BY <1>2, <1>3, <1>4 DEF QuoteInv

LEMMA PageFrame ==
  ASSUME PageOK, ShownOK, MessageOK, UNCHANGED pageVars
  PROVE  PageOK' /\ ShownOK' /\ MessageOK'
BY DEF PageOK, ShownOK, MessageOK, FairMax, pageVars

\* A request under way that moves on leaves the submission as it should be.
LEMMA ServeFrame ==
  ASSUME RequestsOK, SubmissionOK, NEW r \in Requests, req[r].step \notin {"none", "over"},
         NEW q, q.amount = req[r].amount, q.step # "none",
         req' = [req EXCEPT ![r] = q], UNCHANGED message
  PROVE  SubmissionOK'
<1>1. Submission \in Requests
  BY DEF Requests
<1>2. CASE r = Submission
  <2>1. req'[Submission] = q
    BY <1>1, <1>2 DEF RequestsOK
  <2>2. message # None /\ message.fate = "signed" /\ q.amount = message.amount
    BY <1>2 DEF SubmissionOK
  <2>3. QED
    BY <2>1, <2>2 DEF SubmissionOK, RefusedForPrice
<1>3. CASE r # Submission
  <2>1. req'[Submission] = req[Submission]
    BY <1>1, <1>3 DEF RequestsOK
  <2>2. QED
    BY <2>1 DEF SubmissionOK, CostOf, Covered
<1>4. QED
  BY <1>2, <1>3

\* A request that has a rate goes on to the gas price.
LEMMA TakeRateOK ==
  ASSUME QuoteInv, NEW r \in Requests, req[r].step = "rate", NEW rate \in Nat,
         KeepRate(rate, req[r].since), TakeRate(r, rate, req[r].since),
         UNCHANGED <<now, gasCache, pageVars>>
  PROVE  QuoteInv'
<1> DEFINE q == [req[r] EXCEPT !.step = "gas", !.since = now, !.rate = rate,
                               !.read = req[r].since]
<1>1. /\ RequestOK(req[r], now) /\ req[r] \in RequestSet /\ now \in Nat
      /\ req[r].since \in Nat /\ req[r].since <= now /\ now - req[r].since <= FetchTime
      /\ req[r].amount \in Amounts \cup {0} /\ req[r].amount # 0
  BY DEF QuoteInv, RequestsOK, RequestOK, CachesOK, RequestSet
<1>2. q \in RequestSet /\ q.step = "gas" /\ q.since = now /\ q.read = req[r].since
      /\ q.amount = req[r].amount
  BY <1>1 DEF RequestSet, StepName
<1>3. req' = [req EXCEPT ![r] = q]
  BY DEF QuoteInv, RequestsOK, TakeRate
<1> HIDE DEF q
<1>4. RequestOK(q, now)
  BY <1>1, <1>2, Natural DEF RequestOK
<1>5. RequestsOK'
  BY <1>3, <1>4, RequestUpdate DEF QuoteInv
<1>6. CachesOK'
  BY <1>1, Natural DEF QuoteInv, CachesOK, KeepRate
<1>7. PageOK' /\ ShownOK' /\ MessageOK'
  BY PageFrame DEF QuoteInv
<1>8. SubmissionOK'
  BY <1>2, <1>3, ServeFrame DEF QuoteInv, pageVars
<1>9. QED
  BY <1>5, <1>6, <1>7, <1>8 DEF QuoteInv

LEMMA RateStep ==
  ASSUME QuoteInv, NEW r \in Requests, RateRead(r) \/ RateFails(r)
  PROVE  QuoteInv'
<1>1. CASE RateRead(r)
  <2>1. PICK live \in Rates : /\ KeepRate(RateUsed(live), req[r].since)
                              /\ TakeRate(r, RateUsed(live), req[r].since)
    BY <1>1 DEF RateRead
  <2>2. RateUsed(live) \in Nat
    BY GasTypes, QuoteAssumption
  <2>3. QED
    BY <1>1, <2>1, <2>2, TakeRateOK DEF RateRead
<1>2. CASE RateFails(r) /\ FloorRate # 0
  <2>1. FloorRate \in Nat
    BY FeeAssumption
  <2>2. QED
    BY <1>2, <2>1, TakeRateOK DEF RateFails
<1>3. CASE RateFails(r) /\ FloorRate = 0
  <2> DEFINE q == [req[r] EXCEPT !.step = "failed"]
  <2>1. req[r] \in RequestSet /\ RequestOK(req[r], now) /\ req[r].step = "rate"
    BY <1>3 DEF QuoteInv, RequestsOK, RequestOK, RateFails
  <2>2. q \in RequestSet /\ q.step = "failed" /\ q.amount = req[r].amount
        /\ q.since = req[r].since
    BY <2>1 DEF RequestSet, StepName
  <2>3. req' = [req EXCEPT ![r] = q]
    BY <1>3 DEF RateFails
  <2> HIDE DEF q
  <2>4. RequestOK(q, now)
    BY <2>1, <2>2 DEF RequestOK
  <2>5. RequestsOK'
    BY <1>3, <2>3, <2>4, RequestUpdate DEF QuoteInv, RateFails
  <2>6. CachesOK'
    BY <1>3 DEF QuoteInv, CachesOK, RateFails
  <2>7. PageOK' /\ ShownOK' /\ MessageOK'
    BY <1>3, PageFrame DEF QuoteInv, RateFails
  <2>8. SubmissionOK'
    BY <1>3, <2>1, <2>2, <2>3, ServeFrame DEF QuoteInv, RateFails, pageVars
  <2>9. QED
    BY <2>5, <2>6, <2>7, <2>8 DEF QuoteInv
<1>4. QED
  BY <1>1, <1>2, <1>3

\* A request that has a gas price is ready to be answered.
LEMMA TakeGasOK ==
  ASSUME QuoteInv, NEW r \in Requests, req[r].step \in {"gas", "fetch"}, NEW price \in Nat,
         TakeGas(r, price), CachesOK', UNCHANGED <<now, pageVars>>
  PROVE  QuoteInv'
<1> DEFINE q == [req[r] EXCEPT !.step = "priced", !.since = now,
                               !.gas = EffectiveGasPrice(price), !.lastGood = 0]
<1>1. /\ RequestOK(req[r], now) /\ req[r] \in RequestSet /\ now \in Nat
      /\ req[r].since \in Nat /\ req[r].read \in Nat
      /\ req[r].amount \in Amounts \cup {0} /\ req[r].amount # 0
  BY DEF QuoteInv, RequestsOK, RequestOK, CachesOK, RequestSet
<1>2. EffectiveGasPrice(price) \in Nat
  BY GasTypes
<1>3. q \in RequestSet /\ q.step = "priced" /\ q.since = now /\ q.read = req[r].read
      /\ q.amount = req[r].amount
  BY <1>1, <1>2 DEF RequestSet, StepName
<1>4. req' = [req EXCEPT ![r] = q]
  BY DEF QuoteInv, RequestsOK, TakeGas
<1> HIDE DEF q
<1>5. now - req[r].read <= RateAge + FetchTime
  BY <1>1, Natural DEF RequestOK
<1>6. RequestOK(q, now)
  BY <1>1, <1>3, <1>5 DEF RequestOK
<1>7. RequestsOK'
  BY <1>4, <1>6, RequestUpdate DEF QuoteInv
<1>8. PageOK' /\ ShownOK' /\ MessageOK'
  BY PageFrame DEF QuoteInv
<1>9. SubmissionOK'
  BY <1>3, <1>4, ServeFrame DEF QuoteInv, pageVars
<1>10. QED
  BY <1>7, <1>8, <1>9 DEF QuoteInv

LEMMA GasStep ==
  ASSUME QuoteInv, NEW r \in Requests, AskGas(r) \/ GasRead(r) \/ GasFails(r)
  PROVE  QuoteInv'
<1>1. CASE AskGas(r) /\ FreshGas
  <2>1. gasCache.price \in Nat
    BY <1>1 DEF QuoteInv, CachesOK, FreshGas
  <2>2. CachesOK'
    BY <1>1 DEF QuoteInv, CachesOK, AskGas
  <2>3. QED
    BY <1>1, <2>1, <2>2, TakeGasOK DEF AskGas
<1>2. CASE AskGas(r) /\ ~FreshGas
  <2> DEFINE good == IF gasCache = None THEN 0 ELSE gasCache.price
             q == [req[r] EXCEPT !.step = "fetch", !.since = now, !.lastGood = good]
  <2>1. /\ RequestOK(req[r], now) /\ req[r] \in RequestSet /\ now \in Nat
        /\ req[r].step = "gas" /\ req[r].read \in Nat
        /\ req[r].amount \in Amounts \cup {0} /\ req[r].amount # 0
    BY <1>2 DEF QuoteInv, RequestsOK, RequestOK, CachesOK, RequestSet, AskGas
  <2>2. good \in Nat
    BY DEF QuoteInv, CachesOK
  <2>3. req' = [req EXCEPT ![r] = q]
    BY <1>2 DEF QuoteInv, RequestsOK, AskGas
  <2> HIDE DEF good
  <2>4. q \in RequestSet /\ q.step = "fetch" /\ q.since = now /\ q.read = req[r].read
        /\ q.amount = req[r].amount
    BY <2>1, <2>2 DEF RequestSet, StepName
  <2> HIDE DEF q
  <2>5. RequestOK(q, now)
    BY <2>1, <2>4, Natural DEF RequestOK
  <2>6. RequestsOK'
    BY <1>2, <2>3, <2>5, RequestUpdate DEF QuoteInv, AskGas
  <2>7. CachesOK'
    BY <1>2 DEF QuoteInv, CachesOK, AskGas
  <2>8. PageOK' /\ ShownOK' /\ MessageOK'
    BY <1>2, PageFrame DEF QuoteInv, AskGas
  <2>9. SubmissionOK'
    BY <1>2, <2>1, <2>3, <2>4, ServeFrame DEF QuoteInv, AskGas, pageVars
  <2>10. QED
    BY <2>6, <2>7, <2>8, <2>9 DEF QuoteInv
<1>3. CASE GasRead(r)
  <2>1. PICK base \in BaseFees : /\ KeepGas(FastMaxFee(base, Priority), req[r].since)
                                 /\ TakeGas(r, FastMaxFee(base, Priority))
    BY <1>3 DEF GasRead
  <2>2. FastMaxFee(base, Priority) \in Nat
    BY GasTypes
  <2>3. req[r].since \in Nat /\ now \in Nat /\ now - req[r].since <= FetchTime
    BY <1>3 DEF QuoteInv, RequestsOK, RequestOK, RequestSet, CachesOK, GasRead
  <2>4. CachesOK'
    BY <1>3, <2>1, <2>2, <2>3 DEF QuoteInv, CachesOK, GasRead, KeepGas
  <2>5. QED
    BY <1>3, <2>1, <2>2, <2>4, TakeGasOK DEF GasRead
<1>4. CASE GasFails(r)
  <2>1. PICK price \in {req[r].lastGood, FallbackGas} \ {0} : TakeGas(r, price)
    BY <1>4 DEF GasFails
  <2>2. price \in Nat
    BY Natural DEF QuoteInv, RequestsOK, RequestSet
  <2>3. CachesOK'
    BY <1>4 DEF QuoteInv, CachesOK, GasFails, LeaveCache
  <2>4. QED
    BY <1>4, <2>1, <2>2, <2>3, TakeGasOK DEF GasFails
<1>5. QED
  BY <1>1, <1>2, <1>3, <1>4

\* What the route answers is what the page may show.
LEMMA QuoteForOK ==
  ASSUME QuoteInv, NEW r \in Requests, req[r].step = "priced",
         CostCode(CostOf(r), req[r].amount) = "ok"
  PROVE  LET q == QuoteFor(r)
         IN  /\ q \in QuoteSet /\ q.amount = req[r].amount /\ FairMax(q)
             /\ q.expires - q.read <= RateAge + FetchTime + QuoteTtl
<1>1. /\ req[r] \in RequestSet /\ req[r].amount \in Amounts /\ req[r].since \in Nat
      /\ req[r].read \in Nat /\ req[r].since - req[r].read <= RateAge + FetchTime
  BY DEF QuoteInv, RequestsOK, RequestOK, RequestSet
<1>2. CostOf(r) \in Nat
  BY <1>1, CostType
<1>3. req[r].amount \in Nat
  BY <1>1, QuoteAssumption
<1>4. MaxFeeZen(FeeZen(CostOf(r), req[r].amount), req[r].amount) \in Nat
  BY <1>2, <1>3, FeeTypes
<1>5. req[r].since + QuoteTtl \in Nat
  BY <1>1, Natural
<1>6. (req[r].since + QuoteTtl) - req[r].read <= RateAge + FetchTime + QuoteTtl
  BY <1>1, Natural
<1>7. QED
  BY <1>1, <1>2, <1>4, <1>5, <1>6 DEF QuoteFor, QuoteSet, FairMax

LEMMA TakeQuoteStep ==
  ASSUME QuoteInv, NEW r \in Requests, TakeQuote(r)
  PROVE  QuoteInv'
<1> DEFINE q == [Unused EXCEPT !.step = "over"]
<1>1. /\ r \in Quotes /\ r # Submission /\ req[r].step \in {"failed", "priced"}
      /\ req[r].amount \in Amounts
  BY DEF TakeQuote, Answered, Quotes, Submission, QuoteInv, RequestsOK, RequestOK, RequestSet
<1>2. q = [step |-> "over", amount |-> 0, since |-> 0, rate |-> 0, read |-> 0, gas |-> 0,
           lastGood |-> 0]
  BY DEF Unused
<1>3. req' = [req EXCEPT ![r] = q] /\ UNCHANGED <<now, rateCache, gasCache, amount, typed,
                                                latest, message>>
  BY DEF TakeQuote
<1> HIDE DEF q
<1>4. RequestOK(q, now)
  BY <1>2 DEF RequestOK, RequestSet, StepName, QuoteInv, CachesOK
<1>5. RequestsOK'
  BY <1>3, <1>4, RequestUpdate DEF QuoteInv
<1>6. CachesOK' /\ MessageOK'
  BY <1>3 DEF QuoteInv, CachesOK, MessageOK, FairMax
<1>7. SubmissionOK'
  <2>1. Submission \in Requests
    BY DEF Requests
  <2>2. req'[Submission] = req[Submission]
    BY <1>1, <1>3, <2>1 DEF QuoteInv, RequestsOK
  <2>3. QED
    BY <1>3, <2>2 DEF QuoteInv, SubmissionOK, CostOf, Covered
<1>8. PageOK' /\ ShownOK'
  <2>1. CASE Wanted(r)
    <3>1. shownKey' = req[r].amount
      BY <2>1 DEF TakeQuote, KeyOf
    <3>2. PageOK'
      BY <1>1, <1>3, <3>1 DEF QuoteInv, PageOK
    <3>3. CASE req[r].step = "priced" /\ CostCode(CostOf(r), req[r].amount) = "ok"
      <4>1. shown' = QuoteFor(r)
        BY <2>1, <3>3 DEF TakeQuote
      <4>2. ShownOK'
        BY <3>1, <3>3, <4>1, QuoteForOK DEF ShownOK, FairMax
      <4>3. QED
        BY <3>2, <4>2
    <3>4. CASE ~(req[r].step = "priced" /\ CostCode(CostOf(r), req[r].amount) = "ok")
      <4>1. shown' = None
        BY <2>1, <3>4 DEF TakeQuote
      <4>2. QED
        BY <3>2, <4>1 DEF ShownOK
    <3>5. QED
      BY <3>3, <3>4
  <2>2. CASE ~Wanted(r)
    BY <1>3, <2>2 DEF TakeQuote, QuoteInv, PageOK, ShownOK, FairMax
  <2>3. QED
    BY <2>1, <2>2
<1>9. QED
  BY <1>5, <1>6, <1>7, <1>8 DEF QuoteInv

LEMMA PageStep ==
  ASSUME QuoteInv, (\E a \in Amounts \cup {0} : TypeAmount(a)) \/ SendQuote \/ SignQuote
  PROVE  QuoteInv'
<1>1. ASSUME NEW a \in Amounts \cup {0}, TypeAmount(a) PROVE QuoteInv'
  <2>1. UNCHANGED <<now, rateCache, gasCache, req, shown, shownKey, message>>
    BY <1>1 DEF TypeAmount
  <2>2. PageOK'
    <3>1. amount' = a /\ typed' = typed + 1 /\ latest' = 0 /\ typed < MaxTyped
      BY <1>1 DEF TypeAmount
    <3>2. QED
      BY <2>1, <3>1, Natural DEF QuoteInv, PageOK
  <2>3. QED
    BY <2>1, <2>2 DEF QuoteInv, RequestsOK, CachesOK, ShownOK, MessageOK, SubmissionOK, FairMax,
                      CostOf, Covered
<1>2. CASE SendQuote
  <2>1. /\ amount \in Amounts /\ typed \in Requests /\ typed # Submission
        /\ req[typed].step = "none" /\ AskRate(typed, amount) /\ latest' = typed
        /\ UNCHANGED <<now, rateCache, gasCache, amount, typed, shown, shownKey, message>>
    BY <1>2, Natural DEF SendQuote, QuoteInv, PageOK, Requests, Quotes, Submission
  <2>2. RequestsOK' /\ \A k \in Requests \ {typed} : req'[k] = req[k]
    BY <2>1, AskRateOK DEF QuoteInv
  <2>3. Submission \in Requests /\ req'[Submission] = req[Submission]
    BY <2>1, <2>2 DEF Requests
  <2>4. SubmissionOK'
    BY <2>1, <2>3 DEF QuoteInv, SubmissionOK, CostOf, Covered
  <2>5. CachesOK' /\ PageOK' /\ ShownOK' /\ MessageOK'
    BY <2>1 DEF QuoteInv, CachesOK, PageOK, ShownOK, MessageOK, FairMax
  <2>6. QED
    BY <2>2, <2>4, <2>5 DEF QuoteInv
<1>3. CASE SignQuote
  <2>1. /\ message = None /\ shown # None /\ shownKey = amount
        /\ message' = [amount |-> amount, max |-> shown.max, cost |-> shown.cost,
                       fate |-> "signed"]
        /\ UNCHANGED <<now, rateCache, gasCache, req, amount, typed, latest, shown, shownKey>>
    BY <1>3 DEF SignQuote, Ready, Active
  <2>2. shown \in QuoteSet /\ shown.amount = amount /\ FairMax(shown)
    BY <2>1 DEF QuoteInv, ShownOK
  <2>3. MessageOK'
    <3>1. /\ message'.amount = shown.amount /\ message'.max = shown.max
          /\ message'.cost = shown.cost
          /\ message' \in [amount : Amounts, max : Nat, cost : Nat, fate : Fates]
      BY <2>1, <2>2 DEF QuoteSet, Fates
    <3>2. QED
      BY <2>2, <3>1 DEF MessageOK, FairMax
  <2>4. SubmissionOK'
    <3>1. req[Submission].step = "none"
      BY <2>1 DEF QuoteInv, SubmissionOK
    <3>2. message'.fate = "signed"
      BY <2>1
    <3>3. req'[Submission].step = "none"
      BY <2>1, <3>1
    <3>4. QED
      BY <3>2, <3>3 DEF SubmissionOK, RefusedForPrice
  <2>5. RequestsOK' /\ CachesOK' /\ PageOK' /\ ShownOK'
    BY <2>1 DEF QuoteInv, RequestsOK, CachesOK, PageOK, ShownOK, FairMax
  <2>6. QED
    BY <2>3, <2>4, <2>5 DEF QuoteInv
<1>4. QED
  BY <1>1, <1>2, <1>3

LEMMA SubmitStep == ASSUME QuoteInv, Submit PROVE QuoteInv'
<1>1. /\ Submission \in Requests /\ message # None /\ message.fate = "signed"
      /\ AskRate(Submission, message.amount) /\ UNCHANGED <<now, rateCache, gasCache, pageVars>>
  BY DEF Submit, Requests
<1>2. message.amount \in Amounts
  BY <1>1 DEF QuoteInv, MessageOK
<1>3. /\ RequestsOK' /\ req'[Submission].amount = message.amount
      /\ req'[Submission].step \in {"rate", "gas"}
  BY <1>1, <1>2, AskRateOK DEF QuoteInv
<1>4. SubmissionOK'
  BY <1>1, <1>3 DEF SubmissionOK, RefusedForPrice, pageVars
<1>5. CachesOK' /\ PageOK' /\ ShownOK' /\ MessageOK'
  BY <1>1, PageFrame DEF QuoteInv, CachesOK
<1>6. QED
  BY <1>3, <1>4, <1>5 DEF QuoteInv

\* The submission is decided on the cost that its request keeps.
LEMMA DecideStep == ASSUME QuoteInv, Decide PROVE QuoteInv'
<1> DEFINE q == [req[Submission] EXCEPT !.step = "over", !.since = 0, !.read = 0]
           code == CostCode(CostOf(Submission), req[Submission].amount)
           fate == IF req[Submission].step = "failed" THEN "quote_unavailable"
                   ELSE IF code # "ok" THEN code
                   ELSE IF ~Covered(Submission) THEN "fee_quote_stale" ELSE "relayed"
<1>1. Submission \in Requests
  BY DEF Requests
<1>2. /\ req[Submission].step \in {"failed", "priced"}
      /\ req' = [req EXCEPT ![Submission] = q]
      /\ message' = [message EXCEPT !.fate = fate]
      /\ UNCHANGED <<now, rateCache, gasCache, amount, typed, latest, shown, shownKey>>
  BY DEF Decide, Answered
<1>3. /\ req[Submission] \in RequestSet /\ message # None
      /\ req[Submission].amount = message.amount
      /\ message \in [amount : Amounts, max : Nat, cost : Nat, fate : Fates]
  BY <1>1, <1>2 DEF QuoteInv, RequestsOK, SubmissionOK, MessageOK
<1>4. /\ q \in RequestSet /\ q.step = "over" /\ q.amount = req[Submission].amount
      /\ q.gas = req[Submission].gas /\ q.rate = req[Submission].rate
      /\ q.since = 0
  BY <1>3 DEF RequestSet, StepName
<1>5. fate \in Fates
  <2>1. code \in {"ok", "fee_hits_cap", "amount_too_small"}
    BY DEF CostCode
  <2> HIDE DEF code
  <2>2. QED
    BY <2>1 DEF Fates
<1>6. /\ message'.amount = message.amount /\ message'.max = message.max
      /\ message'.cost = message.cost /\ message'.fate = fate
      /\ message' \in [amount : Amounts, max : Nat, cost : Nat, fate : Fates]
  <2> HIDE DEF fate
  <2>1. QED
    BY <1>2, <1>3, <1>5
<1>7. RequestsOK'
  <2> HIDE DEF q
  <2>1. RequestOK(q, now)
    BY <1>4 DEF RequestOK, QuoteInv, CachesOK
  <2>2. QED
    BY <1>1, <1>2, <2>1, RequestUpdate DEF QuoteInv
<1>8. MessageOK'
  BY <1>3, <1>6 DEF QuoteInv, MessageOK, FairMax
<1>9. SubmissionOK'
  <2>1. req'[Submission] = q
    BY <1>1, <1>2 DEF QuoteInv, RequestsOK
  <2> HIDE DEF q
  <2>2. CostOf(Submission)' = CostOf(Submission)
    BY <1>4, <2>1 DEF CostOf
  <2>3. Covered(Submission)' <=> Covered(Submission)
    BY <1>4, <1>6, <2>1, <2>2 DEF Covered
  <2>4. fate \in RefusedForPrice => code # "ok" \/ ~Covered(Submission)
    BY DEF RefusedForPrice
  <2> HIDE DEF fate
  <2>5. message'.fate \in RefusedForPrice =>
          CostCode(CostOf(Submission)', message'.amount) # "ok" \/ ~Covered(Submission)'
    BY <1>3, <1>6, <2>2, <2>3, <2>4
  <2>6. req'[Submission].step = "over" /\ req'[Submission].amount = message'.amount
    BY <1>3, <1>4, <1>6, <2>1
  <2>7. message # None => message' # None
    BY <1>3, <1>6 DEF None
  <2>8. QED
    BY <1>3, <2>5, <2>6, <2>7 DEF SubmissionOK
<1>10. CachesOK' /\ PageOK' /\ ShownOK'
  BY <1>2 DEF QuoteInv, CachesOK, PageOK, ShownOK, FairMax
<1>11. QED
  BY <1>7, <1>8, <1>9, <1>10 DEF QuoteInv

LEMMA TickStep == ASSUME QuoteInv, Tick PROVE QuoteInv'
<1>1. now' = now + 1 /\ UNCHANGED <<rateCache, gasCache, req, pageVars>> /\ now \in Nat
  BY DEF Tick, QuoteInv, CachesOK
<1>2. ASSUME NEW r \in Requests PROVE RequestOK(req[r], now + 1)
  <2>1. RequestOK(req[r], now) /\ req[r] \in RequestSet
    BY DEF QuoteInv, RequestsOK
  <2>2. req[r].since \in Nat
    BY <2>1 DEF RequestSet
  <2>3. /\ req[r].step # "gas"
        /\ req[r].step \in {"rate", "fetch"} => now - req[r].since < FetchTime
    BY DEF Tick
  <2>4. QED
    BY <1>1, <2>1, <2>2, <2>3, Natural DEF RequestOK
<1>3. RequestsOK'
  BY <1>1, <1>2 DEF QuoteInv, RequestsOK, RequestOK
<1>4. CachesOK'
  BY <1>1 DEF QuoteInv, CachesOK
<1>5. PageOK' /\ ShownOK' /\ MessageOK'
  BY <1>1, PageFrame DEF QuoteInv
<1>6. SubmissionOK'
  BY <1>1 DEF QuoteInv, SubmissionOK, CostOf, Covered, pageVars
<1>7. QED
  BY <1>3, <1>4, <1>5, <1>6 DEF QuoteInv

LEMMA QuoteStep == QuoteInv /\ [Next]_vars => QuoteInv'
<1> SUFFICES ASSUME QuoteInv, [Next]_vars PROVE QuoteInv'
  OBVIOUS
<1>1. ASSUME NEW r \in Requests, Serve(r) PROVE QuoteInv'
  BY <1>1, RateStep, GasStep, TakeQuoteStep DEF Serve
<1>2. CASE UNCHANGED vars
  BY <1>2 DEF vars, QuoteInv, RequestsOK, RequestOK, CachesOK, PageOK, ShownOK, MessageOK,
              SubmissionOK, FairMax, CostOf, Covered
<1>3. QED
  BY <1>1, <1>2, PageStep, SubmitStep, DecideStep, TickStep DEF Next

(***************************************************************************)
(* The theorems.                                                           *)
(***************************************************************************)

\* The caches, the requests in progress, the page and the signed message stay consistent.
THEOREM QuoteInvariant == Spec => []QuoteInv
<1>1. Init => QuoteInv
  BY QuoteInit
<1>2. QuoteInv /\ [Next]_vars => QuoteInv'
  BY QuoteStep
<1>3. QED
  BY <1>1, <1>2, PTL DEF Spec

\* The variables of FeeQuote keep their types (quote.ts, main.go, useFeeQuote).
THEOREM QuoteTypeCorrect == Spec => []QuoteTypeOK
<1>1. QuoteInv => QuoteTypeOK
  BY DEF QuoteInv, RequestsOK, CachesOK, PageOK, ShownOK, QuoteSet, RequestSet, QuoteTypeOK
<1>2. QED
  BY <1>1, QuoteInvariant, PTL

\* A quote the page still lets the user sign rests on a rate of bounded age: getZenEthQuote's
\* cache, the gas provider's call and the quote's own lifetime add up to no more.
THEOREM UsableQuotesAreYoung == Spec => []UsableQuoteAge
<1>1. QuoteInv => UsableQuoteAge
  <2> SUFFICES ASSUME QuoteInv, shown # None, now < shown.expires
               PROVE  now - shown.read <= MaxOf(QuoteTtl - 1, FetchTime) + FetchTime + QuoteTtl - 1
    BY DEF UsableQuoteAge
  <2>1. /\ shown.expires \in Nat /\ shown.read \in Nat /\ now \in Nat
        /\ shown.expires - shown.read <= RateAge + FetchTime + QuoteTtl
    BY DEF QuoteInv, ShownOK, QuoteSet, CachesOK
  <2>2. now - shown.read <= RateAge + FetchTime + QuoteTtl - 1
    BY <2>1, Natural
  <2>3. QED
    BY <2>2 DEF RateAge
<1>2. QED
  BY <1>1, QuoteInvariant, PTL

\* The provider's cache serves, as a hit, only prices read within one lifetime and one call.
THEOREM GasHitsAreFresh == Spec => []GasHitFresh
<1>1. QuoteInv => GasHitFresh
  BY Natural DEF QuoteInv, CachesOK, GasHitFresh, FreshGas
<1>2. QED
  BY <1>1, QuoteInvariant, PTL

\* useFeeQuote shows no quote for another amount than the one on the page.
THEOREM ReadyQuotesAreCurrent == Spec => []ReadyQuoteIsCurrent
<1>1. QuoteInv => ReadyQuoteIsCurrent
  BY DEF QuoteInv, ShownOK, ReadyQuoteIsCurrent, Ready, Active
<1>2. QED
  BY <1>1, QuoteInvariant, PTL

\* With no margin configured, queueRelay refuses a signed quote for its price only when the cost
\* rose by more than the buffer, or a cap had cut the buffer.
THEOREM RefusalsAreRises == Spec => []RefusedOnlyOnRise
<1>1. QuoteInv => RefusedOnlyOnRise
  <2> SUFFICES ASSUME QuoteInv, MarginBps = 0, message # None, message.fate \in RefusedForPrice,
                      ~(CostOf(Submission) * Bps > message.cost * (Bps + BufferBps)),
                      message.max \notin {MaxGasFee, BasisCap(message.amount)}
               PROVE  FALSE
    BY DEF RefusedOnlyOnRise
  <2> DEFINE c == message.cost
             d == CostOf(Submission)
             basis == message.amount
  <2>1. Submission \in Requests /\ req[Submission] \in RequestSet
    BY DEF QuoteInv, RequestsOK, Requests
  <2>2. d \in Nat
    BY <2>1, CostType
  <2>3. c \in Nat /\ basis \in Amounts /\ message.max = MaxFeeZen(FeeZen(c, basis), basis)
    BY DEF QuoteInv, MessageOK, FairMax
  <2>4. basis \in Nat \ {0}
    BY <2>3, QuoteAssumption
  <2>5. message.fate # "signed"
    BY DEF RefusedForPrice
  <2>6. req[Submission].amount = basis
    BY <2>5 DEF QuoteInv, SubmissionOK
  <2>7. CostCode(d, basis) # "ok" \/ ~(FeeZen(d, basis) <= message.max)
    BY <2>6 DEF QuoteInv, SubmissionOK, Covered
  <2> HIDE DEF c, d, basis
  <2>8. d * Bps <= c * (Bps + BufferBps)
    <3>1. Bps \in Nat /\ BufferBps \in Nat
      BY FeeAssumption
    <3>2. d * Bps \in Nat /\ c * (Bps + BufferBps) \in Nat
      BY <2>2, <2>3, <3>1, MulNat
    <3>3. ~(d * Bps > c * (Bps + BufferBps))
      BY DEF c, d
    <3>4. QED
      BY <3>2, <3>3
  <2>9. MaxFeeZen(FeeZen(c, basis), basis) \notin {MaxGasFee, BasisCap(basis)}
    BY <2>3 DEF basis
  <2>10. QED
    BY <2>2, <2>3, <2>4, <2>7, <2>8, <2>9, QuoteCovers
<1>2. QED
  BY <1>1, QuoteInvariant, PTL
=============================================================================
