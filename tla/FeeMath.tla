------------------------------- MODULE FeeMath -------------------------------
(***************************************************************************)
(* The relayer's fee in ZEN (server/relay/cost.ts, quote.ts) and the gas   *)
(* price it starts from (deploy/gas-provider/main.go): pure functions.     *)
(* One ETH (1e18 wei) is OneEth units, 10 000 basis points are Bps units.  *)
(***************************************************************************)
EXTENDS Integers

CONSTANTS
  OneEth, Bps,                     \* 1e18 and 10_000
  MaxGasFee,                       \* MAX_GAS_FEE_ZEN
  GasLimit,                        \* gasLimitForKind of the redemption
  BufferBps, MarginBps, ProfitBps, \* FEE_BUFFER_BPS, FEE_MARGIN_BPS, FEE_PROFIT_BPS
  FloorRate, DeviationBps,         \* ZEN_PER_ETH_FLOOR (0: not set), PRICE_DEVIATION_BPS
  GasCeil,                         \* GAS_CEIL_MAX_FEE_WEI
  FloorPriority, CeilPriority      \* FLOOR_PRIORITY_WEI, CEIL_PRIORITY_WEI

ASSUME FeeAssumption ==
  /\ {OneEth, Bps, GasCeil} \subseteq Nat \ {0}
  /\ {MaxGasFee, GasLimit, BufferBps, MarginBps, ProfitBps} \subseteq Nat
  /\ {FloorRate, DeviationBps, FloorPriority, CeilPriority} \subseteq Nat

MinOf(a, b) == IF a < b THEN a ELSE b
MaxOf(a, b) == IF a > b THEN a ELSE b

(***************************************************************************)
(* The exchange rate.                                                      *)
(***************************************************************************)

\* The live rate is so far from the configured one that the latter is used.
ShouldClampToFloor(live) ==
  /\ FloorRate # 0
  /\ (IF live > FloorRate THEN live - FloorRate ELSE FloorRate - live) * Bps
       > FloorRate * DeviationBps

RateUsed(live) == IF ShouldClampToFloor(live) THEN FloorRate ELSE live

(***************************************************************************)
(* The gas price.                                                          *)
(***************************************************************************)

Clamp(n, low, high) == MinOf(MaxOf(n, low), high)

\* scaleBig: base fees scaled by 1.5 do not vanish.
OneAndAHalf(n) == IF n = 1 THEN 1 ELSE (3 * n) \div 2

\* The "fast" tier of fetchAndBuild.  The last maximum may exceed the ceiling.
FastMaxFee(baseFee, priority) ==
  LET prio == Clamp(2 * Clamp(priority, FloorPriority, CeilPriority), FloorPriority, CeilPriority)
  IN  MaxOf(MinOf(OneAndAHalf(baseFee) + prio, GasCeil), baseFee + prio)

\* resolveEffectiveGasPrice: the provider's price up to the ceiling, or else what the node or the
\* built-in fallback says, never zero.
EffectiveGasPrice(price) == MaxOf(MinOf(price, GasCeil), 1)

(***************************************************************************)
(* The fee.  cost is in wei times ZEN per ETH, basis in ZEN.               *)
(***************************************************************************)

CeilDiv(a, b) == IF a = 0 THEN 0 ELSE (a + b - 1) \div b

RelayedCost(gasPrice, rate) == GasLimit * gasPrice * rate

FeeOfCost(cost) == CeilDiv(CeilDiv(cost, OneEth) * (Bps + MarginBps), Bps)

BasisCap(basis) == MaxOf(basis - 1, 0)

FeeZen(cost, basis) ==
  MaxOf(FeeOfCost(cost),
        MinOf((basis * ProfitBps) \div Bps, MinOf(MaxGasFee, BasisCap(basis))))

\* Mutant: the fee quoted is the fee signed.
BufferedFeeExact(fee) == fee
\* What the user is asked to sign: room for BufferBps more, below the caps.
BufferedFee(fee) == CeilDiv(fee * (Bps + BufferBps), Bps)

MaxFeeZen(fee, basis) == MinOf(BufferedFee(fee), MinOf(MaxGasFee, BasisCap(basis)))

\* computeCostFromInputs for a relayed kind.
CostCode(cost, basis) ==
  IF FeeOfCost(cost) > MaxGasFee THEN "fee_hits_cap"
  ELSE IF basis <= 0 \/ FeeZen(cost, basis) >= basis THEN "amount_too_small"
  ELSE IF FeeZen(cost, basis) > MaxFeeZen(FeeZen(cost, basis), basis) THEN "fee_hits_cap"
  ELSE "ok"
=============================================================================
