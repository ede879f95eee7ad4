------------------------------- MODULE OftDust -------------------------------
(***************************************************************************)
(* What of an amount can cross the bridge (lib/oftDust.ts): the OFT's      *)
(* shared decimals drop the rest, the dust, which stays where it was.      *)
(***************************************************************************)
EXTENDS Integers

CONSTANT DecimalRate      \* decimalConversionRate of the OFT

ASSUME DecimalRateAssumption == DecimalRate \in Nat \ {0}

truncateOftAmountLD(n) == n - (n % DecimalRate)
=============================================================================
