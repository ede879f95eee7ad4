------------------------- MODULE StationAccounting -------------------------
(***************************************************************************)
(* The bookkeeping both stations inherit from                              *)
(* src/stlighter/station/StationAccounting.sol: whose the ZEN a station    *)
(* holds is.  Part of it is credited to owners, part is marked unassigned, *)
(* and the rest is float, which belongs to nobody yet.                     *)
(***************************************************************************)
EXTENDS Integers, FiniteSetsExt

CONSTANT Owners

\* Addresses have 160 bits.
ASSUME OwnersFinite == IsFiniteSet(Owners)

VARIABLES
  credited,       \* spendable ZEN of each owner
  totalCredited,  \* the contract's running sum of it
  unassigned,     \* ZEN governance may take out
  held            \* ZEN balance of the station

accountVars == <<credited, totalCredited, unassigned, held>>

\* The check of _assertSolvency: what is assigned is there.
Solvent == totalCredited + unassigned <= held

float == IF held > totalCredited + unassigned
           THEN held - (totalCredited + unassigned)
           ELSE 0

\* Mutant: credits without checking that the tokens are there.
CreditUnchecked(owner, amount) ==
  /\ amount # 0
  /\ credited' = [credited EXCEPT ![owner] = @ + amount]
  /\ totalCredited' = totalCredited + amount
  /\ UNCHANGED unassigned

\* Tokens already held (the caller gives held') are assigned to an owner.
Credit(owner, amount) ==
  /\ amount # 0
  /\ credited' = [credited EXCEPT ![owner] = @ + amount]
  /\ totalCredited' = totalCredited + amount
  /\ UNCHANGED unassigned
  /\ Solvent'

\* Mutant: the running sum is forgotten.
DebitOwnerOnly(owner, amount) ==
  /\ amount # 0
  /\ credited[owner] >= amount
  /\ credited' = [credited EXCEPT ![owner] = @ - amount]
  /\ UNCHANGED <<totalCredited, unassigned>>

Debit(owner, amount) ==
  /\ amount # 0
  /\ credited[owner] >= amount
  /\ credited' = [credited EXCEPT ![owner] = @ - amount]
  /\ totalCredited' = totalCredited - amount
  /\ UNCHANGED unassigned

AddUnassigned(amount) ==
  /\ amount # 0
  /\ unassigned' = unassigned + amount
  /\ UNCHANGED <<credited, totalCredited, held>>
  /\ Solvent'

\* The recipient may be the station itself.
RescueUnassigned(amount, toSelf) ==
  /\ amount # 0
  /\ unassigned >= amount /\ held >= amount
  /\ unassigned' = unassigned - amount
  /\ held' = IF toSelf THEN held ELSE held - amount
  /\ UNCHANGED <<credited, totalCredited>>

AccountInit ==
  /\ credited = [o \in Owners |-> 0]
  /\ totalCredited = 0 /\ unassigned = 0 /\ held = 0

(***************************************************************************)
(* Properties.                                                             *)
(***************************************************************************)

AccountTypeOK ==
  /\ credited \in [Owners -> Nat]
  /\ totalCredited \in Int /\ unassigned \in Nat /\ held \in Nat

\* The contract's invariant, with the running sum it is written with being the sum
\* of the credits: whoever is credited can be paid, all at once.
CreditsCovered ==
  /\ Solvent
  /\ totalCredited = SumFunctionOnSet(credited, Owners)
=============================================================================
