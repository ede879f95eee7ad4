---------------------------- MODULE EgressStation ----------------------------
(***************************************************************************)
(* src/stlighter/station/EgressStation.sol: ZEN from the vault on its way  *)
(* to the other chain.  A redemption into the station is credited to its   *)
(* owner in the same transaction; the owner then signs it over a bridge,   *)
(* or out.  A bridge either sends at once through the OFT, which only      *)
(* takes multiples of a conversion rate and returns the rest               *)
(* (ZenOftStationBridge.sol), or takes the ZEN and reports later.          *)
(*                                                                         *)
(* Anyone may submit a signed message at any time: the messages owners     *)
(* ever sign are a constant.  A reverting call is an action that is not    *)
(* enabled.                                                                *)
(***************************************************************************)
EXTENDS StationAccounting

CONSTANTS
  Bridges,               \* values governance may set
  OftBridges,            \* those that send at once
  DecimalConversionRate,
  MaxGasFee,             \* MAX_GAS_FEE_ZEN
  Fees,                  \* fees relayers ask
  Messages,              \* messages that reach the station or the vault
  Signed,                \* those their owner signed
  Cancellers,            \* owners who cancel nonces
  RescueAmounts,
  MaxNonce,              \* bound: nonces of each kind
  MaxTime                \* bound: last block timestamp

\* What an owner signs: the vault's redemption into this station (assets is what the
\* vault pays for the shares), a transfer over the bridge, or a withdrawal.
Message == [kind : {"redeem", "bridge", "withdraw"}, owner : Owners, assets : Nat,
            maxFee : Nat, nonce : Nat, deadline : Nat]

ASSUME EgressAssumption ==
  /\ OftBridges \subseteq Bridges /\ Bridges # {}
  /\ DecimalConversionRate \in Nat \ {0} /\ MaxGasFee \in Nat
  /\ Fees \subseteq Nat /\ RescueAmounts \subseteq Nat
  /\ Messages \subseteq Message /\ Signed \subseteq Messages
  /\ Cancellers \subseteq Owners
  /\ MaxNonce \in Nat /\ MaxTime \in Nat

VARIABLES
  bridge, paused,   \* settings
  nonces,           \* nonces of the station's messages
  vaultNonces,      \* the vault's, used by its redemptions
  pending,          \* transfers under way
  pendingTotal,     \* the contract's running sum of them
  atBridge,         \* what each bridge holds, for which transfer
  now,
  owed              \* history: ZEN of each owner that came in and has not reached them

settingVars == <<bridge, paused>>
nonceVars   == <<nonces, vaultNonces>>
bridgeVars  == <<pending, pendingTotal, atBridge>>
egressVars  == <<accountVars, settingVars, nonceVars, bridgeVars, now, owed>>

\* A bridge identifier hashes the station, owner, nonce, destination and amount.
BridgeId == Owners \X Nat
Pending  == [id : BridgeId, owner : Owners, amount : Nat]
Parked   == [bridge : Bridges, id : BridgeId, amount : Nat]

\* Deadline, nonce and signature.
Authorised(m, ownNonces) ==
  /\ m \in Signed /\ now <= m.deadline
  /\ ownNonces[m.owner] = m.nonce

FeeAllowed(m, fee) == fee <= m.maxFee /\ m.maxFee <= MaxGasFee

UseNonce(m) ==
  /\ Authorised(m, nonces)
  /\ nonces' = [nonces EXCEPT ![m.owner] = @ + 1]
  /\ UNCHANGED vaultNonces

(***************************************************************************)
(* Redemptions.                                                            *)
(***************************************************************************)

\* The vault's redeemWithSig with this station as receiver: it pays the fee to the
\* relayer and the rest to the station.
VaultRedeems(m, fee) ==
  /\ m.kind = "redeem" /\ m.assets # 0
  /\ Authorised(m, vaultNonces) /\ FeeAllowed(m, fee) /\ fee < m.assets
  /\ vaultNonces' = [vaultNonces EXCEPT ![m.owner] = @ + 1]
  /\ held' = held + (m.assets - fee)
  /\ UNCHANGED nonces

RedeemAndCredit(m, fee) ==
  LET net == m.assets - fee IN
  /\ ~paused
  /\ VaultRedeems(m, fee)
  /\ net # 0
  /\ Credit(m.owner, net)
  /\ owed' = [owed EXCEPT ![m.owner] = @ + net]
  /\ UNCHANGED <<settingVars, bridgeVars, now>>

\* The same message handed to the vault, past the station.
RedeemDirectly(m, fee) ==
  /\ VaultRedeems(m, fee)
  /\ UNCHANGED <<credited, totalCredited, unassigned, settingVars, bridgeVars, now, owed>>

(***************************************************************************)
(* Bridging.                                                               *)
(***************************************************************************)

\* The checks and the debit of bridgeToBase, when all but the kept part leaves.
BridgeDebit(m, fee, kept) ==
  /\ ~paused
  /\ m.kind = "bridge" /\ m.assets # 0
  /\ FeeAllowed(m, fee) /\ fee < m.assets
  /\ UseNonce(m)
  /\ credited[m.owner] >= m.assets
  /\ Debit(m.owner, m.assets - kept)
  /\ held >= m.assets
  /\ held' = held - (m.assets - kept)

\* Mutant: the dust leaves with the rest and is not credited again.
BridgeViaOftLosingDust(m, fee) ==
  LET amount == m.assets - fee
      dust   == amount % DecimalConversionRate
  IN
  /\ bridge \in OftBridges
  /\ BridgeDebit(m, fee, 0)
  /\ amount # dust
  /\ owed' = [owed EXCEPT ![m.owner] = @ - (m.assets - dust)]
  /\ UNCHANGED <<settingVars, bridgeVars, now>>

\* The bridge sends, returns the dust, which is credited again, and completes the
\* transfer before bridgeToBase returns.
BridgeViaOft(m, fee) ==
  LET amount == m.assets - fee
      dust   == amount % DecimalConversionRate
  IN
  /\ bridge \in OftBridges
  /\ BridgeDebit(m, fee, dust)
  /\ amount # dust
  /\ dust # 0 => Solvent'
  /\ owed' = [owed EXCEPT ![m.owner] = @ - (m.assets - dust)]
  /\ UNCHANGED <<settingVars, bridgeVars, now>>

BridgeAndWait(m, fee) ==
  LET id     == <<m.owner, m.nonce>>
      amount == m.assets - fee
  IN
  /\ bridge \notin OftBridges
  /\ BridgeDebit(m, fee, 0)
  /\ \A p \in pending : p.id # id
  /\ pending' = pending \cup {[id |-> id, owner |-> m.owner, amount |-> amount]}
  /\ pendingTotal' = pendingTotal + amount
  /\ atBridge' = atBridge \cup {[bridge |-> bridge, id |-> id, amount |-> amount]}
  /\ owed' = [owed EXCEPT ![m.owner] = @ - fee]
  /\ UNCHANGED <<settingVars, now>>

\* Mutant: the transfer stays under way when it is over.
SettleKeepingPending(p) ==
  /\ pending' = pending /\ pendingTotal >= p.amount
  /\ pendingTotal' = pendingTotal - p.amount

\* The transfer is over: its entry is deleted and the running sum follows.
Settle(p) ==
  /\ pending' = pending \ {p}
  /\ pendingTotal >= p.amount
  /\ pendingTotal' = pendingTotal - p.amount

\* Mutant: a paused station does not listen.
FromBridgeUnlessPaused(parked) == parked \in atBridge /\ parked.bridge = bridge /\ ~paused

\* The caller is the bridge that is set now.
FromBridge(parked) == parked \in atBridge /\ parked.bridge = bridge

\* The bridge has given up: it returns the ZEN and reports.  A paused
\* station listens too.
OnBridgeRefund(parked) ==
  \E p \in pending :
    /\ FromBridge(parked)
    /\ p.id = parked.id /\ p.amount = parked.amount
    /\ Settle(p)
    /\ atBridge' = atBridge \ {parked}
    /\ held' = held + parked.amount
    /\ Credit(p.owner, parked.amount)
    /\ UNCHANGED <<settingVars, nonceVars, now, owed>>

\* The bridge has delivered.
OnBridgeComplete(parked) ==
  \E p \in pending :
    /\ FromBridge(parked)
    /\ p.id = parked.id
    /\ Settle(p)
    /\ atBridge' = atBridge \ {parked}
    /\ owed' = [owed EXCEPT ![p.owner] = @ - parked.amount]
    /\ UNCHANGED <<accountVars, settingVars, nonceVars, now>>

(***************************************************************************)
(* Other calls.                                                            *)
(***************************************************************************)

\* A withdrawal may name the station as its recipient.
WithdrawToHorizen(m, toSelf) ==
  /\ ~paused
  /\ m.kind = "withdraw"
  /\ UseNonce(m)
  /\ Debit(m.owner, m.assets)
  /\ held >= m.assets
  /\ held' = IF toSelf THEN held ELSE held - m.assets
  /\ owed' = [owed EXCEPT ![m.owner] = @ - m.assets]
  /\ UNCHANGED <<settingVars, bridgeVars, now>>

InvalidateNonce(owner) ==
  /\ nonces[owner] < MaxNonce
  /\ nonces' = [nonces EXCEPT ![owner] = @ + 1]
  /\ UNCHANGED <<accountVars, settingVars, vaultNonces, bridgeVars, now, owed>>

SetBridge(b) ==
  /\ bridge' = b
  /\ UNCHANGED <<accountVars, paused, nonceVars, bridgeVars, now, owed>>

Pause   == /\ ~paused /\ paused' = TRUE
           /\ UNCHANGED <<accountVars, bridge, nonceVars, bridgeVars, now, owed>>
Unpause == /\ paused /\ paused' = FALSE
           /\ UNCHANGED <<accountVars, bridge, nonceVars, bridgeVars, now, owed>>

SweepFloatToUnassigned ==
  /\ float > 0
  /\ AddUnassigned(float)
  /\ UNCHANGED <<settingVars, nonceVars, bridgeVars, now, owed>>

Rescue(amount, toSelf) ==
  /\ RescueUnassigned(amount, toSelf)
  /\ UNCHANGED <<settingVars, nonceVars, bridgeVars, now, owed>>

GovernanceCall ==
  \/ \E b \in Bridges : SetBridge(b)
  \/ Pause
  \/ Unpause
  \/ SweepFloatToUnassigned
  \/ \E amount \in RescueAmounts, toSelf \in BOOLEAN : Rescue(amount, toSelf)

Tick ==
  /\ now < MaxTime
  /\ now' = now + 1
  /\ UNCHANGED <<accountVars, settingVars, nonceVars, bridgeVars, owed>>

EgressInit ==
  /\ AccountInit
  /\ bridge \in Bridges /\ paused = FALSE
  /\ nonces = [o \in Owners |-> 0] /\ vaultNonces = [o \in Owners |-> 0]
  /\ pending = {} /\ pendingTotal = 0 /\ atBridge = {}
  /\ now = 1
  /\ owed = [o \in Owners |-> 0]

RelayedCall(m, fee) ==
  \/ RedeemAndCredit(m, fee)
  \/ RedeemDirectly(m, fee)
  \/ BridgeViaOft(m, fee)
  \/ BridgeAndWait(m, fee)

EgressNext ==
  \/ \E m \in Messages, fee \in Fees : RelayedCall(m, fee)
  \/ \E parked \in atBridge : OnBridgeRefund(parked)
  \/ \E parked \in atBridge : OnBridgeComplete(parked)
  \/ \E m \in Messages, toSelf \in BOOLEAN : WithdrawToHorizen(m, toSelf)
  \/ \E owner \in Cancellers : InvalidateNonce(owner)
  \/ GovernanceCall
  \/ Tick

EgressSpec == EgressInit /\ [][EgressNext]_egressVars

(***************************************************************************)
(* Properties.                                                             *)
(***************************************************************************)

EgressTypeOK ==
  /\ AccountTypeOK
  /\ bridge \in Bridges /\ paused \in BOOLEAN
  /\ nonces \in [Owners -> Nat] /\ vaultNonces \in [Owners -> Nat]
  /\ pending \subseteq Pending /\ pendingTotal \in Nat
  /\ atBridge \subseteq Parked
  /\ now \in Nat /\ owed \in [Owners -> Int]

SumOfAmounts(S) == SumFunctionOnSet([r \in S |-> r.amount], S)

\* Every ZEN credited from a redemption is its owner's until it reaches them: in the
\* credit, under way on a bridge, or credited again, and never somebody else's.
OwnersKeepTheirZen ==
  \A o \in Owners :
    credited[o] + SumOfAmounts({p \in pending : p.owner = o}) = owed[o]

\* The transfers the station believes under way are those whose ZEN a bridge still
\* holds, one each and of the same amount, whatever bridge is set meanwhile.
PendingIsParked ==
  /\ pendingTotal = SumOfAmounts(pending)
  /\ {<<p.id, p.amount>> : p \in pending} = {<<r.id, r.amount>> : r \in atBridge}
  /\ Cardinality(pending) = Cardinality(atBridge)

\* The bridge that is set can always return a transfer: neither a pause, nor a sweep,
\* nor what owners did since can make its refund fail.
RefundNeverBlocked ==
  \A r \in atBridge : r.bridge = bridge => ENABLED OnBridgeRefund(r)

\* Whoever's credit shrinks signed for it, in time and for at least that amount, and
\* the message's nonce is used in the same step.
SignedDebit(o) ==
  credited'[o] < credited[o] =>
    /\ nonces'[o] = nonces[o] + 1
    /\ \E m \in Signed : /\ m.owner = o /\ m.nonce = nonces[o] /\ now <= m.deadline
                         /\ credited[o] - credited'[o] <= m.assets

\* A credit shrinks only by a message its owner signed: a transfer over the bridge,
\* fee included, or a withdrawal, once.
CreditNeedsSignature == [][\A o \in Owners : SignedDebit(o)]_egressVars
=============================================================================
