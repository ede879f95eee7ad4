--------------------------- MODULE InboundStation ---------------------------
(***************************************************************************)
(* src/stlighter/station/InboundStation.sol: ZEN from the other chain on   *)
(* its way into the vault.  LayerZero delivers a transfer in two steps:    *)
(* the tokens arrive, and later, in any order and as often as it takes,    *)
(* the compose message is executed.  It carries a message its owner signed,*)
(* and only credits; the vault then draws on the credit, or the owner      *)
(* withdraws it.                                                           *)
(*                                                                         *)
(* Anyone may submit a signed message, at any time, so that when it was    *)
(* signed does not matter: the messages owners ever sign are a constant.   *)
(* Others reach the station too.  A reverting call is an action that is    *)
(* not enabled.                                                            *)
(***************************************************************************)
EXTENDS StationAccounting

CONSTANTS
  ComposeCallers, ZenOfts, SrcEids, StLighters,  \* values governance may set
  Route,           \* the caller, OFT and chain composes really come by
  StLighter,       \* the vault that really calls payForDeposit
  Amounts,         \* ZEN of one transfer
  Messages,        \* messages that reach the station or the vault
  Signed,          \* those their owner signed
  Cancellers,      \* owners who cancel nonces
  CreditNonces,    \* unordered nonces in use
  MaxNonce,        \* bound: sequential nonces
  MaxArrivals,     \* bound: transfers ever arriving
  MaxTime          \* bound: last block timestamp

\* What an owner signs: a credit from a compose, the vault's deposit with this
\* station as payer, or a withdrawal.
Message == [kind : {"credit", "stake", "withdraw"}, owner : Owners, assets : Nat,
            nonce : Nat, deadline : Nat]

ASSUME InboundAssumption ==
  /\ Route \in [composeCaller : ComposeCallers, zenOft : ZenOfts, srcEid : SrcEids]
  /\ StLighter \in StLighters
  /\ Amounts \subseteq Nat \ {0} /\ CreditNonces \subseteq Nat
  /\ Cancellers \subseteq Owners
  /\ Messages \subseteq Message /\ Signed \subseteq Messages
  /\ \A m \in Messages : m.kind = "credit" => m.nonce \in CreditNonces
  /\ IsFiniteSet(Messages) /\ IsFiniteSet(Amounts) /\ IsFiniteSet(CreditNonces)
  /\ MaxNonce \in Nat /\ MaxArrivals \in Nat /\ MaxTime \in Nat

VARIABLES
  route, stLighter, paused,  \* settings
  nonceBitmap,     \* unordered nonces of credit messages that are used
  nonces,          \* sequential nonces of withdrawals
  vaultNonces,     \* the vault's own nonces, used by its signed deposits
  composes,        \* how many composes of each kind have arrived and are not executed
  arrivals,        \* transfers arrived so far
  now,
  swept,           \* history: float governance has swept and not put back
  everCredited     \* history: ZEN ever credited to each owner

settingVars == <<route, stLighter, paused>>
nonceVars   == <<nonceBitmap, nonces, vaultNonces>>
lzVars      == <<composes, arrivals>>
historyVars == <<swept, everCredited>>
inboundVars == <<accountVars, settingVars, nonceVars, lzVars, historyVars, now>>

\* A transfer that carries a message: neither the message nor the amount it names
\* need be what was sent.
Deliveries == [payload : {m \in Messages : m.kind = "credit"}, amount : Amounts]

\* Mutant: the deadline is not looked at.
AuthorisedLate(m) == m \in Signed

\* Deadline and signature.
Authorised(m) == m \in Signed /\ now <= m.deadline

\* Mutant: the nonce is looked at but not marked.
UseUnorderedNonceUnmarked(owner, nonce) ==
  /\ <<owner, nonce>> \notin nonceBitmap
  /\ UNCHANGED nonceBitmap

\* Mutant: credits must come in the order they were signed.
UseNextNonce(owner, nonce) ==
  /\ nonce = Cardinality({n \in CreditNonces : <<owner, n>> \in nonceBitmap})
  /\ nonceBitmap' = nonceBitmap \cup {<<owner, nonce>>}

UseUnorderedNonce(owner, nonce) ==
  /\ <<owner, nonce>> \notin nonceBitmap
  /\ nonceBitmap' = nonceBitmap \cup {<<owner, nonce>>}

(***************************************************************************)
(* LayerZero.                                                              *)
(***************************************************************************)

\* The OFT credits the station; the compose is queued.
Arrive(c) ==
  /\ arrivals < MaxArrivals
  /\ arrivals' = arrivals + 1
  /\ held' = held + c.amount
  /\ composes' = [composes EXCEPT ![c] = @ + 1]
  /\ UNCHANGED <<credited, totalCredited, unassigned, settingVars, nonceVars, historyVars, now>>

\* A plain transfer of ZEN to the station.
Donate(amount) ==
  /\ arrivals < MaxArrivals
  /\ arrivals' = arrivals + 1
  /\ held' = held + amount
  /\ UNCHANGED <<credited, totalCredited, unassigned, settingVars, nonceVars, composes,
                 historyVars, now>>

Acceptable(c) ==
  /\ ~paused
  /\ route = Route
  /\ c.payload.assets = c.amount
  /\ Authorised(c.payload)
  /\ <<c.payload.owner, c.payload.nonce>> \notin nonceBitmap

\* A compose that reverts stays queued and may be tried again.
LzCompose(c) ==
  LET owner == c.payload.owner IN
  /\ Acceptable(c)
  /\ UseUnorderedNonce(owner, c.payload.nonce)
  /\ held' = held
  /\ Credit(owner, c.amount)
  /\ composes[c] > 0 /\ composes' = [composes EXCEPT ![c] = @ - 1]
  /\ everCredited' = [everCredited EXCEPT ![owner] = @ + c.amount]
  /\ UNCHANGED <<settingVars, nonces, vaultNonces, arrivals, swept, now>>

(***************************************************************************)
(* Ways out of a credit.                                                   *)
(***************************************************************************)

\* The vault's depositWithSig with this station as payer: the vault has checked
\* the signature and its own nonce, and stakes what it draws.
PayForDeposit(m) ==
  LET user == m.owner IN
  /\ m.kind = "stake"
  /\ Authorised(m) /\ vaultNonces[user] = m.nonce
  /\ vaultNonces' = [vaultNonces EXCEPT ![user] = @ + 1]
  /\ ~paused
  /\ stLighter = StLighter
  /\ Debit(user, m.assets)
  /\ held >= m.assets
  /\ held' = held - m.assets
  /\ UNCHANGED <<settingVars, nonceBitmap, nonces, lzVars, historyVars, now>>

\* A withdrawal may name the station as its recipient.
WithdrawToHorizen(m, toSelf) ==
  LET owner == m.owner IN
  /\ ~paused
  /\ m.kind = "withdraw"
  /\ Authorised(m) /\ nonces[owner] = m.nonce
  /\ nonces' = [nonces EXCEPT ![owner] = @ + 1]
  /\ Debit(owner, m.assets)
  /\ held >= m.assets
  /\ held' = IF toSelf THEN held ELSE held - m.assets
  /\ UNCHANGED <<settingVars, nonceBitmap, vaultNonces, lzVars, historyVars, now>>

InvalidateNonce(owner) ==
  /\ nonces[owner] < MaxNonce
  /\ nonces' = [nonces EXCEPT ![owner] = @ + 1]
  /\ UNCHANGED <<accountVars, settingVars, nonceBitmap, vaultNonces, lzVars, historyVars,
                 now>>

InvalidateUnorderedNonces(owner, mask) ==
  /\ nonceBitmap' = nonceBitmap \cup ({owner} \X mask)
  /\ UNCHANGED <<accountVars, settingVars, nonces, vaultNonces, lzVars, historyVars,
                 now>>

(***************************************************************************)
(* Governance.                                                             *)
(***************************************************************************)

notSettings == <<accountVars, nonceVars, lzVars, historyVars, now>>

SetComposeCaller(caller) ==
  /\ route' = [route EXCEPT !.composeCaller = caller]
  /\ UNCHANGED <<stLighter, paused, notSettings>>

SetZenOft(oft) ==
  /\ route' = [route EXCEPT !.zenOft = oft]
  /\ UNCHANGED <<stLighter, paused, notSettings>>

SetAllowedSrcEid(eid) ==
  /\ route' = [route EXCEPT !.srcEid = eid]
  /\ UNCHANGED <<stLighter, paused, notSettings>>

SetStLighter(vault) ==
  /\ stLighter' = vault
  /\ UNCHANGED <<route, paused, notSettings>>

Pause   == ~paused /\ paused' = TRUE /\ UNCHANGED <<route, stLighter, notSettings>>
Unpause == paused /\ paused' = FALSE /\ UNCHANGED <<route, stLighter, notSettings>>

\* All float becomes unassigned, composes still queued or not.
SweepFloatToUnassigned ==
  /\ float > 0
  /\ AddUnassigned(float)
  /\ swept' = swept + float
  /\ UNCHANGED <<settingVars, nonceVars, lzVars, everCredited, now>>

Rescue(amount, toSelf) ==
  /\ RescueUnassigned(amount, toSelf)
  /\ swept' = IF toSelf THEN swept - amount ELSE swept
  /\ UNCHANGED <<settingVars, nonceVars, lzVars, everCredited, now>>

GovernanceCall ==
  \/ \E caller \in ComposeCallers : SetComposeCaller(caller)
  \/ \E oft \in ZenOfts : SetZenOft(oft)
  \/ \E eid \in SrcEids : SetAllowedSrcEid(eid)
  \/ \E vault \in StLighters : SetStLighter(vault)
  \/ Pause
  \/ Unpause
  \/ SweepFloatToUnassigned
  \/ \E amount \in Amounts, toSelf \in BOOLEAN : Rescue(amount, toSelf)

Tick ==
  /\ now < MaxTime
  /\ now' = now + 1
  /\ UNCHANGED <<accountVars, settingVars, nonceVars, lzVars, historyVars>>

InboundInit ==
  /\ AccountInit
  /\ route = Route /\ stLighter = StLighter /\ paused = FALSE
  /\ nonceBitmap = {} /\ composes = [c \in Deliveries |-> 0]
  /\ nonces = [o \in Owners |-> 0] /\ vaultNonces = [o \in Owners |-> 0]
  /\ everCredited = [o \in Owners |-> 0]
  /\ arrivals = 0 /\ swept = 0 /\ now = 1

OwnerCall(owner) ==
  \/ InvalidateNonce(owner)
  \/ \E mask \in SUBSET CreditNonces : InvalidateUnorderedNonces(owner, mask)

InboundNext ==
  \/ \E c \in Deliveries : Arrive(c) \/ LzCompose(c)
  \/ \E amount \in Amounts : Donate(amount)
  \/ \E m \in Messages : PayForDeposit(m)
  \/ \E m \in Messages, toSelf \in BOOLEAN : WithdrawToHorizen(m, toSelf)
  \/ \E owner \in Cancellers : OwnerCall(owner)
  \/ GovernanceCall
  \/ Tick

InboundSpec == InboundInit /\ [][InboundNext]_inboundVars

(***************************************************************************)
(* Properties.                                                             *)
(***************************************************************************)

InboundTypeOK ==
  /\ AccountTypeOK
  /\ route \in [composeCaller : ComposeCallers, zenOft : ZenOfts, srcEid : SrcEids]
  /\ stLighter \in StLighters /\ paused \in BOOLEAN
  /\ nonceBitmap \subseteq Owners \X Nat
  /\ nonces \in [Owners -> Nat] /\ vaultNonces \in [Owners -> Nat]
  /\ composes \in [Deliveries -> Nat]
  /\ arrivals \in Nat /\ now \in Nat /\ swept \in Nat
  /\ everCredited \in [Owners -> Nat]

\* The most that o ever signed a credit for under a nonce.
LargestCredit(o, n) ==
  Max({0} \cup {m.assets : m \in {msg \in Signed : /\ msg.kind = "credit"
                                              /\ msg.owner = o /\ msg.nonce = n}})

\* A signed credit counts once, however often transfers carry it and composes are
\* retried: nobody is ever credited more than one amount they signed per nonce.
CreditedAsSigned ==
  \A o \in Owners :
    everCredited[o] <= SumFunctionOnSet([n \in CreditNonces |-> LargestCredit(o, n)],
                                        {n \in CreditNonces : <<o, n>> \in nonceBitmap})

\* The tokens of every compose in the queue wait for it: credits, deposits,
\* withdrawals and other composes, in whatever order, leave them alone.  Only a
\* sweep by governance can take them, and no more than it took is ever missing.
ComposesAreFunded ==
  float + swept >= SumFunctionOnSet([c \in Deliveries |-> c.amount * composes[c]], Deliveries)

\* As long as governance has not swept, a compose that is signed, in time and not
\* yet used can be executed, whatever happened before it.
ComposeNeverBlocked ==
  swept = 0 => \A c \in Deliveries : composes[c] > 0 /\ Acceptable(c) => ENABLED LzCompose(c)

\* Whoever's credit shrinks signed for it, in time and for that amount, and one of
\* their two nonces is used in the same step.
SignedDebit(o) ==
  credited'[o] < credited[o] =>
    /\ nonces'[o] + vaultNonces'[o] = nonces[o] + vaultNonces[o] + 1
    /\ \E m \in Signed : /\ m.owner = o /\ m.assets = credited[o] - credited'[o]
                         /\ now <= m.deadline

\* A credit shrinks only by a message its owner signed: the vault's deposit or a
\* withdrawal, once.
CreditNeedsSignature == [][\A o \in Owners : SignedDebit(o)]_inboundVars
=============================================================================
