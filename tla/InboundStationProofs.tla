------------------------ MODULE InboundStationProofs ------------------------
(***************************************************************************)
(* What holds of InboundStation for every value of its constants.          *)
(***************************************************************************)
EXTENDS InboundStation, ArithmeticLemmas

(***************************************************************************)
(* The inductive invariant: that what is assigned is held keeps the        *)
(* balance from going below zero, and that governance has swept what is    *)
(* unassigned does the same for what it puts back.                         *)
(***************************************************************************)

IInv == InboundTypeOK /\ Solvent /\ unassigned <= swept

LEMMA InitIInv == ASSUME InboundInit PROVE IInv
<1>1. AccountTypeOK /\ Solvent /\ unassigned <= swept
  BY DEF InboundInit, AccountInit, AccountTypeOK, Solvent
<1>2. composes \in [Deliveries -> Nat] /\ everCredited \in [Owners -> Nat]
  BY DEF InboundInit
<1>3. nonces \in [Owners -> Nat] /\ vaultNonces \in [Owners -> Nat]
  BY DEF InboundInit
<1>4. QED
  BY <1>1, <1>2, <1>3, InboundAssumption DEF InboundInit, IInv, InboundTypeOK

\* A credit keeps the account's types, given that the balance it is checked against
\* is a balance.
LEMMA CreditKeeps ==
  ASSUME IInv, NEW owner \in Owners, NEW amount \in Nat, held' \in Nat, Credit(owner, amount)
  PROVE  AccountTypeOK' /\ Solvent' /\ unassigned' = unassigned
BY DEF IInv, InboundTypeOK, AccountTypeOK, Solvent, Credit

\* A debit followed by the transfer of the same amount, possibly to the station.
LEMMA DebitKeeps ==
  ASSUME IInv, NEW owner \in Owners, NEW amount \in Nat, Debit(owner, amount),
         held >= amount, held' = held - amount \/ held' = held
  PROVE  AccountTypeOK' /\ Solvent' /\ unassigned' = unassigned
BY DEF IInv, InboundTypeOK, AccountTypeOK, Solvent, Debit

\* What is left alone keeps its type.
LEMMA SettingsKeep ==
  ASSUME IInv, UNCHANGED settingVars
  PROVE  /\ route' \in [composeCaller : ComposeCallers, zenOft : ZenOfts, srcEid : SrcEids]
         /\ stLighter' \in StLighters /\ paused' \in BOOLEAN
BY DEF IInv, InboundTypeOK, settingVars

LEMMA ArriveKeeps ==
  ASSUME IInv, NEW c \in Deliveries, Arrive(c)
  PROVE  IInv'
<1>1. c.amount \in Nat
  BY InboundAssumption DEF Deliveries
<1>2. composes' \in [Deliveries -> Nat]
  BY DEF Arrive, IInv, InboundTypeOK
<1>3. AccountTypeOK' /\ Solvent' /\ unassigned' <= swept'
  BY <1>1 DEF Arrive, IInv, InboundTypeOK, AccountTypeOK, Solvent, historyVars
<1>4. QED
  BY <1>2, <1>3, SettingsKeep DEF Arrive, IInv, InboundTypeOK, nonceVars, historyVars

LEMMA DonateKeeps ==
  ASSUME IInv, NEW amount \in Amounts, Donate(amount)
  PROVE  IInv'
<1>1. amount \in Nat
  BY InboundAssumption
<1>2. AccountTypeOK' /\ Solvent' /\ unassigned' <= swept'
  BY <1>1 DEF Donate, IInv, InboundTypeOK, AccountTypeOK, Solvent, historyVars
<1>3. QED
  BY <1>2, SettingsKeep DEF Donate, IInv, InboundTypeOK, nonceVars, historyVars

LEMMA LzComposeKeeps ==
  ASSUME IInv, NEW c \in Deliveries, LzCompose(c)
  PROVE  IInv'
<1> DEFINE owner == c.payload.owner
<1>1. /\ owner \in Owners /\ c.payload.nonce \in Nat
      /\ c.amount \in Nat
  BY InboundAssumption DEF Deliveries, Message
<1>2. AccountTypeOK' /\ Solvent' /\ unassigned' = unassigned
  <2>1. held' \in Nat /\ Credit(owner, c.amount)
    BY DEF LzCompose, IInv, InboundTypeOK, AccountTypeOK
  <2>2. QED
    BY <1>1, <2>1, CreditKeeps
<1>3. composes' \in [Deliveries -> Nat]
  BY DEF LzCompose, IInv, InboundTypeOK
<1>4. nonceBitmap' \subseteq Owners \X Nat
  BY <1>1 DEF LzCompose, UseUnorderedNonce, IInv, InboundTypeOK
<1>5. everCredited' \in [Owners -> Nat]
  BY <1>1 DEF LzCompose, IInv, InboundTypeOK
<1>6. QED
  BY <1>2, <1>3, <1>4, <1>5, SettingsKeep DEF LzCompose, IInv, InboundTypeOK

LEMMA PayForDepositKeeps ==
  ASSUME IInv, NEW m \in Messages, PayForDeposit(m)
  PROVE  IInv'
<1>1. m.owner \in Owners /\ m.assets \in Nat
  BY InboundAssumption DEF Message
<1>2. AccountTypeOK' /\ Solvent' /\ unassigned' = unassigned
  BY <1>1, DebitKeeps DEF PayForDeposit
<1>3. vaultNonces' \in [Owners -> Nat]
  BY <1>1 DEF PayForDeposit, IInv, InboundTypeOK
<1>4. QED
  BY <1>2, <1>3, SettingsKeep DEF PayForDeposit, IInv, InboundTypeOK, lzVars, historyVars

LEMMA WithdrawKeeps ==
  ASSUME IInv, NEW m \in Messages, NEW toSelf \in BOOLEAN, WithdrawToHorizen(m, toSelf)
  PROVE  IInv'
<1>1. m.owner \in Owners /\ m.assets \in Nat
  BY InboundAssumption DEF Message
<1>2. held' = held - m.assets \/ held' = held
  BY DEF WithdrawToHorizen
<1>3. AccountTypeOK' /\ Solvent' /\ unassigned' = unassigned
  BY <1>1, <1>2, DebitKeeps DEF WithdrawToHorizen
<1>4. nonces' \in [Owners -> Nat]
  BY <1>1 DEF WithdrawToHorizen, IInv, InboundTypeOK
<1>5. QED
  BY <1>3, <1>4, SettingsKeep DEF WithdrawToHorizen, IInv, InboundTypeOK, lzVars, historyVars

LEMMA OwnerCallKeeps ==
  ASSUME IInv, NEW owner \in Cancellers, OwnerCall(owner)
  PROVE  IInv'
<1>1. owner \in Owners
  BY InboundAssumption
<1>2. CASE InvalidateNonce(owner)
  <2>1. nonces' \in [Owners -> Nat]
    BY <1>1, <1>2 DEF InvalidateNonce, IInv, InboundTypeOK
  <2>2. QED
    BY <1>2, <2>1, SettingsKeep
    DEF InvalidateNonce, IInv, InboundTypeOK, AccountTypeOK, Solvent, accountVars, lzVars,
        historyVars
<1>3. ASSUME NEW mask \in SUBSET CreditNonces, InvalidateUnorderedNonces(owner, mask)
      PROVE  IInv'
  <2>1. nonceBitmap' \subseteq Owners \X Nat
    BY <1>1, <1>3, InboundAssumption DEF InvalidateUnorderedNonces, IInv, InboundTypeOK
  <2>2. QED
    BY <1>3, <2>1, SettingsKeep
    DEF InvalidateUnorderedNonces, IInv, InboundTypeOK, AccountTypeOK, Solvent, accountVars,
        lzVars, historyVars
<1>4. QED
  BY <1>2, <1>3 DEF OwnerCall

LEMMA SettersKeep ==
  ASSUME IInv, UNCHANGED notSettings,
         route' \in [composeCaller : ComposeCallers, zenOft : ZenOfts, srcEid : SrcEids],
         stLighter' \in StLighters, paused' \in BOOLEAN
  PROVE  IInv'
BY DEF notSettings, IInv, InboundTypeOK, AccountTypeOK, Solvent, accountVars, nonceVars, lzVars,
       historyVars

LEMMA GovernanceCallKeeps ==
  ASSUME IInv, GovernanceCall
  PROVE  IInv'
<1>1. CASE \E caller \in ComposeCallers : SetComposeCaller(caller)
  BY <1>1, SettersKeep DEF SetComposeCaller, IInv, InboundTypeOK
<1>2. CASE \E oft \in ZenOfts : SetZenOft(oft)
  BY <1>2, SettersKeep DEF SetZenOft, IInv, InboundTypeOK
<1>3. CASE \E eid \in SrcEids : SetAllowedSrcEid(eid)
  BY <1>3, SettersKeep DEF SetAllowedSrcEid, IInv, InboundTypeOK
<1>4. CASE \E vault \in StLighters : SetStLighter(vault)
  BY <1>4, SettersKeep DEF SetStLighter, IInv, InboundTypeOK
<1>5. CASE Pause \/ Unpause
  BY <1>5, SettersKeep DEF Pause, Unpause, IInv, InboundTypeOK
<1>6. CASE SweepFloatToUnassigned
  <2>1. float \in Nat
    BY DEF float, IInv, InboundTypeOK, AccountTypeOK
  <2>2. AccountTypeOK' /\ Solvent' /\ swept' \in Nat /\ unassigned' <= swept'
    BY <1>6, <2>1
    DEF SweepFloatToUnassigned, AddUnassigned, IInv, InboundTypeOK, AccountTypeOK, Solvent
  <2>3. QED
    BY <1>6, <2>2, SettingsKeep
    DEF SweepFloatToUnassigned, IInv, InboundTypeOK, nonceVars, lzVars
<1>7. ASSUME NEW amount \in Amounts, NEW toSelf \in BOOLEAN, Rescue(amount, toSelf)
      PROVE  IInv'
  <2>1. amount \in Nat
    BY InboundAssumption
  <2>2. AccountTypeOK' /\ Solvent' /\ swept' \in Nat /\ unassigned' <= swept'
    BY <1>7, <2>1
    DEF Rescue, RescueUnassigned, IInv, InboundTypeOK, AccountTypeOK, Solvent
  <2>3. QED
    BY <1>7, <2>2, SettingsKeep DEF Rescue, IInv, InboundTypeOK, nonceVars, lzVars
<1>8. QED
  BY <1>1, <1>2, <1>3, <1>4, <1>5, <1>6, <1>7 DEF GovernanceCall

LEMMA NextIInv ==
  ASSUME IInv, [InboundNext]_inboundVars
  PROVE  IInv'
<1>1. CASE Tick
  BY <1>1, SettingsKeep, InboundAssumption
  DEF Tick, IInv, InboundTypeOK, AccountTypeOK, Solvent, accountVars, nonceVars, lzVars,
      historyVars
<1>2. CASE UNCHANGED inboundVars
  BY <1>2, SettingsKeep
  DEF inboundVars, IInv, InboundTypeOK, AccountTypeOK, Solvent, accountVars, nonceVars, lzVars,
      historyVars
<1>3. QED
  BY <1>1, <1>2, ArriveKeeps, DonateKeeps, LzComposeKeeps, PayForDepositKeeps, WithdrawKeeps,
     OwnerCallKeeps, GovernanceCallKeeps
  DEF InboundNext

LEMMA AlwaysIInv == InboundSpec => []IInv
BY InitIInv, NextIInv, PTL DEF InboundSpec

\* No credit, nonce or balance of the station goes below zero, and governance puts
\* back no more than it swept.
THEOREM InboundTypeCorrect == InboundSpec => []InboundTypeOK
<1>1. IInv => InboundTypeOK
  BY DEF IInv
<1>2. QED
  BY <1>1, AlwaysIInv, PTL

\* What _assertSolvency checks at credits and sweeps holds after every call, the
\* debits, withdrawals and rescues that do not check it included.
THEOREM InboundAlwaysSolvent == InboundSpec => []Solvent
<1>1. IInv => Solvent
  BY DEF IInv
<1>2. QED
  BY <1>1, AlwaysIInv, PTL

(***************************************************************************)
(* A credit shrinks only by a signed message.                              *)
(***************************************************************************)

\* A debit on a signed message, with one of its owner's two nonces used.
LEMMA DebitIsSigned ==
  ASSUME IInv, NEW o \in Owners, NEW m \in Messages, Authorised(m), Debit(m.owner, m.assets),
         \/ nonces' = [nonces EXCEPT ![m.owner] = @ + 1] /\ vaultNonces' = vaultNonces
         \/ vaultNonces' = [vaultNonces EXCEPT ![m.owner] = @ + 1] /\ nonces' = nonces
  PROVE  SignedDebit(o)
<1>1. m.owner \in Owners /\ m.assets \in Nat /\ m \in Signed /\ now <= m.deadline
  BY InboundAssumption DEF Message, Authorised
<1>2. CASE o = m.owner
  <2>1. credited'[o] = credited[o] - m.assets
    BY <1>1, <1>2 DEF Debit, IInv, InboundTypeOK, AccountTypeOK
  <2>2. m.assets = credited[o] - credited'[o]
    BY <1>1, <1>2, <2>1 DEF IInv, InboundTypeOK, AccountTypeOK
  <2>3. nonces'[o] + vaultNonces'[o] = nonces[o] + vaultNonces[o] + 1
    BY <1>1, <1>2 DEF IInv, InboundTypeOK
  <2>4. QED
    BY <1>1, <1>2, <2>2, <2>3 DEF SignedDebit
<1>3. CASE o # m.owner
  BY <1>1, <1>3 DEF Debit, IInv, InboundTypeOK, AccountTypeOK, SignedDebit
<1>4. QED
  BY <1>2, <1>3

\* A credit is no debit.
LEMMA CreditIsNoDebit ==
  ASSUME IInv, NEW o \in Owners, NEW owner \in Owners, NEW amount \in Nat, Credit(owner, amount)
  PROVE  SignedDebit(o)
BY DEF Credit, IInv, InboundTypeOK, AccountTypeOK, SignedDebit

LEMMA CreditsKeptIsNoDebit ==
  ASSUME IInv, NEW o \in Owners, UNCHANGED credited
  PROVE  SignedDebit(o)
BY DEF IInv, InboundTypeOK, AccountTypeOK, SignedDebit

LEMMA NextSigned ==
  ASSUME IInv, NEW o \in Owners, [InboundNext]_inboundVars
  PROVE  SignedDebit(o)
<1>1. ASSUME NEW c \in Deliveries, LzCompose(c)
      PROVE  SignedDebit(o)
  <2>1. c.payload.owner \in Owners /\ c.amount \in Nat
    BY InboundAssumption DEF Deliveries, Message
  <2>2. QED
    BY <1>1, <2>1, CreditIsNoDebit DEF LzCompose
<1>2. ASSUME NEW m \in Messages, PayForDeposit(m)
      PROVE  SignedDebit(o)
  BY <1>2, DebitIsSigned DEF PayForDeposit
<1>3. ASSUME NEW m \in Messages, NEW toSelf \in BOOLEAN, WithdrawToHorizen(m, toSelf)
      PROVE  SignedDebit(o)
  BY <1>3, DebitIsSigned DEF WithdrawToHorizen
<1>4. CASE UNCHANGED inboundVars
  BY <1>4, CreditsKeptIsNoDebit DEF inboundVars, accountVars
<1>5. CASE Tick
  BY <1>5, CreditsKeptIsNoDebit DEF Tick, accountVars
<1>6. CASE GovernanceCall
  BY <1>6, CreditsKeptIsNoDebit
  DEF GovernanceCall, SetComposeCaller, SetZenOft, SetAllowedSrcEid, SetStLighter, Pause, Unpause,
      SweepFloatToUnassigned, AddUnassigned, Rescue, RescueUnassigned, notSettings, accountVars
<1>7. ASSUME NEW owner \in Cancellers, OwnerCall(owner)
      PROVE  SignedDebit(o)
  BY <1>7, CreditsKeptIsNoDebit
  DEF OwnerCall, InvalidateNonce, InvalidateUnorderedNonces, accountVars
<1>8. CASE (\E c \in Deliveries : Arrive(c)) \/ (\E amount \in Amounts : Donate(amount))
  BY <1>8, CreditsKeptIsNoDebit DEF Arrive, Donate
<1>9. QED
  BY <1>1, <1>2, <1>3, <1>4, <1>5, <1>6, <1>7, <1>8 DEF InboundNext

\* A credit shrinks only by a message its owner signed and in time, and one nonce of
\* that owner is used in the same step.
THEOREM InboundCreditNeedsSignature == InboundSpec => CreditNeedsSignature
<1>1. ASSUME IInv, [InboundNext]_inboundVars
      PROVE  \A o \in Owners : SignedDebit(o)
  BY <1>1, NextSigned
<1>2. QED
  BY <1>1, AlwaysIInv, PTL DEF InboundSpec, CreditNeedsSignature

(***************************************************************************)
(* The running sum is the sum of the credits.                              *)
(***************************************************************************)

TotalIsSum == totalCredited = SumFunctionOnSet(credited, Owners)

LEMMA CreditKeepsTotal ==
  ASSUME IInv, TotalIsSum, NEW owner \in Owners, NEW amount \in Nat, Credit(owner, amount)
  PROVE  TotalIsSum'
<1>1. credited \in [Owners -> Int] /\ amount \in Int
  BY DEF IInv, InboundTypeOK, AccountTypeOK
<1>2. SumFunctionOnSet([credited EXCEPT ![owner] = @ + amount], Owners)
        = SumFunctionOnSet(credited, Owners) + amount
  BY <1>1, SumCredited, OwnersFinite
<1>3. QED
  BY <1>2 DEF Credit, TotalIsSum

LEMMA DebitKeepsTotal ==
  ASSUME IInv, TotalIsSum, NEW owner \in Owners, NEW amount \in Nat, Debit(owner, amount)
  PROVE  TotalIsSum'
<1>1. credited \in [Owners -> Int] /\ amount \in Int
  BY DEF IInv, InboundTypeOK, AccountTypeOK
<1>2. SumFunctionOnSet([credited EXCEPT ![owner] = @ - amount], Owners)
        = SumFunctionOnSet(credited, Owners) - amount
  BY <1>1, SumDebited, OwnersFinite
<1>3. QED
  BY <1>2 DEF Debit, TotalIsSum

LEMMA InitTotal == ASSUME InboundInit PROVE TotalIsSum
<1>1. \A o \in Owners : credited[o] = 0
  BY DEF InboundInit, AccountInit
<1>2. QED
  BY <1>1, SumZero, OwnersFinite DEF InboundInit, AccountInit, TotalIsSum

LEMMA NextTotal ==
  ASSUME IInv, TotalIsSum, [InboundNext]_inboundVars
  PROVE  TotalIsSum'
<1>1. ASSUME NEW c \in Deliveries, LzCompose(c)
      PROVE  TotalIsSum'
  <2>1. c.payload.owner \in Owners /\ c.amount \in Nat
    BY InboundAssumption DEF Deliveries, Message
  <2>2. QED
    BY <1>1, <2>1, CreditKeepsTotal DEF LzCompose
<1>2. ASSUME NEW m \in Messages, NEW toSelf \in BOOLEAN,
             PayForDeposit(m) \/ WithdrawToHorizen(m, toSelf)
      PROVE  TotalIsSum'
  <2>1. m.owner \in Owners /\ m.assets \in Nat
    BY InboundAssumption DEF Message
  <2>2. QED
    BY <1>2, <2>1, DebitKeepsTotal DEF PayForDeposit, WithdrawToHorizen
<1>3. CASE UNCHANGED <<credited, totalCredited>>
  BY <1>3 DEF TotalIsSum
<1>4. CASE UNCHANGED inboundVars \/ Tick \/ \E owner \in Cancellers : OwnerCall(owner)
  BY <1>3, <1>4
  DEF inboundVars, Tick, OwnerCall, InvalidateNonce, InvalidateUnorderedNonces, accountVars
<1>5. CASE (\E c \in Deliveries : Arrive(c)) \/ (\E amount \in Amounts : Donate(amount))
  BY <1>3, <1>5 DEF Arrive, Donate
<1>6. CASE GovernanceCall
  BY <1>3, <1>6
  DEF GovernanceCall, SetComposeCaller, SetZenOft, SetAllowedSrcEid, SetStLighter, Pause, Unpause,
      SweepFloatToUnassigned, AddUnassigned, Rescue, RescueUnassigned, notSettings, accountVars
<1>7. QED
  BY <1>1, <1>2, <1>4, <1>5, <1>6 DEF InboundNext

\* What is credited is covered by what is held, with the contract's running sum being
\* the sum of the credits: every owner can be paid, all at once.
THEOREM InboundCreditsCovered == InboundSpec => []CreditsCovered
<1>1. IInv /\ TotalIsSum => CreditsCovered
  BY DEF IInv, TotalIsSum, CreditsCovered
<1>2. InboundSpec => []TotalIsSum
  BY InitTotal, NextTotal, AlwaysIInv, PTL DEF InboundSpec
<1>3. QED
  BY <1>1, <1>2, AlwaysIInv, PTL

(***************************************************************************)
(* The tokens of the composes in the queue.                                *)
(***************************************************************************)

\* Of finitely many messages and amounts, there are finitely many deliveries.
LEMMA DeliveriesFinite == IsFiniteSet(Deliveries)
<1> DEFINE Pairs == Messages \X Amounts
           pair  == [c \in Deliveries |-> <<c.payload, c.amount>>]
<1>1. IsFiniteSet(Pairs)
  BY FS_Product, InboundAssumption
<1>2. pair \in [Deliveries -> Pairs]
  BY DEF Deliveries
<1>3. \A c, d \in Deliveries : pair[c] = pair[d] => c = d
  BY DEF Deliveries
<1>4. pair \in Injection(Deliveries, Pairs)
  BY <1>2, <1>3 DEF Injection, IsInjective
<1>5. QED
  BY <1>1, <1>4, FS_Injection

\* What the composes of a queue are waiting for.
FundsOf(queue) == SumFunctionOnSet([c \in Deliveries |-> c.amount * queue[c]], Deliveries)

LEMMA AmountTypes ==
  ASSUME NEW queue \in [Deliveries -> Nat]
  PROVE  \A c \in Deliveries : c.amount \in Nat /\ c.amount * queue[c] \in Nat
<1>1. \A c \in Deliveries : c.amount \in Nat /\ queue[c] \in Nat
  BY InboundAssumption DEF Deliveries
<1>2. QED
  BY <1>1, MulNat

\* One compose more or less in the queue is its amount more or less to be funded.
LEMMA QueueChange ==
  ASSUME NEW queue \in [Deliveries -> Nat], NEW rest \in [Deliveries -> Nat],
         NEW c \in Deliveries, NEW k \in {1, -1}, rest = [queue EXCEPT ![c] = @ + k]
  PROVE  FundsOf(queue) \in Nat /\ FundsOf(rest) = FundsOf(queue) + k * c.amount
<1> DEFINE f == [d \in Deliveries |-> d.amount * queue[d]]
           g == [d \in Deliveries |-> d.amount * rest[d]]
<1>1. (\A d \in Deliveries : f[d] \in Nat) /\ (\A d \in Deliveries : g[d] \in Nat)
  BY AmountTypes
<1>2. SumFunctionOnSet(f, Deliveries) \in Nat
  <2> HIDE DEF f
  <2>1. QED
    BY <1>1, SumNat, DeliveriesFinite
<1>3. SumFunctionOnSet(g, Deliveries) = SumFunctionOnSet(f, Deliveries) - f[c] + g[c]
  <2>1. \A d \in Deliveries \ {c} : f[d] = g[d]
    OBVIOUS
  <2> HIDE DEF f, g
  <2>2. QED
    BY <1>1, <2>1, SumChange, DeliveriesFinite
<1>4. f[c] \in Nat /\ g[c] = f[c] + k * c.amount /\ k * c.amount \in Int
  <2>1. c.amount \in Nat /\ queue[c] \in Nat /\ rest[c] = queue[c] + k
    BY InboundAssumption DEF Deliveries
  <2>2. c.amount * (queue[c] + k) = c.amount * queue[c] + k * c.amount
    BY <2>1
  <2>3. QED
    BY <1>1, <2>1, <2>2
<1>5. /\ FundsOf(queue) = SumFunctionOnSet(f, Deliveries)
      /\ FundsOf(rest) = SumFunctionOnSet(g, Deliveries)
  BY DEF FundsOf
<1> HIDE DEF f, g
<1>6. QED
  BY <1>2, <1>3, <1>4, <1>5

\* float, without its case distinction, while the station is solvent.
LEMMA FloatIs ==
  ASSUME IInv
  PROVE  /\ held \in Nat /\ totalCredited \in Int /\ unassigned \in Nat
         /\ float = held - (totalCredited + unassigned) /\ float \in Nat
BY DEF float, IInv, InboundTypeOK, AccountTypeOK, Solvent

LEMMA FreeWhileSolvent ==
  ASSUME NEW h \in Nat, NEW t \in Int, NEW u \in Nat, t + u <= h
  PROVE  (IF h > t + u THEN h - (t + u) ELSE 0) = h - (t + u)
OBVIOUS

LEMMA FloatIsPrimed ==
  ASSUME IInv'
  PROVE  /\ held' \in Nat /\ totalCredited' \in Int /\ unassigned' \in Nat
         /\ float' = held' - (totalCredited' + unassigned')
<1>1. /\ held' \in Nat /\ totalCredited' \in Int /\ unassigned' \in Nat
      /\ totalCredited' + unassigned' <= held'
  BY DEF IInv, InboundTypeOK, AccountTypeOK, Solvent
<1>2. float' = IF held' > totalCredited' + unassigned'
                 THEN held' - (totalCredited' + unassigned')
                 ELSE 0
  BY DEF float
<1>3. QED
  BY <1>1, <1>2, FreeWhileSolvent, Zenon

LEMMA InitFunded == ASSUME InboundInit PROVE ComposesAreFunded
<1>1. ASSUME NEW c \in Deliveries PROVE c.amount * composes[c] = 0
  <2>1. c.amount \in Nat /\ composes[c] = 0
    BY InboundAssumption DEF InboundInit, Deliveries
  <2>2. QED
    BY <2>1
<1>2. SumFunctionOnSet([c \in Deliveries |-> c.amount * composes[c]], Deliveries) = 0
  BY <1>1, SumZero, DeliveriesFinite
<1>3. float = 0 /\ swept = 0
  BY DEF InboundInit, AccountInit, float
<1>4. QED
  BY <1>2, <1>3 DEF ComposesAreFunded

\* A step that leaves the queue alone and takes no float it does not account for.
LEMMA FloatKept ==
  ASSUME IInv, IInv', ComposesAreFunded, UNCHANGED composes,
         held' - (totalCredited' + unassigned') + swept'
           >= held - (totalCredited + unassigned) + swept
  PROVE  ComposesAreFunded'
<1>1. composes \in [Deliveries -> Nat]
  BY DEF IInv, InboundTypeOK
<1>2. FundsOf(composes) \in Nat
  <2>1. \A c \in Deliveries : [d \in Deliveries |-> d.amount * composes[d]][c] \in Nat
    BY <1>1, AmountTypes
  <2>2. QED
    BY <2>1, SumNat, DeliveriesFinite DEF FundsOf
<1>3. float + swept >= FundsOf(composes)
  BY DEF ComposesAreFunded, FundsOf
<1>4. swept \in Nat /\ swept' \in Nat
  BY DEF IInv, InboundTypeOK
<1>5. float' + swept' >= FundsOf(composes)
  BY <1>2, <1>3, <1>4, FloatIs, FloatIsPrimed
<1>6. QED
  BY <1>5 DEF ComposesAreFunded, FundsOf

LEMMA ArriveFunded ==
  ASSUME IInv, IInv', ComposesAreFunded, NEW c \in Deliveries, Arrive(c) \/ LzCompose(c)
  PROVE  ComposesAreFunded'
<1>1. composes \in [Deliveries -> Nat] /\ composes' \in [Deliveries -> Nat] /\ c.amount \in Nat
  BY AmountTypes DEF IInv, InboundTypeOK
<1>2. float + swept >= FundsOf(composes)
  BY DEF ComposesAreFunded, FundsOf
<1>3. CASE Arrive(c)
  <2>1. composes' = [composes EXCEPT ![c] = @ + 1]
    BY <1>3 DEF Arrive
  <2>2. FundsOf(composes) \in Nat /\ FundsOf(composes') = FundsOf(composes) + 1 * c.amount
    BY <1>1, <2>1, QueueChange
  <2>3. /\ held' = held + c.amount /\ totalCredited' = totalCredited
        /\ unassigned' = unassigned /\ swept' = swept
    BY <1>3 DEF Arrive, historyVars
  <2>4. float' + swept' >= FundsOf(composes')
    BY <1>1, <1>2, <2>2, <2>3, FloatIs, FloatIsPrimed DEF IInv, InboundTypeOK, AccountTypeOK
  <2>5. QED
    BY <2>4 DEF ComposesAreFunded, FundsOf
<1>4. CASE LzCompose(c)
  <2>1. composes' = [composes EXCEPT ![c] = @ + (-1)]
    BY <1>1, <1>4 DEF LzCompose
  <2>2. FundsOf(composes) \in Nat /\ FundsOf(composes') = FundsOf(composes) + (-1) * c.amount
    BY <1>1, <2>1, QueueChange
  <2>3. /\ held' = held /\ totalCredited' = totalCredited + c.amount
        /\ unassigned' = unassigned /\ swept' = swept
    BY <1>4 DEF LzCompose, Credit
  <2>4. float' + swept' >= FundsOf(composes')
    BY <1>1, <1>2, <2>2, <2>3, FloatIs, FloatIsPrimed DEF IInv, InboundTypeOK, AccountTypeOK
  <2>5. QED
    BY <2>4 DEF ComposesAreFunded, FundsOf
<1>5. QED
  BY <1>3, <1>4

LEMMA NextFunded ==
  ASSUME IInv, IInv', ComposesAreFunded, [InboundNext]_inboundVars
  PROVE  ComposesAreFunded'
<1> USE DEF IInv, InboundTypeOK, AccountTypeOK
<1>1. ASSUME NEW amount \in Amounts, Donate(amount)
      PROVE  ComposesAreFunded'
  <2>1. amount \in Nat
    BY InboundAssumption
  <2>2. QED
    BY <1>1, <2>1, FloatKept DEF Donate, historyVars
<1>2. ASSUME NEW m \in Messages, NEW toSelf \in BOOLEAN,
             PayForDeposit(m) \/ WithdrawToHorizen(m, toSelf)
      PROVE  ComposesAreFunded'
  <2>1. m.assets \in Nat
    BY InboundAssumption DEF Message
  <2>2. /\ totalCredited' = totalCredited - m.assets
        /\ unassigned' = unassigned /\ held' \in {held, held - m.assets}
        /\ composes' = composes /\ swept' = swept
    BY <1>2 DEF PayForDeposit, WithdrawToHorizen, Debit, lzVars, historyVars
  <2>3. QED
    BY <2>1, <2>2, FloatKept
<1>3. CASE UNCHANGED <<accountVars, composes, swept>>
  BY <1>3, FloatKept DEF accountVars
<1>4. CASE UNCHANGED inboundVars \/ Tick \/ \E owner \in Cancellers : OwnerCall(owner)
  BY <1>3, <1>4
  DEF inboundVars, Tick, OwnerCall, InvalidateNonce, InvalidateUnorderedNonces, lzVars, historyVars
<1>5. CASE SweepFloatToUnassigned
  BY <1>5, FloatIs, FloatKept DEF SweepFloatToUnassigned, AddUnassigned, lzVars
<1>6. ASSUME NEW amount \in Amounts, NEW toSelf \in BOOLEAN, Rescue(amount, toSelf)
      PROVE  ComposesAreFunded'
  <2>1. amount \in Nat
    BY InboundAssumption
  <2>2. QED
    BY <1>6, <2>1, FloatKept DEF Rescue, RescueUnassigned, lzVars
<1>7. CASE GovernanceCall
  BY <1>3, <1>5, <1>6, <1>7
  DEF GovernanceCall, SetComposeCaller, SetZenOft, SetAllowedSrcEid, SetStLighter, Pause, Unpause,
      notSettings, lzVars, historyVars
<1>8. QED
  BY <1>1, <1>2, <1>4, <1>7, ArriveFunded DEF InboundNext

\* Every compose in the queue finds its tokens: no credit, deposit, withdrawal or other
\* compose takes them, and a sweep no more than what it is recorded to have taken.
THEOREM InboundComposesAreFunded == InboundSpec => []ComposesAreFunded
<1>1. IInv /\ IInv' /\ ComposesAreFunded /\ [InboundNext]_inboundVars => ComposesAreFunded'
  BY NextFunded
<1>2. QED
  BY <1>1, InitFunded, AlwaysIInv, PTL DEF InboundSpec

(***************************************************************************)
(* Executing a compose.  The condition under which it goes through is      *)
(* stated by itself: the step is that condition and one value for each     *)
(* variable.                                                               *)
(***************************************************************************)

ComposeAllowed(c) ==
  /\ Acceptable(c)
  /\ composes[c] > 0
  /\ c.amount # 0
  /\ totalCredited + c.amount + unassigned <= held

ComposeSets(c) ==
  LET owner == c.payload.owner IN
  /\ nonceBitmap' = nonceBitmap \cup {<<owner, c.payload.nonce>>}
  /\ held' = held
  /\ credited' = [credited EXCEPT ![owner] = @ + c.amount]
  /\ totalCredited' = totalCredited + c.amount
  /\ unassigned' = unassigned
  /\ composes' = [composes EXCEPT ![c] = @ - 1]
  /\ everCredited' = [everCredited EXCEPT ![owner] = @ + c.amount]
  /\ UNCHANGED <<settingVars, nonces, vaultNonces, arrivals, swept, now>>

LEMMA LzComposeIs ==
  ASSUME NEW c
  PROVE  LzCompose(c) <=> ComposeAllowed(c) /\ ComposeSets(c)
<1>1. /\ totalCredited' = totalCredited + c.amount /\ unassigned' = unassigned /\ held' = held
      => (Solvent' <=> totalCredited + c.amount + unassigned <= held)
  BY DEF Solvent
<1>2. QED
  BY <1>1 DEF LzCompose, UseUnorderedNonce, Credit, Acceptable, ComposeAllowed, ComposeSets

ComposeIsOpen ==
  swept = 0 => \A c \in Deliveries : composes[c] > 0 /\ Acceptable(c) => ComposeAllowed(c)

LEMMA ComposeStaysOpen == IInv /\ ComposesAreFunded => ComposeIsOpen
<1> SUFFICES ASSUME IInv, ComposesAreFunded, swept = 0, NEW c \in Deliveries,
                    composes[c] > 0, Acceptable(c)
             PROVE  ComposeAllowed(c)
  BY DEF ComposeIsOpen
<1> DEFINE f == [d \in Deliveries |-> d.amount * composes[d]]
<1>1. /\ \A d \in Deliveries : d.amount \in Nat \ {0} /\ composes[d] \in Nat
      /\ totalCredited \in Int /\ unassigned \in Nat /\ held \in Nat
  BY InboundAssumption DEF IInv, InboundTypeOK, AccountTypeOK, Deliveries
<1>2. \A d \in Deliveries : f[d] \in Nat
  BY <1>1, MulNat
<1>3. f[c] = c.amount * composes[c]
  OBVIOUS
<1>4. IsFiniteSet(Deliveries)
  BY DeliveriesFinite
<1>5. float + swept >= SumFunctionOnSet(f, Deliveries)
  BY DEF ComposesAreFunded
<1> HIDE DEF f
<1>6. f[c] <= SumFunctionOnSet(f, Deliveries) /\ SumFunctionOnSet(f, Deliveries) \in Nat
  BY <1>2, <1>4, EntryAtMostSum, SumNat
<1>7. c.amount <= f[c]
  <2>1. c.amount * 1 <= c.amount * composes[c]
    BY <1>1, MulMonotone
  <2>2. QED
    BY <1>1, <1>3, <2>1
<1>8. float \in Nat /\ c.amount <= float
  BY <1>1, <1>2, <1>5, <1>6, <1>7 DEF float
<1>9. totalCredited + c.amount + unassigned <= held
  BY <1>1, <1>8 DEF float
<1>10. QED
  BY <1>1, <1>9 DEF ComposeAllowed

\* Until governance sweeps, a compose that is signed, in time and whose nonce is not
\* used goes through: the tokens it was sent with are still float, so its credit leaves
\* the station solvent (ComposeNeverBlocked, without ENABLED).
THEOREM ComposeAlwaysOpen == InboundSpec => []ComposeIsOpen
BY ComposeStaysOpen, AlwaysIInv, InboundComposesAreFunded, PTL

(***************************************************************************)
(* A signed credit counts once.                                            *)
(***************************************************************************)

SignedCredits(o, n) == {m \in Signed : m.kind = "credit" /\ m.owner = o /\ m.nonce = n}

\* The largest of an owner's credits under a nonce bounds each of them.
LEMMA LargestCreditIs ==
  ASSUME NEW o, NEW n
  PROVE  /\ LargestCredit(o, n) \in Nat
         /\ \A m \in SignedCredits(o, n) : m.assets <= LargestCredit(o, n)
<1> DEFINE S == {m.assets : m \in SignedCredits(o, n)}
           assets == [m \in SignedCredits(o, n) |-> m.assets]
<1>1. IsFiniteSet(SignedCredits(o, n))
  BY InboundAssumption, FS_Subset DEF SignedCredits
<1>2. assets \in Surjection(SignedCredits(o, n), S)
  BY DEF Surjection
<1>3. IsFiniteSet(S)
  BY <1>1, <1>2, FS_Surjection
<1>4. IsFiniteSet({0} \cup S)
  BY <1>3, FS_Singleton, FS_Union
<1>5. {0} \cup S \in SUBSET Nat /\ {0} \cup S # {}
  BY InboundAssumption DEF SignedCredits, Message
<1>6. LargestCredit(o, n) = Max({0} \cup S)
  BY DEF LargestCredit, SignedCredits
<1>7. \A m \in SignedCredits(o, n) : m.assets \in {0} \cup S
  OBVIOUS
<1> HIDE DEF S
<1>8. QED
  BY <1>4, <1>5, <1>6, <1>7, MaxIsLargest

UsedBy(o, used) == {n \in CreditNonces : <<o, n>> \in used}

\* What an owner signed at most under the used nonces.
SignedFor(o, used) ==
  SumFunctionOnSet([n \in CreditNonces |-> LargestCredit(o, n)], UsedBy(o, used))

LEMMA UsedByIs ==
  ASSUME NEW o, NEW used
  PROVE  /\ UsedBy(o, used) \subseteq CreditNonces /\ IsFiniteSet(UsedBy(o, used))
         /\ \A n \in UsedBy(o, used) : [k \in CreditNonces |-> LargestCredit(o, k)][n] \in Nat
         /\ SignedFor(o, used) \in Nat
<1>1. UsedBy(o, used) \subseteq CreditNonces /\ IsFiniteSet(UsedBy(o, used))
  BY InboundAssumption, FS_Subset DEF UsedBy
<1>2. \A n \in UsedBy(o, used) : [k \in CreditNonces |-> LargestCredit(o, k)][n] \in Nat
  BY <1>1, LargestCreditIs
<1>3. SignedFor(o, used) \in Nat
  BY <1>1, <1>2, SumNat DEF SignedFor
<1>4. QED
  BY <1>1, <1>2, <1>3

\* Nonces only get used, and what is signed under them only grows.
LEMMA SignedForGrows ==
  ASSUME NEW o, NEW used, NEW more, used \subseteq more
  PROVE  SignedFor(o, used) <= SignedFor(o, more)
<1>1. UsedBy(o, used) \in SUBSET UsedBy(o, more)
  BY DEF UsedBy
<1>2. QED
  BY <1>1, UsedByIs, SumSubset DEF SignedFor

LEMMA SignedForUse ==
  ASSUME NEW o, NEW used, NEW n \in CreditNonces, <<o, n>> \notin used
  PROVE  SignedFor(o, used \cup {<<o, n>>}) = LargestCredit(o, n) + SignedFor(o, used)
<1> DEFINE more == used \cup {<<o, n>>}
           f == [k \in CreditNonces |-> LargestCredit(o, k)]
<1>1. n \in UsedBy(o, more) /\ UsedBy(o, more) \ {n} = UsedBy(o, used)
  BY DEF UsedBy
<1>2. IsFiniteSet(UsedBy(o, more)) /\ \A k \in UsedBy(o, more) : f[k] \in Int
  BY UsedByIs
<1>3. f[n] = LargestCredit(o, n)
  OBVIOUS
<1>4. SignedFor(o, more) = SumFunctionOnSet(f, UsedBy(o, more))
  BY DEF SignedFor
<1>5. SignedFor(o, used) = SumFunctionOnSet(f, UsedBy(o, used))
  BY DEF SignedFor
<1> HIDE DEF f, more
<1>6. SumFunctionOnSet(f, UsedBy(o, more)) = f[n] + SumFunctionOnSet(f, UsedBy(o, more) \ {n})
  BY <1>1, <1>2, SumRemove
<1>7. QED
  BY <1>1, <1>3, <1>4, <1>5, <1>6 DEF more

CreditedIs == \A o \in Owners : everCredited[o] <= SignedFor(o, nonceBitmap)

LEMMA CreditedIsAsSigned == CreditedIs <=> CreditedAsSigned
BY DEF CreditedIs, CreditedAsSigned, SignedFor, UsedBy

LEMMA InitCredited == ASSUME InboundInit PROVE CreditedIs
<1>1. \A o \in Owners : everCredited[o] = 0 /\ SignedFor(o, nonceBitmap) \in Nat
  BY UsedByIs DEF InboundInit
<1>2. QED
  BY <1>1 DEF CreditedIs

\* A step that credits nobody.
LEMMA CreditedKept ==
  ASSUME IInv, CreditedIs, UNCHANGED everCredited, nonceBitmap \subseteq nonceBitmap'
  PROVE  CreditedIs'
<1>1. ASSUME NEW o \in Owners
      PROVE  everCredited[o] <= SignedFor(o, nonceBitmap')
  <2>1. SignedFor(o, nonceBitmap) <= SignedFor(o, nonceBitmap')
    BY SignedForGrows
  <2>2. /\ SignedFor(o, nonceBitmap) \in Nat /\ SignedFor(o, nonceBitmap') \in Nat
        /\ everCredited[o] \in Nat
    BY UsedByIs DEF IInv, InboundTypeOK
  <2>3. QED
    BY <2>1, <2>2 DEF CreditedIs
<1>2. QED
  BY <1>1 DEF CreditedIs

LEMMA ComposeCredited ==
  ASSUME IInv, CreditedIs, NEW c \in Deliveries, LzCompose(c)
  PROVE  CreditedIs'
<1> DEFINE owner == c.payload.owner
           nonce == c.payload.nonce
<1>1. /\ owner \in Owners /\ nonce \in CreditNonces /\ c.amount \in Nat
      /\ c.payload \in SignedCredits(owner, nonce) /\ c.payload.assets = c.amount
  BY InboundAssumption DEF Deliveries, Message, LzCompose, Acceptable, Authorised, SignedCredits
<1>2. /\ <<owner, nonce>> \notin nonceBitmap
      /\ nonceBitmap' = nonceBitmap \cup {<<owner, nonce>>}
      /\ everCredited' = [everCredited EXCEPT ![owner] = @ + c.amount]
  BY DEF LzCompose, UseUnorderedNonce
<1> HIDE DEF owner, nonce
<1>3. ASSUME NEW o \in Owners
      PROVE  everCredited'[o] <= SignedFor(o, nonceBitmap')
  <2>1. /\ everCredited[o] <= SignedFor(o, nonceBitmap) /\ everCredited[o] \in Nat
        /\ SignedFor(o, nonceBitmap) \in Nat /\ SignedFor(o, nonceBitmap') \in Nat
    BY UsedByIs DEF CreditedIs, IInv, InboundTypeOK
  <2>2. CASE o = owner
    <3>1. everCredited'[o] = everCredited[o] + c.amount
      BY <1>1, <1>2, <2>2 DEF IInv, InboundTypeOK
    <3>2. c.amount <= LargestCredit(o, nonce) /\ LargestCredit(o, nonce) \in Nat
      BY <1>1, <2>2, LargestCreditIs
    <3>3. SignedFor(o, nonceBitmap') = LargestCredit(o, nonce) + SignedFor(o, nonceBitmap)
      BY <1>1, <1>2, <2>2, SignedForUse
    <3>4. QED
      BY <1>1, <2>1, <3>1, <3>2, <3>3
  <2>3. CASE o # owner
    <3>1. everCredited'[o] = everCredited[o]
      BY <1>2, <2>3 DEF IInv, InboundTypeOK
    <3>2. SignedFor(o, nonceBitmap) <= SignedFor(o, nonceBitmap')
      BY <1>2, SignedForGrows
    <3>3. QED
      BY <2>1, <3>1, <3>2
  <2>4. QED
    BY <2>2, <2>3
<1>4. QED
  BY <1>3 DEF CreditedIs

LEMMA NextCredited ==
  ASSUME IInv, CreditedIs, [InboundNext]_inboundVars
  PROVE  CreditedIs'
<1>1. CASE UNCHANGED <<everCredited, nonceBitmap>>
  BY <1>1, CreditedKept
<1>2. CASE UNCHANGED inboundVars \/ Tick \/ \E amount \in Amounts : Donate(amount)
  BY <1>1, <1>2 DEF inboundVars, Tick, Donate, nonceVars, historyVars
<1>3. ASSUME NEW m \in Messages, NEW toSelf \in BOOLEAN,
             PayForDeposit(m) \/ WithdrawToHorizen(m, toSelf)
      PROVE  CreditedIs'
  BY <1>1, <1>3 DEF PayForDeposit, WithdrawToHorizen, nonceVars, historyVars
<1>4. ASSUME NEW owner \in Cancellers, OwnerCall(owner)
      PROVE  CreditedIs'
  <2>1. UNCHANGED everCredited /\ nonceBitmap \subseteq nonceBitmap'
    BY <1>4 DEF OwnerCall, InvalidateNonce, InvalidateUnorderedNonces, historyVars
  <2>2. QED
    BY <2>1, CreditedKept
<1>5. CASE GovernanceCall
  BY <1>1, <1>5
  DEF GovernanceCall, SetComposeCaller, SetZenOft, SetAllowedSrcEid, SetStLighter, Pause, Unpause,
      SweepFloatToUnassigned, Rescue, notSettings, nonceVars, historyVars
<1>6. ASSUME NEW c \in Deliveries, Arrive(c) PROVE CreditedIs'
  BY <1>1, <1>6 DEF Arrive, nonceVars, historyVars
<1>7. QED
  BY <1>2, <1>3, <1>4, <1>5, <1>6, ComposeCredited DEF InboundNext

\* However often transfers carry a signed credit and composes are retried, nobody is
\* ever credited more than one amount they signed per nonce.
THEOREM InboundCreditedAsSigned == InboundSpec => []CreditedAsSigned
<1>1. InboundSpec => []CreditedIs
  BY InitCredited, NextCredited, AlwaysIInv, PTL DEF InboundSpec
<1>2. QED
  BY <1>1, CreditedIsAsSigned, PTL
=============================================================================
