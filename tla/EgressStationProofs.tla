------------------------ MODULE EgressStationProofs ------------------------
(***************************************************************************)
(* What holds of EgressStation for every value of its constants.           *)
(***************************************************************************)
EXTENDS EgressStation, ArithmeticLemmas

\* Dust is at most what is sent.
LEMMA ModBound ==
  ASSUME NEW m \in Nat, NEW n \in Nat \ {0}
  PROVE  m % n \in Nat /\ m % n <= m
  OBVIOUS

(***************************************************************************)
(* The inductive invariant: that what is assigned is held keeps the        *)
(* balance from going below zero.                                          *)
(***************************************************************************)

IInv == EgressTypeOK /\ Solvent

LEMMA InitIInv == ASSUME EgressInit PROVE IInv
<1>1. AccountTypeOK /\ Solvent
  BY DEF EgressInit, AccountInit, AccountTypeOK, Solvent
<1>2. /\ nonces \in [Owners -> Nat] /\ vaultNonces \in [Owners -> Nat]
      /\ owed \in [Owners -> Int]
  BY DEF EgressInit
<1>3. QED
  BY <1>1, <1>2 DEF EgressInit, IInv, EgressTypeOK

\* A credit keeps the account's types, given that the balance it is checked against
\* is a balance.
LEMMA CreditKeeps ==
  ASSUME IInv, NEW owner \in Owners, NEW amount \in Nat, held' \in Nat, Credit(owner, amount)
  PROVE  AccountTypeOK' /\ Solvent'
BY DEF IInv, EgressTypeOK, AccountTypeOK, Solvent, Credit

\* A debit followed by the transfer of the same amount, possibly to the station.
LEMMA DebitKeeps ==
  ASSUME IInv, NEW owner \in Owners, NEW amount \in Nat, Debit(owner, amount),
         held >= amount, held' = held - amount \/ held' = held
  PROVE  AccountTypeOK' /\ Solvent'
BY DEF IInv, EgressTypeOK, AccountTypeOK, Solvent, Debit

LEMMA AccountKept ==
  ASSUME IInv, UNCHANGED accountVars
  PROVE  AccountTypeOK' /\ Solvent'
BY DEF IInv, EgressTypeOK, AccountTypeOK, Solvent, accountVars

LEMMA BridgeVarsKept ==
  ASSUME IInv, UNCHANGED bridgeVars
  PROVE  pending' \subseteq Pending /\ pendingTotal' \in Nat /\ atBridge' \subseteq Parked
BY DEF IInv, EgressTypeOK, bridgeVars

LEMMA MessageTypes ==
  ASSUME NEW m \in Messages
  PROVE  /\ m.owner \in Owners /\ m.assets \in Nat
         /\ m.nonce \in Nat /\ m.deadline \in Nat
BY EgressAssumption DEF Message

LEMMA RedeemKeeps ==
  ASSUME IInv, NEW m \in Messages, NEW fee \in Fees,
         RedeemAndCredit(m, fee) \/ RedeemDirectly(m, fee)
  PROVE  IInv'
<1>1. m.owner \in Owners /\ m.assets - fee \in Nat
  BY MessageTypes, EgressAssumption DEF RedeemAndCredit, RedeemDirectly, VaultRedeems
<1>2. nonces' \in [Owners -> Nat] /\ vaultNonces' \in [Owners -> Nat]
  BY <1>1 DEF RedeemAndCredit, RedeemDirectly, VaultRedeems, IInv, EgressTypeOK
<1>3. held' = held + (m.assets - fee) /\ held' \in Nat
  BY <1>1 DEF RedeemAndCredit, RedeemDirectly, VaultRedeems, IInv, EgressTypeOK, AccountTypeOK
<1>4. CASE RedeemAndCredit(m, fee)
  <2>1. AccountTypeOK' /\ Solvent'
    BY <1>1, <1>3, <1>4, CreditKeeps DEF RedeemAndCredit
  <2>2. owed' \in [Owners -> Int]
    BY <1>1, <1>4 DEF RedeemAndCredit, IInv, EgressTypeOK
  <2>3. QED
    BY <1>2, <1>4, <2>1, <2>2, BridgeVarsKept
    DEF RedeemAndCredit, IInv, EgressTypeOK, settingVars
<1>5. CASE RedeemDirectly(m, fee)
  <2>1. AccountTypeOK' /\ Solvent'
    BY <1>1, <1>3, <1>5 DEF RedeemDirectly, IInv, EgressTypeOK, AccountTypeOK, Solvent
  <2>2. QED
    BY <1>2, <1>5, <2>1, BridgeVarsKept DEF RedeemDirectly, IInv, EgressTypeOK, settingVars
<1>6. QED
  BY <1>4, <1>5

\* The debit of a bridge message, when at most all of it is kept.
LEMMA BridgeDebitKeeps ==
  ASSUME IInv, NEW m \in Messages, NEW fee \in Fees, NEW kept \in Nat, kept <= m.assets,
         BridgeDebit(m, fee, kept)
  PROVE  /\ AccountTypeOK' /\ Solvent'
         /\ nonces' \in [Owners -> Nat] /\ vaultNonces' \in [Owners -> Nat]
<1>1. /\ m.owner \in Owners /\ m.assets \in Nat
      /\ m.assets - kept \in Nat /\ m.assets - kept <= m.assets
  BY MessageTypes
<1>2. held >= m.assets - kept
  BY <1>1 DEF BridgeDebit, IInv, EgressTypeOK, AccountTypeOK
<1>3. AccountTypeOK' /\ Solvent'
  BY <1>1, <1>2, DebitKeeps DEF BridgeDebit
<1>4. nonces' \in [Owners -> Nat] /\ vaultNonces' \in [Owners -> Nat]
  BY <1>1 DEF BridgeDebit, UseNonce, IInv, EgressTypeOK
<1>5. QED
  BY <1>3, <1>4

\* What is sent and what comes back of a transfer through the OFT.
LEMMA DustTypes ==
  ASSUME NEW m \in Messages, NEW fee \in Fees, fee < m.assets
  PROVE  /\ m.assets - fee \in Nat
         /\ (m.assets - fee) % DecimalConversionRate \in Nat
         /\ (m.assets - fee) % DecimalConversionRate <= m.assets
<1>1. m.assets \in Nat /\ fee \in Nat /\ m.assets - fee \in Nat /\ m.assets - fee <= m.assets
  BY MessageTypes, EgressAssumption
<1>2. /\ (m.assets - fee) % DecimalConversionRate \in Nat
      /\ (m.assets - fee) % DecimalConversionRate <= m.assets - fee
  BY <1>1, ModBound, EgressAssumption
<1>3. QED
  BY <1>1, <1>2

LEMMA BridgeViaOftKeeps ==
  ASSUME IInv, NEW m \in Messages, NEW fee \in Fees, BridgeViaOft(m, fee)
  PROVE  IInv'
<1> DEFINE dust == (m.assets - fee) % DecimalConversionRate
<1>1. /\ m.owner \in Owners /\ m.assets \in Nat
      /\ dust \in Nat /\ dust <= m.assets
  BY MessageTypes, DustTypes DEF BridgeViaOft, BridgeDebit
<1>2. /\ AccountTypeOK' /\ Solvent'
      /\ nonces' \in [Owners -> Nat] /\ vaultNonces' \in [Owners -> Nat]
  BY <1>1, BridgeDebitKeeps DEF BridgeViaOft
<1> HIDE DEF dust
<1>3. owed' \in [Owners -> Int]
  BY <1>1 DEF BridgeViaOft, dust, IInv, EgressTypeOK
<1>4. QED
  BY <1>2, <1>3, BridgeVarsKept DEF BridgeViaOft, IInv, EgressTypeOK, settingVars

LEMMA BridgeAndWaitKeeps ==
  ASSUME IInv, NEW m \in Messages, NEW fee \in Fees, BridgeAndWait(m, fee)
  PROVE  IInv'
<1> DEFINE id == <<m.owner, m.nonce>>
           amount == m.assets - fee
<1>1. /\ m.owner \in Owners /\ m.assets \in Nat /\ id \in BridgeId
      /\ fee \in Nat /\ amount \in Nat
  BY MessageTypes, DustTypes, EgressAssumption DEF BridgeAndWait, BridgeDebit, BridgeId
<1>2. /\ AccountTypeOK' /\ Solvent'
      /\ nonces' \in [Owners -> Nat] /\ vaultNonces' \in [Owners -> Nat]
  BY <1>1, BridgeDebitKeeps DEF BridgeAndWait
<1>3. owed' \in [Owners -> Int]
  BY <1>1 DEF BridgeAndWait, IInv, EgressTypeOK
<1>4. [id |-> id, owner |-> m.owner, amount |-> amount] \in Pending
  BY <1>1 DEF Pending
<1>5. [bridge |-> bridge, id |-> id, amount |-> amount] \in Parked
  BY <1>1 DEF Parked, IInv, EgressTypeOK
<1>6. pending' \subseteq Pending /\ pendingTotal' \in Nat /\ atBridge' \subseteq Parked
  BY <1>1, <1>4, <1>5 DEF BridgeAndWait, IInv, EgressTypeOK
<1>7. QED
  BY <1>2, <1>3, <1>6 DEF BridgeAndWait, IInv, EgressTypeOK, settingVars

LEMMA SettleKeeps ==
  ASSUME IInv, NEW p \in pending, Settle(p)
  PROVE  pending' \subseteq Pending /\ pendingTotal' \in Nat
BY DEF Settle, IInv, EgressTypeOK, Pending

LEMMA BridgeCallKeeps ==
  ASSUME IInv, NEW parked \in atBridge, OnBridgeRefund(parked) \/ OnBridgeComplete(parked)
  PROVE  IInv'
<1>1. parked.amount \in Nat
  BY DEF IInv, EgressTypeOK, Parked
<1>2. CASE OnBridgeRefund(parked)
  <2>1. PICK p \in pending :
          /\ Settle(p) /\ held' = held + parked.amount /\ Credit(p.owner, parked.amount)
    BY <1>2 DEF OnBridgeRefund
  <2>2. p.owner \in Owners /\ held' \in Nat
    BY <1>1, <2>1 DEF IInv, EgressTypeOK, AccountTypeOK, Pending
  <2>3. AccountTypeOK' /\ Solvent'
    BY <1>1, <2>1, <2>2, CreditKeeps
  <2>4. pending' \subseteq Pending /\ pendingTotal' \in Nat
    BY <2>1, SettleKeeps
  <2>5. QED
    BY <1>2, <2>3, <2>4
    DEF OnBridgeRefund, IInv, EgressTypeOK, settingVars, nonceVars
<1>3. CASE OnBridgeComplete(parked)
  <2>1. PICK p \in pending :
          Settle(p) /\ owed' = [owed EXCEPT ![p.owner] = @ - parked.amount]
    BY <1>3 DEF OnBridgeComplete
  <2>2. pending' \subseteq Pending /\ pendingTotal' \in Nat
    BY <2>1, SettleKeeps
  <2>3. owed' \in [Owners -> Int]
    <3>1. p.owner \in Owners
      BY DEF IInv, EgressTypeOK, Pending
    <3>2. QED
      BY <1>1, <2>1, <3>1 DEF IInv, EgressTypeOK
  <2>4. QED
    BY <1>3, <2>2, <2>3, AccountKept
    DEF OnBridgeComplete, IInv, EgressTypeOK, settingVars, nonceVars
<1>4. QED
  BY <1>2, <1>3

LEMMA WithdrawKeeps ==
  ASSUME IInv, NEW m \in Messages, NEW toSelf \in BOOLEAN, WithdrawToHorizen(m, toSelf)
  PROVE  IInv'
<1>1. m.owner \in Owners /\ m.assets \in Nat
  BY MessageTypes
<1>2. held' = held - m.assets \/ held' = held
  BY DEF WithdrawToHorizen
<1>3. AccountTypeOK' /\ Solvent'
  BY <1>1, <1>2, DebitKeeps DEF WithdrawToHorizen
<1>4. nonces' \in [Owners -> Nat] /\ vaultNonces' \in [Owners -> Nat] /\ owed' \in [Owners -> Int]
  BY <1>1 DEF WithdrawToHorizen, UseNonce, IInv, EgressTypeOK
<1>5. QED
  BY <1>3, <1>4, BridgeVarsKept DEF WithdrawToHorizen, IInv, EgressTypeOK, settingVars

LEMMA InvalidateKeeps ==
  ASSUME IInv, NEW owner \in Cancellers, InvalidateNonce(owner)
  PROVE  IInv'
<1>1. nonces' \in [Owners -> Nat]
  BY EgressAssumption DEF InvalidateNonce, IInv, EgressTypeOK
<1>2. QED
  BY <1>1, AccountKept, BridgeVarsKept DEF InvalidateNonce, IInv, EgressTypeOK, settingVars

LEMMA GovernanceCallKeeps ==
  ASSUME IInv, GovernanceCall
  PROVE  IInv'
<1>1. CASE (\E b \in Bridges : SetBridge(b)) \/ Pause \/ Unpause
  BY <1>1, AccountKept, BridgeVarsKept
  DEF SetBridge, Pause, Unpause, IInv, EgressTypeOK, nonceVars
<1>2. CASE SweepFloatToUnassigned
  <2>1. float \in Nat
    BY DEF float, IInv, EgressTypeOK, AccountTypeOK
  <2>2. AccountTypeOK' /\ Solvent'
    BY <1>2, <2>1
    DEF SweepFloatToUnassigned, AddUnassigned, IInv, EgressTypeOK, AccountTypeOK, Solvent
  <2>3. QED
    BY <1>2, <2>2, BridgeVarsKept
    DEF SweepFloatToUnassigned, IInv, EgressTypeOK, settingVars, nonceVars
<1>3. ASSUME NEW amount \in RescueAmounts, NEW toSelf \in BOOLEAN, Rescue(amount, toSelf)
      PROVE  IInv'
  <2>1. amount \in Nat
    BY EgressAssumption
  <2>2. AccountTypeOK' /\ Solvent'
    BY <1>3, <2>1 DEF Rescue, RescueUnassigned, IInv, EgressTypeOK, AccountTypeOK, Solvent
  <2>3. QED
    BY <1>3, <2>2, BridgeVarsKept DEF Rescue, IInv, EgressTypeOK, settingVars, nonceVars
<1>4. QED
  BY <1>1, <1>2, <1>3 DEF GovernanceCall

LEMMA NextIInv ==
  ASSUME IInv, [EgressNext]_egressVars
  PROVE  IInv'
<1>1. CASE Tick
  BY <1>1, AccountKept, BridgeVarsKept
  DEF Tick, IInv, EgressTypeOK, settingVars, nonceVars
<1>2. CASE UNCHANGED egressVars
  BY <1>2, AccountKept, BridgeVarsKept
  DEF egressVars, IInv, EgressTypeOK, settingVars, nonceVars
<1>3. ASSUME NEW m \in Messages, NEW fee \in Fees, RelayedCall(m, fee)
      PROVE  IInv'
  BY <1>3, RedeemKeeps, BridgeViaOftKeeps, BridgeAndWaitKeeps DEF RelayedCall
<1>4. QED
  BY <1>1, <1>2, <1>3, BridgeCallKeeps, WithdrawKeeps, InvalidateKeeps, GovernanceCallKeeps
  DEF EgressNext

LEMMA AlwaysIInv == EgressSpec => []IInv
BY InitIInv, NextIInv, PTL DEF EgressSpec

\* No credit, nonce, balance or pending amount of the station goes below zero.
THEOREM EgressTypeCorrect == EgressSpec => []EgressTypeOK
<1>1. IInv => EgressTypeOK
  BY DEF IInv
<1>2. QED
  BY <1>1, AlwaysIInv, PTL

\* What _assertSolvency checks at credits and sweeps holds after every call, the
\* bridge transfers, withdrawals and rescues that do not check it included.
THEOREM EgressAlwaysSolvent == EgressSpec => []Solvent
<1>1. IInv => Solvent
  BY DEF IInv
<1>2. QED
  BY <1>1, AlwaysIInv, PTL

(***************************************************************************)
(* A credit shrinks only by a signed message.                              *)
(***************************************************************************)

\* A debit of at most a signed message's amount, with its nonce used.
LEMMA DebitIsSigned ==
  ASSUME IInv, NEW o \in Owners, NEW m \in Messages, NEW amount \in Nat, amount <= m.assets,
         UseNonce(m), Debit(m.owner, amount)
  PROVE  SignedDebit(o)
<1>1. /\ m.owner \in Owners /\ m.assets \in Nat /\ m \in Signed
      /\ now <= m.deadline /\ m.nonce = nonces[m.owner]
  BY MessageTypes DEF UseNonce, Authorised
<1>2. CASE o = m.owner
  <2>1. credited[o] - credited'[o] <= m.assets
    BY <1>1, <1>2 DEF Debit, IInv, EgressTypeOK, AccountTypeOK
  <2>2. nonces'[o] = nonces[o] + 1
    BY <1>1, <1>2 DEF UseNonce, IInv, EgressTypeOK
  <2>3. QED
    BY <1>1, <1>2, <2>1, <2>2 DEF SignedDebit
<1>3. CASE o # m.owner
  BY <1>1, <1>3 DEF Debit, IInv, EgressTypeOK, AccountTypeOK, SignedDebit
<1>4. QED
  BY <1>2, <1>3

\* A credit is no debit.
LEMMA CreditIsNoDebit ==
  ASSUME IInv, NEW o \in Owners, NEW owner \in Owners, NEW amount \in Nat, Credit(owner, amount)
  PROVE  SignedDebit(o)
BY DEF Credit, IInv, EgressTypeOK, AccountTypeOK, SignedDebit

LEMMA CreditsKeptIsNoDebit ==
  ASSUME IInv, NEW o \in Owners, UNCHANGED credited
  PROVE  SignedDebit(o)
BY DEF IInv, EgressTypeOK, AccountTypeOK, SignedDebit

LEMMA BridgeDebitIsSigned ==
  ASSUME IInv, NEW o \in Owners, NEW m \in Messages, NEW fee, NEW kept \in Nat,
         kept <= m.assets, BridgeDebit(m, fee, kept)
  PROVE  SignedDebit(o)
<1>1. m.assets - kept \in Nat /\ m.assets - kept <= m.assets
  BY MessageTypes
<1>2. QED
  BY <1>1, DebitIsSigned DEF BridgeDebit

LEMMA RelayedCallSigned ==
  ASSUME IInv, NEW o \in Owners, NEW m \in Messages, NEW fee \in Fees, RelayedCall(m, fee)
  PROVE  SignedDebit(o)
<1>1. CASE RedeemAndCredit(m, fee)
  <2>1. m.owner \in Owners /\ m.assets - fee \in Nat
    BY <1>1, MessageTypes, EgressAssumption DEF RedeemAndCredit, VaultRedeems
  <2>2. QED
    BY <1>1, <2>1, CreditIsNoDebit DEF RedeemAndCredit
<1>2. CASE RedeemDirectly(m, fee)
  BY <1>2, CreditsKeptIsNoDebit DEF RedeemDirectly
<1>3. CASE BridgeViaOft(m, fee)
  <2>1. /\ (m.assets - fee) % DecimalConversionRate \in Nat
        /\ (m.assets - fee) % DecimalConversionRate <= m.assets
    BY <1>3, DustTypes DEF BridgeViaOft, BridgeDebit
  <2>2. QED
    BY <1>3, <2>1, BridgeDebitIsSigned DEF BridgeViaOft
<1>4. CASE BridgeAndWait(m, fee)
  <2>1. 0 <= m.assets
    BY MessageTypes
  <2>2. QED
    BY <1>4, <2>1, BridgeDebitIsSigned DEF BridgeAndWait
<1>5. QED
  BY <1>1, <1>2, <1>3, <1>4 DEF RelayedCall

LEMMA NextSigned ==
  ASSUME IInv, NEW o \in Owners, [EgressNext]_egressVars
  PROVE  SignedDebit(o)
<1>1. ASSUME NEW parked \in atBridge, OnBridgeRefund(parked)
      PROVE  SignedDebit(o)
  <2>1. PICK p \in pending : Credit(p.owner, parked.amount)
    BY <1>1 DEF OnBridgeRefund
  <2>2. p.owner \in Owners /\ parked.amount \in Nat
    BY DEF IInv, EgressTypeOK, Pending, Parked
  <2>3. QED
    BY <2>1, <2>2, CreditIsNoDebit
<1>2. ASSUME NEW parked \in atBridge, OnBridgeComplete(parked)
      PROVE  SignedDebit(o)
  BY <1>2, CreditsKeptIsNoDebit DEF OnBridgeComplete, accountVars
<1>3. ASSUME NEW m \in Messages, NEW toSelf \in BOOLEAN, WithdrawToHorizen(m, toSelf)
      PROVE  SignedDebit(o)
  <2>1. m.assets \in Nat /\ m.assets <= m.assets
    BY MessageTypes
  <2>2. QED
    BY <1>3, <2>1, DebitIsSigned DEF WithdrawToHorizen
<1>4. CASE UNCHANGED egressVars
  BY <1>4, CreditsKeptIsNoDebit DEF egressVars, accountVars
<1>5. CASE Tick \/ GovernanceCall \/ (\E owner \in Cancellers : InvalidateNonce(owner))
  BY <1>5, CreditsKeptIsNoDebit
  DEF Tick, GovernanceCall, SetBridge, Pause, Unpause, SweepFloatToUnassigned, AddUnassigned,
      Rescue, RescueUnassigned, InvalidateNonce, accountVars
<1>6. QED
  BY <1>1, <1>2, <1>3, <1>4, <1>5, RelayedCallSigned DEF EgressNext

\* A credit shrinks only by a message its owner signed, in time and for at least that
\* amount, whose nonce is used in the same step.
THEOREM EgressCreditNeedsSignature == EgressSpec => CreditNeedsSignature
<1>1. ASSUME IInv, [EgressNext]_egressVars
      PROVE  \A o \in Owners : SignedDebit(o)
  BY <1>1, NextSigned
<1>2. QED
  BY <1>1, AlwaysIInv, PTL DEF EgressSpec, CreditNeedsSignature

(***************************************************************************)
(* The running sum is the sum of the credits.                              *)
(***************************************************************************)

TotalIsSum == totalCredited = SumFunctionOnSet(credited, Owners)

LEMMA CreditKeepsTotal ==
  ASSUME IInv, TotalIsSum, NEW owner \in Owners, NEW amount \in Nat, Credit(owner, amount)
  PROVE  TotalIsSum'
<1>1. credited \in [Owners -> Int] /\ amount \in Int
  BY DEF IInv, EgressTypeOK, AccountTypeOK
<1>2. SumFunctionOnSet([credited EXCEPT ![owner] = @ + amount], Owners)
        = SumFunctionOnSet(credited, Owners) + amount
  BY <1>1, SumCredited, OwnersFinite
<1>3. QED
  BY <1>2 DEF Credit, TotalIsSum

LEMMA DebitKeepsTotal ==
  ASSUME IInv, TotalIsSum, NEW owner \in Owners, NEW amount \in Nat, Debit(owner, amount)
  PROVE  TotalIsSum'
<1>1. credited \in [Owners -> Int] /\ amount \in Int
  BY DEF IInv, EgressTypeOK, AccountTypeOK
<1>2. SumFunctionOnSet([credited EXCEPT ![owner] = @ - amount], Owners)
        = SumFunctionOnSet(credited, Owners) - amount
  BY <1>1, SumDebited, OwnersFinite
<1>3. QED
  BY <1>2 DEF Debit, TotalIsSum

LEMMA InitTotal == ASSUME EgressInit PROVE TotalIsSum
<1>1. \A o \in Owners : credited[o] = 0
  BY DEF EgressInit, AccountInit
<1>2. QED
  BY <1>1, SumZero, OwnersFinite DEF EgressInit, AccountInit, TotalIsSum

LEMMA NextTotal ==
  ASSUME IInv, TotalIsSum, [EgressNext]_egressVars
  PROVE  TotalIsSum'
<1>1. CASE UNCHANGED <<credited, totalCredited>>
  BY <1>1 DEF TotalIsSum
<1>2. ASSUME NEW m \in Messages, NEW fee \in Fees, RelayedCall(m, fee)
      PROVE  TotalIsSum'
  <2>1. m.owner \in Owners /\ m.assets \in Nat /\ fee \in Nat
    BY MessageTypes, EgressAssumption
  <2>2. CASE RedeemAndCredit(m, fee)
    <3>1. m.assets - fee \in Nat
      BY <2>1, <2>2 DEF RedeemAndCredit, VaultRedeems
    <3>2. QED
      BY <2>1, <2>2, <3>1, CreditKeepsTotal DEF RedeemAndCredit
  <2>3. CASE BridgeViaOft(m, fee)
    <3>1. m.assets - ((m.assets - fee) % DecimalConversionRate) \in Nat
      BY <2>1, <2>3, DustTypes DEF BridgeViaOft, BridgeDebit
    <3>2. QED
      BY <2>1, <2>3, <3>1, DebitKeepsTotal DEF BridgeViaOft, BridgeDebit
  <2>4. CASE BridgeAndWait(m, fee)
    <3>1. m.assets - 0 \in Nat
      BY <2>1
    <3>2. QED
      BY <2>1, <2>4, <3>1, DebitKeepsTotal DEF BridgeAndWait, BridgeDebit
  <2>5. QED
    BY <1>1, <1>2, <2>2, <2>3, <2>4 DEF RelayedCall, RedeemDirectly
<1>3. ASSUME NEW parked \in atBridge, OnBridgeRefund(parked)
      PROVE  TotalIsSum'
  <2>1. PICK p \in pending : Credit(p.owner, parked.amount)
    BY <1>3 DEF OnBridgeRefund
  <2>2. p.owner \in Owners /\ parked.amount \in Nat
    BY DEF IInv, EgressTypeOK, Pending, Parked
  <2>3. QED
    BY <2>1, <2>2, CreditKeepsTotal
<1>4. ASSUME NEW m \in Messages, NEW toSelf \in BOOLEAN, WithdrawToHorizen(m, toSelf)
      PROVE  TotalIsSum'
  BY <1>4, MessageTypes, DebitKeepsTotal DEF WithdrawToHorizen
<1>5. CASE \/ UNCHANGED egressVars \/ Tick \/ GovernanceCall
           \/ \E owner \in Cancellers : InvalidateNonce(owner)
           \/ \E parked \in atBridge : OnBridgeComplete(parked)
  BY <1>1, <1>5
  DEF egressVars, Tick, GovernanceCall, SetBridge, Pause, Unpause, SweepFloatToUnassigned,
      AddUnassigned, Rescue, RescueUnassigned, InvalidateNonce, OnBridgeComplete, accountVars
<1>6. QED
  BY <1>2, <1>3, <1>4, <1>5 DEF EgressNext

\* What is credited is covered by what is held, with the contract's running sum being
\* the sum of the credits: every owner can be paid, all at once.
THEOREM EgressCreditsCovered == EgressSpec => []CreditsCovered
<1>1. IInv /\ TotalIsSum => CreditsCovered
  BY DEF IInv, TotalIsSum, CreditsCovered
<1>2. EgressSpec => []TotalIsSum
  BY InitTotal, NextTotal, AlwaysIInv, PTL DEF EgressSpec
<1>3. QED
  BY <1>1, <1>2, AlwaysIInv, PTL

(***************************************************************************)
(* Transfers under way: what the station and the bridges know of them      *)
(* agrees, transfer by transfer.                                           *)
(***************************************************************************)

\* One record more or less in a set is its amount more or less in the sum.
LEMMA SumOfAmountsWithout ==
  ASSUME NEW S, IsFiniteSet(S), \A r \in S : r.amount \in Nat, NEW p \in S
  PROVE  /\ SumOfAmounts(S) = p.amount + SumOfAmounts(S \ {p})
         /\ SumOfAmounts(S) \in Nat /\ SumOfAmounts(S \ {p}) \in Nat
<1> DEFINE f == [r \in S |-> r.amount]
           g == [r \in S \ {p} |-> r.amount]
<1>1. IsFiniteSet(S \ {p})
  BY FS_RemoveElement
<1>2. /\ \A r \in S : f[r] \in Nat
      /\ \A r \in S \ {p} : g[r] \in Nat /\ g[r] = f[r]
      /\ f[p] = p.amount
  OBVIOUS
<1>3. SumOfAmounts(S) = SumFunctionOnSet(f, S)
  BY DEF SumOfAmounts
<1>4. SumOfAmounts(S \ {p}) = SumFunctionOnSet(g, S \ {p})
  BY DEF SumOfAmounts
<1> HIDE DEF f, g
<1>5. SumFunctionOnSet(f, S) = f[p] + SumFunctionOnSet(f, S \ {p})
  BY <1>2, SumRemove
<1>6. SumFunctionOnSet(g, S \ {p}) = SumFunctionOnSet(f, S \ {p})
  BY <1>1, <1>2, SumSame
<1>7. SumFunctionOnSet(f, S) \in Nat /\ SumFunctionOnSet(g, S \ {p}) \in Nat
  BY <1>1, <1>2, SumNat
<1>8. QED
  BY <1>2, <1>3, <1>4, <1>5, <1>6, <1>7

LEMMA SumOfAmountsWith ==
  ASSUME NEW S, IsFiniteSet(S), \A r \in S : r.amount \in Nat, NEW p, p.amount \in Nat, p \notin S
  PROVE  /\ SumOfAmounts(S \cup {p}) = SumOfAmounts(S) + p.amount
         /\ SumOfAmounts(S) \in Nat
<1> DEFINE T == S \cup {p}
<1>1. IsFiniteSet(T) /\ p \in T /\ (\A r \in T : r.amount \in Nat) /\ T \ {p} = S
  BY FS_AddElement
<1> HIDE DEF T
<1>2. SumOfAmounts(T) = p.amount + SumOfAmounts(T \ {p}) /\ SumOfAmounts(T \ {p}) \in Nat
  BY <1>1, SumOfAmountsWithout
<1>3. SumOfAmounts(T \ {p}) = SumOfAmounts(S)
  BY <1>1, Zenon
<1>4. SumOfAmounts(T) = SumOfAmounts(S) + p.amount /\ SumOfAmounts(S) \in Nat
  BY <1>2, <1>3
<1>5. QED
  BY <1>4 DEF T

LEMMA SumOfAmountsNat ==
  ASSUME NEW S, IsFiniteSet(S), \A r \in S : r.amount \in Nat
  PROVE  SumOfAmounts(S) \in Nat
<1>1. \A r \in S : [s \in S |-> s.amount][r] \in Nat
  OBVIOUS
<1>2. QED
  BY <1>1, SumNat DEF SumOfAmounts

\* The records of a station and its bridges for the same transfers.
Agree(under, at) ==
  /\ \A p, q \in under : p.id = q.id => p = q
  /\ \A r, s \in at : r.id = s.id => r = s
  /\ \A p \in under : \E r \in at : r.id = p.id /\ r.amount = p.amount
  /\ \A r \in at : \E p \in under : r.id = p.id /\ r.amount = p.amount

Transfers ==
  /\ IsFiniteSet(pending) /\ IsFiniteSet(atBridge)
  /\ Cardinality(pending) = Cardinality(atBridge)
  /\ Agree(pending, atBridge)
  /\ pendingTotal = SumOfAmounts(pending)

LEMMA TransfersAreParked == ASSUME Transfers PROVE PendingIsParked
<1>1. {<<p.id, p.amount>> : p \in pending} = {<<r.id, r.amount>> : r \in atBridge}
  BY DEF Transfers, Agree
<1>2. QED
  BY <1>1 DEF Transfers, PendingIsParked

LEMMA InitTransfers == ASSUME EgressInit PROVE Transfers
<1>1. SumOfAmounts({}) = 0
  BY SumEmpty DEF SumOfAmounts
<1>2. QED
  BY <1>1, FS_EmptySet DEF EgressInit, Transfers, Agree

LEMMA TransferStarts ==
  ASSUME IInv, Transfers, NEW m \in Messages, NEW fee \in Fees, BridgeAndWait(m, fee)
  PROVE  Transfers'
<1> DEFINE id == <<m.owner, m.nonce>>
           amount == m.assets - fee
           p == [id |-> id, owner |-> m.owner, amount |-> amount]
           r == [bridge |-> bridge, id |-> id, amount |-> amount]
<1>1. amount \in Nat /\ p.amount = amount /\ r.amount = amount /\ p.id = id /\ r.id = id
  BY DustTypes DEF BridgeAndWait, BridgeDebit
<1>2. /\ \A q \in pending : q.id # id
      /\ pending' = pending \cup {p} /\ atBridge' = atBridge \cup {r}
      /\ pendingTotal' = pendingTotal + amount
  BY DEF BridgeAndWait
<1> HIDE DEF id, amount, p, r
<1>3. \A s \in atBridge : s.id # id
  BY <1>2 DEF Transfers, Agree
<1>4. p \notin pending /\ r \notin atBridge
  BY <1>1, <1>2, <1>3
<1>5. Agree(pending \cup {p}, atBridge \cup {r})
  BY <1>1, <1>2, <1>3 DEF Transfers, Agree
<1>6. /\ IsFiniteSet(pending \cup {p}) /\ IsFiniteSet(atBridge \cup {r})
      /\ Cardinality(pending \cup {p}) = Cardinality(pending) + 1
      /\ Cardinality(atBridge \cup {r}) = Cardinality(atBridge) + 1
  BY <1>4, FS_AddElement DEF Transfers
<1>7. \A q \in pending : q.amount \in Nat
  BY DEF IInv, EgressTypeOK, Pending
<1>8. SumOfAmounts(pending \cup {p}) = SumOfAmounts(pending) + amount
  BY <1>1, <1>4, <1>7, SumOfAmountsWith DEF Transfers
<1>9. QED
  BY <1>2, <1>5, <1>6, <1>8 DEF Transfers

\* A bridge reports on a transfer: the station finds it, of the same amount.
LEMMA TransferEnds ==
  ASSUME IInv, Transfers, NEW parked \in atBridge, NEW p \in pending, p.id = parked.id,
         Settle(p), atBridge' = atBridge \ {parked}
  PROVE  Transfers' /\ p.amount = parked.amount
<1>1. p.amount = parked.amount
  BY DEF Transfers, Agree
<1>2. Agree(pending \ {p}, atBridge \ {parked})
  BY DEF Transfers, Agree
<1>3. /\ IsFiniteSet(pending \ {p}) /\ IsFiniteSet(atBridge \ {parked})
      /\ Cardinality(pending \ {p}) = Cardinality(pending) - 1
      /\ Cardinality(atBridge \ {parked}) = Cardinality(atBridge) - 1
  BY FS_RemoveElement DEF Transfers
<1>4. \A q \in pending : q.amount \in Nat
  BY DEF IInv, EgressTypeOK, Pending
<1>5. /\ SumOfAmounts(pending) = p.amount + SumOfAmounts(pending \ {p})
      /\ SumOfAmounts(pending \ {p}) \in Nat
  BY <1>4, SumOfAmountsWithout DEF Transfers
<1>6. pendingTotal' = SumOfAmounts(pending \ {p})
  BY <1>4, <1>5 DEF Settle, Transfers
<1>7. pending' = pending \ {p}
  BY DEF Settle
<1>8. QED
  BY <1>1, <1>2, <1>3, <1>6, <1>7 DEF Transfers

LEMMA NextTransfers ==
  ASSUME IInv, Transfers, [EgressNext]_egressVars
  PROVE  Transfers'
<1>1. CASE UNCHANGED bridgeVars
  BY <1>1 DEF Transfers, Agree, bridgeVars
<1>2. ASSUME NEW m \in Messages, NEW fee \in Fees, RelayedCall(m, fee)
      PROVE  Transfers'
  BY <1>1, <1>2, TransferStarts DEF RelayedCall, RedeemAndCredit, RedeemDirectly, BridgeViaOft
<1>3. ASSUME NEW parked \in atBridge, OnBridgeRefund(parked) \/ OnBridgeComplete(parked)
      PROVE  Transfers'
  <2>1. PICK p \in pending : p.id = parked.id /\ Settle(p)
    BY <1>3 DEF OnBridgeRefund, OnBridgeComplete
  <2>2. atBridge' = atBridge \ {parked}
    BY <1>3 DEF OnBridgeRefund, OnBridgeComplete
  <2>3. QED
    BY <2>1, <2>2, TransferEnds
<1>4. CASE \/ UNCHANGED egressVars \/ Tick \/ GovernanceCall
           \/ \E owner \in Cancellers : InvalidateNonce(owner)
           \/ \E m \in Messages, toSelf \in BOOLEAN : WithdrawToHorizen(m, toSelf)
  BY <1>1, <1>4
  DEF egressVars, Tick, GovernanceCall, SetBridge, Pause, Unpause, SweepFloatToUnassigned,
      Rescue, InvalidateNonce, WithdrawToHorizen
<1>5. QED
  BY <1>2, <1>3, <1>4 DEF EgressNext

LEMMA AlwaysTransfers == EgressSpec => []Transfers
BY InitTransfers, NextTransfers, AlwaysIInv, PTL DEF EgressSpec

\* The transfers the station believes under way are those whose ZEN a bridge holds,
\* one each and of the same amount, whatever bridge is set meanwhile.
THEOREM EgressPendingIsParked == EgressSpec => []PendingIsParked
BY TransfersAreParked, AlwaysTransfers, PTL

(***************************************************************************)
(* Taking a transfer back.  The condition under which a refund goes        *)
(* through is stated by itself: the step is that condition, for one of the *)
(* transfers under way, and one value for each variable.                   *)
(***************************************************************************)

RefundAllowed(parked, p) ==
  /\ FromBridge(parked)
  /\ p.id = parked.id /\ p.amount = parked.amount
  /\ pendingTotal >= p.amount
  /\ parked.amount # 0
  /\ totalCredited + parked.amount + unassigned <= held + parked.amount

RefundSets(parked, p) ==
  /\ pending' = pending \ {p}
  /\ pendingTotal' = pendingTotal - p.amount
  /\ atBridge' = atBridge \ {parked}
  /\ held' = held + parked.amount
  /\ credited' = [credited EXCEPT ![p.owner] = @ + parked.amount]
  /\ totalCredited' = totalCredited + parked.amount
  /\ unassigned' = unassigned
  /\ UNCHANGED <<settingVars, nonceVars, now, owed>>

LEMMA RefundIs ==
  ASSUME NEW parked
  PROVE  OnBridgeRefund(parked)
           <=> \E p \in pending : RefundAllowed(parked, p) /\ RefundSets(parked, p)
<1>1. /\ totalCredited' = totalCredited + parked.amount /\ unassigned' = unassigned
      /\ held' = held + parked.amount
      => (Solvent' <=> totalCredited + parked.amount + unassigned <= held + parked.amount)
  BY DEF Solvent
<1>2. QED
  BY <1>1 DEF OnBridgeRefund, Settle, Credit, RefundAllowed, RefundSets

RefundIsOpen ==
  \A parked \in atBridge :
    parked.bridge = bridge => \E p \in pending : RefundAllowed(parked, p)

\* A transfer is of something.
NoEmptyTransfer == \A p \in pending : p.amount # 0

LEMMA NextNoEmptyTransfer ==
  ASSUME IInv, NoEmptyTransfer, [EgressNext]_egressVars
  PROVE  NoEmptyTransfer'
<1>1. CASE UNCHANGED bridgeVars
  BY <1>1 DEF NoEmptyTransfer, bridgeVars
<1>2. ASSUME NEW m \in Messages, NEW fee \in Fees, BridgeAndWait(m, fee)
      PROVE  NoEmptyTransfer'
  <2>1. m.assets \in Nat /\ fee \in Nat
    BY EgressAssumption DEF Message
  <2>2. m.assets - fee # 0
    BY <1>2, <2>1 DEF BridgeAndWait, BridgeDebit
  <2>3. QED
    BY <1>2, <2>2 DEF BridgeAndWait, NoEmptyTransfer
<1>3. ASSUME NEW parked \in atBridge, OnBridgeRefund(parked) \/ OnBridgeComplete(parked)
      PROVE  NoEmptyTransfer'
  <2>1. PICK p \in pending : Settle(p)
    BY <1>3 DEF OnBridgeRefund, OnBridgeComplete
  <2>2. QED
    BY <2>1 DEF Settle, NoEmptyTransfer
<1>4. CASE \/ UNCHANGED egressVars \/ Tick \/ GovernanceCall
           \/ \E owner \in Cancellers : InvalidateNonce(owner)
           \/ \E m \in Messages, toSelf \in BOOLEAN : WithdrawToHorizen(m, toSelf)
  BY <1>1, <1>4
  DEF egressVars, Tick, GovernanceCall, SetBridge, Pause, Unpause, SweepFloatToUnassigned,
      Rescue, InvalidateNonce, WithdrawToHorizen
<1>5. QED
  BY <1>1, <1>2, <1>3, <1>4
  DEF EgressNext, RelayedCall, RedeemAndCredit, RedeemDirectly, BridgeViaOft

LEMMA RefundStaysOpen == IInv /\ Transfers /\ NoEmptyTransfer => RefundIsOpen
<1> SUFFICES ASSUME IInv, Transfers, NoEmptyTransfer, NEW parked \in atBridge,
                    parked.bridge = bridge
             PROVE  \E p \in pending : RefundAllowed(parked, p)
  BY DEF RefundIsOpen
<1>1. PICK p \in pending : p.id = parked.id /\ p.amount = parked.amount
  BY DEF Transfers, Agree
<1>2. /\ \A q \in pending : q.amount \in Nat
      /\ totalCredited \in Int /\ unassigned \in Nat /\ held \in Nat
  BY DEF IInv, EgressTypeOK, AccountTypeOK, Pending
<1>3. /\ SumOfAmounts(pending) = p.amount + SumOfAmounts(pending \ {p})
      /\ SumOfAmounts(pending \ {p}) \in Nat
  BY <1>2, SumOfAmountsWithout DEF Transfers
<1>4. pendingTotal >= p.amount
  BY <1>2, <1>3 DEF Transfers
<1>5. totalCredited + parked.amount + unassigned <= held + parked.amount
  BY <1>1, <1>2 DEF IInv, Solvent
<1>6. parked.amount # 0
  BY <1>1 DEF NoEmptyTransfer
<1>7. QED
  BY <1>1, <1>4, <1>5, <1>6 DEF RefundAllowed, FromBridge

\* The bridge that is set can always return a transfer it holds: the station knows it,
\* of that amount, its pending sum covers it, and crediting it again leaves it solvent,
\* paused or swept as it may be (RefundNeverBlocked, without ENABLED).
THEOREM RefundAlwaysOpen == EgressSpec => []RefundIsOpen
<1>1. EgressInit => NoEmptyTransfer
  BY DEF EgressInit, NoEmptyTransfer
<1>2. EgressSpec => []NoEmptyTransfer
  BY <1>1, NextNoEmptyTransfer, AlwaysIInv, PTL DEF EgressSpec
<1>3. QED
  BY <1>2, RefundStaysOpen, AlwaysIInv, AlwaysTransfers, PTL

(***************************************************************************)
(* Whose the ZEN is.                                                       *)
(***************************************************************************)

Of(o, under) == {p \in under : p.owner = o}

LEMMA OfIs ==
  ASSUME NEW under \in SUBSET Pending, IsFiniteSet(under), NEW o
  PROVE  /\ IsFiniteSet(Of(o, under)) /\ \A p \in Of(o, under) : p.amount \in Nat
         /\ SumOfAmounts(Of(o, under)) \in Nat
<1>1. IsFiniteSet(Of(o, under)) /\ \A p \in Of(o, under) : p.amount \in Nat
  BY FS_Subset DEF Of, Pending
<1>2. QED
  BY <1>1, SumOfAmountsNat

\* A transfer that starts is its owner's, and so is one that ends.
LEMMA OfStarts ==
  ASSUME NEW under \in SUBSET Pending, IsFiniteSet(under), NEW p \in Pending, p \notin under, NEW o
  PROVE  SumOfAmounts(Of(o, under \cup {p}))
           = SumOfAmounts(Of(o, under)) + (IF o = p.owner THEN p.amount ELSE 0)
<1>1. p.amount \in Nat
  BY DEF Pending
<1>2. CASE o = p.owner
  <2>1. Of(o, under \cup {p}) = Of(o, under) \cup {p} /\ p \notin Of(o, under)
    BY <1>2 DEF Of
  <2>2. QED
    BY <1>1, <1>2, <2>1, OfIs, SumOfAmountsWith
<1>3. CASE o # p.owner
  <2>1. Of(o, under \cup {p}) = Of(o, under)
    BY <1>3 DEF Of
  <2>2. QED
    BY <1>3, <2>1, OfIs
<1>4. QED
  BY <1>2, <1>3

LEMMA OfEnds ==
  ASSUME NEW under \in SUBSET Pending, IsFiniteSet(under), NEW p \in under, NEW o
  PROVE  SumOfAmounts(Of(o, under \ {p}))
           = SumOfAmounts(Of(o, under)) - (IF o = p.owner THEN p.amount ELSE 0)
<1>1. p.amount \in Nat
  BY DEF Pending
<1>2. CASE o = p.owner
  <2>1. Of(o, under \ {p}) = Of(o, under) \ {p} /\ p \in Of(o, under)
    BY <1>2 DEF Of
  <2>2. /\ SumOfAmounts(Of(o, under)) = p.amount + SumOfAmounts(Of(o, under) \ {p})
        /\ SumOfAmounts(Of(o, under) \ {p}) \in Nat
    BY <2>1, OfIs, SumOfAmountsWithout
  <2>3. SumOfAmounts(Of(o, under \ {p})) = SumOfAmounts(Of(o, under) \ {p})
    BY <2>1, Zenon
  <2>4. QED
    BY <1>1, <1>2, <2>2, <2>3
<1>3. CASE o # p.owner
  <2>1. Of(o, under \ {p}) = Of(o, under)
    BY <1>3 DEF Of
  <2>2. QED
    BY <1>3, <2>1, OfIs
<1>4. QED
  BY <1>2, <1>3

Kept(o) == credited[o] + SumOfAmounts(Of(o, pending)) = owed[o]

LEMMA KeptIs == (\A o \in Owners : Kept(o)) <=> OwnersKeepTheirZen
BY DEF Kept, Of, OwnersKeepTheirZen

LEMMA InitKept == ASSUME EgressInit PROVE \A o \in Owners : Kept(o)
<1>1. ASSUME NEW o \in Owners PROVE Kept(o)
  <2>1. Of(o, pending) = {} /\ SumOfAmounts({}) = 0
    BY SumEmpty DEF EgressInit, Of, SumOfAmounts
  <2>2. QED
    BY <2>1 DEF EgressInit, AccountInit, Kept
<1>2. QED
  BY <1>1

\* A step changes one owner's credit, transfers and claim, and nobody else's.
Moves(owner, dc, ds, dw) ==
  \A o \in Owners :
    /\ credited'[o] = credited[o] + (IF o = owner THEN dc ELSE 0)
    /\ SumOfAmounts(Of(o, pending'))
         = SumOfAmounts(Of(o, pending)) + (IF o = owner THEN ds ELSE 0)
    /\ owed'[o] = owed[o] + (IF o = owner THEN dw ELSE 0)

\* By amounts that match, it leaves everybody what is theirs.
LEMMA OwnerKept ==
  ASSUME IInv, Transfers, \A o \in Owners : Kept(o),
         NEW owner \in Owners, NEW dc \in Int, NEW ds \in Int, NEW dw \in Int, dc + ds = dw,
         Moves(owner, dc, ds, dw)
  PROVE  (\A o \in Owners : Kept(o))'
<1>1. ASSUME NEW o \in Owners
      PROVE  credited'[o] + SumOfAmounts(Of(o, pending')) = owed'[o]
  <2>1. /\ credited[o] \in Int /\ owed[o] \in Int /\ SumOfAmounts(Of(o, pending)) \in Int
        /\ credited[o] + SumOfAmounts(Of(o, pending)) = owed[o]
    BY OfIs DEF IInv, EgressTypeOK, AccountTypeOK, Transfers, Kept
  <2>2. CASE o = owner
    <3>1. /\ credited'[o] = credited[o] + dc /\ owed'[o] = owed[o] + dw
          /\ SumOfAmounts(Of(o, pending')) = SumOfAmounts(Of(o, pending)) + ds
      BY <2>2 DEF Moves
    <3>2. (credited[o] + dc) + (SumOfAmounts(Of(o, pending)) + ds) = owed[o] + dw
      BY <2>1
    <3>3. QED
      BY <3>1, <3>2, Zenon
  <2>3. CASE o # owner
    <3>1. /\ credited'[o] = credited[o] + 0 /\ owed'[o] = owed[o] + 0
          /\ SumOfAmounts(Of(o, pending')) = SumOfAmounts(Of(o, pending)) + 0
      BY <2>3 DEF Moves
    <3>2. (credited[o] + 0) + (SumOfAmounts(Of(o, pending)) + 0) = owed[o] + 0
      BY <2>1
    <3>3. QED
      BY <3>1, <3>2, Zenon
  <2>4. QED
    BY <2>2, <2>3
<1>2. QED
  BY <1>1 DEF Kept

LEMMA NothingMoves ==
  ASSUME \A o \in Owners : Kept(o), UNCHANGED <<credited, pending, owed>>
  PROVE  (\A o \in Owners : Kept(o))'
BY DEF Kept

LEMMA SameTransfers ==
  ASSUME IInv, Transfers, pending' = pending, NEW o \in Owners
  PROVE  SumOfAmounts(Of(o, pending')) = SumOfAmounts(Of(o, pending)) + 0
BY OfIs DEF IInv, EgressTypeOK, Transfers

LEMMA RelayedCallKept ==
  ASSUME IInv, Transfers, \A o \in Owners : Kept(o),
         NEW m \in Messages, NEW fee \in Fees, RelayedCall(m, fee)
  PROVE  (\A o \in Owners : Kept(o))'
<1>1. m.owner \in Owners /\ m.assets \in Nat /\ fee \in Nat
  BY MessageTypes, EgressAssumption
<1>2. CASE RedeemAndCredit(m, fee)
  <2> DEFINE net == m.assets - fee
  <2>1. /\ net \in Int /\ pending' = pending /\ net + 0 = net
        /\ credited' = [credited EXCEPT ![m.owner] = @ + net]
        /\ owed' = [owed EXCEPT ![m.owner] = @ + net]
    BY <1>1, <1>2 DEF RedeemAndCredit, Credit, bridgeVars
  <2> HIDE DEF net
  <2>2. \A o \in Owners :
           /\ credited'[o] = credited[o] + (IF o = m.owner THEN net ELSE 0)
           /\ owed'[o] = owed[o] + (IF o = m.owner THEN net ELSE 0)
    BY <1>1, <2>1 DEF IInv, EgressTypeOK, AccountTypeOK
  <2>3. \A o \in Owners :
           SumOfAmounts(Of(o, pending'))
             = SumOfAmounts(Of(o, pending)) + (IF o = m.owner THEN 0 ELSE 0)
    BY <2>1, SameTransfers
  <2>4. Moves(m.owner, net, 0, net)
    BY <2>2, <2>3 DEF Moves
  <2>5. 0 \in Int
    OBVIOUS
  <2>6. QED
    BY <1>1, <2>1, <2>4, <2>5, OwnerKept, Zenon
<1>3. CASE RedeemDirectly(m, fee)
  BY <1>3, NothingMoves DEF RedeemDirectly, bridgeVars
<1>4. CASE BridgeViaOft(m, fee)
  <2> DEFINE gone == m.assets - ((m.assets - fee) % DecimalConversionRate)
  <2>1. /\ gone \in Nat /\ pending' = pending
        /\ credited' = [credited EXCEPT ![m.owner] = @ - gone]
        /\ owed' = [owed EXCEPT ![m.owner] = @ - gone]
    BY <1>1, <1>4, DustTypes DEF BridgeViaOft, BridgeDebit, Debit, bridgeVars
  <2> HIDE DEF gone
  <2>2. \A o \in Owners :
           /\ credited'[o] = credited[o] + (IF o = m.owner THEN -gone ELSE 0)
           /\ owed'[o] = owed[o] + (IF o = m.owner THEN -gone ELSE 0)
    BY <1>1, <2>1 DEF IInv, EgressTypeOK, AccountTypeOK
  <2>3. \A o \in Owners :
           SumOfAmounts(Of(o, pending'))
             = SumOfAmounts(Of(o, pending)) + (IF o = m.owner THEN 0 ELSE 0)
    BY <2>1, SameTransfers
  <2>4. 0 \in Int /\ -gone \in Int /\ -gone + 0 = -gone
    BY <2>1
  <2>5. Moves(m.owner, -gone, 0, -gone)
    BY <2>2, <2>3 DEF Moves
  <2>6. QED
    BY <1>1, <2>4, <2>5, OwnerKept, Zenon
<1>5. CASE BridgeAndWait(m, fee)
  <2> DEFINE amount == m.assets - fee
             p == [id |-> <<m.owner, m.nonce>>, owner |-> m.owner, amount |-> amount]
  <2>1. /\ amount \in Nat
        /\ credited' = [credited EXCEPT ![m.owner] = @ - (m.assets - 0)]
        /\ owed' = [owed EXCEPT ![m.owner] = @ - fee]
        /\ \A q \in pending : q.id # <<m.owner, m.nonce>>
        /\ pending' = pending \cup {p}
    BY <1>1, <1>5, DustTypes DEF BridgeAndWait, BridgeDebit, Debit
  <2>2. p \in Pending /\ p \notin pending /\ p.owner = m.owner /\ p.amount = amount
    BY <1>1, <2>1, MessageTypes DEF Pending, BridgeId
  <2>3. -m.assets + amount = -fee /\ -m.assets \in Int /\ amount \in Int /\ -fee \in Int
    BY <1>1
  <2> HIDE DEF p, amount
  <2>4. \A o \in Owners :
           /\ credited'[o] = credited[o] + (IF o = m.owner THEN -m.assets ELSE 0)
           /\ owed'[o] = owed[o] + (IF o = m.owner THEN -fee ELSE 0)
    BY <1>1, <2>1 DEF IInv, EgressTypeOK, AccountTypeOK
  <2>5. \A o \in Owners :
           SumOfAmounts(Of(o, pending \cup {p}))
             = SumOfAmounts(Of(o, pending)) + (IF o = m.owner THEN amount ELSE 0)
    BY <2>2, OfStarts DEF Transfers, IInv, EgressTypeOK
  <2>6. Moves(m.owner, -m.assets, amount, -fee)
    BY <2>1, <2>4, <2>5 DEF Moves
  <2>7. QED
    BY <1>1, <2>3, <2>6, OwnerKept
<1>6. QED
  BY <1>2, <1>3, <1>4, <1>5 DEF RelayedCall

LEMMA BridgeCallKept ==
  ASSUME IInv, Transfers, \A o \in Owners : Kept(o),
         NEW parked \in atBridge, OnBridgeRefund(parked) \/ OnBridgeComplete(parked)
  PROVE  (\A o \in Owners : Kept(o))'
<1>1. PICK p \in pending :
        /\ p.id = parked.id /\ Settle(p) /\ atBridge' = atBridge \ {parked}
        /\ \/ Credit(p.owner, parked.amount) /\ owed' = owed
           \/ UNCHANGED accountVars /\ owed' = [owed EXCEPT ![p.owner] = @ - parked.amount]
  BY DEF OnBridgeRefund, OnBridgeComplete
<1> DEFINE amount == p.amount
<1>2. p.owner \in Owners /\ amount \in Nat /\ parked.amount = amount
  BY <1>1, TransferEnds DEF Pending, IInv, EgressTypeOK
<1> HIDE DEF amount
<1>3. \A o \in Owners :
         SumOfAmounts(Of(o, pending \ {p}))
           = SumOfAmounts(Of(o, pending)) - (IF o = p.owner THEN amount ELSE 0)
  BY OfEnds DEF Transfers, amount, IInv, EgressTypeOK
<1>4. \A o \in Owners : SumOfAmounts(Of(o, pending)) \in Nat
  BY OfIs DEF Transfers, IInv, EgressTypeOK
<1>5. \A o \in Owners :
         SumOfAmounts(Of(o, pending \ {p}))
           = SumOfAmounts(Of(o, pending)) + (IF o = p.owner THEN -amount ELSE 0)
  <2>1. \A k \in Nat : \A n \in Nat : k - n = k + -n /\ k - 0 = k + 0
    OBVIOUS
  <2> SUFFICES ASSUME NEW o \in Owners
               PROVE  SumOfAmounts(Of(o, pending \ {p}))
                        = SumOfAmounts(Of(o, pending)) + (IF o = p.owner THEN -amount ELSE 0)
    OBVIOUS
  <2>2. /\ SumOfAmounts(Of(o, pending)) - amount = SumOfAmounts(Of(o, pending)) + -amount
        /\ SumOfAmounts(Of(o, pending)) - 0 = SumOfAmounts(Of(o, pending)) + 0
    BY <1>2, <1>4, <2>1, Zenon
  <2>3. CASE o = p.owner
    <3>1. SumOfAmounts(Of(o, pending \ {p})) = SumOfAmounts(Of(o, pending)) - amount
      BY <1>3, <2>3
    <3>2. QED
      BY <2>2, <2>3, <3>1
  <2>4. CASE o # p.owner
    <3>1. SumOfAmounts(Of(o, pending \ {p})) = SumOfAmounts(Of(o, pending)) - 0
      BY <1>3, <2>4
    <3>2. QED
      BY <2>2, <2>4, <3>1
  <2>5. QED
    BY <2>3, <2>4
<1>6. pending' = pending \ {p}
  BY <1>1 DEF Settle
<1>7. 0 \in Int /\ -amount \in Int /\ amount \in Int /\ amount + -amount = 0 /\ 0 + -amount = -amount
  BY <1>2
<1>8. CASE Credit(p.owner, parked.amount) /\ owed' = owed
  <2>1. \A o \in Owners :
           /\ credited'[o] = credited[o] + (IF o = p.owner THEN amount ELSE 0)
           /\ owed'[o] = owed[o] + (IF o = p.owner THEN 0 ELSE 0)
    BY <1>2, <1>8 DEF Credit, IInv, EgressTypeOK, AccountTypeOK
  <2>2. Moves(p.owner, amount, -amount, 0)
    BY <1>5, <1>6, <2>1 DEF Moves
  <2>3. QED
    BY <1>2, <1>7, <2>2, OwnerKept, Zenon
<1>9. CASE UNCHANGED accountVars /\ owed' = [owed EXCEPT ![p.owner] = @ - parked.amount]
  <2>1. \A o \in Owners :
           /\ credited'[o] = credited[o] + (IF o = p.owner THEN 0 ELSE 0)
           /\ owed'[o] = owed[o] + (IF o = p.owner THEN -amount ELSE 0)
    BY <1>2, <1>9 DEF accountVars, IInv, EgressTypeOK, AccountTypeOK
  <2>2. Moves(p.owner, 0, -amount, -amount)
    BY <1>5, <1>6, <2>1 DEF Moves
  <2>3. QED
    BY <1>2, <1>7, <2>2, OwnerKept, Zenon
<1>10. QED
  BY <1>1, <1>8, <1>9

LEMMA NextKept ==
  ASSUME IInv, Transfers, \A o \in Owners : Kept(o), [EgressNext]_egressVars
  PROVE  (\A o \in Owners : Kept(o))'
<1>1. ASSUME NEW m \in Messages, NEW toSelf \in BOOLEAN, WithdrawToHorizen(m, toSelf)
      PROVE  (\A o \in Owners : Kept(o))'
  <2> DEFINE assets == m.assets
  <2>1. /\ m.owner \in Owners /\ assets \in Nat /\ pending' = pending
        /\ credited' = [credited EXCEPT ![m.owner] = @ - assets]
        /\ owed' = [owed EXCEPT ![m.owner] = @ - assets]
    BY <1>1, MessageTypes DEF WithdrawToHorizen, Debit, bridgeVars
  <2> HIDE DEF assets
  <2>2. \A o \in Owners :
           /\ credited'[o] = credited[o] + (IF o = m.owner THEN -assets ELSE 0)
           /\ owed'[o] = owed[o] + (IF o = m.owner THEN -assets ELSE 0)
    BY <2>1 DEF IInv, EgressTypeOK, AccountTypeOK
  <2>3. \A o \in Owners :
           SumOfAmounts(Of(o, pending'))
             = SumOfAmounts(Of(o, pending)) + (IF o = m.owner THEN 0 ELSE 0)
    BY <2>1, SameTransfers
  <2>4. -assets \in Int /\ -assets + 0 = -assets
    BY <2>1
  <2>5. Moves(m.owner, -assets, 0, -assets)
    BY <2>2, <2>3 DEF Moves
  <2>6. QED
    BY <2>1, <2>4, <2>5, OwnerKept
<1>2. CASE \/ UNCHANGED egressVars \/ Tick \/ GovernanceCall
           \/ \E owner \in Cancellers : InvalidateNonce(owner)
  BY <1>2, NothingMoves
  DEF egressVars, Tick, GovernanceCall, SetBridge, Pause, Unpause, SweepFloatToUnassigned,
      AddUnassigned, Rescue, RescueUnassigned, InvalidateNonce, accountVars, bridgeVars
<1>3. QED
  BY <1>1, <1>2, RelayedCallKept, BridgeCallKept DEF EgressNext

\* Every ZEN credited from a redemption stays its owner's until it reaches them: in the
\* credit, under way on a bridge, or credited again.
THEOREM EgressOwnersKeepTheirZen == EgressSpec => []OwnersKeepTheirZen
<1> DEFINE AllKept == \A o \in Owners : Kept(o)
<1>1. EgressInit => AllKept
  BY InitKept
<1>2. IInv /\ Transfers /\ AllKept /\ [EgressNext]_egressVars => AllKept'
  BY NextKept
<1>3. AllKept => OwnersKeepTheirZen
  BY KeptIs
<1> HIDE DEF AllKept
<1>4. QED
  BY <1>1, <1>2, <1>3, AlwaysIInv, AlwaysTransfers, PTL DEF EgressSpec
=============================================================================
