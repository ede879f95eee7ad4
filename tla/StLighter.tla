----------------------------- MODULE StLighter -----------------------------
(***************************************************************************)
(* The liquid-staking vault of src/stlighter/StLighter.sol with its share  *)
(* token LtZEN.  The vault owns one deposit of the staking contract; users *)
(* hold shares of it, on either chain.  Every entry point first collects   *)
(* the deposit's reward and stakes it again, then converts at the rate     *)
(* between staked ZEN and issued shares, rounded down.                     *)
(*                                                                         *)
(* The staking contract appears as what it owes the deposit (StakedPosition*)
(* says what is assumed of it): its stake, and its unclaimed reward, which *)
(* only time increases.  ZenStaker charges no claim fee.  A reverting call *)
(* is an action that is not enabled.                                       *)
(***************************************************************************)
EXTENDS LtZEN, FiniteSetsExt

CONSTANTS
  NoAccount, Vault,
  VIRTUAL_SHARES,      \* 10 ** DECIMALS_OFFSET
  BPS_DENOMINATOR, MAX_FEE_BPS, MAX_GAS_FEE_ZEN,
  InitialZen,          \* ZEN each account starts with: a function on Holders
  DepositAmounts,      \* assets of one deposit
  Rewards,             \* what the deposit may earn in one unit of time
  FeeLevels,           \* protocol fees governance may choose
  GasFees,             \* fees a relayer may charge or a user may allow
  SignedShares,        \* shares of one signed redemption
  Signers,             \* holders who sign messages
  Relayer,             \* the address signed messages name as their relayer
  MaxNonce,            \* bound: nonces a user ever uses
  MaxSigned,           \* bound: messages ever signed
  MaxTime              \* bound: last block timestamp

\* Addresses ZEN may be sent to; nothing in the code excludes the vault itself.
Payees == Holders \cup {Vault}

ASSUME StLighterAssumption ==
  /\ NoAccount \notin Holders /\ Vault \notin Holders /\ NoAccount # Vault
  /\ Relayer \in Payees
  /\ Signers \subseteq Holders
  /\ VIRTUAL_SHARES \in Nat \ {0} /\ BPS_DENOMINATOR \in Nat \ {0}
  /\ MAX_FEE_BPS \in Nat /\ MAX_FEE_BPS <= BPS_DENOMINATOR
  /\ MAX_GAS_FEE_ZEN \in Nat /\ InitialZen \in [Holders -> Nat]
  /\ DepositAmounts \subseteq Nat /\ Rewards \subseteq Nat
  /\ FeeLevels \subseteq Nat /\ GasFees \subseteq Nat /\ SignedShares \subseteq Nat
  /\ MaxNonce \in Nat /\ MaxSigned \in Nat /\ MaxTime \in Nat

\* There are finitely many addresses, so the shares they hold have a sum.
ASSUME HoldersFinite == IsFiniteSet(Holders)

VARIABLES
  zen,                 \* ZEN of each account and of the vault itself
  strayZen,            \* history: ZEN that was sent to the vault to stay there
  staked, unclaimed,   \* the vault's deposit: its balance, its reward in ZEN
  initialized, issuedShares, feeBps, feeRecipient, paused, nonces,
  now,
  signed,              \* messages signed so far, whoever holds them
  gasFeesPaid          \* history: ZEN each user's messages paid to relayers

positionVars == <<zen, strayZen, staked, unclaimed, initialized, issuedShares>>
configVars   == <<feeBps, feeRecipient, paused>>
signingVars  == <<nonces, signed, gasFeesPaid>>
vaultVars    == <<positionVars, configVars, signingVars, now, tokenVars>>

\* A user's authorisation of one gasless call.
Message == [kind : {"deposit", "redeem"}, user : Holders, amount : Nat, maxFee : Nat,
            nonce : Nat, deadline : Nat]

Signable ==
  {m \in [kind : {"deposit", "redeem"}, user : Signers,
          amount : DepositAmounts \cup SignedShares, maxFee : GasFees,
          nonce : 0..(MaxNonce - 1), deadline : 1..MaxTime] :
     m.amount \in IF m.kind = "deposit" THEN DepositAmounts ELSE SignedShares}

(***************************************************************************)
(* The exchange rate.                                                      *)
(***************************************************************************)

totalAssets == IF initialized THEN staked + unclaimed ELSE 0

\* Mutant: rounds in the depositor's favour.
SharesForRoundedUp(assets, pool) ==
  (assets * (issuedShares + VIRTUAL_SHARES) + pool) \div (pool + 1)

\* convertToShares and convertToAssets, with the assets the pool holds.
SharesFor(assets, pool) ==
  (assets * (issuedShares + VIRTUAL_SHARES)) \div (pool + 1)

\* Mutant: rounds in the redeemer's favour.
AssetsForRoundedUp(shares, pool) ==
  (shares * (pool + 1) + issuedShares + VIRTUAL_SHARES - 1)
    \div (issuedShares + VIRTUAL_SHARES)

AssetsFor(shares, pool) ==
  (shares * (pool + 1)) \div (issuedShares + VIRTUAL_SHARES)

(***************************************************************************)
(* _harvest: what the claim collects, how it is split, and the ZEN ledger  *)
(* and the stake it leaves.  Every entry point starts from these.          *)
(***************************************************************************)

claimed == IF initialized THEN unclaimed ELSE 0

protocolFee == (claimed * feeBps) \div BPS_DENOMINATOR

restaked == claimed - protocolFee

Move(ledger, from, to, amount) ==
  IF amount = 0 THEN ledger
  ELSE [[ledger EXCEPT ![from] = @ - amount] EXCEPT ![to] = @ + amount]

\* The claim arrives, the fee leaves for its recipient, the rest is staked.
HarvestedZen ==
  LET feePaid == Move([zen EXCEPT ![Vault] = @ + claimed], Vault, feeRecipient, protocolFee)
  IN  [feePaid EXCEPT ![Vault] = @ - restaked]

\* What of a payment stays in the vault: all of it, when it is paid to the vault.
ToVault(payee, amount) == IF payee = Vault THEN amount ELSE 0

HarvestedStray == strayZen + ToVault(feeRecipient, protocolFee)

HarvestedStake == staked + restaked

Harvest ==
  /\ zen' = HarvestedZen
  /\ strayZen' = HarvestedStray
  /\ staked' = HarvestedStake
  /\ unclaimed' = 0
  /\ UNCHANGED <<initialized, issuedShares, configVars, signingVars, now, tokenVars>>

(***************************************************************************)
(* Deposits and redemptions.                                               *)
(***************************************************************************)

\* The gas fee leaves before the shares are computed; the rest is staked.
DepositInto(user, assets, receiver, gasFee, relayer) ==
  LET pool   == HarvestedStake
      net    == assets - gasFee
      shares == SharesFor(net, pool)
      pulled == Move(HarvestedZen, user, Vault, assets) IN
  /\ assets # 0 /\ gasFee < assets
  /\ HarvestedZen[user] >= assets
  /\ shares # 0
  /\ zen' = [Move(pulled, Vault, relayer, gasFee) EXCEPT ![Vault] = @ - net]
  /\ strayZen' = HarvestedStray + ToVault(relayer, gasFee)
  /\ staked' = pool + net
  /\ unclaimed' = 0
  /\ initialized' = TRUE
  /\ issuedShares' = issuedShares + shares
  /\ Mint(receiver, shares)

\* Mutant: the last exit is told by the hub's supply, blind to shares abroad.
RedemptionValueByHubSupply(shares, pool) ==
  IF shares = SumFunctionOnSet(hub, Holders) THEN pool ELSE AssetsFor(shares, pool)

\* The last share out takes the whole pool, rounding gains included.
RedemptionValue(shares, pool) ==
  IF shares = issuedShares THEN pool ELSE AssetsFor(shares, pool)

\* Mutant: the receiver gets the vault's whole balance, not what was withdrawn.
PayOutBalance(ledger, receiver, relayer, assets, gasFee) ==
  Move(Move(ledger, Vault, relayer, gasFee), Vault, receiver, ledger[Vault] - gasFee)

PayOut(ledger, receiver, relayer, assets, gasFee) ==
  Move(Move(ledger, Vault, relayer, gasFee), Vault, receiver, assets - gasFee)

\* What is withdrawn goes to the relayer and the receiver.
RedeemFrom(owner, shares, receiver, gasFee, relayer) ==
  LET pool     == HarvestedStake
      assets   == RedemptionValue(shares, pool)
      withdrew == [HarvestedZen EXCEPT ![Vault] = @ + assets] IN
  /\ shares # 0
  /\ gasFee < assets
  /\ issuedShares >= shares
  /\ issuedShares' = issuedShares - shares
  /\ Burn(owner, shares)
  /\ pool >= assets
  /\ staked' = pool - assets
  /\ unclaimed' = 0
  /\ zen' = PayOut(withdrew, receiver, relayer, assets, gasFee)
  /\ strayZen' = HarvestedStray + ToVault(relayer, gasFee) + ToVault(receiver, assets - gasFee)
  /\ UNCHANGED initialized

Deposit(user, assets, receiver) ==
  /\ ~paused
  /\ DepositInto(user, assets, receiver, 0, NoAccount)
  /\ UNCHANGED <<configVars, signingVars, now>>

\* Mutant: a pause stops redemptions too.
RedeemUnlessPaused(user, shares, receiver) ==
  /\ ~paused
  /\ RedeemFrom(user, shares, receiver, 0, NoAccount)
  /\ UNCHANGED <<configVars, signingVars, now>>

Redeem(user, shares, receiver) ==
  /\ RedeemFrom(user, shares, receiver, 0, NoAccount)
  /\ UNCHANGED <<configVars, signingVars, now>>

(***************************************************************************)
(* Gasless calls: anyone holding a signed message may submit it, at any    *)
(* time and any number of times, with any fee.                             *)
(***************************************************************************)

Sign(m) ==
  /\ Cardinality(signed) < MaxSigned
  /\ signed' = signed \cup {m}
  /\ UNCHANGED <<positionVars, configVars, nonces, gasFeesPaid, now, tokenVars>>

\* Mutant: the nonce is checked but not used up.
SpendKeepsNonce(m, feeZen) ==
  /\ m \in signed
  /\ now <= m.deadline
  /\ feeZen <= m.maxFee
  /\ feeZen <= MAX_GAS_FEE_ZEN /\ m.maxFee <= MAX_GAS_FEE_ZEN
  /\ nonces[m.user] = m.nonce
  /\ gasFeesPaid' = [gasFeesPaid EXCEPT ![m.user] = @ + feeZen]
  /\ UNCHANGED <<nonces, signed>>

\* Deadline, fee limits and signature; the signature is over the current nonce,
\* which is used up.
Spend(m, feeZen) ==
  /\ m \in signed
  /\ now <= m.deadline
  /\ feeZen <= m.maxFee
  /\ feeZen <= MAX_GAS_FEE_ZEN /\ m.maxFee <= MAX_GAS_FEE_ZEN
  /\ nonces[m.user] = m.nonce
  /\ nonces' = [nonces EXCEPT ![m.user] = @ + 1]
  /\ gasFeesPaid' = [gasFeesPaid EXCEPT ![m.user] = @ + feeZen]
  /\ UNCHANGED signed

\* The payer is the user's own wallet.
DepositWithSig(m, feeZen) ==
  /\ ~paused
  /\ m.kind = "deposit"
  /\ Spend(m, feeZen)
  /\ DepositInto(m.user, m.amount, m.user, feeZen, Relayer)
  /\ UNCHANGED <<configVars, now>>

RedeemWithSig(m, feeZen) ==
  /\ m.kind = "redeem"
  /\ Spend(m, feeZen)
  /\ RedeemFrom(m.user, m.amount, m.user, feeZen, Relayer)
  /\ UNCHANGED <<configVars, now>>

InvalidateNonce(user) ==
  /\ nonces[user] < MaxNonce
  /\ nonces' = [nonces EXCEPT ![user] = @ + 1]
  /\ UNCHANGED <<positionVars, configVars, signed, gasFeesPaid, now, tokenVars>>

\* A plain transfer of ZEN to the vault, which the contract does not see.
Donate(user, amount) ==
  /\ zen[user] >= amount
  /\ zen' = Move(zen, user, Vault, amount)
  /\ strayZen' = strayZen + amount
  /\ UNCHANGED <<staked, unclaimed, initialized, issuedShares, configVars, signingVars,
                 now, tokenVars>>

(***************************************************************************)
(* Governance, the staking contract and the clock.                         *)
(***************************************************************************)

SetFeeParameters(bps, recipient) ==
  /\ bps <= MAX_FEE_BPS
  /\ bps # 0 => recipient # NoAccount
  /\ feeBps' = bps
  /\ feeRecipient' = recipient
  /\ UNCHANGED <<positionVars, paused, signingVars, now, tokenVars>>

Pause ==
  /\ ~paused
  /\ paused' = TRUE
  /\ UNCHANGED <<positionVars, feeBps, feeRecipient, signingVars, now, tokenVars>>

Unpause ==
  /\ paused
  /\ paused' = FALSE
  /\ UNCHANGED <<positionVars, feeBps, feeRecipient, signingVars, now, tokenVars>>

\* Time passes; rewards stream to the deposit, if it has stake.
Tick(reward) ==
  /\ now < MaxTime
  /\ now' = now + 1
  /\ reward > 0 => staked > 0
  /\ unclaimed' = unclaimed + reward
  /\ UNCHANGED <<zen, strayZen, staked, initialized, issuedShares, configVars, signingVars, tokenVars>>

VaultInit ==
  /\ TokenInit
  /\ zen = [acct \in Payees |-> IF acct = Vault THEN 0 ELSE InitialZen[acct]]
  /\ strayZen = 0
  /\ staked = 0 /\ unclaimed = 0 /\ initialized = FALSE /\ issuedShares = 0
  /\ feeBps = 0 /\ feeRecipient = NoAccount /\ paused = FALSE
  /\ nonces = [u \in Holders |-> 0] /\ signed = {}
  /\ gasFeesPaid = [u \in Holders |-> 0]
  /\ now = 1

UserCall(user) ==
  \/ \E assets \in DepositAmounts, receiver \in Holders : Deposit(user, assets, receiver)
  \/ \E shares \in 1..hub[user], receiver \in Payees : Redeem(user, shares, receiver)
  \/ InvalidateNonce(user)
  \/ \E amount \in 1..zen[user] : Donate(user, amount)

GaslessCall(m) ==
  \/ \E feeZen \in GasFees : DepositWithSig(m, feeZen)
  \/ \E feeZen \in GasFees : RedeemWithSig(m, feeZen)

GovernanceCall ==
  \/ \E bps \in FeeLevels, recipient \in Payees \cup {NoAccount} :
       SetFeeParameters(bps, recipient)
  \/ Pause
  \/ Unpause

VaultNext ==
  \/ \E user \in Holders : UserCall(user)
  \/ \E m \in Signable : Sign(m)
  \/ \E m \in signed : GaslessCall(m)
  \/ Harvest
  \/ GovernanceCall
  \/ \E reward \in Rewards : Tick(reward)
  \/ TokenStep /\ UNCHANGED <<positionVars, configVars, signingVars, now>>

VaultSpec == VaultInit /\ [][VaultNext]_vaultVars

(***************************************************************************)
(* Properties.                                                             *)
(***************************************************************************)

\* Every variable has its type; in particular no account, and not the vault
\* between the transfers of one call, ever pays what it does not have.
VaultTypeOK ==
  /\ TokenTypeOK
  /\ zen \in [Payees -> Nat] /\ strayZen \in Nat
  /\ staked \in Nat /\ unclaimed \in Nat /\ initialized \in BOOLEAN
  /\ issuedShares \in Nat
  /\ feeBps \in 0..MAX_FEE_BPS /\ feeRecipient \in Payees \cup {NoAccount}
  /\ paused \in BOOLEAN
  /\ nonces \in [Holders -> Nat] /\ signed \in SUBSET Message
  /\ now \in Nat /\ gasFeesPaid \in [Holders -> Nat]

\* The vault's counter is the whole supply of the token: hub, spoke and in flight.
SharesMatchSupply ==
  issuedShares = SumFunctionOnSet(hub, Holders)
                   + SumFunctionOnSet(spoke, Holders)
                   + SumFunctionOnSet([packet \in packets |-> packet.amount], packets)

\* No share without stake behind it, at worst at the rate of the first deposit,
\* and no stake that no share owns: whatever is rounded, skimmed by the protocol
\* fee or left by the last exit, the vault can start again from nothing.
SharesAreBacked ==
  /\ issuedShares <= VIRTUAL_SHARES * staked
  /\ issuedShares = 0 => staked = 0 /\ unclaimed = 0

\* Between calls the vault holds exactly the ZEN that was sent to it to stay:
\* donations, and payouts and fees whose payee is the vault itself.  No sequence of
\* deposits, harvests and redemptions leaves ZEN of its own behind (it is staked, or
\* with the user, the relayer or the fee recipient), and none of them stakes, pays
\* or withdraws with a donation, as the donation tests of StLighter.t.sol assume.
VaultKeepsStrayZen == zen[Vault] = strayZen

\* The highest fee that u has signed for under a nonce.
LargestFee(u, k) ==
  Max({0} \cup {m.maxFee : m \in {msg \in signed : msg.user = u /\ msg.nonce = k}})

\* A message is paid for once, and never above what its user allowed; of several
\* messages for the same nonce only one is ever paid for.
FeesWithinSignatures ==
  \A u \in Holders :
    LET used == 0..(nonces[u] - 1)
    IN  gasFeesPaid[u] <= SumFunctionOnSet([k \in used |-> LargestFee(u, k)], used)

\* A holder whose shares are worth anything can redeem them all, paused or not,
\* whatever the fee, the unharvested reward and the shares abroad.
RedeemNeverBlocked ==
  \A h \in Holders :
    hub[h] > 0 /\ RedemptionValue(hub[h], HarvestedStake) > 0
      => ENABLED Redeem(h, hub[h], h)

\* Stake per share, virtual amounts included, never falls: no deposit, redemption,
\* harvest or crossing takes anything from those who hold on, except that the last
\* exit starts the vault afresh.
RateNeverFalls ==
  [][\/ issuedShares' = 0
     \/ (staked' + 1) * (issuedShares + VIRTUAL_SHARES)
          >= (staked + 1) * (issuedShares' + VIRTUAL_SHARES)]_vaultVars

\* The rate quoted from totalAssets, which counts the unclaimed reward, does not
\* fall either as long as no protocol fee is due on that reward.
QuotedRateNeverFalls ==
  [][\/ issuedShares' = 0
     \/ protocolFee > 0
     \/ (totalAssets' + 1) * (issuedShares + VIRTUAL_SHARES)
          >= (totalAssets + 1) * (issuedShares' + VIRTUAL_SHARES)]_vaultVars
=============================================================================
