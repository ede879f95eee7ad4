-------------------------- MODULE StLighterProofs --------------------------
(***************************************************************************)
(* What holds of StLighter for every value of its constants.               *)
(***************************************************************************)
EXTENDS StLighter, ArithmeticLemmas

(***************************************************************************)
(* The exchange rate, as arithmetic: i shares issued, v virtual shares, a  *)
(* pool of p.                                                              *)
(***************************************************************************)

\* Shares minted for n assets are worth at most n, at the rate they leave.
LEMMA MintedShares ==
  ASSUME NEW n \in Nat, NEW i \in Nat, NEW v \in Nat \ {0}, NEW p \in Nat,
         NEW s \in Nat, s = (n * (i + v)) \div (p + 1)
  PROVE  s * (p + 1) <= n * (i + v)
<1>1. n * (i + v) \in Nat /\ p + 1 \in Nat \ {0}
  BY MulNat
<1>2. QED
  BY <1>1, DivFloor

\* A deposit never lowers the rate.
LEMMA DepositKeepsRate ==
  ASSUME NEW n \in Nat, NEW i \in Nat, NEW v \in Nat \ {0}, NEW p \in Nat, NEW s \in Nat,
         s * (p + 1) <= n * (i + v)
  PROVE  (p + n + 1) * (i + v) >= (p + 1) * (i + s + v)
<1>1. (p + n + 1) * (i + v) = (p + 1) * (i + v) + n * (i + v)
  OBVIOUS
<1>2. (p + 1) * (i + s + v) = (p + 1) * (i + v) + s * (p + 1)
  OBVIOUS
<1>3. n * (i + v) \in Nat /\ s * (p + 1) \in Nat /\ (p + 1) * (i + v) \in Nat
  BY MulNat
<1>4. QED
  BY <1>1, <1>2, <1>3

\* A redemption never lowers it either.
LEMMA RedeemKeepsRate ==
  ASSUME NEW i \in Nat, NEW v \in Nat \ {0}, NEW p \in Nat, NEW s \in Nat, s <= i,
         NEW a \in Nat, a <= p, a * (i + v) <= s * (p + 1)
  PROVE  (p - a + 1) * (i + v) >= (p + 1) * (i - s + v)
<1>1. (p - a + 1) * (i + v) = (p + 1) * (i + v) - a * (i + v)
  OBVIOUS
<1>2. (p + 1) * (i - s + v) = (p + 1) * (i + v) - s * (p + 1)
  OBVIOUS
<1>3. a * (i + v) \in Nat /\ s * (p + 1) \in Nat /\ (p + 1) * (i + v) \in Nat
  BY MulNat
<1>4. QED
  BY <1>1, <1>2, <1>3

\* A pool that backs its shares backs those a deposit adds.
LEMMA DepositKeepsBacking ==
  ASSUME NEW n \in Nat, NEW i \in Nat, NEW v \in Nat \ {0}, NEW p \in Nat,
         i <= v * p, NEW s \in Nat, s = (n * (i + v)) \div (p + 1)
  PROVE  i + s <= v * (p + n)
<1>1. i + v <= v * (p + 1)
  OBVIOUS
<1>2. /\ i + v \in Nat /\ v * (p + 1) \in Nat /\ n * v \in Nat /\ p + 1 \in Nat \ {0}
      /\ n * (i + v) \in Nat /\ n * (v * (p + 1)) \in Nat
  BY MulNat
<1>3. n * (i + v) <= n * (v * (p + 1))
  BY <1>1, <1>2, MulMonotone
<1>4. n * (v * (p + 1)) = (n * v) * (p + 1)
  OBVIOUS
<1>5. s <= ((n * v) * (p + 1)) \div (p + 1)
  BY <1>2, <1>3, <1>4, DivMonotone
<1>6. s <= n * v
  BY <1>2, <1>5, DivExact
<1>7. v * (p + n) = v * p + n * v /\ v * p \in Nat
  BY MulNat
<1>8. QED
  BY <1>2, <1>6, <1>7

\* And those a redemption leaves.
LEMMA RedeemKeepsBacking ==
  ASSUME NEW i \in Nat, NEW v \in Nat \ {0}, NEW p \in Nat, i <= v * p,
         NEW s \in Nat, s <= i, NEW a \in Nat, a <= p, a * (i + v) <= s * (p + 1)
  PROVE  i - s <= v * (p - a)
<1> DEFINE excess == v * p - i
           left   == v * (p - a) - (i - s)
<1>1. excess \in Nat /\ i - s + v \in Nat
  BY MulNat
<1>2. left * (i + v) = (excess + s) * (i + v) - v * (a * (i + v))
  OBVIOUS
<1>3. v * (a * (i + v)) <= v * (s * (p + 1))
  <2>1. a * (i + v) \in Nat /\ s * (p + 1) \in Nat
    BY MulNat
  <2>2. QED
    BY <2>1, MulMonotone
<1>4. (excess + s) * (i + v) - v * (s * (p + 1)) = excess * (i - s + v)
  OBVIOUS
<1>5. excess * (i - s + v) \in Nat
  BY <1>1, MulNat
<1>6. left \in Int /\ left * (i + v) \in Int /\ (excess + s) * (i + v) \in Int
      /\ v * (a * (i + v)) \in Int /\ v * (s * (p + 1)) \in Int
  BY <1>1
<1>7. left * (i + v) >= 0
  BY <1>2, <1>3, <1>4, <1>5, <1>6
<1> HIDE DEF left
<1>8. left >= 0
  BY <1>6, <1>7
<1>9. v * (p - a) \in Int
  OBVIOUS
<1>10. QED
  BY <1>8, <1>9 DEF left

(***************************************************************************)
(* The inductive invariant.  Types need the vault's balance to cover the   *)
(* claim in hand, fees a recipient, and the rate its backing.              *)
(***************************************************************************)

VInv ==
  /\ VaultTypeOK
  /\ VaultKeepsStrayZen
  /\ SharesAreBacked
  /\ feeBps # 0 => feeRecipient \in Payees
  /\ ~initialized => staked = 0 /\ unclaimed = 0 /\ issuedShares = 0

LEMMA VaultInitVInv == VaultInit => VInv
<1> SUFFICES ASSUME VaultInit PROVE VInv
  OBVIOUS
<1>1. zen \in [Payees -> Nat] /\ zen[Vault] = 0 /\ strayZen = 0
  BY StLighterAssumption DEF VaultInit, Payees
<1>2. TokenTypeOK
  BY DEF VaultInit, TokenInit, TokenTypeOK
<1>3. issuedShares <= VIRTUAL_SHARES * staked
  BY StLighterAssumption DEF VaultInit
<1>4. VaultTypeOK
  <2>1. feeBps \in 0..MAX_FEE_BPS /\ feeRecipient \in Payees \cup {NoAccount}
    BY StLighterAssumption DEF VaultInit
  <2>2. initialized \in BOOLEAN /\ paused \in BOOLEAN
    BY DEF VaultInit
  <2>3. nonces \in [Holders -> Nat] /\ signed \in SUBSET Message /\ gasFeesPaid \in [Holders -> Nat]
    BY DEF VaultInit
  <2>4. staked \in Nat /\ unclaimed \in Nat /\ issuedShares \in Nat /\ now \in Nat
    BY DEF VaultInit
  <2>5. QED
    BY <1>1, <1>2, <2>1, <2>2, <2>3, <2>4 DEF VaultTypeOK
<1>5. QED
  BY <1>1, <1>3, <1>4 DEF VaultInit, VInv, VaultKeepsStrayZen, SharesAreBacked

LEMMA MoveOK ==
  ASSUME NEW ledger \in [Payees -> Nat], NEW from \in Payees, NEW to, NEW amount \in Nat,
         amount <= ledger[from], from # to, amount # 0 => to \in Payees
  PROVE  /\ Move(ledger, from, to, amount) \in [Payees -> Nat]
         /\ Move(ledger, from, to, amount)[from] = ledger[from] - amount
         /\ amount # 0 => Move(ledger, from, to, amount)[to] = ledger[to] + amount
         /\ \A other \in Payees \ {from, to} : Move(ledger, from, to, amount)[other] = ledger[other]
<1>1. CASE amount = 0
  BY <1>1 DEF Move
<1>2. CASE amount # 0
  <2>1. [ledger EXCEPT ![from] = @ - amount] \in [Payees -> Nat]
    BY DebitEntry
  <2>2. [[ledger EXCEPT ![from] = @ - amount] EXCEPT ![to] = @ + amount] \in [Payees -> Nat]
    BY <2>1, CreditEntry
  <2>3. QED
    BY <1>2, <2>2 DEF Move
<1>3. QED
  BY <1>1, <1>2

\* A payment out of the vault, to an account or to the vault itself.
LEMMA VaultPays ==
  ASSUME NEW ledger \in [Payees -> Nat], NEW to, NEW amount \in Nat,
         amount <= ledger[Vault], amount # 0 => to \in Payees
  PROVE  /\ Move(ledger, Vault, to, amount) \in [Payees -> Nat]
         /\ Move(ledger, Vault, to, amount)[Vault] = (ledger[Vault] - amount) + ToVault(to, amount)
         /\ ToVault(to, amount) \in Nat
<1>1. Vault \in Payees /\ ledger[Vault] \in Nat /\ ToVault(to, amount) \in Nat
  BY DEF Payees, ToVault
<1>2. CASE to # Vault
  <2>1. /\ Move(ledger, Vault, to, amount) \in [Payees -> Nat]
        /\ Move(ledger, Vault, to, amount)[Vault] = ledger[Vault] - amount
    BY <1>1, <1>2, MoveOK
  <2>2. ToVault(to, amount) = 0 /\ (ledger[Vault] - amount) + 0 = ledger[Vault] - amount
    BY <1>1, <1>2 DEF ToVault
  <2>3. QED
    BY <1>1, <2>1, <2>2
<1>3. CASE to = Vault /\ amount # 0
  <2>1. /\ [ledger EXCEPT ![Vault] = @ - amount] \in [Payees -> Nat]
        /\ [ledger EXCEPT ![Vault] = @ - amount][Vault] = ledger[Vault] - amount
    BY <1>1, DebitEntry
  <2>2. Move(ledger, Vault, to, amount)
          = [[ledger EXCEPT ![Vault] = @ - amount] EXCEPT ![Vault] = @ + amount]
    BY <1>3 DEF Move
  <2>3. /\ Move(ledger, Vault, to, amount) \in [Payees -> Nat]
        /\ Move(ledger, Vault, to, amount)[Vault] = (ledger[Vault] - amount) + amount
    BY <1>1, <2>1, <2>2, CreditEntry
  <2>4. QED
    BY <1>1, <1>3, <2>3 DEF ToVault
<1>4. CASE amount = 0
  <2>1. Move(ledger, Vault, to, amount) = ledger /\ ToVault(to, amount) = 0
    BY <1>4 DEF Move, ToVault
  <2>2. (ledger[Vault] - amount) + 0 = ledger[Vault]
    BY <1>1, <1>4
  <2>3. QED
    BY <1>1, <2>1, <2>2
<1>5. QED
  BY <1>2, <1>3, <1>4

\* The protocol fee is at most the claim.
LEMMA FeeWithinClaim ==
  ASSUME VInv
  PROVE  /\ claimed \in Nat /\ protocolFee \in Nat /\ restaked \in Nat
         /\ protocolFee + restaked = claimed
         /\ claimed = unclaimed
         /\ protocolFee # 0 => feeRecipient \in Payees
<1>1. /\ claimed \in Nat /\ feeBps \in Nat /\ feeBps <= BPS_DENOMINATOR
      /\ BPS_DENOMINATOR \in Nat \ {0} /\ claimed = unclaimed
  BY StLighterAssumption DEF VInv, VaultTypeOK, claimed
<1>2. /\ claimed * feeBps \in Nat /\ claimed * BPS_DENOMINATOR \in Nat
      /\ claimed * feeBps <= claimed * BPS_DENOMINATOR
  BY <1>1, MulNat, MulMonotone
<1>3. protocolFee \in Nat /\ protocolFee <= (claimed * BPS_DENOMINATOR) \div BPS_DENOMINATOR
  BY <1>1, <1>2, DivNat, DivMonotone DEF protocolFee
<1>4. protocolFee <= claimed
  BY <1>1, <1>3, DivExact
<1>5. feeBps = 0 => protocolFee = 0
  BY <1>1, ZeroDiv DEF protocolFee
<1>6. QED
  BY <1>1, <1>3, <1>4, <1>5 DEF restaked, VInv

\* A harvest leaves the vault no ZEN but what the fee adds to it when the vault is
\* its recipient, and a stake that still backs the shares.
LEMMA HarvestOK ==
  ASSUME VInv
  PROVE  /\ HarvestedZen \in [Payees -> Nat] /\ HarvestedZen[Vault] = HarvestedStray
         /\ HarvestedStray \in Nat
         /\ HarvestedStake \in Nat /\ staked <= HarvestedStake
         /\ issuedShares <= VIRTUAL_SHARES * HarvestedStake
         /\ issuedShares = 0 => HarvestedStake = 0
<1> DEFINE withClaim == [zen EXCEPT ![Vault] = @ + claimed]
           feePaid   == Move(withClaim, Vault, feeRecipient, protocolFee)
<1>1. /\ zen \in [Payees -> Nat] /\ zen[Vault] = strayZen /\ strayZen \in Nat /\ staked \in Nat /\ issuedShares \in Nat
      /\ Vault \in Payees /\ VIRTUAL_SHARES \in Nat
  BY StLighterAssumption DEF VInv, VaultTypeOK, VaultKeepsStrayZen, Payees
<1>2. withClaim \in [Payees -> Nat] /\ withClaim[Vault] = strayZen + claimed
  BY <1>1, FeeWithinClaim, CreditEntry
<1>3. /\ feePaid \in [Payees -> Nat]
      /\ feePaid[Vault] = (strayZen + restaked) + ToVault(feeRecipient, protocolFee)
      /\ ToVault(feeRecipient, protocolFee) \in Nat
  <2>1. /\ protocolFee <= withClaim[Vault]
        /\ withClaim[Vault] - protocolFee = strayZen + restaked
    BY <1>1, <1>2, FeeWithinClaim
  <2>2. protocolFee \in Nat /\ (protocolFee # 0 => feeRecipient \in Payees)
    BY FeeWithinClaim
  <2> HIDE DEF withClaim
  <2>3. QED
    BY <1>2, <2>1, <2>2, VaultPays DEF feePaid
<1>4. HarvestedZen = [feePaid EXCEPT ![Vault] = @ - restaked]
  BY DEF HarvestedZen
<1> HIDE DEF feePaid
<1>5. /\ HarvestedZen \in [Payees -> Nat] /\ HarvestedZen[Vault] = HarvestedStray
      /\ HarvestedStray \in Nat
  <2>1. restaked \in Nat /\ restaked <= feePaid[Vault]
    BY <1>1, <1>3, FeeWithinClaim
  <2>2. /\ HarvestedZen \in [Payees -> Nat]
        /\ HarvestedZen[Vault] = feePaid[Vault] - restaked
    BY <1>1, <1>3, <1>4, <2>1, DebitEntry
  <2>3. feePaid[Vault] - restaked = HarvestedStray /\ HarvestedStray \in Nat
    BY <1>1, <1>3, <2>1 DEF HarvestedStray
  <2>4. QED
    BY <2>2, <2>3
<1>6. HarvestedStake \in Nat /\ staked <= HarvestedStake
  BY <1>1, FeeWithinClaim DEF HarvestedStake
<1>7. issuedShares <= VIRTUAL_SHARES * HarvestedStake
  <2>1. VIRTUAL_SHARES * staked <= VIRTUAL_SHARES * HarvestedStake
    BY <1>1, <1>6, MulMonotone
  <2>2. /\ issuedShares <= VIRTUAL_SHARES * staked
        /\ VIRTUAL_SHARES * staked \in Nat /\ VIRTUAL_SHARES * HarvestedStake \in Nat
    BY <1>1, <1>6, MulNat DEF VInv, SharesAreBacked
  <2>3. QED
    BY <1>1, <2>1, <2>2
<1>8. issuedShares = 0 => HarvestedStake = 0
  BY FeeWithinClaim DEF VInv, SharesAreBacked, HarvestedStake
<1>9. QED
  BY <1>5, <1>6, <1>7, <1>8

(***************************************************************************)
(* What a deposit and a redemption do to the vault.                        *)
(***************************************************************************)

\* Stake per share after a call is at least what it was in a pool of p.
RateKept(p) ==
  (staked' + 1) * (issuedShares + VIRTUAL_SHARES) >= (p + 1) * (issuedShares' + VIRTUAL_SHARES)

\* What every call on the pool leaves behind.
PoolOK ==
  /\ zen' \in [Payees -> Nat] /\ zen'[Vault] = strayZen' /\ strayZen' \in Nat
  /\ staked' \in Nat /\ unclaimed' = 0 /\ initialized' \in BOOLEAN
  /\ issuedShares' \in Nat
  /\ issuedShares' <= VIRTUAL_SHARES * staked'
  /\ issuedShares' = 0 => staked' = 0
  /\ ~initialized' => staked' = 0 /\ issuedShares' = 0
  /\ hub' \in [Holders -> Nat] /\ UNCHANGED bridgeVars

LEMMA DepositOK ==
  ASSUME VInv, NEW user \in Holders, NEW receiver \in Holders, NEW assets \in Nat,
         NEW gasFee \in Nat, NEW relayer, gasFee # 0 => relayer \in Payees,
         DepositInto(user, assets, receiver, gasFee, relayer)
  PROVE  PoolOK /\ RateKept(HarvestedStake)
<1> DEFINE pool   == HarvestedStake
           net    == assets - gasFee
           shares == SharesFor(net, pool)
           pulled == Move(HarvestedZen, user, Vault, assets)
           feed   == Move(pulled, Vault, relayer, gasFee)
<1>1. /\ pool \in Nat /\ issuedShares \in Nat /\ VIRTUAL_SHARES \in Nat \ {0}
      /\ issuedShares <= VIRTUAL_SHARES * pool
      /\ user # Vault /\ user \in Payees /\ Vault \in Payees
      /\ HarvestedStray \in Nat
  BY HarvestOK, StLighterAssumption DEF VInv, VaultTypeOK, Payees
<1>2. net \in Nat /\ gasFee <= assets /\ HarvestedZen[user] >= assets
  BY DEF DepositInto
<1>3. shares \in Nat /\ shares = (net * (issuedShares + VIRTUAL_SHARES)) \div (pool + 1)
  <2>1. net * (issuedShares + VIRTUAL_SHARES) \in Nat /\ pool + 1 \in Nat \ {0}
    BY <1>1, <1>2, MulNat
  <2>2. QED
    BY <2>1, DivNat DEF SharesFor
<1>4. /\ zen' = [feed EXCEPT ![Vault] = @ - net] /\ staked' = pool + net
      /\ unclaimed' = 0 /\ initialized' = TRUE /\ issuedShares' = issuedShares + shares
      /\ shares # 0 /\ Mint(receiver, shares)
      /\ strayZen' = HarvestedStray + ToVault(relayer, gasFee)
  BY DEF DepositInto
<1>5. zen' \in [Payees -> Nat] /\ zen'[Vault] = strayZen' /\ strayZen' \in Nat
  <2>1. pulled \in [Payees -> Nat] /\ pulled[Vault] = HarvestedStray + assets
    <3>1. CASE assets = 0
      BY <1>1, <3>1, HarvestOK DEF Move
    <3>2. CASE assets # 0
      BY <1>1, <1>2, <3>2, HarvestOK, MoveOK
    <3>3. QED
      BY <3>1, <3>2
  <2> HIDE DEF pulled
  <2>2. /\ feed \in [Payees -> Nat]
        /\ feed[Vault] = (HarvestedStray + net) + ToVault(relayer, gasFee)
        /\ ToVault(relayer, gasFee) \in Nat
    <3>1. gasFee <= pulled[Vault] /\ pulled[Vault] - gasFee = HarvestedStray + net
      BY <1>1, <1>2, <2>1
    <3>2. QED
      BY <2>1, <3>1, VaultPays
  <2> HIDE DEF feed
  <2>3. net <= feed[Vault] /\ feed[Vault] - net = HarvestedStray + ToVault(relayer, gasFee)
    BY <1>1, <1>2, <2>2
  <2>4. zen' \in [Payees -> Nat] /\ zen'[Vault] = feed[Vault] - net
    BY <1>1, <1>2, <1>4, <2>2, <2>3, DebitEntry
  <2>5. HarvestedStray + ToVault(relayer, gasFee) \in Nat
    BY <1>1, <2>2
  <2>6. QED
    BY <1>4, <2>3, <2>4, <2>5
<1> HIDE DEF pool, net, shares, pulled, feed
<1>6. hub' \in [Holders -> Nat] /\ UNCHANGED bridgeVars
  BY <1>3, <1>4, CreditEntry DEF Mint, VInv, VaultTypeOK, TokenTypeOK
<1>7. issuedShares + shares <= VIRTUAL_SHARES * (pool + net)
  BY <1>1, <1>2, <1>3, DepositKeepsBacking
<1>8. (pool + net + 1) * (issuedShares + VIRTUAL_SHARES)
        >= (pool + 1) * (issuedShares + shares + VIRTUAL_SHARES)
  BY <1>1, <1>2, <1>3, MintedShares, DepositKeepsRate
<1>9. PoolOK
  BY <1>1, <1>2, <1>3, <1>4, <1>5, <1>6, <1>7 DEF PoolOK
<1>10. QED
  BY <1>1, <1>4, <1>8, <1>9 DEF RateKept, pool

LEMMA RedeemOK ==
  ASSUME VInv, NEW owner \in Holders, NEW receiver \in Payees, NEW shares \in Nat,
         NEW gasFee \in Nat, NEW relayer, gasFee # 0 => relayer \in Payees,
         RedeemFrom(owner, shares, receiver, gasFee, relayer)
  PROVE  PoolOK /\ (issuedShares' = 0 \/ RateKept(HarvestedStake))
<1> DEFINE pool     == HarvestedStake
           assets   == RedemptionValue(shares, pool)
           withdrew == [HarvestedZen EXCEPT ![Vault] = @ + assets]
           feed     == Move(withdrew, Vault, relayer, gasFee)
<1>1. /\ pool \in Nat /\ issuedShares \in Nat /\ VIRTUAL_SHARES \in Nat \ {0}
      /\ issuedShares <= VIRTUAL_SHARES * pool
      /\ Vault \in Payees /\ HarvestedStray \in Nat
  BY HarvestOK, StLighterAssumption DEF VInv, VaultTypeOK, Payees
<1>2. shares # 0 /\ shares <= issuedShares /\ gasFee < assets /\ assets <= pool
  BY <1>1 DEF RedeemFrom
<1>3. /\ assets \in Nat
      /\ shares # issuedShares =>
           assets * (issuedShares + VIRTUAL_SHARES) <= shares * (pool + 1)
  <2>1. /\ shares * (pool + 1) \in Nat
        /\ issuedShares + VIRTUAL_SHARES \in Nat \ {0}
    BY <1>1, MulNat
  <2>2. /\ AssetsFor(shares, pool) \in Nat
        /\ AssetsFor(shares, pool) * (issuedShares + VIRTUAL_SHARES) <= shares * (pool + 1)
    BY <2>1, DivNat, DivFloor DEF AssetsFor
  <2>3. QED
    BY <1>1, <2>2 DEF RedemptionValue
<1>4. shares = issuedShares => assets = pool
  BY DEF RedemptionValue
<1>5. /\ zen' = PayOut(withdrew, receiver, relayer, assets, gasFee)
      /\ staked' = pool - assets /\ unclaimed' = 0 /\ UNCHANGED initialized
      /\ issuedShares' = issuedShares - shares /\ Burn(owner, shares)
      /\ strayZen' = HarvestedStray + ToVault(relayer, gasFee)
                       + ToVault(receiver, assets - gasFee)
  BY DEF RedeemFrom
<1> HIDE DEF assets
<1>6. zen' \in [Payees -> Nat] /\ zen'[Vault] = strayZen' /\ strayZen' \in Nat
  <2>1. withdrew \in [Payees -> Nat] /\ withdrew[Vault] = HarvestedStray + assets
    BY <1>1, <1>3, HarvestOK, CreditEntry
  <2> HIDE DEF withdrew
  <2> DEFINE net == assets - gasFee
             fee == ToVault(relayer, gasFee)
             own == ToVault(receiver, net)
  <2>2. net \in Nat /\ gasFee <= withdrew[Vault] /\ withdrew[Vault] - gasFee = HarvestedStray + net
    BY <1>1, <1>2, <1>3, <2>1
  <2>3. feed \in [Payees -> Nat] /\ feed[Vault] = (HarvestedStray + net) + fee /\ fee \in Nat
    BY <2>1, <2>2, VaultPays
  <2>4. zen' = Move(feed, Vault, receiver, net)
    BY <1>5 DEF PayOut
  <2> HIDE DEF feed, net, fee
  <2>5. net <= feed[Vault] /\ feed[Vault] - net = HarvestedStray + fee
    BY <1>1, <2>2, <2>3
  <2>6. zen' \in [Payees -> Nat] /\ zen'[Vault] = (HarvestedStray + fee) + own /\ own \in Nat
    BY <2>2, <2>3, <2>4, <2>5, VaultPays
  <2>7. strayZen' = (HarvestedStray + fee) + own
    BY <1>5 DEF net, fee
  <2> HIDE DEF own
  <2>8. (HarvestedStray + fee) + own \in Nat
    BY <1>1, <2>3, <2>6
  <2>9. QED
    BY <2>6, <2>7, <2>8
<1> HIDE DEF pool, withdrew, feed
<1>7. hub' \in [Holders -> Nat] /\ UNCHANGED bridgeVars
  BY <1>5, DebitEntry DEF Burn, VInv, VaultTypeOK, TokenTypeOK
<1>8. issuedShares - shares <= VIRTUAL_SHARES * (pool - assets)
  <2>1. CASE shares = issuedShares
    <3>1. pool - assets = 0 /\ issuedShares - shares = 0
      BY <1>1, <1>4, <2>1
    <3>2. QED
      BY <1>1, <3>1
  <2>2. CASE shares # issuedShares
    BY <1>1, <1>2, <1>3, <2>2, RedeemKeepsBacking
  <2>3. QED
    BY <2>1, <2>2
<1>9. PoolOK
  <2>1. staked' \in Nat /\ issuedShares' \in Nat /\ issuedShares' <= VIRTUAL_SHARES * staked'
    BY <1>1, <1>2, <1>3, <1>5, <1>8
  <2>2. issuedShares' = 0 => staked' = 0
    BY <1>1, <1>2, <1>3, <1>4, <1>5
  <2>3. initialized' \in BOOLEAN
    BY <1>5 DEF VInv, VaultTypeOK
  <2>4. ~initialized' => staked' = 0 /\ issuedShares' = 0
    BY <1>1, <1>2, <1>5 DEF VInv
  <2>5. QED
    BY <1>5, <1>6, <1>7, <2>1, <2>2, <2>3, <2>4 DEF PoolOK
<1>10. issuedShares' # 0 => RateKept(HarvestedStake)
  <2> SUFFICES ASSUME issuedShares' # 0 PROVE RateKept(HarvestedStake)
    OBVIOUS
  <2>1. shares # issuedShares
    BY <1>1, <1>5
  <2>2. (pool - assets + 1) * (issuedShares + VIRTUAL_SHARES)
          >= (pool + 1) * (issuedShares - shares + VIRTUAL_SHARES)
    BY <1>1, <1>2, <1>3, <2>1, RedeemKeepsRate
  <2>3. QED
    BY <1>5, <2>2 DEF RateKept, pool
<1>11. QED
  BY <1>9, <1>10

(***************************************************************************)
(* Every step keeps the invariant.                                         *)
(***************************************************************************)

SigningOK ==
  /\ nonces' \in [Holders -> Nat] /\ signed' \in SUBSET Message
  /\ gasFeesPaid' \in [Holders -> Nat]

LEMMA PoolVInv ==
  ASSUME VInv, PoolOK, UNCHANGED configVars, SigningOK, now' = now
  PROVE  VInv'
<1>1. TokenTypeOK'
  BY DEF VInv, VaultTypeOK, TokenTypeOK, PoolOK, bridgeVars
<1>2. VaultTypeOK'
  BY <1>1 DEF VInv, VaultTypeOK, PoolOK, SigningOK, configVars
<1>3. QED
  BY <1>2 DEF VInv, VaultKeepsStrayZen, SharesAreBacked, PoolOK, configVars

\* Nothing but the tokens' places, the messages or the clock moves.
LEMMA QuietVInv ==
  ASSUME VInv, UNCHANGED <<positionVars, configVars>>, SigningOK, TokenTypeOK', now' = now
  PROVE  VInv'
<1>1. VaultTypeOK'
  BY DEF VInv, VaultTypeOK, SigningOK, positionVars, configVars
<1>2. QED
  BY <1>1 DEF VInv, VaultKeepsStrayZen, SharesAreBacked, positionVars, configVars

LEMMA SigningKept == ASSUME VInv, UNCHANGED signingVars PROVE SigningOK
  BY DEF VInv, VaultTypeOK, SigningOK, signingVars

LEMMA TokenKept == ASSUME VInv, UNCHANGED tokenVars PROVE TokenTypeOK'
  BY DEF VInv, VaultTypeOK, TokenTypeOK, tokenVars

LEMMA UserCallVInv == ASSUME VInv, NEW user \in Holders, UserCall(user) PROVE VInv'
<1>1. ASSUME NEW assets \in DepositAmounts, NEW receiver \in Holders,
             Deposit(user, assets, receiver)
      PROVE  VInv'
  <2>1. DepositInto(user, assets, receiver, 0, NoAccount) /\ assets \in Nat /\ 0 \in Nat
    BY <1>1, StLighterAssumption DEF Deposit
  <2>2. PoolOK
    BY <2>1, DepositOK
  <2>3. QED
    BY <1>1, <2>2, PoolVInv, SigningKept DEF Deposit
<1>2. ASSUME NEW shares \in 1..hub[user], NEW receiver \in Payees,
             Redeem(user, shares, receiver)
      PROVE  VInv'
  <2>1. RedeemFrom(user, shares, receiver, 0, NoAccount) /\ shares \in Nat /\ 0 \in Nat
    BY <1>2 DEF Redeem, VInv, VaultTypeOK, TokenTypeOK
  <2>2. PoolOK
    BY <2>1, RedeemOK
  <2>3. QED
    BY <1>2, <2>2, PoolVInv, SigningKept DEF Redeem
<1>3. CASE InvalidateNonce(user)
  <2>1. nonces' \in [Holders -> Nat]
    BY <1>3, CreditEntry DEF InvalidateNonce, VInv, VaultTypeOK
  <2>2. SigningOK
    BY <1>3, <2>1 DEF InvalidateNonce, SigningOK, VInv, VaultTypeOK
  <2>3. QED
    BY <1>3, <2>2, QuietVInv, TokenKept DEF InvalidateNonce
<1>4. ASSUME NEW amount \in 1..zen[user], Donate(user, amount) PROVE VInv'
  <2>1. /\ zen \in [Payees -> Nat] /\ zen[Vault] = strayZen /\ strayZen \in Nat
        /\ user \in Payees /\ Vault \in Payees /\ user # Vault /\ zen[user] \in Nat
    BY StLighterAssumption DEF VInv, VaultTypeOK, VaultKeepsStrayZen, Payees
  <2>2. amount \in Nat /\ amount # 0 /\ amount <= zen[user]
    BY <2>1
  <2>3. /\ zen' = Move(zen, user, Vault, amount) /\ strayZen' = strayZen + amount
        /\ UNCHANGED <<staked, unclaimed, initialized, issuedShares, configVars, signingVars,
                       now, tokenVars>>
    BY <1>4 DEF Donate
  <2>4. zen' \in [Payees -> Nat] /\ zen'[Vault] = zen[Vault] + amount
    BY <2>1, <2>2, <2>3, MoveOK
  <2>5. strayZen' \in Nat /\ zen'[Vault] = strayZen'
    BY <2>1, <2>2, <2>3, <2>4
  <2>6. SigningOK /\ TokenTypeOK'
    BY <2>3, SigningKept, TokenKept
  <2>7. VaultTypeOK'
    BY <2>3, <2>4, <2>5, <2>6 DEF VInv, VaultTypeOK, SigningOK, configVars
  <2>8. QED
    BY <2>3, <2>5, <2>7 DEF VInv, VaultKeepsStrayZen, SharesAreBacked, configVars
<1>5. QED
  BY <1>1, <1>2, <1>3, <1>4 DEF UserCall

LEMMA SignableMessages == Signable \subseteq Message
<1> SUFFICES ASSUME NEW m \in Signable PROVE m \in Message
  OBVIOUS
<1>1. m \in [kind : {"deposit", "redeem"}, user : Signers,
             amount : DepositAmounts \cup SignedShares, maxFee : GasFees,
             nonce : 0..(MaxNonce - 1), deadline : 1..MaxTime]
  BY DEF Signable
<1>2. /\ m.user \in Holders /\ m.amount \in Nat /\ m.maxFee \in Nat
      /\ m.nonce \in Nat /\ m.deadline \in Nat
  <2>1. /\ m.user \in Signers /\ m.amount \in DepositAmounts \cup SignedShares
        /\ m.maxFee \in GasFees /\ m.nonce \in 0..(MaxNonce - 1) /\ m.deadline \in 1..MaxTime
    BY <1>1
  <2>2. MaxNonce - 1 \in Int /\ MaxTime \in Int
    BY StLighterAssumption
  <2>3. m.nonce \in Nat /\ m.deadline \in Nat
    BY <2>1, <2>2
  <2>4. QED
    BY <2>1, <2>3, StLighterAssumption
<1>3. m = [kind |-> m.kind, user |-> m.user, amount |-> m.amount, maxFee |-> m.maxFee,
           nonce |-> m.nonce, deadline |-> m.deadline]
  BY <1>1
<1>4. QED
  BY <1>1, <1>2, <1>3 DEF Message

LEMMA SignVInv == ASSUME VInv, NEW m \in Signable, Sign(m) PROVE VInv'
<1>1. SigningOK
  BY SignableMessages DEF Sign, SigningOK, VInv, VaultTypeOK
<1>2. QED
  BY <1>1, QuietVInv, TokenKept DEF Sign

LEMMA SpendOK ==
  ASSUME VInv, NEW m \in Message, NEW feeZen \in Nat, Spend(m, feeZen)
  PROVE  SigningOK
<1>1. nonces' \in [Holders -> Nat] /\ gasFeesPaid' \in [Holders -> Nat]
  BY CreditEntry DEF Spend, VInv, VaultTypeOK
<1>2. QED
  BY <1>1 DEF Spend, SigningOK, VInv, VaultTypeOK

\* The fee of a gasless call goes to a real address.
LEMMA GaslessCallOK ==
  ASSUME VInv, NEW m \in signed, NEW feeZen \in GasFees,
         DepositWithSig(m, feeZen) \/ RedeemWithSig(m, feeZen)
  PROVE  PoolOK /\ SigningOK /\ (issuedShares' = 0 \/ RateKept(HarvestedStake))
<1>1. /\ m \in Message /\ m.user \in Holders /\ m.amount \in Nat /\ feeZen \in Nat
      /\ Relayer \in Payees /\ m.user \in Payees
  BY StLighterAssumption DEF VInv, VaultTypeOK, Message, Payees
<1>2. CASE DepositWithSig(m, feeZen)
  <2>1. /\ Spend(m, feeZen)
        /\ DepositInto(m.user, m.amount, m.user, feeZen, Relayer)
    BY <1>2 DEF DepositWithSig
  <2>2. QED
    BY <1>1, <2>1, DepositOK, SpendOK
<1>3. CASE RedeemWithSig(m, feeZen)
  <2>1. /\ Spend(m, feeZen)
        /\ RedeemFrom(m.user, m.amount, m.user, feeZen, Relayer)
    BY <1>3 DEF RedeemWithSig
  <2>2. QED
    BY <1>1, <2>1, RedeemOK, SpendOK
<1>4. QED
  BY <1>2, <1>3

LEMMA GaslessCallVInv == ASSUME VInv, NEW m \in signed, GaslessCall(m) PROVE VInv'
  BY GaslessCallOK, PoolVInv DEF GaslessCall, DepositWithSig, RedeemWithSig

LEMMA HarvestPoolOK == ASSUME VInv, Harvest PROVE PoolOK /\ RateKept(HarvestedStake)
<1>1. /\ zen' \in [Payees -> Nat] /\ zen'[Vault] = strayZen' /\ strayZen' \in Nat
      /\ staked' = HarvestedStake /\ staked' \in Nat
  BY HarvestOK DEF Harvest
<1>2. /\ issuedShares' = issuedShares /\ issuedShares \in Nat /\ unclaimed' = 0
      /\ UNCHANGED initialized /\ initialized \in BOOLEAN
      /\ hub' \in [Holders -> Nat] /\ UNCHANGED bridgeVars
  BY DEF Harvest, VInv, VaultTypeOK, TokenTypeOK, tokenVars, bridgeVars
<1>3. issuedShares' <= VIRTUAL_SHARES * staked' /\ (issuedShares' = 0 => staked' = 0)
  BY <1>1, <1>2, HarvestOK
<1>4. ~initialized' => staked' = 0 /\ issuedShares' = 0
  BY <1>2, <1>3 DEF VInv
<1>5. PoolOK
  BY <1>1, <1>2, <1>3, <1>4 DEF PoolOK
<1>6. RateKept(HarvestedStake)
  <2>1. (HarvestedStake + 1) * (issuedShares + VIRTUAL_SHARES) \in Nat
    BY <1>1, <1>2, StLighterAssumption, MulNat
  <2>2. QED
    BY <1>1, <1>2, <2>1 DEF RateKept
<1>7. QED
  BY <1>5, <1>6

LEMMA HarvestVInv == ASSUME VInv, Harvest PROVE VInv'
  BY HarvestPoolOK, PoolVInv, SigningKept DEF Harvest

LEMMA GovernanceVInv == ASSUME VInv, GovernanceCall PROVE VInv'
<1>1. ASSUME NEW bps \in FeeLevels, NEW recipient \in Payees \cup {NoAccount},
             SetFeeParameters(bps, recipient)
      PROVE  VInv'
  <2>1. /\ feeBps' \in 0..MAX_FEE_BPS /\ feeRecipient' \in Payees \cup {NoAccount}
        /\ feeBps' # 0 => feeRecipient' \in Payees
    BY <1>1, StLighterAssumption DEF SetFeeParameters
  <2>2. VaultTypeOK'
    BY <1>1, <2>1, TokenKept, SigningKept
       DEF SetFeeParameters, VInv, VaultTypeOK, SigningOK, positionVars
  <2>3. QED
    BY <1>1, <2>1, <2>2
       DEF SetFeeParameters, VInv, VaultKeepsStrayZen, SharesAreBacked, positionVars
<1>2. CASE Pause \/ Unpause
  <2>1. VaultTypeOK'
    BY <1>2, TokenKept, SigningKept
       DEF Pause, Unpause, VInv, VaultTypeOK, SigningOK, positionVars
  <2>2. QED
    BY <1>2, <2>1
       DEF Pause, Unpause, VInv, VaultKeepsStrayZen, SharesAreBacked, positionVars
<1>3. QED
  BY <1>1, <1>2 DEF GovernanceCall

LEMMA VaultTickVInv == ASSUME VInv, NEW reward \in Rewards, Tick(reward) PROVE VInv'
<1>1. reward \in Nat
  BY StLighterAssumption
<1>2. VaultTypeOK'
  BY <1>1, TokenKept, SigningKept DEF Tick, VInv, VaultTypeOK, SigningOK, configVars
<1>3. (issuedShares = 0 => unclaimed' = 0) /\ (~initialized => unclaimed' = 0)
  BY <1>1 DEF Tick, VInv, VaultTypeOK, SharesAreBacked
<1>4. QED
  BY <1>2, <1>3 DEF Tick, VInv, VaultKeepsStrayZen, SharesAreBacked, configVars

\* Whatever holders and the bridge do, balances and packets keep their types.
LEMMA TokenStepOK == ASSUME TokenTypeOK, TokenStep PROVE TokenTypeOK'
<1>1. ASSUME NEW to \in Holders, NEW amount \in Nat, NEW destination \in Chains,
             Dispatch(to, amount, destination)
      PROVE  packets' \in SUBSET Packet /\ packetsSent' \in Nat
  BY <1>1, LtZENAssumption DEF Dispatch, TokenTypeOK, Packet
<1>2. ASSUME NEW h \in Holders, HolderStep(h) PROVE TokenTypeOK'
  <2>1. ASSUME NEW to \in Holders, Transfer(h, to, hub[h]) PROVE TokenTypeOK'
    <3>1. hub[h] \in Nat /\ hub[h] >= hub[h]
      BY DEF TokenTypeOK
    <3>2. [hub EXCEPT ![h] = @ - hub[h]] \in [Holders -> Nat]
      BY <3>1, DebitEntry DEF TokenTypeOK
    <3>3. hub' \in [Holders -> Nat]
      BY <2>1, <3>1, <3>2, CreditEntry DEF Transfer
    <3>4. QED
      BY <2>1, <3>3 DEF Transfer, TokenTypeOK, bridgeVars
  <2>2. ASSUME NEW amount \in 1..hub[h], SendToSpoke(h, h, amount) PROVE TokenTypeOK'
    <3>1. amount \in Nat
      BY DEF TokenTypeOK
    <3>2. hub' \in [Holders -> Nat]
      BY <2>2, <3>1, DebitEntry DEF SendToSpoke, TokenTypeOK
    <3>3. QED
      BY <1>1, <2>2, <3>1, <3>2 DEF SendToSpoke, TokenTypeOK, Chains
  <2>3. ASSUME NEW amount \in 1..spoke[h], SendToHub(h, h, amount) PROVE TokenTypeOK'
    <3>1. amount \in Nat
      BY DEF TokenTypeOK
    <3>2. spoke' \in [Holders -> Nat]
      BY <2>3, <3>1, DebitEntry DEF SendToHub, TokenTypeOK
    <3>3. QED
      BY <1>1, <2>3, <3>1, <3>2 DEF SendToHub, TokenTypeOK, Chains
  <2>4. QED
    BY <1>2, <2>1, <2>2, <2>3 DEF HolderStep
<1>3. ASSUME NEW packet \in packets, DeliverPacket(packet) PROVE TokenTypeOK'
  <2>1. packet.to \in Holders /\ packet.amount \in Nat
    BY DEF TokenTypeOK, Packet
  <2>2. /\ [hub EXCEPT ![packet.to] = @ + packet.amount] \in [Holders -> Nat]
        /\ [spoke EXCEPT ![packet.to] = @ + packet.amount] \in [Holders -> Nat]
    BY <2>1, CreditEntry DEF TokenTypeOK
  <2>3. QED
    BY <1>3, <2>2 DEF DeliverPacket, TokenTypeOK
<1>4. QED
  BY <1>2, <1>3 DEF TokenStep

LEMMA VaultNextVInv == VInv /\ [VaultNext]_vaultVars => VInv'
<1> SUFFICES ASSUME VInv, [VaultNext]_vaultVars PROVE VInv'
  OBVIOUS
<1>1. CASE TokenStep /\ UNCHANGED <<positionVars, configVars, signingVars, now>>
  BY <1>1, TokenStepOK, QuietVInv, SigningKept DEF VInv, VaultTypeOK
<1>2. CASE UNCHANGED vaultVars
  BY <1>2, TokenKept, QuietVInv, SigningKept DEF vaultVars
<1>3. QED
  BY <1>1, <1>2, UserCallVInv, SignVInv, GaslessCallVInv, HarvestVInv, GovernanceVInv,
     VaultTickVInv DEF VaultNext

(***************************************************************************)
(* The theorems.                                                           *)
(***************************************************************************)

\* In every reachable state no account pays what it does not have, no stake,
\* supply or balance is negative, and the vault itself never runs a debt.
THEOREM VaultTypeCorrect == VaultSpec => []VaultTypeOK
<1>1. VInv => VaultTypeOK
  BY DEF VInv
<1>2. QED
  BY <1>1, VaultInitVInv, VaultNextVInv, PTL DEF VaultSpec

\* Whatever is deposited, claimed and withdrawn leaves the vault in the same call,
\* and what others send it, in a transfer or as a payee of its own calls, stays
\* there: no call spends it, and no call adds to it on the vault's account.
THEOREM OnlyStrayZenStays == VaultSpec => []VaultKeepsStrayZen
<1>1. VInv => VaultKeepsStrayZen
  BY DEF VInv
<1>2. QED
  BY <1>1, VaultInitVInv, VaultNextVInv, PTL DEF VaultSpec

\* Shares never outgrow the stake behind them, at the rate of the first deposit,
\* and the last exit leaves nothing behind.
THEOREM SharesAlwaysBacked == VaultSpec => []SharesAreBacked
<1>1. VInv => SharesAreBacked
  BY DEF VInv
<1>2. QED
  BY <1>1, VaultInitVInv, VaultNextVInv, PTL DEF VaultSpec

\* A step either settles the pool, at no loss to the shares that stay, or leaves
\* stake and shares alone.
LEMMA StepSettlesOrWaits ==
  ASSUME VInv, [VaultNext]_vaultVars
  PROVE  \/ PoolOK /\ (issuedShares' = 0 \/ RateKept(HarvestedStake))
         \/ UNCHANGED <<staked, issuedShares, initialized>> /\ unclaimed' >= unclaimed
<1> DEFINE Settles == PoolOK /\ (issuedShares' = 0 \/ RateKept(HarvestedStake))
           Waits   == UNCHANGED <<staked, issuedShares, initialized>> /\ unclaimed' >= unclaimed
<1> SUFFICES Settles \/ Waits
  OBVIOUS
<1>1. ASSUME NEW user \in Holders, UserCall(user) PROVE Settles \/ Waits
  <2>1. ASSUME NEW assets \in DepositAmounts, NEW receiver \in Holders,
               Deposit(user, assets, receiver)
        PROVE  Settles
    <3>1. DepositInto(user, assets, receiver, 0, NoAccount) /\ assets \in Nat /\ 0 \in Nat
      BY <2>1, StLighterAssumption DEF Deposit
    <3>2. QED
      BY <3>1, DepositOK
  <2>2. ASSUME NEW shares \in 1..hub[user], NEW receiver \in Payees,
               Redeem(user, shares, receiver)
        PROVE  Settles
    <3>1. RedeemFrom(user, shares, receiver, 0, NoAccount) /\ shares \in Nat /\ 0 \in Nat
      BY <2>2 DEF Redeem, VInv, VaultTypeOK, TokenTypeOK
    <3>2. QED
      BY <3>1, RedeemOK
  <2>3. CASE InvalidateNonce(user)
    BY <2>3 DEF InvalidateNonce, positionVars, VInv, VaultTypeOK
  <2>4. ASSUME NEW amount \in 1..zen[user], Donate(user, amount) PROVE Waits
    BY <2>4 DEF Donate, VInv, VaultTypeOK
  <2>5. QED
    BY <1>1, <2>1, <2>2, <2>3, <2>4 DEF UserCall
<1>2. ASSUME NEW m \in signed, GaslessCall(m) PROVE Settles
  BY <1>2, GaslessCallOK DEF GaslessCall
<1>3. CASE Harvest
  BY <1>3, HarvestPoolOK
<1>4. ASSUME UNCHANGED positionVars PROVE Waits
  BY <1>4 DEF positionVars, VInv, VaultTypeOK
<1>5. ASSUME NEW m \in Signable, Sign(m) PROVE Waits
  BY <1>4, <1>5 DEF Sign
<1>6. CASE GovernanceCall
  BY <1>4, <1>6 DEF GovernanceCall, SetFeeParameters, Pause, Unpause
<1>7. ASSUME NEW reward \in Rewards, Tick(reward) PROVE Waits
  BY <1>7, StLighterAssumption DEF Tick, VInv, VaultTypeOK
<1>8. CASE UNCHANGED vaultVars
  BY <1>4, <1>8 DEF vaultVars
<1>9. CASE TokenStep /\ UNCHANGED <<positionVars, configVars, signingVars, now>>
  BY <1>4, <1>9
<1> HIDE DEF Settles, Waits
<1>10. QED
  BY <1>1, <1>2, <1>3, <1>5, <1>6, <1>7, <1>8, <1>9 DEF VaultNext

\* A rate that is not below that of the larger pool is not below that of the
\* smaller one.
LEMMA RateWeakens ==
  ASSUME NEW k \in Nat, NEW p \in Nat, k <= p, NEW s \in Nat,
         NEW q \in Nat, q >= (p + 1) * s
  PROVE  q >= (k + 1) * s
<1>1. s * (k + 1) <= s * (p + 1)
  BY MulMonotone
<1>2. s * (k + 1) \in Nat /\ s * (p + 1) \in Nat /\ (k + 1) * s = s * (k + 1)
      /\ (p + 1) * s = s * (p + 1)
  BY MulNat
<1>3. QED
  BY <1>1, <1>2

\* No call, in any order and with any amounts, fees and rewards, lowers the stake
\* behind a share, until the last share is gone.
THEOREM RateNeverDecreases == VaultSpec => RateNeverFalls
<1> DEFINE Kept == \/ issuedShares' = 0
                   \/ (staked' + 1) * (issuedShares + VIRTUAL_SHARES)
                        >= (staked + 1) * (issuedShares' + VIRTUAL_SHARES)
<1>1. ASSUME VInv, [VaultNext]_vaultVars PROVE Kept
  <2>1. staked \in Nat /\ issuedShares \in Nat /\ VIRTUAL_SHARES \in Nat
    BY <1>1, StLighterAssumption DEF VInv, VaultTypeOK
  <2>2. CASE UNCHANGED <<staked, issuedShares, initialized>>
    <3>1. (staked + 1) * (issuedShares + VIRTUAL_SHARES) \in Nat
      BY <2>1, MulNat
    <3>2. QED
      BY <2>2, <3>1
  <2>3. CASE PoolOK /\ RateKept(HarvestedStake)
    <3>1. /\ staked' \in Nat /\ issuedShares' \in Nat
          /\ HarvestedStake \in Nat /\ staked <= HarvestedStake
      BY <1>1, <2>3, HarvestOK DEF PoolOK
    <3>2. /\ staked' + 1 \in Nat /\ issuedShares + VIRTUAL_SHARES \in Nat
          /\ issuedShares' + VIRTUAL_SHARES \in Nat
      BY <2>1, <3>1, AddNat
    <3> DEFINE after == (staked' + 1) * (issuedShares + VIRTUAL_SHARES)
               left  == issuedShares' + VIRTUAL_SHARES
    <3>3. after \in Nat /\ left \in Nat
      BY <3>2, MulNat
    <3>4. after >= (HarvestedStake + 1) * left
      BY <2>3 DEF RateKept
    <3> HIDE DEF after, left
    <3>5. after >= (staked + 1) * left
      BY <2>1, <3>1, <3>3, <3>4, RateWeakens
    <3>6. QED
      BY <3>5 DEF after, left
  <2>4. QED
    BY <1>1, <2>2, <2>3, StepSettlesOrWaits
<1>2. VInv /\ [VaultNext]_vaultVars => [Kept]_vaultVars
  BY <1>1
<1>3. QED
  BY <1>2, VaultInitVInv, VaultNextVInv, PTL DEF VaultSpec, RateNeverFalls

\* Nor does the rate that the views quote, whenever no protocol fee is due.
THEOREM QuotedRateNeverDecreases == VaultSpec => QuotedRateNeverFalls
<1> DEFINE Kept == \/ issuedShares' = 0
                   \/ protocolFee > 0
                   \/ (totalAssets' + 1) * (issuedShares + VIRTUAL_SHARES)
                        >= (totalAssets + 1) * (issuedShares' + VIRTUAL_SHARES)
<1>1. ASSUME VInv, VInv', [VaultNext]_vaultVars PROVE Kept
  <2>1. /\ staked \in Nat /\ unclaimed \in Nat /\ issuedShares \in Nat
        /\ VIRTUAL_SHARES \in Nat /\ totalAssets = staked + unclaimed
    BY <1>1, StLighterAssumption DEF VInv, VaultTypeOK, totalAssets
  <2>2. unclaimed' \in Nat
    BY <1>1 DEF VInv, VaultTypeOK
  <2>3. CASE UNCHANGED <<staked, issuedShares, initialized>> /\ unclaimed' >= unclaimed
    <3>1. PICK u \in Nat : u = unclaimed'
      BY <2>2
    <3>2. totalAssets' = IF initialized THEN staked + u ELSE 0
      BY <2>3, <3>1 DEF totalAssets
    <3>3. PICK t \in Nat : t = totalAssets' /\ totalAssets <= t
      <4>1. CASE initialized
        <5>1. u >= unclaimed
          BY <2>3, <3>1
        <5>2. staked + u \in Nat /\ totalAssets <= staked + u
          BY <2>1, <5>1
        <5>3. QED
          BY <3>2, <4>1, <5>2
      <4>2. CASE ~initialized
        <5>1. totalAssets = 0
          BY <4>2 DEF totalAssets
        <5>2. QED
          BY <3>2, <4>2, <5>1
      <4>3. QED
        BY <4>1, <4>2
    <3> DEFINE shares == issuedShares + VIRTUAL_SHARES
               before == totalAssets
    <3>4. shares \in Nat /\ before \in Nat /\ before <= t
      BY <2>1, <3>3
    <3> HIDE DEF shares, before
    <3>5. (t + 1) * shares >= (before + 1) * shares
      <4>1. (t + 1) * shares \in Nat
        BY <3>4, MulNat
      <4>2. QED
        BY <3>4, <4>1, RateWeakens
    <3>6. QED
      BY <2>3, <3>3, <3>5 DEF shares, before
  <2>4. CASE PoolOK /\ RateKept(HarvestedStake)
    <3>1. protocolFee \in Nat /\ (protocolFee = 0 => HarvestedStake = totalAssets)
      BY <1>1, <2>1, FeeWithinClaim DEF HarvestedStake, restaked
    <3>2. totalAssets' = staked'
      BY <2>4, AddZero DEF PoolOK, totalAssets
    <3>3. QED
      BY <2>4, <3>1, <3>2 DEF RateKept
  <2>5. QED
    BY <1>1, <2>3, <2>4, StepSettlesOrWaits
<1>2. VInv /\ VInv' /\ [VaultNext]_vaultVars => [Kept]_vaultVars
  BY <1>1
<1>3. QED
  BY <1>2, VaultInitVInv, VaultNextVInv, PTL DEF VaultSpec, QuotedRateNeverFalls

\* A value at a rate that did not fall is not less.
LEMMA ValueKeeps ==
  ASSUME NEW k \in Nat, NEW a \in Nat, NEW b \in Nat \ {0}, NEW c \in Nat, NEW d \in Nat \ {0},
         c * b >= a * d
  PROVE  (k * c) \div d >= (k * a) \div b
<1>1. PICK q \in Nat : q = (k * a) \div b
  BY MulNat, DivNat
<1>2. q * b <= k * a
  <2>1. k * a \in Nat
    BY MulNat
  <2>2. QED
    BY <1>1, <2>1, DivFloor
<1>3. (q * d) * b <= (k * c) * b
  <2>1. (q * d) * b = d * (q * b) /\ d * (k * a) = k * (a * d) /\ (k * c) * b = k * (c * b)
    OBVIOUS
  <2>2. q * b \in Nat /\ k * a \in Nat /\ a * d \in Nat /\ c * b \in Nat
    BY MulNat
  <2>3. d * (q * b) <= d * (k * a) /\ k * (a * d) <= k * (c * b)
    BY <1>2, <2>2, MulMonotone
  <2>4. d * (q * b) \in Nat /\ k * (a * d) \in Nat /\ k * (c * b) \in Nat
    BY <2>2, MulNat
  <2>5. QED
    BY <2>1, <2>3, <2>4
<1>4. q * d <= k * c
  <2>1. q * d \in Nat /\ k * c \in Nat
    BY MulNat
  <2>2. ASSUME q * d >= k * c + 1 PROVE FALSE
    <3>1. b * (k * c + 1) <= b * (q * d)
      <4>1. k * c + 1 \in Nat
        BY <2>1
      <4>2. QED
        BY <2>1, <2>2, <4>1, MulMonotone
    <3>2. b * (k * c + 1) = (k * c) * b + b /\ b * (q * d) = (q * d) * b
      BY <2>1
    <3>3. (k * c) * b \in Nat /\ (q * d) * b \in Nat
      BY <2>1, MulNat
    <3>4. QED
      BY <1>3, <3>1, <3>2, <3>3
  <2>3. QED
    BY <2>1, <2>2
<1>5. (q * d) \div d <= (k * c) \div d
  <2>1. q * d \in Nat /\ k * c \in Nat
    BY MulNat
  <2>2. QED
    BY <1>4, <2>1, DivMonotone
<1>6. QED
  BY <1>1, <1>5, DivExact

\* What the vault quotes for anybody's shares does not fall from one call to the
\* next as long as no protocol fee is due on the reward, whoever else deposits,
\* redeems, harvests or sends shares abroad; the last exit excepted.
THEOREM IdleSharesKeepValue ==
  VaultSpec => [][\/ issuedShares' = 0
                  \/ protocolFee > 0
                  \/ \A shares \in Nat : AssetsFor(shares, totalAssets)'
                                           >= AssetsFor(shares, totalAssets)]_vaultVars
<1> DEFINE Rate  == \/ issuedShares' = 0
                    \/ protocolFee > 0
                    \/ (totalAssets' + 1) * (issuedShares + VIRTUAL_SHARES)
                         >= (totalAssets + 1) * (issuedShares' + VIRTUAL_SHARES)
           Value == \/ issuedShares' = 0
                    \/ protocolFee > 0
                    \/ \A shares \in Nat : AssetsFor(shares, totalAssets)'
                                             >= AssetsFor(shares, totalAssets)
<1>1. ASSUME VInv, VInv', Rate PROVE Value
  <2>1. CASE (totalAssets' + 1) * (issuedShares + VIRTUAL_SHARES)
               >= (totalAssets + 1) * (issuedShares' + VIRTUAL_SHARES)
    <3>1. /\ staked \in Nat /\ unclaimed \in Nat /\ issuedShares \in Nat
          /\ staked' \in Nat /\ unclaimed' \in Nat /\ issuedShares' \in Nat
      BY <1>1 DEF VInv, VaultTypeOK
    <3>2. totalAssets + 1 \in Nat /\ totalAssets' + 1 \in Nat
      <4>1. totalAssets \in Nat /\ totalAssets' \in Nat
        BY <3>1, AddNat, Zenon DEF totalAssets
      <4>2. QED
        BY <4>1, AddNat
    <3>3. issuedShares + VIRTUAL_SHARES \in Nat \ {0} /\ issuedShares' + VIRTUAL_SHARES \in Nat \ {0}
      <4>1. VIRTUAL_SHARES \in Nat \ {0}
        BY StLighterAssumption
      <4>2. \A i \in Nat, v \in Nat \ {0} : i + v \in Nat \ {0}
        OBVIOUS
      <4>3. QED
        BY <3>1, <4>1, <4>2
    <3>4. PICK a \in Nat, c \in Nat, b \in Nat \ {0}, d \in Nat \ {0} :
            /\ a = totalAssets + 1 /\ b = issuedShares + VIRTUAL_SHARES
            /\ c = totalAssets' + 1 /\ d = issuedShares' + VIRTUAL_SHARES
      BY <3>2, <3>3, Zenon
    <3>5. c * b >= a * d
      BY <2>1, <3>4
    <3>6. ASSUME NEW k \in Nat
          PROVE  AssetsFor(k, totalAssets)' >= AssetsFor(k, totalAssets)
      <4>1. AssetsFor(k, totalAssets) = (k * a) \div b
        BY <3>4 DEF AssetsFor
      <4>2. AssetsFor(k, totalAssets)' = (k * c) \div d
        BY <3>4 DEF AssetsFor
      <4>3. QED
        BY <3>5, <4>1, <4>2, ValueKeeps
    <3>7. QED
      BY <3>6
  <2>2. QED
    BY <1>1, <2>1
<1>2. VInv /\ VInv' /\ [Rate]_vaultVars => [Value]_vaultVars
  BY <1>1
<1>3. VaultSpec => [][Rate]_vaultVars
  BY QuotedRateNeverDecreases DEF QuotedRateNeverFalls
<1>4. QED
  BY <1>2, <1>3, VaultInitVInv, VaultNextVInv, PTL DEF VaultSpec

(***************************************************************************)
(* The supply.  A transfer in flight counts once because its packet has a  *)
(* nonce of its own, below the counter of packets sent.                    *)
(***************************************************************************)

Parcels(ps) == SumFunctionOnSet([packet \in ps |-> packet.amount], ps)

Supply(h, s, ps) == SumFunctionOnSet(h, Holders) + SumFunctionOnSet(s, Holders) + Parcels(ps)

PacketsInOrder == IsFiniteSet(packets) /\ \A packet \in packets : packet.nonce < packetsSent

SupplyInv == PacketsInOrder /\ issuedShares = Supply(hub, spoke, packets)

LEMMA SupplyIs == SharesMatchSupply <=> issuedShares = Supply(hub, spoke, packets)
  BY DEF SharesMatchSupply, Supply, Parcels

LEMMA ParcelsChange ==
  ASSUME NEW ps, IsFiniteSet(ps), \A packet \in ps : packet.amount \in Nat,
         NEW p, p.amount \in Nat
  PROVE  /\ Parcels(ps) \in Int
         /\ p \notin ps => Parcels(ps \cup {p}) = Parcels(ps) + p.amount
         /\ p \in ps => Parcels(ps \ {p}) = Parcels(ps) - p.amount
<1> DEFINE more == ps \cup {p}
           less == ps \ {p}
           f == [packet \in ps |-> packet.amount]
           g == [packet \in more |-> packet.amount]
           h == [packet \in less |-> packet.amount]
<1>1. IsFiniteSet(more) /\ IsFiniteSet(less)
  BY FS_AddElement, FS_RemoveElement
<1>2. Parcels(ps) \in Int
  BY SumInt DEF Parcels
<1>3. ASSUME p \notin ps PROVE Parcels(more) = Parcels(ps) + p.amount
  <2>1. /\ \A y \in ps : f[y] \in Int
        /\ \A y \in more : g[y] \in Int
        /\ \A y \in ps \ {p} : f[y] = g[y]
        /\ ps \ {p} = more \ {p} /\ p \notin ps /\ p \in more /\ g[p] = p.amount
    BY <1>3
  <2>2. Parcels(ps) = SumFunctionOnSet(f, ps) /\ Parcels(more) = SumFunctionOnSet(g, more)
    BY DEF Parcels
  <2> HIDE DEF f, g, more
  <2>3. SumFunctionOnSet(g, more)
          = SumFunctionOnSet(f, ps) - (IF p \in ps THEN f[p] ELSE 0)
                                    + (IF p \in more THEN g[p] ELSE 0)
    BY <1>1, <2>1, SumUpdate
  <2>4. QED
    BY <1>2, <2>1, <2>2, <2>3
<1>4. ASSUME p \in ps PROVE Parcels(less) = Parcels(ps) - p.amount
  <2>1. /\ \A y \in ps : f[y] \in Int
        /\ \A y \in less : h[y] \in Int
        /\ \A y \in ps \ {p} : f[y] = h[y]
        /\ ps \ {p} = less \ {p} /\ p \in ps /\ p \notin less /\ f[p] = p.amount
    BY <1>4
  <2>2. Parcels(ps) = SumFunctionOnSet(f, ps) /\ Parcels(less) = SumFunctionOnSet(h, less)
    BY DEF Parcels
  <2> HIDE DEF f, h, less
  <2>3. SumFunctionOnSet(h, less)
          = SumFunctionOnSet(f, ps) - (IF p \in ps THEN f[p] ELSE 0)
                                    + (IF p \in less THEN h[p] ELSE 0)
    BY <1>1, <2>1, SumUpdate
  <2>4. QED
    BY <1>2, <2>1, <2>2, <2>3
<1>5. QED
  BY <1>2, <1>3, <1>4

LEMMA SupplyTypes ==
  ASSUME TokenTypeOK, PacketsInOrder
  PROVE  /\ hub \in [Holders -> Int] /\ spoke \in [Holders -> Int]
         /\ IsFiniteSet(Holders) /\ IsFiniteSet(packets) /\ packetsSent \in Nat
         /\ \A packet \in packets : /\ packet.amount \in Nat /\ packet.to \in Holders
                                    /\ packet.nonce < packetsSent
         /\ SumFunctionOnSet(hub, Holders) \in Int /\ SumFunctionOnSet(spoke, Holders) \in Int
         /\ Parcels(packets) \in Int
<1>1. /\ hub \in [Holders -> Int] /\ spoke \in [Holders -> Int] /\ packetsSent \in Nat
      /\ \A packet \in packets : packet.amount \in Nat /\ packet.to \in Holders
  BY DEF TokenTypeOK, Packet
<1>2. /\ SumFunctionOnSet(hub, Holders) \in Int /\ SumFunctionOnSet(spoke, Holders) \in Int
  BY <1>1, HoldersFinite, SumInt
<1>3. \A packet \in packets : [q \in packets |-> q.amount][packet] \in Int
  BY <1>1
<1>4. Parcels(packets) \in Int
  BY <1>3, SumInt DEF Parcels, PacketsInOrder
<1>5. QED
  BY <1>1, <1>2, <1>4, HoldersFinite DEF PacketsInOrder

\* What the minter does shows in the supply, and nothing is sent.
LEMMA MintSupply ==
  ASSUME TokenTypeOK, PacketsInOrder, NEW h \in Holders, NEW n \in Nat
  PROVE  /\ Mint(h, n) => /\ PacketsInOrder'
                          /\ Supply(hub', spoke', packets') = Supply(hub, spoke, packets) + n
         /\ Burn(h, n) => /\ PacketsInOrder'
                          /\ Supply(hub', spoke', packets') = Supply(hub, spoke, packets) - n
<1> DEFINE H == SumFunctionOnSet(hub, Holders)
           S == SumFunctionOnSet(spoke, Holders)
           P == Parcels(packets)
<1>1. H \in Int /\ S \in Int /\ P \in Int /\ n \in Int
  BY SupplyTypes
<1>2. /\ SumFunctionOnSet([hub EXCEPT ![h] = @ + n], Holders) = H + n
      /\ SumFunctionOnSet([hub EXCEPT ![h] = @ - n], Holders) = H - n
  BY <1>1, SupplyTypes, SumCredited, SumDebited
<1>3. UNCHANGED bridgeVars => PacketsInOrder'
  BY DEF PacketsInOrder, bridgeVars
<1>4. Supply(hub, spoke, packets) = H + S + P
  BY DEF Supply
<1>5. ASSUME Mint(h, n) PROVE Supply(hub', spoke', packets') = (H + n) + S + P
  BY <1>2, <1>5, Zenon DEF Mint, bridgeVars, Supply
<1>6. ASSUME Burn(h, n) PROVE Supply(hub', spoke', packets') = (H - n) + S + P
  BY <1>2, <1>6, Zenon DEF Burn, bridgeVars, Supply
<1> HIDE DEF H, S, P
<1>7. (H + n) + S + P = (H + S + P) + n /\ (H - n) + S + P = (H + S + P) - n
  BY <1>1
<1>8. QED
  BY <1>3, <1>4, <1>5, <1>6, <1>7, Zenon DEF Mint, Burn

\* A packet never sent before is in flight, and the counter moves on.
LEMMA DispatchSupply ==
  ASSUME TokenTypeOK, PacketsInOrder, NEW to \in Holders, NEW n \in Nat, NEW destination,
         Dispatch(to, n, destination)
  PROVE  PacketsInOrder' /\ Parcels(packets') = Parcels(packets) + n
<1> DEFINE p == [nonce |-> packetsSent, to |-> to, amount |-> n, destination |-> destination]
<1>1. /\ packets' = packets \cup {p} /\ packetsSent' = packetsSent + 1
      /\ p.nonce = packetsSent /\ p.amount = n
  BY DEF Dispatch
<1>2. p \notin packets
  <2>1. ASSUME p \in packets PROVE FALSE
    <3>1. p.nonce < packetsSent /\ packetsSent \in Nat
      BY <2>1, SupplyTypes
    <3>2. QED
      BY <1>1, <3>1
  <2>2. QED
    BY <2>1
<1> HIDE DEF p
<1>3. Parcels(packets \cup {p}) = Parcels(packets) + p.amount
  BY <1>1, <1>2, SupplyTypes, ParcelsChange
<1>4. PacketsInOrder'
  <2>1. IsFiniteSet(packets \cup {p})
    BY SupplyTypes, FS_AddElement
  <2>2. ASSUME NEW q \in packets \cup {p} PROVE q.nonce < packetsSent + 1
    <3>1. CASE q = p
      BY <1>1, <3>1, SupplyTypes
    <3>2. CASE q \in packets
      BY <3>2, SupplyTypes DEF TokenTypeOK, Packet
    <3>3. QED
      BY <3>1, <3>2
  <2>3. QED
    BY <1>1, <2>1, <2>2 DEF PacketsInOrder
<1>5. QED
  BY <1>1, <1>3, <1>4

\* Holders and the bridge only move shares about.
LEMMA TokenStepSupply ==
  ASSUME TokenTypeOK, PacketsInOrder, TokenStep
  PROVE  PacketsInOrder' /\ Supply(hub', spoke', packets') = Supply(hub, spoke, packets)
<1> DEFINE H == SumFunctionOnSet(hub, Holders)
           S == SumFunctionOnSet(spoke, Holders)
           P == Parcels(packets)
           Same == PacketsInOrder' /\ Supply(hub', spoke', packets') = H + S + P
<1>1. /\ hub \in [Holders -> Int] /\ spoke \in [Holders -> Int] /\ IsFiniteSet(Holders)
      /\ H \in Int /\ S \in Int /\ P \in Int
  BY SupplyTypes
<1>2. UNCHANGED bridgeVars => PacketsInOrder'
  BY DEF PacketsInOrder, bridgeVars
<1>3. ASSUME NEW h \in Holders, HolderStep(h) PROVE Same
  <2>1. ASSUME NEW to \in Holders, Transfer(h, to, hub[h]) PROVE Same
    <3>1. hub' = Transferred(hub, h, to, hub[h]) /\ UNCHANGED bridgeVars
      BY <2>1 DEF Transfer, Transferred
    <3>2. hub[h] \in Int
      BY <1>1, <1>3
    <3>3. SumFunctionOnSet(Transferred(hub, h, to, hub[h]), Holders) = H
      <4>1. /\ IsFiniteSet(Holders) /\ hub \in [Holders -> Int] /\ h \in Holders /\ to \in Holders
            /\ hub[h] \in Int
        BY <1>1, <1>3, <2>1, <3>2
      <4>2. QED
        BY <4>1, SumTransferred, Zenon
    <3>4. Supply(hub', spoke', packets') = H + S + P
      BY <3>1, <3>3, Zenon DEF bridgeVars, Supply
    <3>5. QED
      BY <1>2, <3>1, <3>4
  <2>2. ASSUME NEW n \in 1..hub[h], SendToSpoke(h, h, n) PROVE Same
    <3>1. n \in Nat /\ n \in Int
      BY <1>1, <1>3
    <3>2. hub' = [hub EXCEPT ![h] = @ - n] /\ UNCHANGED spoke /\ Dispatch(h, n, "spoke")
      BY <2>2 DEF SendToSpoke
    <3>3. SumFunctionOnSet([hub EXCEPT ![h] = @ - n], Holders) = H - n
      BY <1>1, <1>3, <3>1, SumDebited
    <3>4. PacketsInOrder' /\ Parcels(packets') = P + n
      BY <1>3, <3>1, <3>2, DispatchSupply
    <3>5. Supply(hub', spoke', packets') = (H - n) + S + (P + n)
      BY <3>2, <3>3, <3>4, Zenon DEF Supply
    <3> HIDE DEF H, S, P
    <3>6. (H - n) + S + (P + n) = H + S + P
      BY <1>1, <3>1
    <3>7. QED
      BY <3>4, <3>5, <3>6, Zenon
  <2>3. ASSUME NEW n \in 1..spoke[h], SendToHub(h, h, n) PROVE Same
    <3>1. n \in Nat /\ n \in Int
      BY <1>1, <1>3
    <3>2. spoke' = [spoke EXCEPT ![h] = @ - n] /\ UNCHANGED hub /\ Dispatch(h, n, "hub")
      BY <2>3 DEF SendToHub
    <3>3. SumFunctionOnSet([spoke EXCEPT ![h] = @ - n], Holders) = S - n
      BY <1>1, <1>3, <3>1, SumDebited
    <3>4. PacketsInOrder' /\ Parcels(packets') = P + n
      BY <1>3, <3>1, <3>2, DispatchSupply
    <3>5. Supply(hub', spoke', packets') = H + (S - n) + (P + n)
      BY <3>2, <3>3, <3>4, Zenon DEF Supply
    <3> HIDE DEF H, S, P
    <3>6. H + (S - n) + (P + n) = H + S + P
      BY <1>1, <3>1
    <3>7. QED
      BY <3>4, <3>5, <3>6, Zenon
  <2> HIDE DEF Same
  <2>4. QED
    BY <1>3, <2>1, <2>2, <2>3 DEF HolderStep
<1>4. ASSUME NEW packet \in packets, DeliverPacket(packet) PROVE Same
  <2> DEFINE n == packet.amount
  <2>1. n \in Nat /\ n \in Int /\ packet.to \in Holders
    BY <1>4, SupplyTypes
  <2>2. packets' = packets \ {packet} /\ packetsSent' = packetsSent
    BY <1>4 DEF DeliverPacket
  <2>3. Parcels(packets \ {packet}) = P - n
    BY <1>4, <2>1, SupplyTypes, ParcelsChange
  <2>4. PacketsInOrder'
    <3>1. IsFiniteSet(packets \ {packet})
      BY SupplyTypes, FS_RemoveElement
    <3>2. QED
      BY <2>2, <3>1 DEF PacketsInOrder
  <2>5. /\ SumFunctionOnSet([hub EXCEPT ![packet.to] = @ + n], Holders) = H + n
        /\ SumFunctionOnSet([spoke EXCEPT ![packet.to] = @ + n], Holders) = S + n
    BY <1>1, <2>1, SumCredited
  <2>6. CASE packet.destination = "hub"
    <3>1. hub' = [hub EXCEPT ![packet.to] = @ + n] /\ UNCHANGED spoke
      BY <1>4, <2>6 DEF DeliverPacket
    <3>2. Supply(hub', spoke', packets') = (H + n) + S + (P - n)
      BY <2>2, <2>3, <2>5, <3>1, Zenon DEF Supply
    <3> HIDE DEF H, S, P, n
    <3>3. (H + n) + S + (P - n) = H + S + P
      BY <1>1, <2>1
    <3>4. QED
      BY <2>4, <3>2, <3>3, Zenon
  <2>7. CASE packet.destination # "hub"
    <3>1. spoke' = [spoke EXCEPT ![packet.to] = @ + n] /\ UNCHANGED hub
      BY <1>4, <2>7 DEF DeliverPacket
    <3>2. Supply(hub', spoke', packets') = H + (S + n) + (P - n)
      BY <2>2, <2>3, <2>5, <3>1, Zenon DEF Supply
    <3> HIDE DEF H, S, P, n
    <3>3. H + (S + n) + (P - n) = H + S + P
      BY <1>1, <2>1
    <3>4. QED
      BY <2>4, <3>2, <3>3, Zenon
  <2>8. QED
    BY <2>6, <2>7
<1>5. Supply(hub, spoke, packets) = H + S + P
  BY DEF Supply
<1> HIDE DEF H, S, P
<1>6. QED
  BY <1>3, <1>4, <1>5 DEF TokenStep

LEMMA VaultInitSupply == VaultInit => SupplyInv
<1> SUFFICES ASSUME VaultInit PROVE SupplyInv
  OBVIOUS
<1>1. /\ \A h \in Holders : hub[h] = 0 /\ spoke[h] = 0
      /\ packets = {} /\ issuedShares = 0
  BY DEF VaultInit, TokenInit
<1>2. SumFunctionOnSet(hub, Holders) = 0 /\ SumFunctionOnSet(spoke, Holders) = 0
  BY <1>1, HoldersFinite, SumZero
<1>3. Parcels({}) = 0
  BY SumEmpty DEF Parcels
<1>4. IsFiniteSet({})
  BY FS_EmptySet
<1>5. QED
  BY <1>1, <1>2, <1>3, <1>4 DEF SupplyInv, PacketsInOrder, Supply

\* Every deposit mints, and every redemption burns, what it counts.
LEMMA DepositSupply ==
  ASSUME VInv, SupplyInv, NEW user, NEW receiver \in Holders, NEW assets \in Nat,
         NEW gasFee \in Nat, NEW relayer,
         DepositInto(user, assets, receiver, gasFee, relayer)
  PROVE  SupplyInv'
<1> DEFINE shares == SharesFor(assets - gasFee, HarvestedStake)
<1>1. /\ issuedShares \in Nat /\ VIRTUAL_SHARES \in Nat \ {0} /\ HarvestedStake \in Nat
      /\ TokenTypeOK
  BY HarvestOK, StLighterAssumption DEF VInv, VaultTypeOK
<1>2. issuedShares' = issuedShares + shares /\ Mint(receiver, shares) /\ gasFee < assets
  BY DEF DepositInto
<1>3. shares \in Nat
  <2>1. /\ (assets - gasFee) * (issuedShares + VIRTUAL_SHARES) \in Nat
        /\ HarvestedStake + 1 \in Nat \ {0}
    BY <1>1, <1>2, MulNat
  <2>2. QED
    BY <2>1, DivNat DEF SharesFor
<1> HIDE DEF shares
<1>4. PacketsInOrder' /\ Supply(hub', spoke', packets') = Supply(hub, spoke, packets) + shares
  BY <1>1, <1>2, <1>3, MintSupply DEF SupplyInv
<1>5. QED
  BY <1>2, <1>4, Zenon DEF SupplyInv

LEMMA RedeemSupply ==
  ASSUME VInv, SupplyInv, NEW owner \in Holders, NEW shares \in Nat, NEW receiver,
         NEW gasFee, NEW relayer, RedeemFrom(owner, shares, receiver, gasFee, relayer)
  PROVE  SupplyInv'
<1>1. issuedShares' = issuedShares - shares /\ Burn(owner, shares)
  BY DEF RedeemFrom
<1>2. PacketsInOrder' /\ Supply(hub', spoke', packets') = Supply(hub, spoke, packets) - shares
  BY <1>1, MintSupply DEF SupplyInv, VInv, VaultTypeOK
<1>3. QED
  BY <1>1, <1>2, Zenon DEF SupplyInv

LEMMA QuietSupply ==
  ASSUME SupplyInv, UNCHANGED <<issuedShares, tokenVars>>
  PROVE  SupplyInv'
  BY DEF SupplyInv, PacketsInOrder, tokenVars

LEMMA VaultNextSupply == VInv /\ SupplyInv /\ [VaultNext]_vaultVars => SupplyInv'
<1> SUFFICES ASSUME VInv, SupplyInv, [VaultNext]_vaultVars PROVE SupplyInv'
  OBVIOUS
<1>1. ASSUME NEW user \in Holders, UserCall(user) PROVE SupplyInv'
  <2>1. ASSUME NEW assets \in DepositAmounts, NEW receiver \in Holders,
               Deposit(user, assets, receiver)
        PROVE  SupplyInv'
    <3>1. DepositInto(user, assets, receiver, 0, NoAccount) /\ assets \in Nat /\ 0 \in Nat
      BY <2>1, StLighterAssumption DEF Deposit
    <3>2. QED
      BY <3>1, DepositSupply
  <2>2. ASSUME NEW shares \in 1..hub[user], NEW receiver \in Payees,
               Redeem(user, shares, receiver)
        PROVE  SupplyInv'
    <3>1. RedeemFrom(user, shares, receiver, 0, NoAccount) /\ shares \in Nat
      BY <1>1, <2>2 DEF Redeem, VInv, VaultTypeOK, TokenTypeOK
    <3>2. QED
      BY <1>1, <3>1, RedeemSupply
  <2>3. CASE InvalidateNonce(user)
    BY <2>3, QuietSupply DEF InvalidateNonce, positionVars
  <2>4. ASSUME NEW amount \in 1..zen[user], Donate(user, amount) PROVE SupplyInv'
    BY <2>4, QuietSupply DEF Donate
  <2>5. QED
    BY <1>1, <2>1, <2>2, <2>3, <2>4 DEF UserCall
<1>2. ASSUME NEW m \in signed, GaslessCall(m) PROVE SupplyInv'
  <2>1. PICK feeZen \in GasFees : DepositWithSig(m, feeZen) \/ RedeemWithSig(m, feeZen)
    BY <1>2 DEF GaslessCall
  <2>2. m.user \in Holders /\ m.amount \in Nat /\ feeZen \in Nat
    BY <1>2, StLighterAssumption DEF VInv, VaultTypeOK, Message
  <2>3. CASE DepositWithSig(m, feeZen)
    BY <2>2, <2>3, DepositSupply DEF DepositWithSig
  <2>4. CASE RedeemWithSig(m, feeZen)
    BY <2>2, <2>4, RedeemSupply DEF RedeemWithSig
  <2>5. QED
    BY <2>1, <2>3, <2>4
<1>3. CASE TokenStep /\ UNCHANGED <<positionVars, configVars, signingVars, now>>
  <2>1. /\ issuedShares' = issuedShares /\ PacketsInOrder'
        /\ Supply(hub', spoke', packets') = Supply(hub, spoke, packets)
    BY <1>3, TokenStepSupply DEF SupplyInv, VInv, VaultTypeOK, positionVars
  <2>2. QED
    BY <2>1, Zenon DEF SupplyInv
<1>4. CASE \/ \E m \in Signable : Sign(m)
           \/ Harvest \/ GovernanceCall
           \/ \E reward \in Rewards : Tick(reward)
           \/ UNCHANGED vaultVars
  <2>1. UNCHANGED <<issuedShares, tokenVars>>
    BY <1>4 DEF Sign, Harvest, GovernanceCall, SetFeeParameters, Pause, Unpause, Tick,
                positionVars, vaultVars
  <2>2. QED
    BY <2>1, QuietSupply
<1>5. QED
  BY <1>1, <1>2, <1>3, <1>4 DEF VaultNext

\* The vault's counter of issued shares is the whole supply of LtZEN on both chains
\* and in the bridge, so the last exit it recognises (_redeem pays everything when the
\* shares redeemed are all that were issued) is really the last.
THEOREM SupplyIsCounted == VaultSpec => []SharesMatchSupply
<1>1. VInv /\ SupplyInv => SharesMatchSupply
  BY SupplyIs DEF SupplyInv
<1>2. QED
  BY <1>1, VaultInitVInv, VaultNextVInv, VaultInitSupply, VaultNextSupply, PTL DEF VaultSpec

(***************************************************************************)
(* Redeeming.  The condition under which it can be done is stated by       *)
(* itself: a redemption is that condition and one value for each variable. *)
(***************************************************************************)

RedeemAllowed(owner, shares, gasFee) ==
  /\ shares # 0
  /\ gasFee < RedemptionValue(shares, HarvestedStake)
  /\ issuedShares >= shares
  /\ hub[owner] >= shares
  /\ HarvestedStake >= RedemptionValue(shares, HarvestedStake)

RedeemSets(owner, shares, receiver, gasFee, relayer) ==
  LET assets   == RedemptionValue(shares, HarvestedStake)
      withdrew == [HarvestedZen EXCEPT ![Vault] = @ + assets] IN
  /\ issuedShares' = issuedShares - shares
  /\ hub' = [hub EXCEPT ![owner] = @ - shares]
  /\ staked' = HarvestedStake - assets
  /\ unclaimed' = 0
  /\ zen' = PayOut(withdrew, receiver, relayer, assets, gasFee)
  /\ strayZen' = HarvestedStray + ToVault(relayer, gasFee) + ToVault(receiver, assets - gasFee)
  /\ UNCHANGED <<initialized, bridgeVars>>

LEMMA RedeemFromIs ==
  ASSUME NEW owner, NEW shares, NEW receiver, NEW gasFee, NEW relayer
  PROVE  RedeemFrom(owner, shares, receiver, gasFee, relayer)
           <=> /\ RedeemAllowed(owner, shares, gasFee)
               /\ RedeemSets(owner, shares, receiver, gasFee, relayer)
BY DEF RedeemFrom, RedeemAllowed, RedeemSets, Burn

\* Without a relayer nothing else is asked.
LEMMA RedeemIs ==
  ASSUME NEW user, NEW shares, NEW receiver
  PROVE  Redeem(user, shares, receiver)
           <=> /\ RedeemAllowed(user, shares, 0)
               /\ RedeemSets(user, shares, receiver, 0, NoAccount)
               /\ UNCHANGED <<configVars, signingVars, now>>
BY RedeemFromIs DEF Redeem

\* Shares are worth no more than the pool: the virtual shares keep the rounded rate
\* below that at which part of the shares would own all of it.
LEMMA WorthAtMostPool ==
  ASSUME NEW i \in Nat, NEW v \in Nat \ {0}, NEW p \in Nat, NEW s \in Nat, s <= i
  PROVE  /\ (s * (p + 1)) \div (i + v) \in Nat
         /\ (s * (p + 1)) \div (i + v) <= p
<1> DEFINE a == (s * (p + 1)) \div (i + v)
<1>1. s * (p + 1) \in Nat /\ i + v \in Nat \ {0}
  BY MulNat
<1>2. a \in Nat /\ a * (i + v) <= s * (p + 1)
  BY <1>1, DivNat, DivFloor
<1> HIDE DEF a
<1>3. ASSUME a >= p + 1 PROVE FALSE
  <2>1. (i + v) * (p + 1) <= (i + v) * a
    BY <1>1, <1>2, <1>3, MulMonotone
  <2>2. (i + v) * (p + 1) <= s * (p + 1)
    BY <1>1, <1>2, <2>1
  <2>3. (i + v) * (p + 1) = s * (p + 1) + (i - s + v) * (p + 1)
    OBVIOUS
  <2>4. (i - s + v) * (p + 1) >= 1
    <3>1. \A m \in Nat \ {0}, n \in Nat \ {0} : m * n >= 1
      OBVIOUS
    <3>2. i - s + v \in Nat \ {0} /\ p + 1 \in Nat \ {0}
      OBVIOUS
    <3>3. QED
      BY <3>1, <3>2
  <2>5. s * (p + 1) \in Int /\ (i - s + v) * (p + 1) \in Int
    OBVIOUS
  <2>6. QED
    BY <2>2, <2>3, <2>4, <2>5
<1>4. QED
  BY <1>2, <1>3 DEF a

\* A holder's shares are part of what was issued.
LEMMA HeldIsIssued ==
  ASSUME VInv, SupplyInv, NEW h \in Holders
  PROVE  hub[h] \in Nat /\ hub[h] <= issuedShares
<1> DEFINE f == [packet \in packets |-> packet.amount]
<1>1. hub \in [Holders -> Nat] /\ spoke \in [Holders -> Nat] /\ packets \in SUBSET Packet
  BY DEF VInv, VaultTypeOK, TokenTypeOK
<1>2. hub[h] <= SumFunctionOnSet(hub, Holders)
  BY <1>1, HoldersFinite, EntryAtMostSum
<1>3. SumFunctionOnSet(hub, Holders) \in Nat /\ SumFunctionOnSet(spoke, Holders) \in Nat
  BY <1>1, HoldersFinite, SumNat
<1>4. Parcels(packets) \in Nat
  <2>1. IsFiniteSet(packets) /\ \A packet \in packets : f[packet] \in Nat
    BY <1>1 DEF SupplyInv, PacketsInOrder, Packet
  <2> HIDE DEF f
  <2>2. SumFunctionOnSet(f, packets) \in Nat
    BY <2>1, SumNat
  <2>3. QED
    BY <2>2 DEF Parcels, f
<1>5. QED
  BY <1>1, <1>2, <1>3, <1>4 DEF SupplyInv, Supply

RedeemIsOpen ==
  \A h \in Holders : \A shares \in 1..hub[h] : \A gasFee \in Nat :
    gasFee < RedemptionValue(shares, HarvestedStake) => RedeemAllowed(h, shares, gasFee)

LEMMA RedeemStaysOpen == VInv /\ SupplyInv => RedeemIsOpen
<1> SUFFICES ASSUME VInv, SupplyInv, NEW h \in Holders, NEW shares \in 1..hub[h],
                    NEW gasFee \in Nat, gasFee < RedemptionValue(shares, HarvestedStake)
             PROVE  RedeemAllowed(h, shares, gasFee)
  BY DEF RedeemIsOpen
<1>1. hub[h] \in Nat /\ hub[h] <= issuedShares /\ issuedShares \in Nat
  BY HeldIsIssued DEF VInv, VaultTypeOK
<1>2. shares \in Nat \ {0} /\ shares <= hub[h] /\ shares <= issuedShares
  BY <1>1
<1>3. HarvestedStake \in Nat /\ VIRTUAL_SHARES \in Nat \ {0}
  BY HarvestOK, StLighterAssumption
<1>4. HarvestedStake >= RedemptionValue(shares, HarvestedStake)
  BY <1>1, <1>2, <1>3, WorthAtMostPool DEF RedemptionValue, AssetsFor
<1>5. QED
  BY <1>1, <1>2, <1>4 DEF RedeemAllowed

\* A holder can always redeem any part of their shares that is worth more than the fee
\* asked for it: the supply's count covers them wherever the other shares are, and
\* rounding never values them above the pool, paused or not, whatever was harvested
\* (RedeemNeverBlocked, for every part and fee, without ENABLED).
THEOREM RedeemAlwaysOpen == VaultSpec => []RedeemIsOpen
BY RedeemStaysOpen, VaultInitVInv, VaultNextVInv, VaultInitSupply, VaultNextSupply, PTL
   DEF VaultSpec

(***************************************************************************)
(* The fees relayers are paid.                                             *)
(***************************************************************************)

\* What u's messages of a set ms allow under a nonce, and under the first n nonces.
FeesAllowed(ms, u, k) == {m.maxFee : m \in {msg \in ms : msg.user = u /\ msg.nonce = k}}

Allowed(ms, u, k) == Max({0} \cup FeesAllowed(ms, u, k))

Allowance(ms, u, n) == SumFunctionOnSet([k \in 0..(n - 1) |-> Allowed(ms, u, k)], 0..(n - 1))

LEMMA AllowedIs ==
  ASSUME NEW ms \in SUBSET Message, IsFiniteSet(ms), NEW u, NEW k
  PROVE  /\ Allowed(ms, u, k) \in Nat
         /\ Allowed(ms, u, k) \in {0} \cup FeesAllowed(ms, u, k)
         /\ \A fee \in {0} \cup FeesAllowed(ms, u, k) : fee <= Allowed(ms, u, k)
<1> DEFINE those == {msg \in ms : msg.user = u /\ msg.nonce = k}
           fees == FeesAllowed(ms, u, k)
           fee == [m \in those |-> m.maxFee]
<1>1. IsFiniteSet(those)
  BY FS_Subset
<1>2. fee \in Surjection(those, fees)
  BY DEF Surjection, FeesAllowed
<1>3. IsFiniteSet(fees)
  BY <1>1, <1>2, FS_Surjection
<1>4. IsFiniteSet({0} \cup fees)
  BY <1>3, FS_Singleton, FS_Union
<1>5. {0} \cup fees \in SUBSET Nat /\ {0} \cup fees # {}
  BY DEF FeesAllowed, Message
<1>6. Allowed(ms, u, k) = Max({0} \cup fees)
  BY DEF Allowed
<1> HIDE DEF fees
<1>7. QED
  BY <1>4, <1>5, <1>6, MaxIsLargest DEF fees

\* One more message can only allow more.
LEMMA AllowedGrows ==
  ASSUME NEW ns \in SUBSET Message, IsFiniteSet(ns), NEW ms \in SUBSET ns, NEW u, NEW k
  PROVE  Allowed(ms, u, k) <= Allowed(ns, u, k)
<1>1. ms \in SUBSET Message /\ IsFiniteSet(ms)
  BY FS_Subset
<1>2. FeesAllowed(ms, u, k) \subseteq FeesAllowed(ns, u, k)
  BY DEF FeesAllowed
<1>3. Allowed(ms, u, k) \in {0} \cup FeesAllowed(ms, u, k)
  BY <1>1, AllowedIs
<1>4. \A fee \in {0} \cup FeesAllowed(ns, u, k) : fee <= Allowed(ns, u, k)
  BY AllowedIs
<1>5. QED
  BY <1>2, <1>3, <1>4

LEMMA AllowanceIs ==
  ASSUME NEW ms \in SUBSET Message, IsFiniteSet(ms), NEW u, NEW n \in Nat
  PROVE  /\ IsFiniteSet(0..(n - 1))
         /\ \A k \in 0..(n - 1) : [j \in 0..(n - 1) |-> Allowed(ms, u, j)][k] \in Nat
         /\ Allowance(ms, u, n) \in Nat
<1>1. IsFiniteSet(0..(n - 1))
  BY FS_Interval
<1>2. \A k \in 0..(n - 1) : [j \in 0..(n - 1) |-> Allowed(ms, u, j)][k] \in Nat
  BY AllowedIs
<1>3. Allowance(ms, u, n) \in Nat
  BY <1>1, <1>2, SumNat DEF Allowance
<1>4. QED
  BY <1>1, <1>2, <1>3

LEMMA AllowanceGrows ==
  ASSUME NEW ns \in SUBSET Message, IsFiniteSet(ns), NEW ms \in SUBSET ns, NEW u, NEW n \in Nat
  PROVE  Allowance(ms, u, n) <= Allowance(ns, u, n)
<1> DEFINE K == 0..(n - 1)
           f == [k \in K |-> Allowed(ms, u, k)]
           g == [k \in K |-> Allowed(ns, u, k)]
<1>1. ms \in SUBSET Message /\ IsFiniteSet(ms)
  BY FS_Subset
<1>2. IsFiniteSet(K) /\ (\A k \in K : f[k] \in Nat) /\ (\A k \in K : g[k] \in Nat)
  BY <1>1, AllowanceIs
<1>3. (\A k \in K : f[k] \in Int) /\ (\A k \in K : g[k] \in Int)
  BY <1>2
<1>4. \A k \in K : f[k] <= g[k]
  BY AllowedGrows
<1>5. Allowance(ms, u, n) = SumFunctionOnSet(f, K) /\ Allowance(ns, u, n) = SumFunctionOnSet(g, K)
  BY DEF Allowance
<1> HIDE DEF f, g, K
<1>6. QED
  BY <1>2, <1>3, <1>4, <1>5, SumAtMost

\* A nonce used up brings what was signed under it, whether or not a message was.
LEMMA AllowanceNext ==
  ASSUME NEW ms \in SUBSET Message, IsFiniteSet(ms), NEW u, NEW n \in Nat
  PROVE  Allowance(ms, u, n + 1) = Allowance(ms, u, n) + Allowed(ms, u, n)
<1> DEFINE K == 0..(n - 1)
           L == 0..(n + 1 - 1)
           f == [k \in K |-> Allowed(ms, u, k)]
           g == [k \in L |-> Allowed(ms, u, k)]
<1>1. IsFiniteSet(K) /\ \A k \in K : f[k] \in Int
  <2>1. IsFiniteSet(K)
    BY FS_Interval
  <2>2. \A k \in K : f[k] \in Int
    BY AllowedIs
  <2>3. QED
    BY <2>1, <2>2
<1>2. IsFiniteSet(L) /\ \A k \in L : g[k] \in Int
  BY AllowedIs, FS_Interval
<1>3. /\ n \notin K /\ n \in L /\ K \ {n} = L \ {n}
      /\ \A k \in K \ {n} : f[k] = g[k]
      /\ g[n] = Allowed(ms, u, n)
  OBVIOUS
<1>4. Allowance(ms, u, n) = SumFunctionOnSet(f, K) /\ Allowance(ms, u, n + 1) = SumFunctionOnSet(g, L)
  BY DEF Allowance
<1>5. Allowance(ms, u, n) \in Nat
  BY AllowanceIs
<1> HIDE DEF f, g, K, L
<1>6. SumFunctionOnSet(g, L)
        = SumFunctionOnSet(f, K) - (IF n \in K THEN f[n] ELSE 0) + (IF n \in L THEN g[n] ELSE 0)
  BY <1>1, <1>2, <1>3, SumUpdate
<1>7. QED
  BY <1>3, <1>4, <1>5, <1>6

FeesInv ==
  /\ IsFiniteSet(signed)
  /\ \A u \in Holders : gasFeesPaid[u] <= Allowance(signed, u, nonces[u])

LEMMA FeesAreAllowed == FeesInv => FeesWithinSignatures
  BY DEF FeesInv, FeesWithinSignatures, LargestFee, Allowance, Allowed, FeesAllowed

LEMMA VaultInitFees == VaultInit => FeesInv
<1> SUFFICES ASSUME VaultInit PROVE FeesInv
  OBVIOUS
<1>1. signed = {} /\ \A u \in Holders : gasFeesPaid[u] = 0 /\ nonces[u] = 0
  BY DEF VaultInit
<1>2. IsFiniteSet({}) /\ {} \in SUBSET Message /\ 0 \in Nat
  BY FS_EmptySet
<1>3. \A u \in Holders : Allowance({}, u, 0) \in Nat
  BY <1>2, AllowanceIs
<1>4. QED
  BY <1>1, <1>2, <1>3 DEF FeesInv

\* A relayed call uses up the nonce of the message it is paid for.
LEMMA SpendFees ==
  ASSUME VInv, FeesInv, NEW m \in signed, NEW feeZen \in Nat, Spend(m, feeZen)
  PROVE  FeesInv'
<1>1. /\ signed \in SUBSET Message /\ IsFiniteSet(signed)
      /\ m \in Message /\ m.user \in Holders /\ m.maxFee \in Nat
      /\ nonces \in [Holders -> Nat] /\ gasFeesPaid \in [Holders -> Nat]
  BY DEF VInv, VaultTypeOK, FeesInv, Message
<1>2. /\ feeZen <= m.maxFee /\ m.nonce = nonces[m.user] /\ signed' = signed
      /\ nonces' = [nonces EXCEPT ![m.user] = @ + 1]
      /\ gasFeesPaid' = [gasFeesPaid EXCEPT ![m.user] = @ + feeZen]
  BY DEF Spend
<1>3. ASSUME NEW u \in Holders PROVE gasFeesPaid'[u] <= Allowance(signed, u, nonces'[u])
  <2>1. gasFeesPaid[u] \in Nat /\ nonces[u] \in Nat /\ Allowance(signed, u, nonces[u]) \in Nat
    BY <1>1, AllowanceIs
  <2>2. gasFeesPaid[u] <= Allowance(signed, u, nonces[u])
    BY DEF FeesInv
  <2>3. CASE u = m.user
    <3>1. m.maxFee \in FeesAllowed(signed, u, nonces[u])
      BY <1>2, <2>3 DEF FeesAllowed
    <3>2. /\ Allowed(signed, u, nonces[u]) \in Nat
          /\ m.maxFee <= Allowed(signed, u, nonces[u])
      BY <1>1, <3>1, AllowedIs
    <3>3. Allowance(signed, u, nonces[u] + 1)
            = Allowance(signed, u, nonces[u]) + Allowed(signed, u, nonces[u])
      BY <1>1, <2>1, AllowanceNext
    <3>4. gasFeesPaid'[u] = gasFeesPaid[u] + feeZen /\ nonces'[u] = nonces[u] + 1
      BY <1>1, <1>2, <2>3
    <3>5. gasFeesPaid[u] + feeZen <= Allowance(signed, u, nonces[u] + 1)
      BY <1>1, <1>2, <2>1, <2>2, <3>2, <3>3
    <3>6. QED
      BY <3>4, <3>5
  <2>4. CASE u # m.user
    BY <1>1, <1>2, <2>2, <2>4
  <2>5. QED
    BY <2>3, <2>4
<1>4. QED
  BY <1>1, <1>2, <1>3 DEF FeesInv

LEMMA InvalidateFees ==
  ASSUME VInv, FeesInv, NEW user \in Holders, InvalidateNonce(user)
  PROVE  FeesInv'
<1>1. /\ signed \in SUBSET Message /\ IsFiniteSet(signed)
      /\ nonces \in [Holders -> Nat] /\ gasFeesPaid \in [Holders -> Nat]
  BY DEF VInv, VaultTypeOK, FeesInv
<1>2. /\ nonces' = [nonces EXCEPT ![user] = @ + 1]
      /\ UNCHANGED <<signed, gasFeesPaid>>
  BY DEF InvalidateNonce
<1>3. ASSUME NEW u \in Holders PROVE gasFeesPaid[u] <= Allowance(signed, u, nonces'[u])
  <2>1. /\ gasFeesPaid[u] \in Nat /\ nonces[u] \in Nat /\ Allowance(signed, u, nonces[u]) \in Nat
        /\ Allowed(signed, u, nonces[u]) \in Nat
    BY <1>1, AllowanceIs, AllowedIs
  <2>2. gasFeesPaid[u] <= Allowance(signed, u, nonces[u])
    BY DEF FeesInv
  <2>3. Allowance(signed, u, nonces[u] + 1)
          = Allowance(signed, u, nonces[u]) + Allowed(signed, u, nonces[u])
    BY <1>1, <2>1, AllowanceNext
  <2>4. gasFeesPaid[u] <= Allowance(signed, u, nonces[u] + 1)
    BY <2>1, <2>2, <2>3
  <2>5. nonces'[u] = nonces[u] + 1 \/ nonces'[u] = nonces[u]
    BY <1>1, <1>2
  <2>6. QED
    BY <2>2, <2>4, <2>5
<1>4. QED
  BY <1>1, <1>2, <1>3 DEF FeesInv

LEMMA SignFees == ASSUME VInv, FeesInv, NEW m \in Signable, Sign(m) PROVE FeesInv'
<1>1. /\ signed \cup {m} \in SUBSET Message /\ IsFiniteSet(signed) /\ IsFiniteSet(signed \cup {m})
      /\ signed \in SUBSET (signed \cup {m})
      /\ nonces \in [Holders -> Nat] /\ gasFeesPaid \in [Holders -> Nat]
  BY SignableMessages, FS_AddElement DEF VInv, VaultTypeOK, FeesInv
<1>2. signed' = signed \cup {m} /\ UNCHANGED <<nonces, gasFeesPaid>>
  BY DEF Sign
<1> DEFINE more == signed \cup {m}
<1> HIDE DEF more
<1>3. ASSUME NEW u \in Holders PROVE gasFeesPaid[u] <= Allowance(more, u, nonces[u])
  <2>1. more \in SUBSET Message /\ IsFiniteSet(more) /\ signed \in SUBSET more
    BY <1>1 DEF more
  <2>2. signed \in SUBSET Message /\ nonces[u] \in Nat /\ gasFeesPaid[u] \in Nat
    BY <1>1
  <2>3. /\ Allowance(signed, u, nonces[u]) \in Nat /\ Allowance(more, u, nonces[u]) \in Nat
        /\ Allowance(signed, u, nonces[u]) <= Allowance(more, u, nonces[u])
    BY <1>1, <2>1, <2>2, AllowanceIs, AllowanceGrows
  <2>4. gasFeesPaid[u] <= Allowance(signed, u, nonces[u])
    BY DEF FeesInv
  <2>5. QED
    BY <2>2, <2>3, <2>4
<1>4. QED
  BY <1>1, <1>2, <1>3 DEF FeesInv, more

LEMMA QuietFees == ASSUME FeesInv, UNCHANGED signingVars PROVE FeesInv'
  BY DEF FeesInv, signingVars

LEMMA VaultNextFees == VInv /\ FeesInv /\ [VaultNext]_vaultVars => FeesInv'
<1> SUFFICES ASSUME VInv, FeesInv, [VaultNext]_vaultVars PROVE FeesInv'
  OBVIOUS
<1>1. ASSUME NEW user \in Holders, UserCall(user) PROVE FeesInv'
  <2>1. CASE InvalidateNonce(user)
    BY <1>1, <2>1, InvalidateFees
  <2>2. CASE UNCHANGED signingVars
    BY <2>2, QuietFees
  <2>3. QED
    BY <1>1, <2>1, <2>2 DEF UserCall, Deposit, Redeem, Donate
<1>2. ASSUME NEW m \in signed, GaslessCall(m) PROVE FeesInv'
  <2>1. PICK feeZen \in GasFees : Spend(m, feeZen)
    BY <1>2 DEF GaslessCall, DepositWithSig, RedeemWithSig
  <2>2. feeZen \in Nat
    BY StLighterAssumption
  <2>3. QED
    BY <1>2, <2>1, <2>2, SpendFees
<1>3. CASE \/ Harvest \/ GovernanceCall
           \/ \E reward \in Rewards : Tick(reward)
           \/ TokenStep /\ UNCHANGED <<positionVars, configVars, signingVars, now>>
           \/ UNCHANGED vaultVars
  <2>1. UNCHANGED signingVars
    BY <1>3 DEF Harvest, GovernanceCall, SetFeeParameters, Pause, Unpause, Tick, vaultVars
  <2>2. QED
    BY <2>1, QuietFees
<1>4. QED
  BY <1>1, <1>2, <1>3, SignFees DEF VaultNext

\* Whoever holds a user's signed messages, and however often, late or together they are
\* submitted, the relayers never get more from the user than, for each nonce used up, the
\* highest fee signed under it (_useCheckedNonce and the fee checks of the WithSig calls).
THEOREM RelayersPaidAsSigned == VaultSpec => []FeesWithinSignatures
<1>1. QED
  BY FeesAreAllowed, VaultInitVInv, VaultNextVInv, VaultInitFees, VaultNextFees, PTL DEF VaultSpec

(***************************************************************************)
(* In and out again.                                                       *)
(***************************************************************************)

\* What the deposit just made minted, or any part of it, redeems for at most
\* the ZEN that the deposit staked.
RoundTripPays(net) ==
  \A shares \in 1..(issuedShares' - issuedShares) : RedemptionValue(shares, HarvestedStake)' <= net

\* k of the s shares minted for n, at the rate the deposit leaves.
LEMMA PartOfMint ==
  ASSUME NEW n \in Nat, NEW i \in Nat, NEW v \in Nat \ {0}, NEW p \in Nat, NEW s \in Nat,
         s * (p + 1) <= n * (i + v), NEW k \in Nat, k <= s
  PROVE  (k * (p + n + 1)) \div (i + s + v) <= n
<1>1. k * (p + n + 1) \in Nat /\ s * (p + n + 1) \in Nat /\ n * (i + s + v) \in Nat
  BY MulNat
<1>2. k * (p + n + 1) <= s * (p + n + 1)
  <2>1. p + n + 1 \in Nat
    OBVIOUS
  <2>2. (p + n + 1) * k <= (p + n + 1) * s
    BY <2>1, MulMonotone
  <2>3. QED
    BY <2>2
<1>3. s * (p + n + 1) <= n * (i + s + v)
  <2>1. s * (p + n + 1) = s * (p + 1) + n * s
    OBVIOUS
  <2>2. n * (i + s + v) = n * (i + v) + n * s
    OBVIOUS
  <2>3. s * (p + 1) \in Nat /\ n * (i + v) \in Nat /\ n * s \in Nat
    BY MulNat
  <2>4. QED
    BY <2>1, <2>2, <2>3
<1>4. i + s + v \in Nat \ {0}
  OBVIOUS
<1>5. (k * (p + n + 1)) \div (i + s + v) <= (n * (i + s + v)) \div (i + s + v)
  <2>1. k * (p + n + 1) <= n * (i + s + v)
    BY <1>1, <1>2, <1>3
  <2>2. QED
    BY <1>1, <1>4, <2>1, DivMonotone
<1>6. (n * (i + s + v)) \div (i + s + v) = n
  BY <1>4, DivExact
<1>7. QED
  BY <1>5, <1>6

LEMMA DepositRoundTrip ==
  ASSUME VInv, NEW user \in Holders, NEW receiver \in Holders, NEW assets \in Nat,
         NEW gasFee \in Nat, NEW relayer, gasFee # 0 => relayer \in Payees,
         DepositInto(user, assets, receiver, gasFee, relayer), UNCHANGED feeBps
  PROVE  RoundTripPays(assets - gasFee)
<1>1. PICK p \in Nat : p = HarvestedStake
  BY HarvestOK
<1>2. PICK n \in Nat : n = assets - gasFee
  BY DEF DepositInto
<1>3. PICK i \in Nat : i = issuedShares
  BY DEF VInv, VaultTypeOK
<1>4. PICK v \in Nat \ {0} : v = VIRTUAL_SHARES
  BY StLighterAssumption
<1>5. PICK s \in Nat : s = SharesFor(n, p)
  <2>1. n * (i + v) \in Nat /\ p + 1 \in Nat \ {0}
    BY MulNat
  <2>2. QED
    BY <1>3, <1>4, <2>1, DivNat DEF SharesFor
<1>6. s = (n * (i + v)) \div (p + 1) /\ (i = 0 => p = 0)
  BY <1>1, <1>3, <1>4, <1>5, HarvestOK DEF SharesFor
<1>7. s * (p + 1) <= n * (i + v)
  BY <1>6, MintedShares
<1>8. issuedShares' = i + s /\ staked' = p + n /\ unclaimed' = 0 /\ initialized' = TRUE
  BY <1>1, <1>2, <1>3, <1>5 DEF DepositInto
<1>9. HarvestedStake' = p + n
  <2>1. /\ feeBps \in Nat /\ feeBps' = feeBps /\ BPS_DENOMINATOR \in Nat \ {0}
        /\ BPS_DENOMINATOR' = BPS_DENOMINATOR
    BY StLighterAssumption DEF VInv, VaultTypeOK
  <2>2. claimed' = 0
    BY <1>8 DEF claimed
  <2>3. protocolFee' = 0
    BY <2>1, <2>2, ZeroDiv DEF protocolFee
  <2>4. QED
    BY <1>8, <2>2, <2>3 DEF HarvestedStake, restaked
<1>10. ASSUME NEW k \in 1..s
       PROVE  RedemptionValue(k, HarvestedStake)' <= n
  <2>1. CASE k = i + s
    <3>1. RedemptionValue(k, HarvestedStake)' = p + n /\ i = 0
      BY <1>8, <1>9, <2>1 DEF RedemptionValue
    <3>2. QED
      BY <1>6, <3>1
  <2>2. CASE k # i + s
    <3>1. RedemptionValue(k, HarvestedStake)' = (k * (p + n + 1)) \div (i + s + v)
      BY <1>4, <1>8, <1>9, <2>2 DEF RedemptionValue, AssetsFor
    <3>2. QED
      BY <1>7, <3>1, PartOfMint
  <2>3. QED
    BY <2>1, <2>2
<1>11. issuedShares' - issuedShares = s
  BY <1>3, <1>8
<1>12. QED
  BY <1>2, <1>10, <1>11 DEF RoundTripPays

\* Depositing and redeeming again never gains: right after a deposit, gasless or
\* not, the shares it minted, and any part of them, redeem for at most what was
\* staked for them, whatever reward had built up and whatever was rounded before.
THEOREM RoundTripNeverGains ==
  VaultSpec => [][/\ \A user, receiver \in Holders, assets \in DepositAmounts :
                       Deposit(user, assets, receiver) => RoundTripPays(assets)
                  /\ \A m \in signed, feeZen \in GasFees :
                       DepositWithSig(m, feeZen) => RoundTripPays(m.amount - feeZen)]_vaultVars
<1> DEFINE NoGain == /\ \A user, receiver \in Holders, assets \in DepositAmounts :
                          Deposit(user, assets, receiver) => RoundTripPays(assets)
                     /\ \A m \in signed, feeZen \in GasFees :
                          DepositWithSig(m, feeZen) => RoundTripPays(m.amount - feeZen)
<1>1. ASSUME VInv PROVE NoGain
  <2>1. ASSUME NEW user \in Holders, NEW receiver \in Holders, NEW assets \in DepositAmounts,
               Deposit(user, assets, receiver)
        PROVE  RoundTripPays(assets)
    <3>1. assets \in Nat /\ assets - 0 = assets
      BY StLighterAssumption
    <3>2. DepositInto(user, assets, receiver, 0, NoAccount) /\ UNCHANGED feeBps
      BY <2>1 DEF Deposit, configVars
    <3>3. RoundTripPays(assets - 0)
      BY <1>1, <3>1, <3>2, DepositRoundTrip
    <3>4. QED
      BY <3>1, <3>3
  <2>2. ASSUME NEW m \in signed, NEW feeZen \in GasFees, DepositWithSig(m, feeZen)
        PROVE  RoundTripPays(m.amount - feeZen)
    <3>1. m.user \in Holders /\ m.amount \in Nat /\ feeZen \in Nat /\ Relayer \in Payees
      BY <1>1, StLighterAssumption DEF VInv, VaultTypeOK, Message
    <3>2. /\ DepositInto(m.user, m.amount, m.user, feeZen, Relayer)
          /\ UNCHANGED feeBps
      BY <2>2 DEF DepositWithSig, configVars
    <3>3. QED
      BY <1>1, <3>1, <3>2, DepositRoundTrip
  <2>3. QED
    BY <2>1, <2>2
<1>2. VInv /\ [VaultNext]_vaultVars => [NoGain]_vaultVars
  BY <1>1
<1>3. QED
  BY <1>2, VaultInitVInv, VaultNextVInv, PTL DEF VaultSpec
=============================================================================
