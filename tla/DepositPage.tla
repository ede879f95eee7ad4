----------------------------- MODULE DepositPage -----------------------------
(***************************************************************************)
(* The page that deposits ZEN held on the hub chain (stake/page,           *)
(* StakeForm, useDeposit over useTxLifecycle): approve the vault if the    *)
(* allowance is too small, then deposit.                                   *)
(*                                                                         *)
(* A run is one call of deposit().  It is asynchronous and keeps the       *)
(* amount and the need of an approval it was started with.  The input is   *)
(* never locked, and the button only while a transaction is being signed   *)
(* or mined: not between the two transactions of a run.  The form goes     *)
(* away when the wallet leaves the hub chain and comes back empty; a run   *)
(* it started goes on, and goes on writing the one toast that all runs     *)
(* share.  Wallet, chain and the queries' network are external.            *)
(***************************************************************************)
EXTENDS Naturals

CONSTANTS
  DepositAmounts,      \* what the user may type
  ZenBalance,          \* the user's ZEN at first
  WalletChains,        \* chains the wallet may be switched to
  MaxRuns, MaxForms    \* bounds: calls of deposit(), times the form is mounted

ASSUME DepositAssumption ==
  /\ DepositAmounts \subseteq Nat \ {0}
  /\ WalletChains \subseteq {"hub", "spoke", "other"}
  /\ {ZenBalance, MaxRuns, MaxForms} \subseteq Nat

Runs == 1..MaxRuns

VARIABLES
  walletChain,         \* useChainId
  form,                \* which mounting of the form is on the page
  input,               \* its amountWei, 0 if undefined
  txPhase,             \* its lifecycle's phase
  balanceData,         \* the queries' data: cached, so kept when the form goes
  allowanceData,
  run,                 \* per call of deposit(): what it has captured, and where it is
  tx,                  \* and its latest transaction, as the chain has it
  zen, zenAllowance,   \* the hub chain: the user's ZEN, and what the vault may take of it
  toast, toastTimer,   \* what the toast "deposit" shows, and whether its dismissal is scheduled
  crossed              \* history: runs that met another one, or data that was out of date

depositVars == <<walletChain, form, input, txPhase, balanceData, allowanceData, run, tx, zen,
                 zenAllowance, toast, toastTimer, crossed>>
formVars == <<walletChain, form, input, txPhase>>
dataVars == <<balanceData, allowanceData>>
zenVars == <<tx, zen, zenAllowance>>
toastVars == <<toast, toastTimer>>

Unused == [amount |-> 0, form |-> 0, at |-> "unused"]
Over == [Unused EXCEPT !.at = "over"]
Tx(what, amount) == [what |-> what, amount |-> amount]
NoTx == Tx("none", 0)

DepositInit ==
  /\ walletChain = "hub" /\ form = 1 /\ input = 0 /\ txPhase = "idle"
  /\ balanceData = ZenBalance /\ allowanceData = 0
  /\ run = [r \in Runs |-> Unused] /\ tx = [r \in Runs |-> NoTx]
  /\ zen = ZenBalance /\ zenAllowance = 0
  /\ toast = "none" /\ toastTimer = FALSE /\ crossed = {}

\* Not over, or over with its transaction still to be mined.
Running(r) == run[r] \notin {Unused, Over} \/ tx[r].what \in {"approve", "deposit"}

(***************************************************************************)
(* Which actions the wallet's chain allows (chainGating).                  *)
(***************************************************************************)

getAvailability(action, chainId) ==
  CASE action \in {"view", "transparency", "bridge"} -> "available"
    [] action \in {"crossChainStake", "faucet"} ->
         (CASE chainId = "spoke" -> "available"
            [] chainId = "hub" -> "guide-switch-chain"
            [] OTHER -> "wrong-network")
    [] action \in {"deposit", "redeem", "redeemToBase"} ->
         (CASE chainId = "hub" -> "available"
            [] chainId = "spoke" -> (CASE action = "redeem" -> "guide-bridge"
                                       [] action = "redeemToBase" -> "guide-switch-chain"
                                       [] action = "deposit" -> "guide-cross-stake")
            [] OTHER -> "wrong-network")

isActionAvailable(action, chainId) == getAvailability(action, chainId) = "available"

\* The page shows the form, or the guide back to the hub chain.
FormShown == isActionAvailable("deposit", walletChain)

\* The guide's button, the switcher in the header, or the wallet itself.
SwitchChain(chainId) ==
  /\ chainId # walletChain /\ walletChain' = chainId
  /\ IF FormShown
     THEN /\ form < MaxForms /\ form' = form + 1
          /\ input' = 0 /\ txPhase' = "idle"
     ELSE UNCHANGED <<form, input, txPhase>>
  /\ UNCHANGED <<dataVars, run, zenVars, toastVars, crossed>>

(***************************************************************************)
(* The form.                                                               *)
(***************************************************************************)

TxBusy == txPhase \in {"awaiting-signature", "pending"}

\* Mutant: an approval made once is taken for enough.
approvalDueOnce == allowanceData = 0
\* needsApproval of this page.
approvalDue == allowanceData < input

insufficientBalance == input > balanceData

canSubmit == FormShown /\ input # 0 /\ ~insufficientBalance /\ ~TxBusy

EditInput(amount) ==
  /\ FormShown /\ amount # input
  /\ input' = amount
  /\ UNCHANGED <<walletChain, form, txPhase, dataVars, run, zenVars, toastVars, crossed>>

(***************************************************************************)
(* The toast: a pending one stays until it is replaced, one that says how  *)
(* it ended goes away after some seconds.                                  *)
(***************************************************************************)

\* Mutant: a pending toast leaves the timer of the one it replaces.
pushOverTimer(tone) == toast' = tone /\ toastTimer' = (toastTimer \/ tone # "pending")
push(tone) == toast' = tone /\ toastTimer' = (tone # "pending")

\* The timer's dismissal; the user's, who may close any toast, is left out.
dismiss ==
  /\ toastTimer /\ toast' = "none" /\ toastTimer' = FALSE
  /\ UNCHANGED <<formVars, dataVars, run, zenVars, crossed>>

(***************************************************************************)
(* deposit, a run of it.                                                   *)
(***************************************************************************)

\* The queries are read again every few seconds.
ReadBalance ==
  /\ balanceData # zen /\ balanceData' = zen
  /\ UNCHANGED <<formVars, allowanceData, run, zenVars, toastVars, crossed>>
ReadAllowance ==
  /\ allowanceData # zenAllowance /\ allowanceData' = zenAllowance
  /\ UNCHANGED <<formVars, balanceData, run, zenVars, toastVars, crossed>>

\* What a run tells the form that started it, if that is still there.
SetPhase(r, phase) == txPhase' = IF run[r].form = form THEN phase ELSE txPhase
GoTo(r, step) == run' = [run EXCEPT ![r].at = step]

StartDeposit(r) ==
  /\ canSubmit /\ run[r] = Unused /\ \A q \in 1..(r - 1) : run[q] # Unused
  /\ run' = [run EXCEPT ![r] =
               [amount |-> input, form |-> form,
                at |-> IF approvalDue THEN "sign-approve" ELSE "sign-deposit"]]
  /\ txPhase' = "awaiting-signature"
  /\ push("pending")
  /\ crossed' = IF \E q \in Runs : Running(q)
                THEN crossed \cup {q \in Runs : Running(q)} \cup {r}
                ELSE IF <<balanceData, allowanceData>> # <<zen, zenAllowance>>
                     THEN crossed \cup {r} ELSE crossed
  /\ UNCHANGED <<walletChain, form, input, dataVars, zenVars>>

\* runStep: the wallet sends the transaction, which it does on the hub chain only.
SendTx(r) ==
  /\ walletChain = "hub"
  /\ \/ /\ run[r].at = "sign-approve"
        /\ GoTo(r, "approving") /\ tx' = [tx EXCEPT ![r] = Tx("approve", run[r].amount)]
     \/ /\ run[r].at = "sign-deposit"
        /\ GoTo(r, "depositing") /\ tx' = [tx EXCEPT ![r] = Tx("deposit", run[r].amount)]
  /\ SetPhase(r, "pending")
  /\ push("pending")
  /\ UNCHANGED <<walletChain, form, input, dataVars, zen, zenAllowance, crossed>>

\* runStep throws: the wallet refuses or is elsewhere, the transaction reverted, or its receipt
\* cannot be read whatever becomes of it.
StepFails(r) ==
  /\ run[r].at \in {"sign-approve", "sign-deposit", "approving", "depositing"}
  /\ run' = [run EXCEPT ![r] = Over] /\ SetPhase(r, "error")
  /\ push("over")
  /\ UNCHANGED <<walletChain, form, input, dataVars, zenVars, crossed>>

\* The receipt says success.
StepSucceeds(r) ==
  /\ run[r].at \in {"approving", "depositing"} /\ tx[r].what = "mined"
  /\ tx' = [tx EXCEPT ![r] = NoTx]
  /\ GoTo(r, IF run[r].at = "approving" THEN "refetching" ELSE "invalidating")
  /\ SetPhase(r, "success")
  /\ push("over")
  /\ UNCHANGED <<walletChain, form, input, dataVars, zen, zenAllowance, crossed>>

\* allowanceQuery.refetch came back, with an error or not; the deposit is asked of the wallet.
\* The button was not locked until now.
Refetched(r) ==
  /\ run[r].at = "refetching"
  /\ GoTo(r, "sign-deposit")
  /\ allowanceData' \in {allowanceData, zenAllowance}
  /\ SetPhase(r, "awaiting-signature")
  /\ push("pending")
  /\ UNCHANGED <<walletChain, form, input, balanceData, zenVars, crossed>>

\* invalidateQueries came back; the form clears its input, whatever it holds by now.
Invalidated(r) ==
  /\ run[r].at = "invalidating"
  /\ run' = [run EXCEPT ![r] = Over]
  /\ balanceData' \in {balanceData, zen} /\ allowanceData' \in {allowanceData, zenAllowance}
  /\ input' = IF run[r].form = form THEN 0 ELSE input
  /\ UNCHANGED <<walletChain, form, txPhase, zenVars, toastVars, crossed>>

(***************************************************************************)
(* The hub chain.                                                          *)
(***************************************************************************)

MineApprove(r) ==
  /\ tx[r].what = "approve"
  /\ tx' = [tx EXCEPT ![r] = Tx("mined", 0)]
  /\ zenAllowance' = tx[r].amount
  /\ UNCHANGED <<formVars, dataVars, run, zen, toastVars, crossed>>

\* The vault may be paused, of which the page only warns.
MineDeposit(r) ==
  LET amount == tx[r].amount
      allowed == zenAllowance >= amount /\ zen >= amount
  IN  /\ tx[r].what = "deposit"
      /\ \/ /\ allowed /\ tx' = [tx EXCEPT ![r] = Tx("mined", 0)]
            /\ zenAllowance' = zenAllowance - amount /\ zen' = zen - amount
         \/ /\ ~allowed /\ tx' = [tx EXCEPT ![r] = Tx("reverted", 0)]
            /\ UNCHANGED <<zen, zenAllowance>>
         \/ tx' = [tx EXCEPT ![r] = Tx("paused", 0)] /\ UNCHANGED <<zen, zenAllowance>>
      /\ UNCHANGED <<formVars, dataVars, run, toastVars, crossed>>

DepositNext ==
  \/ \E c \in WalletChains : SwitchChain(c)
  \/ \E a \in DepositAmounts : EditInput(a)
  \/ ReadBalance \/ ReadAllowance \/ dismiss
  \/ \E r \in Runs :
       \/ StartDeposit(r) \/ SendTx(r) \/ StepFails(r) \/ StepSucceeds(r)
       \/ Refetched(r) \/ Invalidated(r) \/ MineApprove(r) \/ MineDeposit(r)

DepositSpec == DepositInit /\ [][DepositNext]_depositVars

(***************************************************************************)
(* Properties.                                                             *)
(***************************************************************************)

\* Hazard: approval and deposit are two transactions with reads between them, on captured
\* values.  A deposit the wallet sends does not fail for want of allowance or of ZEN, unless its
\* run met another one or started from data that was out of date.
LoneDepositLands == \A r \in Runs : tx[r].what = "reverted" => r \in crossed

\* Hazard: one toast and its timer are shared by the steps of a run, and by runs.  While the
\* wallet is asked for a run's transaction or it is being mined, the toast says so, unless
\* the run met another one.
PendingIsShown ==
  \A r \in Runs \ crossed :
    run[r].at \in {"sign-approve", "approving", "sign-deposit", "depositing"}
      => toast = "pending"
=============================================================================
