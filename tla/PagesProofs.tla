----------------------------- MODULE PagesProofs -----------------------------
(***************************************************************************)
(* What holds of the pages of the web frontend for every value of their    *)
(* constants: the redeem page with the relay behind it, the deposit page,  *)
(* the page that stakes from the other chain, the one that redeems to it,  *)
(* and the overview page with the index that it shows.                     *)
(***************************************************************************)
EXTENDS GaslessRedeem, DepositPage, CrossChainStake, RedeemToBase, RateHistory,
        ArithmeticLemmas

(***************************************************************************)
(* The redeem page.                                                        *)
(***************************************************************************)

\* What is known of a request: nothing of it runs before it is signed, nothing reaches rrelayer
\* before the background task broadcasts it or after it was refused; the nonce signed is not
\* ahead of the chain, so a transaction that reverts has been overtaken for good; and what is
\* called confirmed has a receipt.
RequestOK(f) ==
  /\ flow[f] = "unused" => tasks[f] = "none"
  /\ tasks[f] \in {"none", "broadcasting"} => txs[f] = "none"
  /\ reply[f] = "refused" \/ flow[f] = "refused" => tasks[f] = "over" /\ txs[f] = "none"
  /\ signed[f] <= nonce
  /\ txs[f] = "reverted" => Overtaken(f)
  /\ jobs[f] = "confirmed" \/ flow[f] = "confirmed" => txs[f] \in {"mined", "reverted"}

RedeemInv == RedeemTypeOK /\ \A f \in Flows : RequestOK(f)

LEMMA RedeemInitInv == RedeemInit => RedeemInv
  BY RelayAssumption
  DEF RedeemInit, RelayInit, RedeemInv, RedeemTypeOK, RelayTypeOK, RequestOK, FlowStep,
      JobStatus, TaskStep, TxStatus, Flows, Overtaken

\* A status the listener hears is one the job may have, or the polling deadline's.
LEMMA FlowTypes ==
  ASSUME RedeemTypeOK, NEW g \in Flows, FlowNext(g) \/ ServerStep(g) \/ ChainStep(g)
  PROVE  RedeemTypeOK'
<1> USE DEF RedeemTypeOK, RelayTypeOK, FlowStep, JobStatus, TaskStep, TxStatus, Flows,
            relayVars, serverVars, chainVars, pageVars, SetFlow, TakeReply
<1>1. CASE StartGasless(g)
  BY <1>1 DEF StartGasless, readDepositSignContext
<1>2. CASE Sign(g) \/ RejectSigning(g)
  BY <1>2 DEF Sign, RejectSigning
<1>3. CASE TakeAccepted(g) \/ TakeRejected(g)
  BY <1>3 DEF TakeAccepted, TakeRejected
<1>4. CASE Poll(g) \/ PollTimeout(g)
  BY <1>4 DEF Poll, PollTimeout, Emit, GetJob, Settled
<1>5. CASE ServerStep(g)
  BY <1>5 DEF ServerStep, Accept, CreateJob, Refuse, Broadcast, BroadcastFails, WaitConfirms,
              WaitThrows, PatchJob
<1>6. CASE ChainStep(g)
  BY <1>6 DEF ChainStep, Mine, ExpireTx
<1>7. QED
  BY <1>1, <1>2, <1>3, <1>4, <1>5, <1>6 DEF FlowNext

LEMMA WorldTypes ==
  ASSUME RedeemTypeOK,
         \/ ResetGasless \/ StartStandard \/ WalletAnswers \/ MineStandard \/ StandardSettles
         \/ World \/ UNCHANGED redeemVars
  PROVE  RedeemTypeOK'
<1> USE DEF RedeemTypeOK, RelayTypeOK, FlowStep, JobStatus, TaskStep, TxStatus, Flows,
            redeemVars, relayVars, serverVars, chainVars, pageVars
<1>1. CASE ResetGasless \/ StartStandard \/ WalletAnswers \/ StandardSettles
           \/ UNCHANGED redeemVars
  BY <1>1 DEF ResetGasless, StartStandard, WalletAnswers, StandardSettles
<1>2. CASE MineStandard
  BY <1>2 DEF MineStandard
<1>3. CASE World
  <2>1. CASE Restart /\ UNCHANGED pageVars
    BY <2>1 DEF Restart
  <2>2. ASSUME NEW f \in Flows, LoseReply(f), UNCHANGED pageVars PROVE RedeemTypeOK'
    BY <2>2 DEF LoseReply
  <2>3. QED
    BY <1>3, <2>1, <2>2 DEF World
<1>4. QED
  BY <1>1, <1>2, <1>3

\* What a request's own flow does to it.
LEMMA FlowKeepsRequest ==
  ASSUME RedeemTypeOK, NEW f \in Flows, RequestOK(f), NEW g \in Flows, FlowNext(g)
  PROVE  RequestOK(f)'
<1> USE DEF RequestOK, RedeemTypeOK, RelayTypeOK, Flows, Overtaken,
            relayVars, serverVars, chainVars, SetFlow, TakeReply
<1>1. CASE StartGasless(g)
  BY <1>1 DEF StartGasless, readDepositSignContext
<1>2. CASE Sign(g) \/ RejectSigning(g)
  BY <1>2 DEF Sign, RejectSigning
<1>3. CASE TakeAccepted(g) \/ TakeRejected(g)
  BY <1>3 DEF TakeAccepted, TakeRejected
<1>4. CASE Poll(g) \/ PollTimeout(g)
  BY <1>4 DEF Poll, PollTimeout, Emit, GetJob, Settled, JobStatus
<1>5. QED
  BY <1>1, <1>2, <1>3, <1>4 DEF FlowNext

LEMMA ServerKeepsRequest ==
  ASSUME RedeemTypeOK, NEW f \in Flows, RequestOK(f), NEW g \in Flows, ServerStep(g)
  PROVE  RequestOK(f)'
<1> USE DEF RequestOK, RedeemTypeOK, RelayTypeOK, Flows, Overtaken,
            serverVars, chainVars, pageVars
<1>1. CASE flow[g] = "submitting" /\ Accept(g, signed[g]) /\ UNCHANGED pageVars
  BY <1>1 DEF Accept, CreateJob
<1>2. CASE flow[g] = "submitting" /\ Refuse(g) /\ UNCHANGED pageVars
  BY <1>2 DEF Refuse
<1>3. CASE (Broadcast(g) \/ BroadcastFails(g)) /\ UNCHANGED pageVars
  BY <1>3 DEF Broadcast, BroadcastFails, PatchJob
<1>4. CASE (WaitConfirms(g) \/ WaitThrows(g)) /\ UNCHANGED pageVars
  BY <1>4 DEF WaitConfirms, WaitThrows, HasReceipt, PatchJob
<1>5. QED
  BY <1>1, <1>2, <1>3, <1>4 DEF ServerStep

\* Nonce and balance only move past what was signed, whoever moves them.
LEMMA ChainKeepsRequest ==
  ASSUME RedeemTypeOK, NEW f \in Flows, RequestOK(f),
         (\E g \in Flows : RequestOK(g) /\ ChainStep(g)) \/ MineStandard
  PROVE  RequestOK(f)'
<1> USE DEF RequestOK, RedeemTypeOK, RelayTypeOK, Flows, Overtaken, serverVars, pageVars
<1>1. ASSUME NEW g \in Flows, RequestOK(g), Mine(g, signed[g]), UNCHANGED pageVars
      PROVE  RequestOK(f)'
  BY <1>1 DEF Mine
<1>2. ASSUME NEW g \in Flows, ExpireTx(g), UNCHANGED pageVars PROVE RequestOK(f)'
  BY <1>2 DEF ExpireTx
<1>3. CASE MineStandard
  BY <1>3 DEF MineStandard
<1>4. QED
  BY <1>1, <1>2, <1>3 DEF ChainStep

LEMMA WorldKeepsRequest ==
  ASSUME RedeemTypeOK, NEW f \in Flows, RequestOK(f),
         \/ ResetGasless \/ StartStandard \/ WalletAnswers \/ StandardSettles
         \/ World \/ UNCHANGED redeemVars
  PROVE  RequestOK(f)'
<1> USE DEF RequestOK, RedeemTypeOK, RelayTypeOK, Flows, Overtaken,
            redeemVars, relayVars, serverVars, chainVars, pageVars
<1>1. CASE ResetGasless \/ StartStandard \/ WalletAnswers \/ StandardSettles
           \/ UNCHANGED redeemVars
  BY <1>1 DEF ResetGasless, StartStandard, WalletAnswers, StandardSettles
<1>2. CASE World
  BY <1>2 DEF World, Restart, LoseReply, Requests
<1>3. QED
  BY <1>1, <1>2

LEMMA RedeemNextInv == RedeemInv /\ [RedeemNext]_redeemVars => RedeemInv'
<1> SUFFICES ASSUME RedeemInv, [RedeemNext]_redeemVars PROVE RedeemInv'
  OBVIOUS
<1>1. RedeemTypeOK /\ \A f \in Flows : RequestOK(f)
  BY DEF RedeemInv
<1>2. RedeemTypeOK'
  BY <1>1, FlowTypes, WorldTypes DEF RedeemNext
<1>3. ASSUME NEW f \in Flows PROVE RequestOK(f)'
  BY <1>1, <1>3, FlowKeepsRequest, ServerKeepsRequest, ChainKeepsRequest, WorldKeepsRequest
  DEF RedeemNext
<1>4. Flows' = Flows
  BY DEF Flows, Requests
<1>5. QED
  BY <1>2, <1>3, <1>4 DEF RedeemInv

\* Once queueRelay has refused a message its transaction never reaches rrelayer, whatever the
\* user, the network, restarts and the background tasks of other requests do: signing another
\* message cannot redeem twice.
THEOREM RefusedStaysOut == RedeemSpec => []RefusedNeverLands
<1>1. RedeemInv => RefusedNeverLands
  BY DEF RedeemInv, RequestOK, RefusedNeverLands
<1>2. QED
  BY <1>1, RedeemInitInv, RedeemNextInv, PTL DEF RedeemSpec

\* A redemption the page or the service calls confirmed was executed, or its message had been
\* overtaken by another use of the nonce, its deadline or an empty balance: the look at the chain
\* after a failed wait (HasReceipt) mistakes nothing else for success.
THEOREM ConfirmedOrOvertaken == RedeemSpec => []ConfirmedUnlessOvertaken
<1>1. RedeemInv => ConfirmedUnlessOvertaken
  BY DEF RedeemInv, RequestOK, ConfirmedUnlessOvertaken
<1>2. QED
  BY <1>1, RedeemInitInv, RedeemNextInv, PTL DEF RedeemSpec

(***************************************************************************)
(* The deposit page.                                                       *)
(***************************************************************************)

Asking == {"sign-approve", "approving", "sign-deposit", "depositing"}

DepositPageTypeOK ==
  /\ form \in Nat /\ input \in Nat
  /\ txPhase \in {"idle", "awaiting-signature", "pending", "success", "error"}
  /\ balanceData \in Nat /\ allowanceData \in Nat
  /\ run \in [Runs -> [amount : Nat, form : Nat,
                       at : Asking \cup {"unused", "refetching", "invalidating", "over"}]]
  /\ tx \in [Runs -> [what : {"none", "approve", "deposit", "mined", "reverted", "paused"},
                      amount : Nat]]
  /\ zen \in Nat /\ zenAllowance \in Nat
  /\ toast \in {"none", "pending", "over"} /\ toastTimer \in BOOLEAN
  /\ crossed \in SUBSET Runs

\* What a run that met no other can rely on: nobody else moves the user's ZEN and allowance, so
\* what it was started with covers its amount, and no other run's toast replaces its own.
LoneRunOK(r) ==
  /\ Running(r) => \A q \in Runs : Running(q) => q = r
  /\ run[r].at \in {"sign-approve", "approving", "refetching", "sign-deposit"}
       => run[r].amount <= zen
  /\ run[r].at \in {"refetching", "sign-deposit"} => run[r].amount <= zenAllowance
  /\ tx[r].what = "approve" => run[r].at \in {"approving", "over"}
  /\ tx[r].what = "deposit" => run[r].at \in {"depositing", "over"}
  /\ run[r].at = "approving" /\ tx[r].what = "approve" => tx[r].amount = run[r].amount
  /\ run[r].at = "approving" /\ tx[r].what = "mined" => run[r].amount <= zenAllowance
  /\ tx[r].what = "deposit" => tx[r].amount <= zen /\ tx[r].amount <= zenAllowance
  /\ tx[r].what # "reverted"
  /\ run[r].at \in Asking => toast = "pending"

DepositInv ==
  /\ DepositPageTypeOK
  /\ toast = "pending" => ~toastTimer
  /\ \A r \in Runs : run[r] = Unused => tx[r] = NoTx
  /\ \A r \in Runs \ crossed : LoneRunOK(r)

LEMMA DepositInitInv == DepositInit => DepositInv
<1> SUFFICES ASSUME DepositInit PROVE DepositInv
  OBVIOUS
<1> USE DEF DepositInit, Unused, NoTx, Tx, Over
<1>1. DepositPageTypeOK
  BY DepositAssumption DEF DepositPageTypeOK
<1>2. ASSUME NEW r \in Runs PROVE LoneRunOK(r)
  BY DepositAssumption DEF LoneRunOK, Running, Asking
<1>3. QED
  BY <1>1, <1>2 DEF DepositInv

\* The form, the queries and the toast's timer leave the runs alone.
LEMMA FormKeepsRuns ==
  ASSUME DepositInv,
         \/ \E c \in WalletChains : SwitchChain(c)
         \/ \E a \in DepositAmounts : EditInput(a)
         \/ ReadBalance \/ ReadAllowance \/ dismiss
         \/ UNCHANGED depositVars
  PROVE  DepositInv'
<1> USE DEF depositVars, formVars, dataVars, zenVars, toastVars
<1>1. /\ UNCHANGED <<run, zenVars, crossed>>
      /\ UNCHANGED toastVars \/ (toast' = "none" /\ toastTimer /\ toastTimer' = FALSE)
  BY DEF SwitchChain, EditInput, ReadBalance, ReadAllowance, dismiss
<1>2. DepositPageTypeOK'
  <2>1. /\ form' \in Nat /\ input' \in Nat /\ balanceData' \in Nat /\ allowanceData' \in Nat
        /\ txPhase' \in {"idle", "awaiting-signature", "pending", "success", "error"}
    <3>1. ASSUME NEW c \in WalletChains, SwitchChain(c)
          PROVE  /\ form' \in Nat /\ input' \in Nat /\ UNCHANGED dataVars
                 /\ txPhase' \in {"idle", "awaiting-signature", "pending", "success", "error"}
      BY <3>1 DEF SwitchChain, DepositInv, DepositPageTypeOK
    <3>2. ASSUME NEW a \in DepositAmounts, EditInput(a)
          PROVE  input' \in Nat /\ UNCHANGED <<form, txPhase, dataVars>>
      BY <3>2, DepositAssumption DEF EditInput
    <3>3. QED
      BY <3>1, <3>2 DEF ReadBalance, ReadAllowance, dismiss, DepositInv, DepositPageTypeOK
  <2>2. QED
    BY <1>1, <2>1 DEF DepositInv, DepositPageTypeOK, Runs
<1>3. ASSUME NEW r \in Runs \ crossed PROVE LoneRunOK(r)'
  <2>1. LoneRunOK(r) /\ (toast = "pending" => ~toastTimer)
    BY <1>3 DEF DepositInv
  <2>2. QED
    BY <1>1, <2>1 DEF LoneRunOK, Running, Runs, Unused, Over
<1>4. QED
  BY <1>1, <1>2, <1>3 DEF DepositInv, Runs, Unused, NoTx, Tx

\* A run is started, seen by a run that met no other.
LEMMA StartKeepsRun ==
  ASSUME DepositInv, NEW q \in Runs, StartDeposit(q), NEW r \in Runs, r \notin crossed'
  PROVE  LoneRunOK(r)'
<1>1. /\ r \notin crossed /\ LoneRunOK(r)
  BY DEF StartDeposit, DepositInv
<1>2. /\ run[q] = Unused /\ tx[q] = NoTx /\ UNCHANGED <<tx, zen, zenAllowance>>
      /\ \A p \in Runs \ {q} : run'[p] = run[p]
      /\ run'[q].amount = input /\ input <= balanceData /\ toast' = "pending"
      /\ run'[q].at \in {"sign-approve", "sign-deposit"}
      /\ run'[q].at = "sign-deposit" => input <= allowanceData
  BY DEF StartDeposit, canSubmit, insufficientBalance, approvalDue, push, zenVars, DepositInv,
         DepositPageTypeOK
<1>3. CASE r # q
  <2>1. ~Running(r)
    BY <1>3 DEF StartDeposit
  <2>2. run[r] \in {Unused, Over} /\ tx[r].what \notin {"approve", "deposit"}
    BY <2>1 DEF Running
  <2>3. run'[r] = run[r]
    BY <1>2, <1>3
  <2>4. QED
    BY <1>1, <1>2, <2>2, <2>3 DEF LoneRunOK, Running, Unused, Over, Asking
<1>4. CASE r = q
  <2>1. \A p \in Runs : ~Running(p)
    BY <1>4 DEF StartDeposit
  <2>2. balanceData = zen /\ allowanceData = zenAllowance
    BY <1>4, <2>1 DEF StartDeposit
  <2>3. ASSUME NEW p \in Runs, p # q PROVE ~Running(p)'
    BY <1>2, <2>1, <2>3 DEF Running, Unused, Over
  <2>4. QED
    BY <1>2, <1>4, <2>2, <2>3 DEF LoneRunOK, Asking, NoTx, Tx
<1>5. QED
  BY <1>3, <1>4

RunStep(q) ==
  \/ SendTx(q) \/ StepFails(q) \/ StepSucceeds(q) \/ Refetched(q) \/ Invalidated(q)
  \/ MineApprove(q) \/ MineDeposit(q)

LEMMA StartTypes ==
  ASSUME DepositInv, NEW q \in Runs, StartDeposit(q)
  PROVE  DepositPageTypeOK' /\ \A r \in Runs : run'[r] = Unused => tx'[r] = NoTx
<1>1. /\ run' \in [Runs -> [amount : Nat, form : Nat,
                       at : Asking \cup {"unused", "refetching", "invalidating", "over"}]]
      /\ run'[q].at # "unused" /\ \A r \in Runs \ {q} : run'[r] = run[r]
  BY DEF StartDeposit, DepositInv, DepositPageTypeOK, Asking
<1>2. crossed' \in SUBSET Runs
  BY DEF StartDeposit, DepositInv, DepositPageTypeOK
<1>3. DepositPageTypeOK'
  BY <1>1, <1>2 DEF StartDeposit, DepositInv, DepositPageTypeOK, Runs, Asking, zenVars, dataVars,
                    push
<1>4. QED
  BY <1>1, <1>3 DEF StartDeposit, DepositInv, Unused, zenVars

\* A run under way goes on: it is running, the others are as they were, and it is not unused.
LEMMA RunMoves ==
  ASSUME DepositInv, NEW q \in Runs, RunStep(q)
  PROVE  /\ Running(q) /\ run[q] # Unused /\ run'[q] # Unused /\ UNCHANGED crossed
         /\ \A p \in Runs \ {q} : run'[p] = run[p] /\ tx'[p] = tx[p]
<1> USE DEF Running, Unused, Over, NoTx, Tx, GoTo, DepositInv, DepositPageTypeOK
<1>1. CASE SendTx(q)
  BY <1>1 DEF SendTx
<1>2. CASE StepFails(q)
  BY <1>2 DEF StepFails, zenVars
<1>3. CASE StepSucceeds(q)
  BY <1>3 DEF StepSucceeds
<1>4. CASE Refetched(q)
  BY <1>4 DEF Refetched, zenVars
<1>5. CASE Invalidated(q)
  BY <1>5 DEF Invalidated, zenVars
<1>6. CASE MineApprove(q)
  BY <1>6 DEF MineApprove
<1>7. CASE MineDeposit(q)
  BY <1>7 DEF MineDeposit
<1>8. QED
  BY <1>1, <1>2, <1>3, <1>4, <1>5, <1>6, <1>7 DEF RunStep

LEMMA RunTypes ==
  ASSUME DepositInv, NEW q \in Runs, RunStep(q)
  PROVE  DepositPageTypeOK' /\ (toast' = "pending" => ~toastTimer')
<1> USE DEF DepositInv, DepositPageTypeOK, Runs, Asking, GoTo, SetPhase, push, formVars, dataVars,
            zenVars, toastVars, Tx, NoTx, Unused, Over
<1>1. CASE SendTx(q)
  <2>1. run' \in [Runs -> [amount : Nat, form : Nat,
                       at : Asking \cup {"unused", "refetching", "invalidating", "over"}]]
    <3>1. PICK step \in {"approving", "depositing"} : run' = [run EXCEPT ![q].at = step]
      BY <1>1 DEF SendTx
    <3>2. QED
      BY <3>1
  <2>2. tx' \in [Runs -> [what : {"none", "approve", "deposit", "mined", "reverted", "paused"},
                           amount : Nat]]
    <3>1. PICK what \in {"approve", "deposit"} : tx' = [tx EXCEPT ![q] = Tx(what, run[q].amount)]
      BY <1>1 DEF SendTx
    <3>2. Tx(what, run[q].amount) \in
            [what : {"none", "approve", "deposit", "mined", "reverted", "paused"}, amount : Nat]
      BY <3>1
    <3>3. QED
      BY <3>1, <3>2
  <2>3. QED
    BY <1>1, <2>1, <2>2 DEF SendTx
<1>2. CASE StepFails(q)
  BY <1>2 DEF StepFails
<1>3. CASE StepSucceeds(q)
  BY <1>3 DEF StepSucceeds
<1>4. CASE Refetched(q)
  BY <1>4 DEF Refetched
<1>5. CASE Invalidated(q)
  BY <1>5 DEF Invalidated
<1>6. CASE MineApprove(q)
  BY <1>6 DEF MineApprove
<1>7. CASE MineDeposit(q)
  <2>1. zen' \in Nat /\ zenAllowance' \in Nat
    BY <1>7 DEF MineDeposit
  <2>2. tx' \in [Runs -> [what : {"none", "approve", "deposit", "mined", "reverted", "paused"},
                           amount : Nat]]
    BY <1>7 DEF MineDeposit
  <2>3. QED
    BY <1>7, <2>1, <2>2 DEF MineDeposit
<1>8. QED
  BY <1>1, <1>2, <1>3, <1>4, <1>5, <1>6, <1>7 DEF RunStep

LEMMA RunKeepsOther ==
  ASSUME DepositInv, NEW q \in Runs, RunStep(q), NEW r \in Runs \ crossed, r # q
  PROVE  LoneRunOK(r)'
<1>1. LoneRunOK(r) /\ run'[r] = run[r] /\ tx'[r] = tx[r]
  BY RunMoves DEF DepositInv
<1>2. ~Running(r)
  BY <1>1, RunMoves DEF LoneRunOK
<1>3. run[r] \in {Unused, Over} /\ tx[r].what \notin {"approve", "deposit"}
  BY <1>2 DEF Running
<1>4. QED
  BY <1>1, <1>3 DEF LoneRunOK, Running, Unused, Over, Asking

LEMMA RunKeepsItself ==
  ASSUME DepositInv, NEW r \in Runs \ crossed, RunStep(r)
  PROVE  LoneRunOK(r)'
<1>1. LoneRunOK(r) /\ run[r].amount \in Nat /\ tx[r].amount \in Nat /\ zen \in Nat
      /\ zenAllowance \in Nat
  BY DEF DepositInv, DepositPageTypeOK
<1>2. ASSUME NEW p \in Runs, p # r PROVE ~Running(p)'
  <2>1. ~Running(p) /\ run'[p] = run[p] /\ tx'[p] = tx[p]
    BY <1>1, <1>2, RunMoves DEF LoneRunOK
  <2>2. QED
    BY <2>1 DEF Running, Unused, Over
<1>3. \A p \in Runs : Running(p)' => p = r
  BY <1>2
<1> USE <1>1 DEF DepositInv, DepositPageTypeOK, Tx, NoTx, Over, Unused, Asking, GoTo, push, zenVars,
                 toastVars
<1>4. CASE SendTx(r)
  BY <1>3, <1>4 DEF SendTx, LoneRunOK
<1>5. CASE StepFails(r)
  BY <1>3, <1>5 DEF StepFails, LoneRunOK
<1>6. CASE StepSucceeds(r)
  BY <1>3, <1>6 DEF StepSucceeds, LoneRunOK
<1>7. CASE Refetched(r)
  BY <1>3, <1>7 DEF Refetched, LoneRunOK
<1>8. CASE Invalidated(r)
  BY <1>3, <1>8 DEF Invalidated, LoneRunOK
<1>9. CASE MineApprove(r)
  BY <1>3, <1>9 DEF MineApprove, LoneRunOK
<1>10. CASE MineDeposit(r)
  BY <1>3, <1>10 DEF MineDeposit, LoneRunOK
<1>11. QED
  BY <1>4, <1>5, <1>6, <1>7, <1>8, <1>9, <1>10 DEF RunStep

LEMMA DepositNextInv == DepositInv /\ [DepositNext]_depositVars => DepositInv'
<1> SUFFICES ASSUME DepositInv, [DepositNext]_depositVars PROVE DepositInv'
  OBVIOUS
<1>1. ASSUME NEW q \in Runs, StartDeposit(q) PROVE DepositInv'
  <2>1. \A r \in Runs : r \notin crossed' => LoneRunOK(r)'
    BY <1>1, StartKeepsRun
  <2>2. DepositPageTypeOK' /\ (\A r \in Runs : run'[r] = Unused => tx'[r] = NoTx)
    BY <1>1, StartTypes
  <2>3. toast' = "pending" => ~toastTimer'
    BY <1>1 DEF StartDeposit, push
  <2>4. QED
    BY <2>1, <2>2, <2>3 DEF DepositInv, Runs, Unused, NoTx, Tx
<1>2. ASSUME NEW q \in Runs, RunStep(q) PROVE DepositInv'
  <2>1. \A r \in Runs \ crossed : LoneRunOK(r)'
    BY <1>2, RunKeepsOther, RunKeepsItself
  <2>2. \A r \in Runs : run'[r] = Unused => tx'[r] = NoTx
    BY <1>2, RunMoves DEF DepositInv
  <2>3. QED
    BY <1>2, <2>1, <2>2, RunTypes, RunMoves DEF DepositInv, Runs, Unused, NoTx, Tx
<1>3. CASE \/ \E c \in WalletChains : SwitchChain(c)
           \/ \E a \in DepositAmounts : EditInput(a)
           \/ ReadBalance \/ ReadAllowance \/ dismiss
           \/ UNCHANGED depositVars
  BY <1>3, FormKeepsRuns
<1>4. QED
  BY <1>1, <1>2, <1>3 DEF DepositNext, RunStep

\* A deposit the wallet sends never reverts for want of allowance or ZEN, if its run met no other
\* one and was started from current data: approving first, and what runStep captured, suffices
\* whatever the user edits, however late the queries are read again and whatever else fails.
THEOREM LoneDepositNeverReverts == DepositSpec => []LoneDepositLands
<1>1. DepositInv => LoneDepositLands
  BY DEF DepositInv, LoneRunOK, LoneDepositLands
<1>2. QED
  BY <1>1, DepositInitInv, DepositNextInv, PTL DEF DepositSpec

\* While such a run waits for the wallet or the chain its toast says so: the timer of an earlier
\* toast of the same key (push clears it) never takes it away.
THEOREM PendingToastStays == DepositSpec => []PendingIsShown
<1>1. DepositInv => PendingIsShown
  BY DEF DepositInv, LoneRunOK, PendingIsShown, Asking
<1>2. QED
  BY <1>1, DepositInitInv, DepositNextInv, PTL DEF DepositSpec

(***************************************************************************)
(* The page that redeems to the other chain.                               *)
(***************************************************************************)

\* What crosses the bridge is part of the amount.
LEMMA TruncatedIs ==
  ASSUME NEW n \in Nat
  PROVE  truncateOftAmountLD(n) \in Nat /\ truncateOftAmountLD(n) <= n
<1>1. n % DecimalRate \in 0..(DecimalRate - 1) /\ n % DecimalRate <= n
  BY DecimalRateAssumption
<1>2. QED
  BY <1>1, DecimalRateAssumption DEF truncateOftAmountLD

OpRecord ==
  [kind : {"none", "redeem", "bridge", "withdraw"}, assets : Nat,
   tx : {"none", "asked", "signed", "sent", "landed", "confirmed", "reverted", "refused"}]

BasePageTypeOK ==
  /\ sharesWei \in Nat /\ baseCredited \in Nat /\ egressCredit \in Nat
  /\ op \in [Ops -> OpRecord]

\* As long as the page knows of every call that went through: a call under way is the one it
\* waits for, and the credit it has read, once it has read it, is the station's, or is about to be
\* read again.
CreditKnown ==
  /\ \A n \in Ops : op[n].tx = "sent" => Awaited(n)
  /\ \/ creditRead => baseCredited = egressCredit
     \/ \E n \in Ops : Awaited(n) /\ op[n].tx = "landed"

BaseInv == BasePageTypeOK /\ (~misled => CreditKnown)

LEMMA BaseInitInv == BaseInit => BaseInv
  BY BasePageAssumption
  DEF BaseInit, BaseInv, BasePageTypeOK, CreditKnown, NoOp, OpRecord, Ops

LEMMA OneAwaited ==
  ASSUME NEW n \in Ops, NEW m \in Ops, Awaited(n), Awaited(m)
  PROVE  n = m
  BY DEF Awaited, Ops

LEMMA TxIs ==
  ASSUME BasePageTypeOK, NEW n \in Ops, NEW t, t # "none", op[n].tx # "none",
         op' = [op EXCEPT ![n].tx = t]
  PROVE  /\ op'[n].tx = t /\ op[n] # NoOp /\ op'[n] # NoOp
         /\ \A k \in Ops : k # n => op'[k] = op[k]
<1>1. op'[n].tx = t /\ \A k \in Ops : k # n => op'[k] = op[k]
  BY DEF BasePageTypeOK, OpRecord
<1>2. op[n] # NoOp /\ op'[n] # NoOp
  BY <1>1 DEF NoOp
<1>3. QED
  BY <1>1, <1>2

\* What a page function does, and reading the queries.
LEMMA PageTypes ==
  ASSUME BasePageTypeOK, [BaseNext]_baseVars
  PROVE  BasePageTypeOK'
<1> USE DEF BasePageTypeOK, OpRecord, hubVars, creditedQuery
<1>1. CASE \/ ReadCredited \/ ReadBaseBalance \/ confirmDest \/ OutsideTransfer
           \/ \E a \in ShareAmounts \cup {0} : EditShares(a)
           \/ UNCHANGED baseVars
  BY <1>1, BasePageAssumption
  DEF ReadCredited, ReadBaseBalance, confirmDest, OutsideTransfer, EditShares, baseVars, Ops
<1>2. CASE ReloadPage
  BY <1>2 DEF ReloadPage, Ops
<1>3. ASSUME NEW n \in Ops, NEW kind \in {"redeem", "bridge", "withdraw"},
             NEW assets \in Nat, StartOp(n, kind, assets)
      PROVE  BasePageTypeOK'
  BY <1>3 DEF StartOp, Ops
<1>4. ASSUME NEW n \in Ops, SignOp(n) \/ SubmitOp(n) \/ OpConfirmed(n) \/ OpFails(n)
      PROVE  BasePageTypeOK'
  BY <1>4 DEF SignOp, SubmitOp, OpConfirmed, OpFails, RefreshCredited, Ops
<1>5. ASSUME NEW n \in Ops, LandOp(n) PROVE BasePageTypeOK'
  <2>1. op' \in [Ops -> OpRecord] /\ UNCHANGED <<sharesWei, baseCredited>>
    BY <1>5 DEF LandOp, SetTx, Ops
  <2>2. egressCredit' \in Nat
    <3>1. op[n].assets \in Nat
      OBVIOUS
    <3>2. ASSUME NEW fee \in RelayFees, fee < op[n].assets,
                 egressCredit' = egressCredit + op[n].assets - fee
          PROVE  egressCredit' \in Nat
      BY <3>1, <3>2, BasePageAssumption
    <3>3. ASSUME NEW fee \in RelayFees, NEW net, net = op[n].assets - fee,
                 NEW sent, sent = truncateOftAmountLD(net), sent > 0,
                 egressCredit >= op[n].assets,
                 egressCredit' = egressCredit - op[n].assets + (net - sent)
          PROVE  egressCredit' \in Nat
      <4>1. net \in Int /\ fee \in Nat
        BY <3>1, <3>3, BasePageAssumption
      <4>2. net % DecimalRate \in Nat /\ sent = net - (net % DecimalRate)
        BY <3>3, <4>1, DecimalRateAssumption DEF truncateOftAmountLD
      <4>3. net - sent \in Nat
        BY <4>1, <4>2
      <4>4. QED
        BY <3>1, <3>3, <4>3
    <3>4. QED
      BY <1>5, <3>1, <3>2, <3>3 DEF LandOp
  <2>3. QED
    BY <2>1, <2>2
<1>6. ASSUME NEW n \in Ops, ArriveOnBase(n) PROVE BasePageTypeOK'
  BY <1>6 DEF ArriveOnBase, Ops
<1>7. QED
  BY <1>1, <1>2, <1>3, <1>4, <1>5, <1>6
  DEF BaseNext, relayRedeemAndCredit, relayBridge, withdrawCredit

LEMMA NextCreditKnown ==
  ASSUME BasePageTypeOK, ~misled => CreditKnown, [BaseNext]_baseVars, ~misled'
  PROVE  CreditKnown'
<1> USE DEF BasePageTypeOK, OpRecord, hubVars, creditedQuery, NoOp, Ops
<1>1. ~misled /\ CreditKnown
  <2>1. ASSUME NEW n \in Ops, OpConfirmed(n) PROVE ~misled
    BY <2>1 DEF OpConfirmed, RefreshCredited
  <2>2. ASSUME NEW n \in Ops, LandOp(n) \/ ArriveOnBase(n) PROVE ~misled
    BY <2>2 DEF LandOp, ArriveOnBase
  <2>3. ASSUME NEW n \in Ops, SignOp(n) \/ SubmitOp(n) \/ OpFails(n) PROVE ~misled
    BY <2>3 DEF SignOp, SubmitOp, OpFails
  <2>4. ASSUME NEW n \in Ops, relayRedeemAndCredit(n) \/ relayBridge(n) \/ withdrawCredit(n)
        PROVE  ~misled
    BY <2>4 DEF relayRedeemAndCredit, relayBridge, withdrawCredit, StartOp
  <2>5. ASSUME \/ ReadCredited \/ ReadBaseBalance \/ confirmDest \/ ReloadPage \/ OutsideTransfer
               \/ \E a \in ShareAmounts \cup {0} : EditShares(a)
               \/ UNCHANGED baseVars
        PROVE  ~misled
    BY <2>5 DEF ReadCredited, ReadBaseBalance, confirmDest, ReloadPage, OutsideTransfer, EditShares,
                baseVars
  <2>6. QED
    BY <2>1, <2>2, <2>3, <2>4, <2>5 DEF BaseNext
<1>2. CASE /\ UNCHANGED <<op, basePhase, egressCredit>>
           /\ UNCHANGED creditedQuery \/ baseCredited' = egressCredit
  BY <1>1, <1>2 DEF CreditKnown, Awaited
<1>3. CASE ReloadPage
  BY <1>1, <1>3 DEF ReloadPage, CreditKnown
<1>4. ASSUME NEW n \in Ops, NEW kind, NEW assets, StartOp(n, kind, assets) PROVE CreditKnown'
  <2>1. /\ ~BaseBusy /\ UNCHANGED <<creditedQuery, egressCredit>>
        /\ \A k \in Ops : k # n => op'[k] = op[k]
        /\ op'[n].tx = "asked"
    BY <1>4 DEF StartOp
  <2>2. \A k \in Ops : ~Awaited(k)
    BY <2>1 DEF BaseBusy, Awaited
  <2>3. (\A k \in Ops : op[k].tx # "sent") /\ (creditRead => baseCredited = egressCredit)
    BY <1>1, <2>2 DEF CreditKnown
  <2>4. \A k \in Ops : op'[k].tx # "sent"
    BY <2>1, <2>3
  <2>5. QED
    BY <2>1, <2>3, <2>4 DEF CreditKnown
<1>5. ASSUME NEW n \in Ops, SignOp(n) \/ SubmitOp(n) PROVE CreditKnown'
  <2>1. /\ Awaited(n) /\ op[n].tx \in {"asked", "signed"} /\ op'[n].tx \in {"signed", "sent"}
        /\ op[n] # NoOp /\ op'[n] # NoOp /\ UNCHANGED <<creditedQuery, egressCredit>>
        /\ \A k \in Ops : k # n => op'[k] = op[k]
        /\ basePhase' \in {"signing", "relaying", "withdrawing"}
    <3>1. CASE SignOp(n)
      BY <3>1, TxIs DEF SignOp, Awaited
    <3>2. CASE SubmitOp(n)
      BY <3>2, TxIs DEF SubmitOp, Awaited
    <3>3. QED
      BY <1>5, <3>1, <3>2
  <2>2. Awaited(n)'
    BY <2>1 DEF Awaited
  <2>3. creditRead => baseCredited = egressCredit
    BY <1>1, <2>1, OneAwaited DEF CreditKnown
  <2>4. \A k \in Ops : op'[k].tx = "sent" => k = n
    BY <1>1, <2>1, OneAwaited DEF CreditKnown
  <2>5. QED
    BY <2>1, <2>2, <2>3, <2>4 DEF CreditKnown
<1>6. ASSUME NEW n \in Ops, OpConfirmed(n) \/ OpFails(n) PROVE CreditKnown'
  <2>1. /\ Awaited(n) /\ UNCHANGED egressCredit
        /\ \A k \in Ops : k # n => op'[k] = op[k]
        /\ op'[n].tx # "sent"
        /\ baseCredited' = egressCredit \/ (UNCHANGED creditedQuery /\ op[n].tx # "landed")
    BY <1>1, <1>6 DEF OpConfirmed, OpFails, RefreshCredited
  <2>2. \A k \in Ops : op'[k].tx # "sent"
    BY <1>1, <2>1, OneAwaited DEF CreditKnown
  <2>3. creditRead' => baseCredited' = egressCredit'
    BY <1>1, <2>1, OneAwaited DEF CreditKnown
  <2>4. QED
    BY <2>2, <2>3 DEF CreditKnown
<1>7. ASSUME NEW n \in Ops, LandOp(n) PROVE CreditKnown'
  <2>1. /\ op[n].tx = "sent" /\ UNCHANGED <<basePhase, creditedQuery>>
        /\ op[n] # NoOp /\ op'[n] # NoOp
        /\ \A k \in Ops : k # n => op'[k] = op[k]
        /\ \/ op'[n].tx = "landed"
           \/ op'[n].tx = "reverted" /\ UNCHANGED egressCredit
    <3>1. op[n].tx = "sent" /\ UNCHANGED <<basePhase, creditedQuery>>
      BY <1>7 DEF LandOp
    <3>2. PICK t \in {"landed", "reverted"} :
            op' = [op EXCEPT ![n].tx = t] /\ (t = "reverted" => UNCHANGED egressCredit)
      BY <1>7 DEF LandOp, SetTx
    <3>3. QED
      BY <3>1, <3>2, TxIs
  <2>2. Awaited(n) /\ Awaited(n)'
    BY <1>1, <2>1 DEF CreditKnown, Awaited
  <2>3. \A k \in Ops : op'[k].tx # "sent"
    BY <1>1, <2>1, <2>2, OneAwaited DEF CreditKnown
  <2>4. op[n].tx # "landed" /\ (creditRead => baseCredited = egressCredit)
    BY <1>1, <2>1, <2>2, OneAwaited DEF CreditKnown
  <2>5. QED
    BY <2>1, <2>2, <2>3, <2>4 DEF CreditKnown
<1>8. QED
  BY <1>2, <1>3, <1>4, <1>5, <1>6, <1>7
  DEF BaseNext, baseVars, ReadCredited, ReadBaseBalance, confirmDest, OutsideTransfer, EditShares,
      relayRedeemAndCredit, relayBridge, withdrawCredit, ArriveOnBase

\* Once it has read the credit, the page does not offer to redeem the same shares again while the
\* credit of a redemption waits at the station, unless a call went through, or a read failed, that
\* it could not know of.
THEOREM RedeemNotOfferedTwice == BasePageSpec => []RedeemOfferedOnce
<1>1. BaseInv => RedeemOfferedOnce
  <2>1. SUFFICES ASSUME BaseInv, BaseStep = "redeem", ~BaseBusy, creditRead, ~misled
                 PROVE  truncateOftAmountLD(egressCredit) = 0
    BY DEF RedeemOfferedOnce
  <2>2. ~(truncateOftAmountLD(baseCredited) > 0)
    BY <2>1 DEF BaseStep
  <2>3. baseCredited = egressCredit
    BY <2>1 DEF BaseInv, CreditKnown, Awaited, BaseBusy
  <2>4. QED
    BY <2>1, <2>2, <2>3, TruncatedIs DEF BaseInv, BasePageTypeOK
<1>2. BaseInv /\ [BaseNext]_baseVars => BaseInv'
  BY PageTypes, NextCreditKnown DEF BaseInv
<1>3. QED
  BY <1>1, <1>2, BaseInitInv, PTL DEF BasePageSpec

(***************************************************************************)
(* The page that stakes from the other chain.                              *)
(***************************************************************************)

Signature == [amount : Nat, nonce : Nat]

RunRecord ==
  [step : {"none", "switching", "approving", "bridging", "receipt", "over"}, amount : Nat,
   sig : Signature, approves : BOOLEAN]

SendRecord ==
  [amount : Nat, payload : [assets : Nat, sig : Signature],
   at : {"none", "sent", "bridged", "reverted", "credited", "rejected"}]

CallRecord ==
  [kind : {"none", "stake", "withdraw"}, assets : Nat, open : BOOLEAN,
   tx : {"none", "asked", "signed", "sent", "landed", "reverted", "refused"}]

StakePageTypeOK ==
  /\ amountWei \in Nat /\ signing \in Nat /\ creditSig \in Signature
  /\ bridgeTxHash \in BOOLEAN /\ credited \in Nat /\ signatures \in Nat
  /\ click \in [Sends -> RunRecord] /\ sends \in [Sends -> SendRecord]
  /\ credit \in Nat /\ call \in [Calls -> CallRecord]

Live(i) == sends[i].at \notin {"none", "reverted"}
Carries(i) == Live(i) /\ sends[i].payload.sig.nonce = creditSig.nonce
Landed == \E n \in Calls : call[n].open /\ call[n].tx = "landed"

\* The signature held is over the amount shown; while one is asked for there is none.
SignatureOK ==
  /\ creditSig # NoSig => creditSig.amount = amountWei /\ creditSig.nonce \in 1..signatures
  /\ signing # 0 => signing = amountWei /\ creditSig = NoSig /\ stakePhase = "signing"

\* A run in progress is the only one, has what the page has, and is where the phase says; until it
\* has sent its transfer nobody carries the signature.
RunOK(i) ==
  Open(i) =>
    /\ creditSig # NoSig /\ click[i].sig = creditSig /\ click[i].amount = amountWei
    /\ click[i].step = "switching" =>
         ~StakeBusy /\ stakePhase # "confirmed" /\ ~(bridgeTxHash /\ stakePhase # "failed")
    /\ click[i].step = "approving" => stakePhase = "approving"
    /\ click[i].step \in {"bridging", "receipt"} => stakePhase = "bridging"
    /\ click[i].step # "receipt" => \A j \in Sends : ~Carries(j)

RunsOK ==
  /\ \A i, j \in Sends : Open(i) /\ Open(j) => i = j
  /\ \A i \in Sends : RunOK(i)
  /\ \A i \in Sends : sends[i].at # "none" => click[i].step \in {"receipt", "over"}

SendOK(i) ==
  sends[i].at # "none" => /\ sends[i].payload.assets = sends[i].amount
                          /\ sends[i].payload.sig.amount = sends[i].amount
                          /\ sends[i].payload.sig.nonce \in 1..signatures

\* No two transfers that are not reverted carry one signature, and the station has only used up
\* those of transfers it has credited.
SendsOK ==
  /\ \A i \in Sends : SendOK(i) /\ sends[i].at # "rejected"
  /\ \A i, j \in Sends :
       Live(i) /\ Live(j) /\ sends[i].payload.sig.nonce = sends[j].payload.sig.nonce => i = j
  /\ \A n \in used : \E i \in Sends :
       sends[i].at = "credited" /\ sends[i].payload.sig.nonce = n

\* Where the page can be once a transfer carries the signature it still holds: nowhere it could
\* use it again, because it waits for the receipt or the credit, or sees it.
Spent(i) ==
  \/ click[i].step = "receipt"
  \/ stakePhase = "waiting" /\ bridgeTxHash
  \/ stakePhase \in {"staking", "withdrawing"} /\ (Landed \/ (credit > 0 /\ credited > 0))
  \/ stakePhase = "failed" /\ credit > 0 /\ credited > 0
  \/ stakePhase = "confirmed"

\* A transfer still under way carries the signature the page holds, which is not used up.
CarriedOK ==
  /\ \A i \in Sends : Carries(i) => Spent(i)
  /\ \A i \in Sends : Live(i) /\ sends[i].at # "credited" =>
                        Carries(i) /\ stakePhase # "confirmed" /\ ~Landed

\* One call at a time.
CallsOK ==
  /\ \A n \in Calls : call[n].tx = "sent" => call[n].open
  /\ \A n \in Calls : call[n].open =>
                        stakePhase \in {"staking", "withdrawing"} /\ call[n].assets > 0
  /\ \A n, m \in Calls : call[n].open /\ call[m].open => n = m

\* The station's credit is that of the transfer that carries the signature held.
CreditOK ==
  credit > 0 => /\ \E i \in Sends : Carries(i) /\ sends[i].at = "credited"
                /\ stakePhase # "confirmed" /\ ~Landed

\* While a signature is held or asked for, the credit shown and the call under way are that credit.
ShownOK ==
  /\ (creditSig # NoSig \/ signing # 0) /\ stakePhase # "confirmed" /\ ~Landed
       => credited \in {0, credit}
  /\ \A n \in Calls : call[n].open /\ call[n].tx \in {"asked", "signed", "sent"}
                        /\ creditSig # NoSig => call[n].assets = credit

StakeGood == SignatureOK /\ RunsOK /\ SendsOK /\ CarriedOK /\ CallsOK /\ CreditOK /\ ShownOK

StakePageInv == StakePageTypeOK /\ (~mishap => StakeGood)

LEMMA StakeInitInv == StakeInit => StakePageInv
<1> SUFFICES ASSUME StakeInit PROVE StakePageInv
  OBVIOUS
<1> USE DEF StakeInit, NoSig, NoPayload, NoCall, NoRun
<1>1. StakePageTypeOK
  <2>1. sends \in [Sends -> SendRecord]
    BY DEF Signature, SendRecord
  <2>2. call \in [Calls -> CallRecord]
    BY DEF CallRecord
  <2>3. creditSig \in Signature /\ click \in [Sends -> RunRecord]
    BY DEF Signature, RunRecord
  <2>4. QED
    BY <2>1, <2>2, <2>3 DEF StakePageTypeOK
<1>2. \A i \in Sends : sends[i].at = "none" /\ ~Live(i) /\ ~Carries(i) /\ ~Open(i)
  BY DEF Live, Carries, Open
<1>3. \A n \in Calls : ~call[n].open /\ call[n].tx = "none"
  OBVIOUS
<1>4. SignatureOK /\ RunsOK
  BY <1>2 DEF SignatureOK, RunsOK, RunOK
<1>5. SendsOK /\ CarriedOK
  BY <1>2 DEF SendsOK, SendOK, CarriedOK
<1>6. CallsOK /\ CreditOK /\ ShownOK
  BY <1>3 DEF CallsOK, CreditOK, ShownOK
<1>7. QED
  BY <1>1, <1>4, <1>5, <1>6 DEF StakePageInv, StakeGood

\* What the wizard's step says of the page.
LEMMA StepIs ==
  ASSUME StakePageTypeOK
  PROVE  /\ StakeStep \in {"amount", "sign-credit"} => creditSig = NoSig /\ credited = 0
         /\ StakeStep = "bridge" =>
              /\ creditSig # NoSig /\ credited = 0 /\ stakePhase # "confirmed"
              /\ ~(bridgeTxHash /\ stakePhase # "failed")
         /\ StakeStep = "sign-stake" => credited > 0 /\ stakePhase # "confirmed"
         /\ StakeStep = "done" => stakePhase = "confirmed"
<1>1. CASE stakePhase = "confirmed"
  <2>1. StakeStep = "done"
    BY <1>1 DEF StakeStep
  <2>2. QED
    BY <1>1, <2>1
<1>2. CASE stakePhase # "confirmed" /\ credited > 0
  <2>1. StakeStep = "sign-stake"
    BY <1>2 DEF StakeStep, StakePageTypeOK
  <2>2. QED
    BY <1>2, <2>1
<1>3. CASE stakePhase # "confirmed" /\ credited = 0
  <2>1. StakeStep = IF bridgeTxHash /\ stakePhase # "failed" THEN "wait-credit"
                    ELSE IF creditSig # NoSig THEN "bridge"
                    ELSE IF amountWei # 0 THEN "sign-credit" ELSE "amount"
    BY <1>3 DEF StakeStep
  <2>2. QED
    BY <1>3, <2>1
<1>4. QED
  BY <1>1, <1>2, <1>3 DEF StakePageTypeOK

\* The types after a step, one group of actions at a time.
LEMMA StakeTypes ==
  ASSUME StakePageTypeOK, [StakeNext]_stakeVars
  PROVE  StakePageTypeOK'
<1> USE DEF StakePageTypeOK, allowances
<1>1. CASE ReadCredit \/ ReadBaseAllowance \/ SigningRefused \/ UNCHANGED stakeVars
  BY <1>1 DEF ReadCredit, ReadBaseAllowance, SigningRefused, stakeVars
<1>2. ASSUME NEW a \in InputAmounts \cup {0}, EditAmount(a) PROVE StakePageTypeOK'
  BY <1>2, StakePageAssumption DEF EditAmount
<1>3. CASE SignCredit
  BY <1>3, TruncatedIs DEF SignCredit
<1>4. CASE CreditSigned
  BY <1>4 DEF CreditSigned, Signature
<1>5. CASE ResetStake
  BY <1>5 DEF ResetStake, Signature, NoSig
<1>6. ASSUME NEW i \in Sends, StartBridge(i) PROVE StakePageTypeOK'
  <2>1. PICK r : /\ r = [step |-> "switching", amount |-> amountWei, sig |-> creditSig,
                         approves |-> needsApproval]
                 /\ click' = [click EXCEPT ![i] = r]
    BY <1>6 DEF StartBridge
  <2>2. r \in RunRecord
    BY <2>1 DEF RunRecord, needsApproval
  <2>3. QED
    BY <1>6, <2>1, <2>2 DEF StartBridge
<1>7. ASSUME NEW i \in Sends, BaseReady(i) \/ Approve(i) \/ SendBridge(i) PROVE StakePageTypeOK'
  <2>1. PICK step \in {"approving", "bridging", "receipt"} :
          click' = [click EXCEPT ![i].step = step]
    BY <1>7 DEF BaseReady, Approve, SendBridge
  <2>2. click' \in [Sends -> RunRecord]
    BY <2>1 DEF RunRecord
  <2>3. sends' \in [Sends -> SendRecord]
    BY <1>7 DEF BaseReady, Approve, SendBridge, encodeStationComposePayload, SendRecord, RunRecord
  <2>4. QED
    BY <1>7, <2>2, <2>3 DEF BaseReady, Approve, SendBridge
<1>8. ASSUME NEW i \in Sends, SwitchRefused(i) \/ BridgeFails(i) \/ BridgeSent(i)
      PROVE  StakePageTypeOK'
  <2>1. click' \in [Sends -> RunRecord]
    <3>1. [NoRun EXCEPT !.step = "over"] \in RunRecord
      BY DEF NoRun, NoSig, RunRecord, Signature
    <3>2. RunOver(i)
      BY <1>8 DEF SwitchRefused, BridgeFails, BridgeSent
    <3>3. QED
      BY <3>1, <3>2 DEF RunOver
  <2>2. bridgeTxHash' \in BOOLEAN
    BY <1>8, Zenon DEF SwitchRefused, BridgeFails, BridgeSent
  <2>3. QED
    BY <1>8, <2>1, <2>2 DEF SwitchRefused, BridgeFails, BridgeSent
<1>9. ASSUME NEW i \in Sends, MineSend(i) PROVE StakePageTypeOK'
  BY <1>9 DEF MineSend, SendRecord
<1>10. ASSUME NEW i \in Sends, ComposeSend(i) PROVE StakePageTypeOK'
  <2>1. PICK step \in {"credited", "rejected"} : sends' = [sends EXCEPT ![i].at = step]
    BY <1>10 DEF ComposeSend
  <2>2. sends' \in [Sends -> SendRecord]
    BY <2>1 DEF SendRecord
  <2>3. sends[i].amount \in Nat /\ credit' \in {credit, credit + sends[i].amount}
    BY <1>10 DEF ComposeSend, SendRecord
  <2>4. QED
    BY <1>10, <2>2, <2>3 DEF ComposeSend
<1>11. ASSUME NEW n \in Calls, NEW kind \in {"stake", "withdraw"}, StartCall(n, kind)
       PROVE  StakePageTypeOK'
  BY <1>11 DEF StartCall, CallRecord
<1>12. ASSUME NEW n \in Calls, SignCall(n) \/ SubmitCall(n) \/ CallFails(n) PROVE StakePageTypeOK'
  <2>1. call' \in [Calls -> CallRecord]
    <3>1. CASE SignCall(n) \/ SubmitCall(n)
      BY <3>1 DEF SignCall, SubmitCall, CallRecord
    <3>2. CASE CallFails(n)
      <4>1. PICK t \in {"refused", call[n].tx} :
              call' = [call EXCEPT ![n].open = FALSE, ![n].tx = t]
        BY <3>2 DEF CallFails
      <4>2. t \in {"none", "asked", "signed", "sent", "landed", "reverted", "refused"}
        BY <4>1 DEF CallRecord
      <4>3. QED
        BY <4>1, <4>2 DEF CallRecord
    <3>3. QED
      BY <1>12, <3>1, <3>2
  <2>2. QED
    BY <1>12, <2>1 DEF SignCall, SubmitCall, CallFails
<1>13. ASSUME NEW n \in Calls, CallConfirmed(n) PROVE StakePageTypeOK'
  <2>1. creditSig' \in {creditSig, NoSig} /\ bridgeTxHash' \in {bridgeTxHash, FALSE}
    BY <1>13, Zenon DEF CallConfirmed, ForgetCredit
  <2>2. call' \in [Calls -> CallRecord]
    BY <1>13 DEF CallConfirmed, CallRecord
  <2>3. NoSig \in Signature
    BY DEF NoSig, Signature
  <2>4. bridgeTxHash' \in BOOLEAN
    BY <2>1, Zenon
  <2>5. QED
    BY <1>13, <2>1, <2>2, <2>3, <2>4 DEF CallConfirmed
<1>14. ASSUME NEW n \in Calls, LandCall(n) PROVE StakePageTypeOK'
  BY <1>14 DEF LandCall, CallRecord
<1>15. QED
  BY <1>1, <1>2, <1>3, <1>4, <1>5, <1>6, <1>7, <1>8, <1>9, <1>10, <1>11, <1>12, <1>13, <1>14
  DEF StakeNext

\* What the page cannot know of is never forgotten.
LEMMA MishapStays ==
  ASSUME [StakeNext]_stakeVars, ~mishap'
  PROVE  ~mishap
<1>1. CASE \/ ReadCredit \/ ReadBaseAllowance \/ SignCredit \/ CreditSigned \/ SigningRefused
           \/ ResetStake \/ UNCHANGED stakeVars
  BY <1>1, Zenon DEF ReadCredit, ReadBaseAllowance, SignCredit, CreditSigned, SigningRefused,
                     ResetStake, stakeVars
<1>2. ASSUME NEW a \in InputAmounts \cup {0}, EditAmount(a) PROVE ~mishap
  BY <1>2, Zenon DEF EditAmount
<1>3. ASSUME NEW i \in Sends,
             StartBridge(i) \/ BaseReady(i) \/ SwitchRefused(i) \/ Approve(i) \/ SendBridge(i)
      PROVE  ~mishap
  BY <1>3, Zenon DEF StartBridge, BaseReady, SwitchRefused, Approve, SendBridge
<1>4. ASSUME NEW i \in Sends, BridgeFails(i) \/ BridgeSent(i) \/ MineSend(i) \/ ComposeSend(i)
      PROVE  ~mishap
  BY <1>4, Zenon DEF BridgeFails, BridgeSent, MineSend, ComposeSend
<1>5. ASSUME NEW n \in Calls, NEW kind \in {"stake", "withdraw"}, StartCall(n, kind)
      PROVE  ~mishap
  BY <1>5, Zenon DEF StartCall
<1>6. ASSUME NEW n \in Calls,
             SignCall(n) \/ SubmitCall(n) \/ CallConfirmed(n) \/ CallFails(n) \/ LandCall(n)
      PROVE  ~mishap
  BY <1>6, Zenon DEF SignCall, SubmitCall, CallConfirmed, CallFails, LandCall
<1>7. QED
  BY <1>1, <1>2, <1>3, <1>4, <1>5, <1>6, Zenon DEF StakeNext

\* New signatures leave the transfers sound.
LEMMA SendsKept ==
  ASSUME StakePageTypeOK, SendsOK, UNCHANGED <<sends, used>>,
         signatures' \in {signatures, signatures + 1}
  PROVE  SendsOK'
  BY DEF StakePageTypeOK, SendsOK, SendOK, Live, SendRecord, Signature

\* A transfer that carries the signature held shows that a signature is held.
LEMMA CarriedIsHeld ==
  ASSUME StakePageTypeOK, SendsOK, NEW i \in Sends, Carries(i)
  PROVE  creditSig # NoSig
  BY DEF StakePageTypeOK, SendsOK, SendOK, Carries, Live, NoSig, SendRecord, Signature

\* With no signature held, no transfer is under way, nothing is credited, and no run is.
LEMMA NoneHeld ==
  ASSUME StakePageTypeOK, StakeGood, creditSig = NoSig
  PROVE  /\ credit = 0 /\ \A i \in Sends : ~Carries(i) /\ ~Open(i)
         /\ \A i \in Sends : Live(i) => sends[i].at = "credited"
<1>1. \A i \in Sends : ~Carries(i)
  BY CarriedIsHeld DEF StakeGood
<1>2. credit = 0
  BY <1>1 DEF StakeGood, CreditOK, StakePageTypeOK
<1>3. \A i \in Sends : ~Open(i)
  BY DEF StakeGood, RunsOK, RunOK
<1>4. QED
  BY <1>1, <1>2, <1>3 DEF StakeGood, CarriedOK

\* When the signature is forgotten or made, nobody carries it.
LEMMA NothingCarried ==
  ASSUME StakePageTypeOK', SendsOK', credit' = 0,
         creditSig' = NoSig \/ \A i \in Sends : ~Carries(i)',
         \A i \in Sends : Live(i)' => sends'[i].at = "credited"
  PROVE  CarriedOK' /\ CreditOK' /\ \A i \in Sends : ~Carries(i)'
<1>1. \A i \in Sends : ~Carries(i)'
  BY DEF StakePageTypeOK, SendsOK, SendOK, Carries, Live, NoSig, SendRecord, Signature
<1>2. QED
  BY <1>1 DEF CarriedOK, CreditOK

\* Outside a call nothing is on its way to the station's call queue, and none has landed.
LEMMA NoCallOpen ==
  ASSUME CallsOK, stakePhase \notin {"staking", "withdrawing"}
  PROVE  ~Landed /\ \A n \in Calls : ~call[n].open /\ call[n].tx # "sent"
  BY DEF CallsOK, Landed

\* The call the page waits for is the only one that can be under way or landed.
LEMMA OneUnderWay ==
  ASSUME CallsOK, NEW n \in Calls, call[n].open
  PROVE  /\ Landed <=> call[n].tx = "landed"
         /\ \A m \in Calls : m # n => ~call[m].open /\ call[m].tx # "sent"
  BY DEF CallsOK, Landed

\* Where a run in progress can be, and where none can.
LEMMA NoRunOpen ==
  ASSUME RunsOK, StakePageTypeOK,
         stakePhase \in {"signing", "staking", "withdrawing", "confirmed"}
  PROVE  \A i \in Sends : ~Open(i)
<1>1. SUFFICES ASSUME NEW i \in Sends, Open(i) PROVE FALSE
  OBVIOUS
<1>2. click[i].step \in {"switching", "approving", "bridging", "receipt"}
  BY <1>1 DEF Open, StakePageTypeOK, RunRecord
<1>3. QED
  BY <1>1, <1>2 DEF RunsOK, RunOK, StakeBusy

\* While no run is in progress, and no transfer begins, the runs stay as they are.
LEMMA RunsIdle ==
  ASSUME RunsOK, \A i \in Sends : ~Open(i), UNCHANGED <<click, sends>>
  PROVE  RunsOK' /\ \A i \in Sends : ~Open(i)'
<1>1. \A i \in Sends : ~Open(i)'
  BY DEF Open
<1>2. QED
  BY <1>1 DEF RunsOK, RunOK

\* While no call is in progress, no transfer is taken for one.
LEMMA CallsIdle ==
  ASSUME CallsOK, \A n \in Calls : ~call'[n].open /\ call'[n].tx # "sent"
  PROVE  CallsOK' /\ ~Landed'
  BY DEF CallsOK, Landed

\* The page's own steps before the bridge.
LEMMA SigningKeepsGood ==
  ASSUME StakePageTypeOK, StakePageTypeOK', StakeGood, ~mishap',
         \/ ReadCredit \/ ReadBaseAllowance \/ SignCredit \/ CreditSigned \/ SigningRefused
         \/ (\E a \in InputAmounts \cup {0} : EditAmount(a)) \/ UNCHANGED stakeVars
  PROVE  StakeGood'
<1> USE DEF StakeGood, allowances
<1>1. SendsOK'
  <2>1. UNCHANGED <<sends, used>> /\ signatures' \in {signatures, signatures + 1}
    BY DEF ReadCredit, ReadBaseAllowance, SignCredit, CreditSigned, SigningRefused, EditAmount,
           stakeVars
  <2>2. QED
    BY <2>1, SendsKept
<1>2. CASE ReadCredit \/ ReadBaseAllowance \/ UNCHANGED stakeVars
  <2>1. /\ UNCHANGED <<amountWei, stakePhase, signing, creditSig, bridgeTxHash, signatures,
                       click, sends, credit, used, call>>
        /\ credited' \in {credited, credit}
    BY <1>2 DEF ReadCredit, ReadBaseAllowance, stakeVars
  <2>2. SignatureOK' /\ CallsOK' /\ (Landed' <=> Landed)
    BY <2>1 DEF SignatureOK, CallsOK, Landed
  <2>3. \A i \in Sends : (Carries(i)' <=> Carries(i)) /\ (Live(i)' <=> Live(i))
    BY <2>1 DEF Carries, Live
  <2>4. RunsOK'
    BY <2>1, <2>3 DEF RunsOK, RunOK, Open, StakeBusy
  <2>5. CarriedOK'
    BY <2>1, <2>2, <2>3 DEF CarriedOK, Spent
  <2>6. CreditOK'
    BY <2>1, <2>2, <2>3 DEF CreditOK
  <2>7. ShownOK'
    BY <2>1, <2>2 DEF ShownOK
  <2>8. QED
    BY <1>1, <2>2, <2>4, <2>5, <2>6, <2>7
<1>3. ASSUME NEW a \in InputAmounts \cup {0}, EditAmount(a) PROVE StakeGood'
  <2>1. /\ UNCHANGED <<stakePhase, signing, creditSig, signatures, click, sends, call, credit>>
        /\ creditSig = NoSig /\ signing = 0
    BY <1>3, StepIs, Zenon DEF EditAmount
  <2>2. SignatureOK' /\ CallsOK' /\ ShownOK'
    BY <2>1 DEF SignatureOK, CallsOK, ShownOK
  <2>3. RunsOK'
    BY <2>1, NoneHeld, RunsIdle
  <2>4. CarriedOK' /\ CreditOK'
    BY <1>1, <2>1, NoneHeld, NothingCarried DEF Live
  <2>5. QED
    BY <1>1, <2>2, <2>3, <2>4
<1>4. CASE SignCredit
  <2>1. /\ creditSig = NoSig /\ credited = 0 /\ stakePhase \notin {"staking", "withdrawing"}
        /\ UNCHANGED <<creditSig, credited, signatures, click, sends, call, credit>>
        /\ signing' = amountWei' /\ stakePhase' = "signing"
    BY <1>4, StepIs DEF SignCredit, Primary, StakeBusy
  <2>2. SignatureOK'
    BY <2>1 DEF SignatureOK
  <2>3. CallsOK' /\ ~Landed' /\ ShownOK'
    BY <2>1, NoCallOpen, CallsIdle DEF ShownOK
  <2>4. RunsOK'
    BY <2>1, NoneHeld, RunsIdle
  <2>5. CarriedOK' /\ CreditOK'
    BY <1>1, <2>1, NoneHeld, NothingCarried DEF Live
  <2>6. QED
    BY <1>1, <2>2, <2>3, <2>4, <2>5
<1>5. CASE CreditSigned
  <2>1. /\ creditSig = NoSig /\ signing = amountWei /\ stakePhase = "signing"
        /\ creditSig' = [amount |-> amountWei, nonce |-> signatures + 1]
        /\ UNCHANGED <<amountWei, credited, click, sends, call, credit>>
        /\ signatures' = signatures + 1 /\ signing' = 0
    BY <1>5 DEF CreditSigned, SignatureOK
  <2>2. SignatureOK'
    <3>1. signatures + 1 \in 1..(signatures + 1)
      BY DEF StakePageTypeOK
    <3>2. QED
      BY <2>1, <3>1 DEF SignatureOK
  <2>3. CallsOK' /\ ~Landed'
    BY <2>1, NoCallOpen, CallsIdle
  <2>4. ShownOK'
    <3>1. ~Landed /\ \A n \in Calls : ~call[n].open
      BY <2>1, NoCallOpen
    <3>2. credited \in {0, credit}
      BY <1>5, <2>1, <3>1 DEF ShownOK, CreditSigned
    <3>3. QED
      BY <2>1, <3>1, <3>2 DEF ShownOK
  <2>5. RunsOK'
    BY <2>1, NoneHeld, RunsIdle
  <2>6. \A i \in Sends : ~Carries(i)'
    <3>1. \A i \in Sends : Live(i) => sends[i].payload.sig.nonce \in 1..signatures
      BY DEF SendsOK, SendOK, Live
    <3>2. QED
      BY <2>1, <3>1 DEF Carries, Live, StakePageTypeOK
  <2>7. CarriedOK' /\ CreditOK'
    BY <1>1, <2>1, <2>6, NoneHeld, NothingCarried DEF Live
  <2>8. QED
    BY <1>1, <2>2, <2>3, <2>4, <2>5, <2>7
<1>6. CASE SigningRefused
  <2>1. /\ creditSig = NoSig /\ stakePhase = "signing" /\ signing' = 0
        /\ UNCHANGED <<creditSig, click, sends, call, credit>>
    BY <1>6 DEF SigningRefused, SignatureOK
  <2>2. SignatureOK'
    BY <2>1 DEF SignatureOK
  <2>3. CallsOK' /\ ShownOK'
    BY <2>1, NoCallOpen, CallsIdle DEF ShownOK
  <2>4. RunsOK'
    BY <2>1, NoneHeld, RunsIdle
  <2>5. CarriedOK' /\ CreditOK'
    BY <1>1, <2>1, NoneHeld, NothingCarried DEF Live
  <2>6. QED
    BY <1>1, <2>2, <2>3, <2>4, <2>5
<1>7. QED
  BY <1>2, <1>3, <1>4, <1>5, <1>6

\* The only run in progress takes a step: the others stay over, or unused.
LEMMA RunSteps ==
  ASSUME StakePageTypeOK, RunsOK, NEW i \in Sends, Open(i), NEW r,
         click' = [click EXCEPT ![i] = r]
  PROVE  /\ click'[i] = r
         /\ \A j \in Sends : j # i => click'[j] = click[j] /\ ~Open(j) /\ ~Open(j)'
<1>1. click'[i] = r /\ \A j \in Sends : j # i => click'[j] = click[j]
  BY DEF StakePageTypeOK
<1>2. \A j \in Sends : j # i => ~Open(j)
  BY DEF RunsOK
<1>3. QED
  BY <1>1, <1>2 DEF Open

\* While a run is in progress no call is, and the credit shown is the station's, if any.
LEMMA RunMeans ==
  ASSUME StakePageTypeOK, StakeGood, NEW i \in Sends, Open(i)
  PROVE  /\ stakePhase \notin {"staking", "withdrawing", "confirmed"}
         /\ ~Landed /\ \A n \in Calls : ~call[n].open /\ call[n].tx # "sent"
         /\ creditSig # NoSig /\ credited \in {0, credit}
         /\ click[i].step \in {"switching", "approving", "bridging", "receipt"}
         /\ click[i].sig = creditSig /\ click[i].amount = amountWei
<1>1. stakePhase \notin {"staking", "withdrawing", "confirmed"}
  BY NoRunOpen DEF StakeGood
<1>2. ~Landed /\ \A n \in Calls : ~call[n].open /\ call[n].tx # "sent"
  BY <1>1, NoCallOpen DEF StakeGood
<1>3. creditSig # NoSig /\ click[i].sig = creditSig /\ click[i].amount = amountWei
  BY DEF StakeGood, RunsOK, RunOK
<1>4. credited \in {0, credit}
  BY <1>1, <1>2, <1>3 DEF StakeGood, ShownOK
<1>5. QED
  BY <1>1, <1>2, <1>3, <1>4 DEF Open, StakePageTypeOK, RunRecord

\* A run that does not make the transfer, and of which nobody carries the signature.
LEMMA RunKeepsRest ==
  ASSUME StakePageTypeOK, StakeGood, NEW i \in Sends, Open(i), \A j \in Sends : ~Carries(j),
         UNCHANGED <<amountWei, signing, creditSig, credited, signatures, sends, credit, used,
                     call>>,
         signing = 0, stakePhase' # "confirmed"
  PROVE  /\ SignatureOK' /\ SendsOK' /\ CarriedOK' /\ CallsOK' /\ CreditOK' /\ ShownOK'
         /\ \A j \in Sends : ~Carries(j)'
<1> USE DEF StakeGood
<1>1. SendsOK'
  BY SendsKept
<1>2. SignatureOK'
  BY DEF SignatureOK
<1>3. \A j \in Sends : ~Carries(j)' /\ (Live(j)' <=> Live(j))
  BY DEF Carries, Live
<1>4. CarriedOK'
  BY <1>3 DEF CarriedOK
<1>5. CallsOK' /\ ~Landed'
  BY RunMeans, CallsIdle
<1>6. credit = 0
  BY DEF CreditOK, StakePageTypeOK
<1>7. CreditOK'
  BY <1>6 DEF CreditOK
<1>8. ShownOK'
  BY RunMeans DEF ShownOK
<1>9. QED
  BY <1>1, <1>2, <1>3, <1>4, <1>5, <1>7, <1>8

\* A page that waits for nothing and does not sign or send holds a signature that nobody carries,
\* unless it already sees the credit.
LEMMA NotYetCarried ==
  ASSUME StakePageTypeOK, StakeGood, \A i \in Sends : ~Open(i), credited = 0,
         stakePhase \notin {"staking", "withdrawing", "confirmed"},
         ~(bridgeTxHash /\ stakePhase # "failed")
  PROVE  \A i \in Sends : ~Carries(i)
  BY DEF StakePageTypeOK, StakeGood, CarriedOK, Spent, Open

\* The transfer itself, as the page sees it.
LEMMA BridgingKeepsGood ==
  ASSUME StakePageTypeOK, StakePageTypeOK', StakeGood, ~mishap', NEW i \in Sends,
         \/ StartBridge(i) \/ BaseReady(i) \/ SwitchRefused(i) \/ Approve(i) \/ SendBridge(i)
         \/ BridgeFails(i) \/ BridgeSent(i)
  PROVE  StakeGood'
<1> USE DEF StakeGood, allowances
<1>1. CASE StartBridge(i)
  <2>1. /\ creditSig # NoSig /\ credited = 0 /\ ~StakeBusy /\ stakePhase # "confirmed"
        /\ ~(bridgeTxHash /\ stakePhase # "failed")
    BY <1>1, StepIs DEF StartBridge, Primary
  <2>2. \A j \in Sends : ~Open(j)
    BY <1>1, Zenon DEF StartBridge
  <2>3. stakePhase \notin {"staking", "withdrawing"} /\ signing = 0
    BY <2>1 DEF StakeBusy, SignatureOK
  <2>4. \A j \in Sends : ~Carries(j)
    BY <2>1, <2>2, <2>3, NotYetCarried
  <2>5. UNCHANGED <<amountWei, stakePhase, signing, creditSig, bridgeTxHash, credited, signatures,
                    sends, credit, used, call>>
    BY <1>1 DEF StartBridge
  <2>6. ~Landed /\ \A n \in Calls : ~call[n].open /\ call[n].tx # "sent"
    BY <2>3, NoCallOpen
  <2>7. credit = 0
    BY <2>4 DEF CreditOK, StakePageTypeOK
  <2>8. PICK r : /\ r = [step |-> "switching", amount |-> amountWei, sig |-> creditSig,
                         approves |-> needsApproval]
                 /\ click' = [click EXCEPT ![i] = r]
    BY <1>1 DEF StartBridge
  <2>9. click'[i] = r /\ \A j \in Sends : j # i => click'[j] = click[j]
    BY <2>8 DEF StakePageTypeOK
  <2>10. \A j \in Sends : j # i => ~Open(j)'
    BY <2>2, <2>9 DEF Open
  <2>11. \A j \in Sends : ~Carries(j)' /\ (Live(j)' <=> Live(j))
    BY <2>4, <2>5 DEF Carries, Live
  <2>12. RunOK(i)'
    BY <2>1, <2>5, <2>8, <2>9, <2>11 DEF RunOK, StakeBusy
  <2>13. sends[i].at = "none"
    BY <1>1 DEF StartBridge, NoRun, RunsOK
  <2>14. RunsOK'
    BY <2>5, <2>9, <2>10, <2>12, <2>13 DEF RunsOK, RunOK
  <2>15. SignatureOK' /\ SendsOK'
    BY <2>5, SendsKept DEF SignatureOK
  <2>16. CallsOK' /\ CreditOK' /\ ShownOK'
    BY <2>1, <2>5, <2>6, <2>7, CallsIdle DEF CreditOK, ShownOK
  <2>17. CarriedOK'
    BY <2>11, <2>4, <2>5 DEF CarriedOK
  <2>18. QED
    BY <2>14, <2>15, <2>16, <2>17
<1>2. ASSUME Open(i) PROVE signing = 0
  BY <1>2 DEF RunsOK, RunOK, SignatureOK
<1>3. ASSUME NEW step \in {"approving", "bridging"}, Open(i), click[i].step # "receipt",
             click' = [click EXCEPT ![i].step = step], stakePhase' = step,
             UNCHANGED <<amountWei, signing, creditSig, bridgeTxHash, credited, signatures, sends,
                         credit, used, call>>
      PROVE  StakeGood'
  <2>1. PICK r : r = [click[i] EXCEPT !.step = step] /\ click' = [click EXCEPT ![i] = r]
    BY <1>3
  <2>2. /\ r.step = step /\ r.sig = creditSig /\ r.amount = amountWei /\ creditSig # NoSig
    BY <1>3, <2>1, RunMeans DEF StakePageTypeOK, RunRecord
  <2>3. click'[i] = r /\ \A j \in Sends : j # i => click'[j] = click[j] /\ ~Open(j) /\ ~Open(j)'
    BY <1>3, <2>1, RunSteps
  <2>4. \A j \in Sends : ~Carries(j)
    BY <1>3 DEF RunsOK, RunOK
  <2>5. /\ SignatureOK' /\ SendsOK' /\ CarriedOK' /\ CallsOK' /\ CreditOK' /\ ShownOK'
        /\ \A j \in Sends : ~Carries(j)'
    BY <1>2, <1>3, <2>4, RunKeepsRest
  <2>6. sends[i].at = "none"
    BY <1>3 DEF RunsOK, Open
  <2>7. RunOK(i)'
    BY <1>3, <2>2, <2>3, <2>5 DEF RunOK
  <2>8. RunsOK'
    BY <1>3, <2>3, <2>6, <2>7 DEF RunsOK, RunOK
  <2>9. QED
    BY <2>5, <2>8
<1>4. CASE BaseReady(i)
  <2>1. PICK step \in {"approving", "bridging"} :
          stakePhase' = step /\ click' = [click EXCEPT ![i].step = step]
    BY <1>4 DEF BaseReady
  <2>2. QED
    BY <1>3, <1>4, <2>1 DEF BaseReady, Open
<1>5. CASE Approve(i)
  BY <1>3, <1>5 DEF Approve, Open
<1>6. ASSUME Open(i), RunOver(i), \A j \in Sends : ~Carries(j), stakePhase' # "confirmed",
             UNCHANGED <<amountWei, signing, creditSig, bridgeTxHash, credited, signatures, sends,
                         credit, used, call>>
      PROVE  StakeGood'
  <2>1. PICK r : r = [NoRun EXCEPT !.step = "over"] /\ click' = [click EXCEPT ![i] = r]
    BY <1>6 DEF RunOver
  <2>2. r.step = "over"
    BY <2>1 DEF NoRun
  <2>3. click'[i] = r /\ \A j \in Sends : j # i => click'[j] = click[j] /\ ~Open(j) /\ ~Open(j)'
    BY <1>6, <2>1, RunSteps
  <2>4. \A j \in Sends : ~Open(j)'
    BY <2>2, <2>3 DEF Open
  <2>5. SignatureOK' /\ SendsOK' /\ CarriedOK' /\ CallsOK' /\ CreditOK' /\ ShownOK'
    BY <1>2, <1>6, RunKeepsRest
  <2>6. RunsOK'
    BY <1>6, <2>2, <2>3, <2>4 DEF RunsOK, RunOK
  <2>7. QED
    BY <2>5, <2>6
<1>7. CASE SwitchRefused(i)
  <2>1. Open(i) /\ \A j \in Sends : ~Carries(j)
    BY <1>7 DEF SwitchRefused, Open, RunsOK, RunOK
  <2>2. stakePhase' # "confirmed"
    BY <1>7, <2>1, RunMeans DEF SwitchRefused
  <2>3. QED
    BY <1>6, <1>7, <2>1, <2>2 DEF SwitchRefused
<1>8. CASE BridgeFails(i)
  <2>1. Open(i) /\ stakePhase \in {"approving", "bridging"} /\ ~Live(i)
    <3>1. Open(i)
      BY <1>8 DEF BridgeFails, Open
    <3>2. sends[i].at \in {"none", "reverted"}
      BY <1>8, Zenon DEF BridgeFails
    <3>3. QED
      BY <1>8, <3>1, <3>2 DEF BridgeFails, RunsOK, RunOK, Live
  <2>2. \A j \in Sends : ~Carries(j)
    <3>1. \A j \in Sends : j # i => click[j].step # "receipt"
      BY <2>1 DEF RunsOK, Open
    <3>2. QED
      BY <2>1, <3>1 DEF CarriedOK, Carries, Spent
  <2>3. QED
    BY <1>6, <1>8, <2>1, <2>2 DEF BridgeFails
<1>9. CASE BridgeSent(i)
  <2>1. Open(i) /\ stakePhase = "bridging"
    BY <1>9 DEF BridgeSent, Open, RunsOK, RunOK
  <2>2. /\ bridgeTxHash' = TRUE /\ stakePhase' = "waiting"
        /\ UNCHANGED <<amountWei, signing, creditSig, credited, signatures, sends, credit, used,
                       call>>
    BY <1>9 DEF BridgeSent
  <2>3. PICK r : r = [NoRun EXCEPT !.step = "over"] /\ click' = [click EXCEPT ![i] = r]
    BY <1>9 DEF BridgeSent, RunOver
  <2>4. r.step = "over"
    BY <2>3 DEF NoRun
  <2>5. click'[i] = r /\ \A j \in Sends : j # i => click'[j] = click[j] /\ ~Open(j) /\ ~Open(j)'
    BY <2>1, <2>3, RunSteps
  <2>6. \A j \in Sends : ~Open(j)'
    BY <2>4, <2>5 DEF Open
  <2>7. RunsOK'
    BY <2>2, <2>4, <2>5, <2>6 DEF RunsOK, RunOK
  <2>8. SignatureOK' /\ SendsOK'
    BY <1>2, <2>1, <2>2, SendsKept DEF SignatureOK
  <2>9. CallsOK' /\ ~Landed'
    BY <2>1, <2>2, RunMeans, CallsIdle
  <2>10. \A j \in Sends : (Carries(j)' <=> Carries(j)) /\ (Live(j)' <=> Live(j))
    BY <2>2 DEF Carries, Live
  <2>11. CarriedOK'
    BY <2>2, <2>9, <2>10 DEF CarriedOK, Spent
  <2>12. CreditOK'
    BY <2>2, <2>9, <2>10 DEF CreditOK
  <2>13. ShownOK'
    BY <2>1, <2>2, RunMeans DEF ShownOK
  <2>14. QED
    BY <2>7, <2>8, <2>9, <2>11, <2>12, <2>13
<1>10. CASE SendBridge(i)
  <2>1. Open(i) /\ stakePhase = "bridging" /\ \A j \in Sends : ~Carries(j)
    BY <1>10 DEF SendBridge, Open, RunsOK, RunOK
  <2>2. /\ creditSig # NoSig /\ creditSig.amount = amountWei /\ creditSig.nonce \in 1..signatures
        /\ click[i].sig = creditSig /\ click[i].amount = amountWei /\ signing = 0
    BY <1>2, <2>1, RunMeans DEF SignatureOK
  <2>3. UNCHANGED <<amountWei, stakePhase, signing, creditSig, bridgeTxHash, credited, signatures,
                    credit, used, call>>
    BY <1>10 DEF SendBridge
  <2>4. /\ sends'[i] = [amount |-> amountWei, at |-> "sent",
                        payload |-> [assets |-> amountWei, sig |-> creditSig]]
        /\ \A j \in Sends : j # i => sends'[j] = sends[j]
    BY <1>10, <2>2 DEF SendBridge, encodeStationComposePayload, StakePageTypeOK
  <2>5. PICK r : r = [click[i] EXCEPT !.step = "receipt"] /\ click' = [click EXCEPT ![i] = r]
    BY <1>10 DEF SendBridge
  <2>6. r.step = "receipt" /\ r.sig = creditSig /\ r.amount = amountWei
    BY <2>2, <2>5 DEF StakePageTypeOK, RunRecord
  <2>7. click'[i] = r /\ \A j \in Sends : j # i => click'[j] = click[j] /\ ~Open(j) /\ ~Open(j)'
    BY <2>1, <2>5, RunSteps
  <2>8. SignatureOK'
    BY <2>3 DEF SignatureOK
  <2>9. RunOK(i)'
    BY <2>1, <2>2, <2>3, <2>6, <2>7 DEF RunOK
  <2>10. RunsOK'
    BY <2>4, <2>6, <2>7, <2>9 DEF RunsOK, RunOK
  <2>11. sends[i].at = "none"
    BY <1>10 DEF SendBridge, RunsOK
  <2>12. SendsOK'
    <3>1. \A j \in Sends : SendOK(j)' /\ sends'[j].at # "rejected"
      BY <2>2, <2>3, <2>4 DEF SendsOK, SendOK
    <3>2. \A j, k \in Sends :
            Live(j)' /\ Live(k)' /\ sends'[j].payload.sig.nonce = sends'[k].payload.sig.nonce
              => j = k
      BY <2>1, <2>4 DEF SendsOK, Live, Carries
    <3>3. \A n \in used' : \E j \in Sends :
            sends'[j].at = "credited" /\ sends'[j].payload.sig.nonce = n
      BY <2>3, <2>4, <2>11 DEF SendsOK
    <3>4. QED
      BY <3>1, <3>2, <3>3 DEF SendsOK
  <2>13. CallsOK' /\ ~Landed'
    BY <2>1, <2>3, RunMeans, CallsIdle
  <2>14. CarriedOK'
    <3>1. \A j \in Sends : j # i => ~Carries(j)' /\ (Live(j)' <=> Live(j))
      BY <2>1, <2>3, <2>4 DEF Carries, Live
    <3>2. Carries(i)' /\ Spent(i)'
      BY <2>3, <2>4, <2>6, <2>7 DEF Carries, Live, Spent
    <3>3. QED
      BY <2>1, <2>3, <2>4, <2>13, <3>1, <3>2 DEF CarriedOK
  <2>15. credit = 0
    BY <2>1 DEF CreditOK, StakePageTypeOK
  <2>16. CreditOK' /\ ShownOK'
    BY <2>1, <2>3, <2>15, RunMeans DEF CreditOK, ShownOK
  <2>17. QED
    BY <2>8, <2>10, <2>12, <2>13, <2>14, <2>16
<1>11. QED
  BY <1>1, <1>4, <1>5, <1>7, <1>8, <1>9, <1>10

\* A transfer that does not end as rejected leaves the rest as it was.
LEMMA SendStepKeepsSends ==
  ASSUME StakePageTypeOK, SendsOK, NEW i \in Sends, Live(i), sends[i].at # "credited",
         NEW step \in {"bridged", "reverted", "credited"},
         sends' = [sends EXCEPT ![i].at = step], UNCHANGED signatures,
         used' = IF step = "credited" THEN used \cup {sends[i].payload.sig.nonce} ELSE used
  PROVE  /\ SendsOK' /\ sends'[i].at = step
         /\ \A j \in Sends : /\ Live(j)' => Live(j)
                             /\ sends'[j].payload = sends[j].payload
                             /\ j # i => sends'[j].at = sends[j].at
<1>1. \A j \in Sends : /\ sends'[j].payload = sends[j].payload
                       /\ sends'[j].amount = sends[j].amount
                       /\ j # i => sends'[j].at = sends[j].at
  BY DEF StakePageTypeOK, SendRecord
<1>2. sends'[i].at = step
  BY DEF StakePageTypeOK, SendRecord
<1>3. \A j \in Sends : Live(j)' => Live(j)
  BY <1>1 DEF Live
<1>4. \A j \in Sends : SendOK(j)' /\ sends'[j].at # "rejected"
  BY <1>1, <1>2 DEF SendsOK, SendOK, Live
<1>5. \A j, k \in Sends :
        Live(j)' /\ Live(k)' /\ sends'[j].payload.sig.nonce = sends'[k].payload.sig.nonce => j = k
  BY <1>1, <1>3 DEF SendsOK
<1>6. \A n \in used' : \E j \in Sends :
        sends'[j].at = "credited" /\ sends'[j].payload.sig.nonce = n
  BY <1>1, <1>2 DEF SendsOK
<1>7. QED
  BY <1>1, <1>2, <1>3, <1>4, <1>5, <1>6 DEF SendsOK

\* The other chain, the bridge and the station.
LEMMA TransferKeepsGood ==
  ASSUME StakePageTypeOK, StakePageTypeOK', StakeGood, ~mishap', NEW i \in Sends,
         MineSend(i) \/ ComposeSend(i)
  PROVE  StakeGood'
<1> USE DEF StakeGood, allowances
<1>1. UNCHANGED <<amountWei, stakePhase, signing, creditSig, bridgeTxHash, credited, signatures,
                  click, call>>
  BY DEF MineSend, ComposeSend
<1>2. SignatureOK' /\ CallsOK' /\ (Landed' <=> Landed)
  BY <1>1 DEF SignatureOK, CallsOK, Landed
<1>3. /\ Live(i) /\ sends[i].at \in {"sent", "bridged"}
      /\ Carries(i) /\ creditSig # NoSig /\ stakePhase # "confirmed" /\ ~Landed
  <2>1. Live(i) /\ sends[i].at \in {"sent", "bridged"}
    BY DEF MineSend, ComposeSend, Live
  <2>2. QED
    BY <2>1, CarriedIsHeld DEF CarriedOK
<1>4. credit = 0
  <2>1. SUFFICES ASSUME credit > 0 PROVE FALSE
    BY DEF StakePageTypeOK
  <2>2. PICK j \in Sends : Carries(j) /\ sends[j].at = "credited"
    BY <2>1 DEF CreditOK
  <2>3. QED
    BY <1>3, <2>2 DEF SendsOK, Carries
<1>5. credited = 0 /\ \A n \in Calls : ~(call[n].open /\ call[n].tx \in {"asked", "signed", "sent"})
  BY <1>3, <1>4 DEF ShownOK, CallsOK
<1>6. ASSUME NEW step \in {"bridged", "reverted", "credited"},
             sends' = [sends EXCEPT ![i].at = step],
             credit' > 0 => step = "credited",
             used' = IF step = "credited" THEN used \cup {sends[i].payload.sig.nonce} ELSE used
      PROVE  StakeGood'
  <2>1. /\ SendsOK' /\ sends'[i].at = step
        /\ \A j \in Sends : /\ Live(j)' => Live(j)
                            /\ sends'[j].payload = sends[j].payload
                            /\ j # i => sends'[j].at = sends[j].at
    BY <1>1, <1>3, <1>6, SendStepKeepsSends
  <2>2. \A j \in Sends : Carries(j)' <=> Carries(j) /\ Live(j)'
    BY <1>1, <2>1 DEF Carries
  <2>3. \A j \in Sends : Spent(j) => Spent(j)'
    BY <1>1, <1>2, <1>4 DEF Spent
  <2>4. \A j \in Sends : Live(j)' /\ sends'[j].at # "credited" =>
                           Live(j) /\ sends[j].at # "credited"
    BY <1>3, <2>1
  <2>5. CarriedOK'
    BY <1>1, <1>2, <2>2, <2>3, <2>4 DEF CarriedOK
  <2>6. CreditOK'
    <3>1. step = "credited" => Carries(i)'
      BY <1>3, <2>1, <2>2 DEF Live
    <3>2. QED
      BY <1>1, <1>2, <1>3, <1>6, <2>1, <3>1 DEF CreditOK
  <2>7. ShownOK'
    BY <1>1, <1>5 DEF ShownOK
  <2>8. RunsOK'
    <3>1. \A j \in Sends : sends'[j].at # "none" => sends[j].at # "none"
      BY <1>3, <2>1
    <3>2. \A j \in Sends : (Open(j)' <=> Open(j)) /\ (Open(j) => RunOK(j)')
      BY <1>1, <2>2 DEF RunsOK, RunOK, Open, StakeBusy
    <3>3. QED
      BY <1>1, <3>1, <3>2 DEF RunsOK, RunOK
  <2>9. QED
    BY <1>2, <2>1, <2>5, <2>6, <2>7, <2>8
<1>7. CASE MineSend(i)
  <2>1. PICK step \in {"bridged", "reverted"} : sends' = [sends EXCEPT ![i].at = step]
    BY <1>7 DEF MineSend
  <2>2. ~(credit' > 0) /\ used' = used
    BY <1>4, <1>7 DEF MineSend
  <2>3. step \in {"bridged", "reverted", "credited"} /\ step # "credited"
    BY <2>1
  <2>4. QED
    BY <1>6, <2>1, <2>2, <2>3
<1>8. CASE ComposeSend(i)
  <2>1. Acceptable(sends[i])
    <3>1. /\ sends[i].payload.assets = sends[i].amount
          /\ sends[i].payload.sig.amount = sends[i].amount
      BY <1>3 DEF SendsOK, SendOK
    <3>2. sends[i].payload.sig.nonce \notin used
      <4>1. SUFFICES ASSUME sends[i].payload.sig.nonce \in used PROVE FALSE
        OBVIOUS
      <4>2. PICK j \in Sends : /\ sends[j].at = "credited"
                               /\ sends[j].payload.sig.nonce = sends[i].payload.sig.nonce
        BY <4>1 DEF SendsOK
      <4>3. QED
        BY <1>3, <4>2 DEF SendsOK, Live
    <3>3. QED
      BY <3>1, <3>2 DEF Acceptable
  <2>2. /\ sends' = [sends EXCEPT ![i].at = "credited"]
        /\ used' = used \cup {sends[i].payload.sig.nonce}
    BY <1>8, <2>1, Zenon DEF ComposeSend
  <2>3. QED
    BY <1>6, <2>2
<1>9. QED
  BY <1>7, <1>8

\* The calls that stake or withdraw the credit.
LEMMA CallingKeepsGood ==
  ASSUME StakePageTypeOK, StakePageTypeOK', StakeGood, ~mishap', NEW n \in Calls,
         \/ \E kind \in {"stake", "withdraw"} : StartCall(n, kind)
         \/ SignCall(n) \/ SubmitCall(n) \/ CallConfirmed(n) \/ CallFails(n) \/ LandCall(n)
  PROVE  StakeGood'
<1> USE DEF StakeGood, allowances
<1>1. SendsOK'
  <2>1. UNCHANGED <<sends, used, signatures>>
    BY DEF StartCall, SignCall, SubmitCall, CallConfirmed, CallFails, LandCall
  <2>2. QED
    BY <2>1, SendsKept
<1>2. \A i \in Sends : Carries(i) => creditSig # NoSig
  BY CarriedIsHeld
<1>3. ASSUME NEW kind \in {"stake", "withdraw"}, StartCall(n, kind) PROVE StakeGood'
  <2>1. /\ credited > 0 /\ stakePhase # "confirmed" /\ ~StakeBusy
        /\ UNCHANGED <<amountWei, signing, creditSig, credited, signatures, click, sends, credit>>
        /\ stakePhase' \in {"staking", "withdrawing"}
    BY <1>3, StepIs DEF StartCall, Primary
  <2>2. stakePhase \notin {"staking", "withdrawing"} /\ signing = 0
    BY <2>1 DEF StakeBusy, SignatureOK
  <2>3. ~Landed /\ \A m \in Calls : ~call[m].open /\ call[m].tx # "sent"
    BY <2>2, NoCallOpen
  <2>4. creditSig # NoSig => credited = credit
    BY <2>1, <2>3 DEF ShownOK
  <2>5. \A i \in Sends : ~Open(i)
    <3>1. SUFFICES ASSUME NEW i \in Sends, Open(i) PROVE FALSE
      OBVIOUS
    <3>2. click[i].step = "switching" /\ creditSig # NoSig
      BY <2>1, <3>1, RunMeans DEF RunsOK, RunOK, StakeBusy
    <3>3. \A j \in Sends : ~Carries(j)
      BY <3>1, <3>2 DEF RunsOK, RunOK
    <3>4. QED
      BY <2>1, <2>4, <3>2, <3>3 DEF CreditOK
  <2>6. RunsOK'
    BY <2>1, <2>5, RunsIdle
  <2>7. SignatureOK'
    BY <2>1, <2>2 DEF SignatureOK
  <2>8. /\ call'[n].open /\ call'[n].tx = "asked" /\ call'[n].assets = credited
        /\ \A m \in Calls : m # n => call'[m] = call[m]
    BY <1>3 DEF StartCall, StakePageTypeOK
  <2>9. CallsOK' /\ ~Landed'
    BY <2>1, <2>3, <2>8 DEF CallsOK, Landed
  <2>10. ShownOK'
    BY <2>1, <2>2, <2>3, <2>4, <2>8 DEF ShownOK
  <2>11. \A i \in Sends : (Carries(i)' <=> Carries(i)) /\ (Live(i)' <=> Live(i))
    BY <2>1 DEF Carries, Live
  <2>12. CarriedOK'
    BY <1>2, <2>1, <2>4, <2>9, <2>11 DEF CarriedOK, Spent
  <2>13. CreditOK'
    BY <2>1, <2>9, <2>11 DEF CreditOK
  <2>14. QED
    BY <1>1, <2>6, <2>7, <2>9, <2>10, <2>12, <2>13
<1>4. ASSUME call[n].open
      PROVE  /\ stakePhase \in {"staking", "withdrawing"} /\ signing = 0 /\ call[n].assets > 0
             /\ \A i \in Sends : ~Open(i)
             /\ \A m \in Calls : m # n => ~call[m].open /\ call[m].tx # "sent"
             /\ Landed <=> call[n].tx = "landed"
  <2>1. stakePhase \in {"staking", "withdrawing"} /\ call[n].assets > 0
    BY <1>4 DEF CallsOK
  <2>2. signing = 0
    BY <2>1 DEF SignatureOK
  <2>3. QED
    BY <1>4, <2>1, <2>2, NoRunOpen, OneUnderWay
<1>5. ASSUME NEW fate \in {"signed", "sent", "reverted"}, call[n].open,
             call[n].tx \in {"asked", "signed", "sent"},
             call' = [call EXCEPT ![n].tx = fate],
             UNCHANGED <<amountWei, stakePhase, signing, creditSig, bridgeTxHash, credited,
                         signatures, click, sends, credit>>
      PROVE  StakeGood'
  <2>1. /\ call'[n].tx = fate /\ call'[n].open /\ call'[n].assets = call[n].assets
        /\ \A m \in Calls : m # n => call'[m] = call[m]
    BY <1>5 DEF StakePageTypeOK, CallRecord
  <2>2. SignatureOK' /\ RunsOK'
    BY <1>4, <1>5, RunsIdle DEF SignatureOK
  <2>3. CallsOK' /\ ~Landed' /\ ~Landed
    BY <1>4, <1>5, <2>1 DEF CallsOK, Landed
  <2>4. \A i \in Sends : (Carries(i)' <=> Carries(i)) /\ (Live(i)' <=> Live(i))
    BY <1>5 DEF Carries, Live
  <2>5. CarriedOK'
    BY <1>5, <2>3, <2>4 DEF CarriedOK, Spent
  <2>6. CreditOK'
    BY <1>5, <2>3, <2>4 DEF CreditOK
  <2>7. ShownOK'
    BY <1>4, <1>5, <2>1, <2>3 DEF ShownOK
  <2>8. QED
    BY <1>1, <2>2, <2>3, <2>5, <2>6, <2>7
<1>6. CASE SignCall(n)
  BY <1>5, <1>6 DEF SignCall
<1>7. CASE SubmitCall(n)
  BY <1>5, <1>7 DEF SubmitCall
<1>8. ASSUME call[n].open, call'[n].open = FALSE, call'[n].tx # "sent",
             \A m \in Calls : m # n => call'[m] = call[m]
      PROVE  CallsOK' /\ ~Landed' /\ \A m \in Calls : ~call'[m].open
  BY <1>4, <1>8 DEF CallsOK, Landed
<1>9. CASE CallConfirmed(n)
  <2>1. /\ call[n].open /\ call[n].tx = "landed"
        /\ UNCHANGED <<amountWei, signing, credited, signatures, click, sends, credit>>
        /\ call'[n].open = FALSE /\ call'[n].tx # "sent"
        /\ \A m \in Calls : m # n => call'[m] = call[m]
    BY <1>9 DEF CallConfirmed, StakePageTypeOK, CallRecord
  <2>2. CallsOK' /\ ~Landed' /\ \A m \in Calls : ~call'[m].open
    BY <1>8, <2>1
  <2>3. signing = 0 /\ Landed /\ RunsOK'
    BY <1>4, <2>1, RunsIdle
  <2>4. credit = 0 /\ \A i \in Sends : Live(i) => sends[i].at = "credited"
    BY <2>3 DEF CreditOK, CarriedOK, StakePageTypeOK
  <2>5. CASE call[n].kind = "stake"
    <3>1. stakePhase' = "confirmed" /\ UNCHANGED creditSig
      BY <1>9, <2>5 DEF CallConfirmed
    <3>2. SignatureOK' /\ CreditOK'
      BY <2>1, <2>3, <2>4, <3>1 DEF SignatureOK, CreditOK
    <3>3. CarriedOK'
      BY <2>1, <2>4, <3>1 DEF CarriedOK, Spent, Live
    <3>4. ShownOK'
      BY <2>2, <3>1 DEF ShownOK
    <3>5. QED
      BY <1>1, <2>2, <2>3, <3>2, <3>3, <3>4
  <2>6. CASE call[n].kind # "stake"
    <3>1. creditSig' = NoSig
      BY <1>9, <2>6 DEF CallConfirmed, ForgetCredit
    <3>2. SignatureOK' /\ ShownOK'
      BY <2>1, <2>2, <2>3, <3>1 DEF SignatureOK, ShownOK
    <3>3. CarriedOK' /\ CreditOK'
      BY <1>1, <2>1, <2>4, <3>1, NothingCarried DEF Live
    <3>4. QED
      BY <1>1, <2>2, <2>3, <3>2, <3>3
  <2>7. QED
    BY <2>5, <2>6
<1>10. CASE CallFails(n)
  <2>1. /\ call[n].open /\ stakePhase' = "failed"
        /\ UNCHANGED <<amountWei, signing, creditSig, credited, signatures, click, sends, credit>>
    BY <1>10 DEF CallFails
  <2>2. call[n].tx \notin {"sent", "landed"}
    BY <1>10, Zenon DEF CallFails
  <2>3. /\ call'[n].open = FALSE /\ call'[n].tx # "sent"
        /\ \A m \in Calls : m # n => call'[m] = call[m]
    BY <1>10, <2>2 DEF CallFails, StakePageTypeOK, CallRecord
  <2>4. CallsOK' /\ ~Landed' /\ \A m \in Calls : ~call'[m].open
    BY <1>8, <2>1, <2>3
  <2>5. ~Landed /\ signing = 0 /\ RunsOK' /\ stakePhase \in {"staking", "withdrawing"}
    BY <1>4, <2>1, <2>2, RunsIdle
  <2>6. SignatureOK'
    BY <2>1, <2>5 DEF SignatureOK
  <2>7. \A i \in Sends : (Carries(i)' <=> Carries(i)) /\ (Live(i)' <=> Live(i))
    BY <2>1 DEF Carries, Live
  <2>8. \A i \in Sends : Carries(i) => credit > 0 /\ credited > 0
    <3>1. \A i \in Sends : click[i].step # "receipt"
      BY <1>4, <2>1 DEF Open
    <3>2. QED
      BY <2>5, <3>1 DEF CarriedOK, Spent
  <2>9. CarriedOK'
    BY <2>1, <2>4, <2>7, <2>8 DEF CarriedOK, Spent
  <2>10. CreditOK'
    BY <2>1, <2>4, <2>7 DEF CreditOK
  <2>11. ShownOK'
    BY <2>1, <2>4, <2>5 DEF ShownOK
  <2>12. QED
    BY <1>1, <2>4, <2>5, <2>6, <2>9, <2>10, <2>11
<1>11. CASE LandCall(n)
  <2>1. /\ call[n].open /\ call[n].tx = "sent"
        /\ UNCHANGED <<amountWei, stakePhase, signing, creditSig, bridgeTxHash, credited,
                       signatures, click, sends>>
    BY <1>11 DEF LandCall, CallsOK
  <2>2. CASE call' = [call EXCEPT ![n].tx = "reverted"] /\ UNCHANGED credit
    BY <1>5, <2>1, <2>2
  <2>3. CASE /\ call' = [call EXCEPT ![n].tx = "landed"]
             /\ credit >= call[n].assets /\ credit' = credit - call[n].assets
    <3>1. call[n].assets > 0 /\ call[n].assets \in Nat /\ ~Landed
      BY <1>4, <2>1 DEF StakePageTypeOK, CallRecord
    <3>2. credit > 0
      BY <2>3, <3>1 DEF StakePageTypeOK
    <3>3. PICK k \in Sends : Carries(k) /\ sends[k].at = "credited"
      BY <3>2 DEF CreditOK
    <3>4. call[n].assets = credit
      BY <1>2, <2>1, <3>3 DEF ShownOK
    <3>5. credit' = 0
      BY <2>3, <3>4 DEF StakePageTypeOK
    <3>6. \A i \in Sends : Live(i) => sends[i].at = "credited"
      BY <3>3 DEF CarriedOK, SendsOK, Carries
    <3>7. /\ call'[n].tx = "landed" /\ call'[n].open /\ call'[n].assets = call[n].assets
          /\ \A m \in Calls : m # n => call'[m] = call[m]
      BY <2>1, <2>3 DEF StakePageTypeOK, CallRecord
    <3>8. Landed' /\ CallsOK'
      BY <1>4, <2>1, <3>1, <3>7 DEF CallsOK, Landed
    <3>9. SignatureOK' /\ RunsOK'
      BY <1>4, <2>1, RunsIdle DEF SignatureOK
    <3>10. CarriedOK'
      BY <1>4, <2>1, <3>6, <3>8 DEF CarriedOK, Spent, Live
    <3>11. CreditOK'
      BY <3>5 DEF CreditOK
    <3>12. ShownOK'
      BY <1>4, <2>1, <3>7, <3>8 DEF ShownOK
    <3>13. QED
      BY <1>1, <3>8, <3>9, <3>10, <3>11, <3>12
  <2>4. QED
    BY <1>11, <2>2, <2>3 DEF LandCall
<1>12. QED
  BY <1>3, <1>6, <1>7, <1>9, <1>10, <1>11

LEMMA StakeInvStays ==
  ASSUME StakePageInv, [StakeNext]_stakeVars
  PROVE  StakePageInv'
<1>1. StakePageTypeOK /\ StakePageTypeOK'
  BY StakeTypes DEF StakePageInv
<1>2. ASSUME ~mishap' PROVE StakeGood'
  <2>1. StakeGood
    BY <1>2, MishapStays DEF StakePageInv
  <2>2. CASE \/ ReadCredit \/ ReadBaseAllowance \/ SignCredit \/ CreditSigned \/ SigningRefused
             \/ (\E a \in InputAmounts \cup {0} : EditAmount(a)) \/ UNCHANGED stakeVars
    BY <1>1, <1>2, <2>1, <2>2, SigningKeepsGood
  <2>3. ASSUME NEW i \in Sends,
               \/ StartBridge(i) \/ BaseReady(i) \/ SwitchRefused(i) \/ Approve(i)
               \/ SendBridge(i) \/ BridgeFails(i) \/ BridgeSent(i)
        PROVE  StakeGood'
    BY <1>1, <1>2, <2>1, <2>3, BridgingKeepsGood
  <2>4. ASSUME NEW i \in Sends, MineSend(i) \/ ComposeSend(i) PROVE StakeGood'
    BY <1>1, <1>2, <2>1, <2>4, TransferKeepsGood
  <2>5. ASSUME NEW n \in Calls,
               \/ \E kind \in {"stake", "withdraw"} : StartCall(n, kind)
               \/ SignCall(n) \/ SubmitCall(n) \/ CallConfirmed(n) \/ CallFails(n) \/ LandCall(n)
        PROVE  StakeGood'
    BY <1>1, <1>2, <2>1, <2>5, CallingKeepsGood
  <2>6. CASE ResetStake
    <3>1. stakePhase = "confirmed"
      BY <2>6, <1>1, StepIs DEF ResetStake, Primary
    <3>2. /\ creditSig' = NoSig
          /\ UNCHANGED <<signing, credited, signatures, click, sends, credit, used, call>>
      BY <2>6 DEF ResetStake
    <3>3. SendsOK'
      BY <1>1, <2>1, <3>2, SendsKept DEF StakeGood
    <3>4. signing = 0
      BY <2>1, <3>1 DEF StakeGood, SignatureOK
    <3>5. ~Landed /\ \A n \in Calls : ~call[n].open /\ call[n].tx # "sent"
      BY <2>1, <3>1, NoCallOpen DEF StakeGood
    <3>6. CallsOK'
      BY <2>1, <3>2, <3>5, CallsIdle DEF StakeGood
    <3>7. SignatureOK' /\ ShownOK'
      BY <3>2, <3>4, <3>5 DEF SignatureOK, ShownOK
    <3>8. RunsOK'
      BY <1>1, <2>1, <3>1, <3>2, NoRunOpen, RunsIdle DEF StakeGood
    <3>9. credit = 0 /\ \A i \in Sends : Live(i) => sends[i].at = "credited"
      BY <1>1, <2>1, <3>1 DEF StakeGood, CreditOK, CarriedOK, StakePageTypeOK
    <3>10. CarriedOK' /\ CreditOK'
      BY <1>1, <3>2, <3>3, <3>9, NothingCarried DEF Live
    <3>11. QED
      BY <3>3, <3>6, <3>7, <3>8, <3>10 DEF StakeGood
  <2>7. QED
    BY <2>2, <2>3, <2>4, <2>5, <2>6 DEF StakeNext
<1>3. QED
  BY <1>1, <1>2 DEF StakePageInv

\* Every transfer the page makes carries a signature over its amount that no other transfer has
\* used, so the station credits it, unless something happened that the page cannot know of or the
\* bridge button was clicked again while the wallet was still asked for the other chain.
THEOREM TransfersAreCredited == StakePageSpec => []CreditedUnlessMishap
<1>1. StakePageInv => CreditedUnlessMishap
  BY DEF StakePageInv, StakeGood, SendsOK, CreditedUnlessMishap
<1>2. QED
  BY <1>1, StakeInitInv, StakeInvStays, PTL DEF StakePageSpec

(***************************************************************************)
(* The overview page and the index behind it.                              *)
(***************************************************************************)

\* The index, as the handlers leave it.
Triggers == {"deposit", "redeem", "harvest"}
DayRow == [rateOpen : Nat, rateClose : Nat, cumulative : Nat]
Index ==
  [upto : Nat, snapshots : Seq([t : Nat, rate : Nat, trigger : Triggers]),
   harvests : Seq([t : Nat, rewardClaimed : Nat]), flows : Seq([t : Nat, kind : Triggers]),
   days : UNION {[D -> DayRow] : D \in SUBSET Nat}, cumulative : Nat]

\* What a handler does to the index.
Handled(index, b, e, n) ==
  LET day == b \div BlocksPerDay IN
  /\ n \in Index /\ n.upto = index.upto
  /\ \E trigger \in Triggers :
       n.snapshots = Append(index.snapshots, [t |-> b, rate |-> b, trigger |-> trigger])
  /\ n.cumulative = index.cumulative + RewardOf(e)
  /\ DOMAIN n.days = DOMAIN index.days \cup {day}
  /\ \A d \in DOMAIN index.days \ {day} : n.days[d] = index.days[d]
  /\ n.days[day] = [rateOpen |-> IF day \in DOMAIN index.days THEN index.days[day].rateOpen ELSE b,
                    rateClose |-> b, cumulative |-> n.cumulative]

\* Days are numbers from zero.
LEMMA DayNat == ASSUME NEW b \in Nat PROVE b \div BlocksPerDay \in Nat
  BY HistoryAssumption, DivNat

\* What the events of the vault hold.
LEMMA EventRecords ==
  ASSUME NEW e \in VaultEvents
  PROVE  /\ e.name \in {"Deposited", "Redeemed", "Harvested"}
         /\ e.name = "Harvested" => e.rewardClaimed \in Nat
         /\ RewardOf(e) \in Nat
  BY DEF VaultEvents, RewardOf

\* The row of the day is opened by its first event and closed by its latest.
LEMMA UpdateDayIs ==
  ASSUME NEW index \in Index, NEW b \in Nat, NEW reward \in Nat
  PROVE  LET n   == updateDay(index, b, b, reward)
             day == b \div BlocksPerDay
         IN  /\ n \in Index /\ n.upto = index.upto
             /\ n.snapshots = index.snapshots
             /\ n.cumulative = index.cumulative + reward
             /\ DOMAIN n.days = DOMAIN index.days \cup {day}
             /\ \A d \in DOMAIN index.days \ {day} : n.days[d] = index.days[d]
             /\ n.days[day]
                  = [rateOpen |-> IF day \in DOMAIN index.days THEN index.days[day].rateOpen ELSE b,
                     rateClose |-> b, cumulative |-> n.cumulative]
<1> DEFINE day   == b \div BlocksPerDay
           total == index.cumulative + reward
           open  == IF day \in DOMAIN index.days THEN index.days[day].rateOpen ELSE b
           row   == [rateOpen |-> open, rateClose |-> b, cumulative |-> total]
           days  == [d \in DOMAIN index.days \cup {day} |-> IF d = day THEN row ELSE index.days[d]]
           n     == updateDay(index, b, b, reward)
<1>1. n = [index EXCEPT !.cumulative = total, !.days = days]
  BY DEF updateDay
<1>2. /\ day \in Nat /\ total \in Nat
      /\ DOMAIN index.days \in SUBSET Nat /\ index.days \in [DOMAIN index.days -> DayRow]
  <2>1. index.days \in UNION {[D -> DayRow] : D \in SUBSET Nat} /\ index.cumulative \in Nat
    BY DEF Index
  <2>2. PICK D \in SUBSET Nat : index.days \in [D -> DayRow]
    BY <2>1
  <2>3. day \in Nat
    BY DayNat
  <2>4. total \in Nat
    BY <2>1
  <2> HIDE DEF day, total
  <2>5. QED
    BY <2>2, <2>3, <2>4
<1>3. row \in DayRow
  BY <1>2 DEF DayRow
<1> HIDE DEF row
<1>4. days \in [DOMAIN index.days \cup {day} -> DayRow]
  BY <1>2, <1>3
<1>5. days \in UNION {[D -> DayRow] : D \in SUBSET Nat}
  <2>1. DOMAIN index.days \cup {day} \in SUBSET Nat
    BY <1>2
  <2>2. QED
    BY <1>4, <2>1
<1>6. /\ DOMAIN days = DOMAIN index.days \cup {day} /\ days[day] = row
      /\ \A d \in DOMAIN index.days \ {day} : days[d] = index.days[d]
  OBVIOUS
<1> HIDE DEF days, day, total
<1>7. /\ n \in Index /\ n.upto = index.upto /\ n.snapshots = index.snapshots
      /\ n.cumulative = total /\ n.days = days
  BY <1>1, <1>2, <1>5 DEF Index
<1>8. n.days[day] = [rateOpen |-> open, rateClose |-> b, cumulative |-> n.cumulative]
  BY <1>6, <1>7 DEF row
<1> HIDE DEF n
<1>9. QED
  BY <1>6, <1>7, <1>8 DEF n, day, total

\* A sample reads the rate at the block of its event.
LEMMA SampleRateIs ==
  ASSUME NEW index \in Index, NEW b \in Nat, NEW trigger \in Triggers, NEW reward \in Nat,
         NEW e, RewardOf(e) = reward
  PROVE  Handled(index, b, e, sampleRate(index, b, trigger, reward))
<1> DEFINE snap == [t |-> b, rate |-> b, trigger |-> trigger]
           i    == [index EXCEPT !.snapshots = Append(@, snap)]
<1>1. index.snapshots \in Seq([t : Nat, rate : Nat, trigger : Triggers])
  BY DEF Index
<1>2. Append(index.snapshots, snap) \in Seq([t : Nat, rate : Nat, trigger : Triggers])
  BY <1>1
<1>3. /\ i \in Index /\ i.upto = index.upto /\ i.cumulative = index.cumulative
      /\ i.days = index.days /\ i.snapshots = Append(index.snapshots, snap)
  BY <1>2 DEF Index
<1>4. sampleRate(index, b, trigger, reward) = updateDay(i, b, b, reward)
  BY DEF sampleRate
<1> HIDE DEF i
<1> DEFINE n   == updateDay(i, b, b, reward)
           day == b \div BlocksPerDay
<1>5. /\ n \in Index /\ n.upto = i.upto /\ n.snapshots = i.snapshots
      /\ n.cumulative = i.cumulative + reward
      /\ DOMAIN n.days = DOMAIN i.days \cup {day}
      /\ \A d \in DOMAIN i.days \ {day} : n.days[d] = i.days[d]
      /\ n.days[day] = [rateOpen |-> IF day \in DOMAIN i.days THEN i.days[day].rateOpen ELSE b,
                        rateClose |-> b, cumulative |-> n.cumulative]
  BY <1>3, UpdateDayIs
<1> HIDE DEF n
<1>6. Handled(index, b, e, n)
  BY <1>3, <1>5 DEF Handled
<1>7. QED
  BY <1>4, <1>6 DEF n

\* Each of the three handlers takes one such sample.
LEMMA HandleEventIs ==
  ASSUME NEW index \in Index, NEW b \in Nat, NEW e \in VaultEvents
  PROVE  Handled(index, b, e, HandleEvent(index, b, e))
<1>1. /\ index.flows \in Seq([t : Nat, kind : Triggers])
      /\ index.harvests \in Seq([t : Nat, rewardClaimed : Nat])
  BY DEF Index
<1>2. ASSUME NEW kind \in Triggers, NEW trigger \in Triggers, RewardOf(e) = 0
      PROVE  Handled(index, b, e,
               sampleRate([index EXCEPT !.flows = Append(@, [t |-> b, kind |-> kind])],
                          b, trigger, 0))
  <2> DEFINE i == [index EXCEPT !.flows = Append(@, [t |-> b, kind |-> kind])]
  <2>1. Append(index.flows, [t |-> b, kind |-> kind]) \in Seq([t : Nat, kind : Triggers])
    BY <1>1
  <2>2. /\ i \in Index /\ i.upto = index.upto /\ i.cumulative = index.cumulative
        /\ i.days = index.days /\ i.snapshots = index.snapshots
    BY <2>1 DEF Index
  <2> HIDE DEF i
  <2>3. Handled(i, b, e, sampleRate(i, b, trigger, 0))
    BY <2>2, <1>2, SampleRateIs
  <2>4. Handled(index, b, e, sampleRate(i, b, trigger, 0))
    BY <2>2, <2>3 DEF Handled
  <2>5. QED
    BY <2>4 DEF i
<1>3. CASE e.name = "Deposited"
  <2>1. HandleEvent(index, b, e) = handleDeposited(index, b, e) /\ RewardOf(e) = 0
    BY <1>3 DEF HandleEvent, RewardOf
  <2>2. "deposit" \in Triggers
    BY DEF Triggers
  <2>3. Handled(index, b, e,
          sampleRate([index EXCEPT !.flows = Append(@, [t |-> b, kind |-> "deposit"])],
                     b, "deposit", 0))
    BY <1>2, <2>1, <2>2
  <2>4. QED
    BY <2>1, <2>3 DEF handleDeposited
<1>4. CASE e.name = "Redeemed"
  <2>1. HandleEvent(index, b, e) = handleRedeemed(index, b, e) /\ RewardOf(e) = 0
    BY <1>4 DEF HandleEvent, RewardOf
  <2>2. "redeem" \in Triggers
    BY DEF Triggers
  <2>3. Handled(index, b, e,
          sampleRate([index EXCEPT !.flows = Append(@, [t |-> b, kind |-> "redeem"])],
                     b, "redeem", 0))
    BY <1>2, <2>1, <2>2
  <2>4. QED
    BY <2>1, <2>3 DEF handleRedeemed
<1>5. CASE e.name = "Harvested"
  <2> DEFINE i == [index EXCEPT !.harvests =
                     Append(@, [t |-> b, rewardClaimed |-> e.rewardClaimed])]
  <2>1. RewardOf(e) = e.rewardClaimed /\ e.rewardClaimed \in Nat
    BY <1>5, EventRecords DEF RewardOf
  <2>2. Append(index.harvests, [t |-> b, rewardClaimed |-> e.rewardClaimed])
          \in Seq([t : Nat, rewardClaimed : Nat])
    BY <1>1, <2>1
  <2>3. /\ i \in Index /\ i.upto = index.upto /\ i.cumulative = index.cumulative
        /\ i.days = index.days /\ i.snapshots = index.snapshots
    BY <2>2 DEF Index
  <2>4. HandleEvent(index, b, e) = sampleRate(i, b, "harvest", e.rewardClaimed)
    BY <1>5 DEF HandleEvent, handleHarvested
  <2> HIDE DEF i
  <2>5. Handled(i, b, e, sampleRate(i, b, "harvest", e.rewardClaimed))
    <3> DEFINE trigger == "harvest"
    <3>1. trigger \in Triggers
      BY DEF Triggers
    <3> HIDE DEF trigger
    <3>2. Handled(i, b, e, sampleRate(i, b, trigger, e.rewardClaimed))
      BY <2>1, <2>3, <3>1, SampleRateIs
    <3>3. QED
      BY <3>2 DEF trigger
  <2>6. QED
    BY <2>3, <2>4, <2>5 DEF Handled
<1>6. QED
  BY <1>3, <1>4, <1>5, EventRecords

(***************************************************************************)
(* The events of a block, one handler at a time.  FoldLeft is a fold over the*)
(* positions of the sequence that takes the last one first.                *)
(***************************************************************************)

Indexed(index, b, es) == FoldLeft(LAMBDA i, e : HandleEvent(i, b, e), index, es)

\* What the fold over a set s of positions is, given a table g of the folds over smaller sets.
FoldedAt(index, b, es, g, s) ==
  IF s = {} THEN index ELSE HandleEvent(g[s \ {Max(s)}], b, es[Max(s)])
FoldTable(index, b, es, g) ==
  g = [s \in SUBSET DOMAIN es |-> FoldedAt(index, b, es, g, s)]

\* The fold takes the positions of a set from the last to the first.
LEMMA LastPosition ==
  ASSUME NEW D, D \in SUBSET Nat, IsFiniteSet(D), NEW s \in SUBSET D, s # {}
  PROVE  /\ Max(s) \in s /\ s \ {Max(s)} \in SUBSET D
         /\ Cardinality(s) \in Nat
         /\ Cardinality(s \ {Max(s)}) = Cardinality(s) - 1
<1>1. IsFiniteSet(s) /\ s \in SUBSET Nat /\ Cardinality(s) \in Nat
  BY SubsetCard
<1>2. Max(s) \in s
  BY <1>1, MaxIsLargest
<1>3. QED
  BY <1>1, <1>2, FS_RemoveElement

\* The folds over all sets of positions exist, by the least size without one.
LEMMA FoldTableExists ==
  ASSUME NEW index, NEW b, NEW es, DOMAIN es \in SUBSET Nat, IsFiniteSet(DOMAIN es)
  PROVE  \E g : FoldTable(index, b, es, g)
<1> DEFINE D == DOMAIN es
           Upto(n, g) == \A s \in SUBSET D :
                           Cardinality(s) <= n => g[s] = FoldedAt(index, b, es, g, s)
           Stages == {n \in Nat : ~ \E g : Upto(n, g)}
<1>1. Stages = {}
  <2>1. SUFFICES ASSUME Stages # {} PROVE FALSE
    OBVIOUS
  <2>2. PICK n \in Stages : \A m \in Stages : n <= m
    <3>1. Stages \in SUBSET Nat OBVIOUS
    <3> HIDE DEF Stages
    <3>2. QED
      BY <2>1, <3>1, NatLeast
  <2>3. CASE n = 0
    <3> DEFINE g0 == [s \in SUBSET D |-> index]
    <3>1. Upto(0, g0)
      <4> SUFFICES ASSUME NEW s \in SUBSET D, Cardinality(s) <= 0
                   PROVE  g0[s] = FoldedAt(index, b, es, g0, s)
        OBVIOUS
      <4>1. s = {}
        BY SubsetCard
      <4>2. QED
        BY <4>1 DEF FoldedAt
    <3>2. QED
      BY <2>3, <3>1
  <2>4. CASE n # 0
    <3>1. n \in Nat /\ n - 1 \in Nat
      BY <2>4
    <3>2. n - 1 \notin Stages
      <4> HIDE DEF Stages
      <4>1. ASSUME n - 1 \in Stages PROVE FALSE
        <5>1. n <= n - 1
          BY <2>2, <4>1
        <5>2. QED
          BY <3>1, <5>1
      <4>2. QED
        BY <4>1
    <3>3. PICK g : Upto(n - 1, g)
      BY <3>1, <3>2
    <3> DEFINE h == [s \in SUBSET D |->
                       IF Cardinality(s) = n THEN FoldedAt(index, b, es, g, s) ELSE g[s]]
    <3>4. Upto(n, h)
      <4> SUFFICES ASSUME NEW s \in SUBSET D, Cardinality(s) <= n
                   PROVE  h[s] = FoldedAt(index, b, es, h, s)
        OBVIOUS
      <4>1. h[s] = FoldedAt(index, b, es, g, s)
        <5>1. CASE Cardinality(s) = n
          BY <5>1
        <5>2. CASE Cardinality(s) # n
          <6>1. Cardinality(s) <= n - 1
            BY <3>1, <5>2, SubsetCard
          <6>2. QED
            BY <3>3, <5>2, <6>1
        <5>3. QED
          BY <5>1, <5>2
      <4>2. FoldedAt(index, b, es, g, s) = FoldedAt(index, b, es, h, s)
        <5>1. CASE s = {}
          BY <5>1 DEF FoldedAt
        <5>2. CASE s # {}
          <6> DEFINE r == s \ {Max(s)}
          <6>1. r \in SUBSET D /\ Cardinality(r) # n
            BY <3>1, <5>2, LastPosition
          <6>2. h[r] = g[r]
            BY <6>1
          <6>3. QED
            BY <5>2, <6>2 DEF FoldedAt
        <5>3. QED
          BY <5>1, <5>2
      <4>3. QED
        BY <4>1, <4>2
    <3>5. QED
      BY <2>2, <3>4
  <2>5. QED
    BY <2>3, <2>4
<1>2. Cardinality(D) \in Nat
  BY FS_CardinalityType
<1>3. PICK g : Upto(Cardinality(D), g)
  BY <1>1, <1>2
<1> DEFINE f == [s \in SUBSET D |-> g[s]]
<1>4. ASSUME NEW s \in SUBSET D PROVE f[s] = FoldedAt(index, b, es, f, s)
  <2>1. f[s] = FoldedAt(index, b, es, g, s)
    BY <1>3, SubsetCard
  <2>2. CASE s = {}
    BY <2>1, <2>2 DEF FoldedAt
  <2>3. CASE s # {}
    BY <2>1, <2>3, LastPosition DEF FoldedAt
  <2>4. QED
    BY <2>2, <2>3
<1>5. FoldTable(index, b, es, f)
  BY <1>4 DEF FoldTable
<1>6. QED
  BY <1>5

\* FoldLeft is the entry of such a table for all positions.
LEMMA FoldFromTable ==
  ASSUME NEW index, NEW b, NEW es, DOMAIN es \in SUBSET Nat, IsFiniteSet(DOMAIN es)
  PROVE  \E g : FoldTable(index, b, es, g) /\ Indexed(index, b, es) = g[DOMAIN es]
<1> DEFINE iter == CHOOSE g : FoldTable(index, b, es, g)
<1>1. FoldTable(index, b, es, iter)
  BY FoldTableExists
<1>2. Indexed(index, b, es) = iter[DOMAIN es]
  BY DEF Indexed, FoldLeft, MapThenFoldSet, FoldTable, FoldedAt
<1>3. QED
  BY <1>1, <1>2

\* The states of the index between the handlers.
InSteps(index, b, es, after) ==
  /\ after[0] = index
  /\ \A k \in 1..Len(es) : after[k] = HandleEvent(after[k - 1], b, es[k])

\* So the index moves through the events in their order.
LEMMA IndexedInSteps ==
  ASSUME NEW index, NEW b, NEW es \in Seq(VaultEvents)
  PROVE  \E after : InSteps(index, b, es, after) /\ Indexed(index, b, es) = after[Len(es)]
<1>1. Len(es) \in Nat /\ DOMAIN es = 1..Len(es)
  OBVIOUS
<1>2. DOMAIN es \in SUBSET Nat /\ IsFiniteSet(DOMAIN es)
  BY <1>1, FS_Interval
<1>3. PICK g : FoldTable(index, b, es, g) /\ Indexed(index, b, es) = g[DOMAIN es]
  BY <1>2, FoldFromTable
<1> DEFINE after == [k \in 0..Len(es) |-> g[1..k]]
<1>4. ASSUME NEW s \in SUBSET DOMAIN es PROVE g[s] = FoldedAt(index, b, es, g, s)
  BY <1>3 DEF FoldTable
<1>5. after[0] = index
  <2>1. 1..0 = {} /\ {} \in SUBSET DOMAIN es
    OBVIOUS
  <2>2. g[{}] = index
    BY <1>4, <2>1 DEF FoldedAt
  <2>3. QED
    BY <1>1, <2>1, <2>2
<1>6. ASSUME NEW k \in 1..Len(es) PROVE after[k] = HandleEvent(after[k - 1], b, es[k])
  <2>1. 1..k \in SUBSET DOMAIN es /\ 1..k # {} /\ 1..k \in SUBSET Nat
    BY <1>1
  <2>2. IsFiniteSet(1..k)
    BY <1>1, FS_Interval
  <2>3. Max(1..k) = k
    <3>1. Max(1..k) \in 1..k /\ \A n \in 1..k : n <= Max(1..k)
      BY <2>1, <2>2, MaxIsLargest
    <3>2. k <= Max(1..k) /\ Max(1..k) <= k
      BY <1>1, <3>1
    <3>3. QED
      BY <1>1, <3>1, <3>2
  <2>4. (1..k) \ {k} = 1..(k - 1)
    BY <1>1
  <2>5. g[1..k] = HandleEvent(g[1..(k - 1)], b, es[k])
    BY <1>4, <2>1, <2>3, <2>4 DEF FoldedAt
  <2>6. k \in 0..Len(es) /\ k - 1 \in 0..Len(es)
    BY <1>1
  <2>7. after[k] = g[1..k] /\ after[k - 1] = g[1..(k - 1)]
    BY <2>6
  <2>8. QED
    BY <2>5, <2>7
<1>7. after[Len(es)] = g[DOMAIN es]
  BY <1>1
<1> HIDE DEF after
<1>8. QED
  BY <1>3, <1>5, <1>6, <1>7 DEF InSteps

\* The index after k of a block's events.
Grown(index, b, es, k, n) ==
  LET m == Len(index.snapshots)
      day == b \div BlocksPerDay
  IN
  /\ n \in Index /\ n.upto = index.upto
  /\ Len(n.snapshots) = m + k
  /\ \A i \in 1..m : n.snapshots[i] = index.snapshots[i]
  /\ \A i \in (m + 1)..(m + k) : n.snapshots[i].t = b /\ n.snapshots[i].rate = b
  /\ n.cumulative
       = index.cumulative + SumFunctionOnSet([i \in DOMAIN es |-> RewardOf(es[i])], 1..k)
  /\ k = 0 => n.days = index.days
  /\ k # 0 =>
       /\ DOMAIN n.days = DOMAIN index.days \cup {day}
       /\ \A d \in DOMAIN index.days \ {day} : n.days[d] = index.days[d]
       /\ n.days[day]
            = [rateOpen |-> IF day \in DOMAIN index.days THEN index.days[day].rateOpen ELSE b,
               rateClose |-> b, cumulative |-> n.cumulative]

\* One more event.
LEMMA GrownStep ==
  ASSUME NEW index \in Index, NEW b \in Nat, NEW es \in Seq(VaultEvents), NEW k \in 1..Len(es),
         NEW p, Grown(index, b, es, k - 1, p), NEW n, Handled(p, b, es[k], n)
  PROVE  Grown(index, b, es, k, n)
<1> DEFINE m == Len(index.snapshots)
           day == b \div BlocksPerDay
           reward == [i \in DOMAIN es |-> RewardOf(es[i])]
<1>1. /\ m \in Nat /\ k \in Nat /\ k # 0 /\ k - 1 \in Nat /\ Len(es) \in Nat
      /\ DOMAIN es = 1..Len(es)
  BY DEF Index
<1>2. p \in Index /\ n \in Index /\ n.upto = index.upto
  BY DEF Grown, Handled
<1>3. /\ p.snapshots \in Seq([t : Nat, rate : Nat, trigger : Triggers])
      /\ Len(p.snapshots) = m + (k - 1)
      /\ \A i \in 1..m : p.snapshots[i] = index.snapshots[i]
      /\ \A i \in (m + 1)..(m + (k - 1)) : p.snapshots[i].t = b /\ p.snapshots[i].rate = b
  BY <1>2 DEF Grown, Index
<1>4. PICK trigger \in Triggers :
        n.snapshots = Append(p.snapshots, [t |-> b, rate |-> b, trigger |-> trigger])
  BY DEF Handled
<1> HIDE DEF m
<1>5. /\ Len(n.snapshots) = m + k
      /\ \A i \in 1..(m + (k - 1)) : n.snapshots[i] = p.snapshots[i]
      /\ n.snapshots[m + k] = [t |-> b, rate |-> b, trigger |-> trigger]
  <2> DEFINE snap == [t |-> b, rate |-> b, trigger |-> trigger]
  <2>1. snap \in [t : Nat, rate : Nat, trigger : Triggers]
    OBVIOUS
  <2> HIDE DEF snap
  <2>2. /\ Len(n.snapshots) = (m + (k - 1)) + 1
        /\ \A i \in 1..(m + (k - 1)) : n.snapshots[i] = p.snapshots[i]
        /\ n.snapshots[(m + (k - 1)) + 1] = snap
    BY <1>3, <1>4, <2>1 DEF snap
  <2>3. (m + (k - 1)) + 1 = m + k
    BY <1>1
  <2>4. QED
    BY <2>2, <2>3 DEF snap
<1>6. \A i \in 1..m : n.snapshots[i] = index.snapshots[i]
  BY <1>1, <1>3, <1>5
<1>7. ASSUME NEW i \in (m + 1)..(m + k)
      PROVE  n.snapshots[i].t = b /\ n.snapshots[i].rate = b
  <2>1. CASE i = m + k
    BY <1>5, <2>1
  <2>2. CASE i # m + k
    <3>1. i \in (m + 1)..(m + (k - 1)) /\ i \in 1..(m + (k - 1))
      BY <1>1, <2>2
    <3>2. QED
      BY <1>3, <1>5, <3>1
  <2>3. QED
    BY <2>1, <2>2
<1>8. n.cumulative = index.cumulative + SumFunctionOnSet(reward, 1..k)
  <2>1. IsFiniteSet(1..k) /\ IsFiniteSet(1..(k - 1)) /\ (1..k) \ {k} = 1..(k - 1) /\ k \in 1..k
    <3>1. 1 \in Int /\ k \in Int /\ k - 1 \in Int /\ k >= 1
      BY <1>1
    <3>2. IsFiniteSet(1..k) /\ IsFiniteSet(1..(k - 1))
      BY <3>1, FS_Interval
    <3>3. QED
      BY <3>1, <3>2
  <2>2. \A i \in 1..k : reward[i] \in Nat
    <3>1. ASSUME NEW i \in 1..k PROVE reward[i] \in Nat
      <4>1. i \in DOMAIN es /\ es[i] \in VaultEvents
        BY <1>1
      <4>2. QED
        BY <4>1, EventRecords
    <3>2. QED
      BY <3>1
  <2>3. reward[k] = RewardOf(es[k])
    BY <1>1
  <2>4. \A i \in 1..(k - 1) : reward[i] \in Nat
    BY <1>1, <2>2, 1..(k - 1) \subseteq 1..k
  <2>5. p.cumulative = index.cumulative + SumFunctionOnSet(reward, 1..(k - 1))
    BY DEF Grown
  <2>6. n.cumulative = p.cumulative + reward[k]
    BY <2>3 DEF Handled
  <2> HIDE DEF reward
  <2>7. SumFunctionOnSet(reward, 1..k) = reward[k] + SumFunctionOnSet(reward, 1..(k - 1))
    BY <2>1, <2>2, SumRemove
  <2>8. SumFunctionOnSet(reward, 1..(k - 1)) \in Nat /\ reward[k] \in Nat
    BY <2>1, <2>2, <2>4, SumNat
  <2>9. index.cumulative \in Nat
    BY DEF Index
  <2>10. QED
    BY <2>5, <2>6, <2>7, <2>8, <2>9
<1> DEFINE open == IF day \in DOMAIN index.days THEN index.days[day].rateOpen ELSE b
<1>9. /\ DOMAIN n.days = DOMAIN index.days \cup {day}
      /\ \A d \in DOMAIN index.days \ {day} : n.days[d] = index.days[d]
      /\ n.days[day] = [rateOpen |-> open, rateClose |-> b, cumulative |-> n.cumulative]
  <2>0. /\ DOMAIN n.days = DOMAIN p.days \cup {day}
        /\ \A d \in DOMAIN p.days \ {day} : n.days[d] = p.days[d]
        /\ n.days[day] = [rateOpen |-> IF day \in DOMAIN p.days THEN p.days[day].rateOpen ELSE b,
                          rateClose |-> b, cumulative |-> n.cumulative]
    BY DEF Handled
  <2>1. CASE k - 1 = 0
    <3>1. p.days = index.days
      BY <2>1 DEF Grown
    <3>2. QED
      BY <2>0, <3>1
  <2>2. CASE k - 1 # 0
    <3>1. /\ DOMAIN p.days = DOMAIN index.days \cup {day}
          /\ \A d \in DOMAIN index.days \ {day} : p.days[d] = index.days[d]
          /\ p.days[day] = [rateOpen |-> open, rateClose |-> b, cumulative |-> p.cumulative]
      BY <2>2 DEF Grown
    <3>2. p.days[day].rateOpen = open
      BY <3>1
    <3> HIDE DEF open, day
    <3>3. QED
      BY <2>0, <3>1, <3>2
  <2>3. QED
    BY <2>1, <2>2
<1>10. QED
  BY <1>1, <1>2, <1>5, <1>6, <1>7, <1>8, <1>9 DEF Grown, m

\* All of them: by the least number of events for which it would fail.
LEMMA IndexedIs ==
  ASSUME NEW index \in Index, NEW b \in Nat, NEW es \in Seq(VaultEvents)
  PROVE  Grown(index, b, es, Len(es), Indexed(index, b, es))
<1>1. PICK after : InSteps(index, b, es, after) /\ Indexed(index, b, es) = after[Len(es)]
  BY IndexedInSteps
<1> DEFINE Wrong == {k \in 0..Len(es) : ~ Grown(index, b, es, k, after[k])}
<1>2. Len(es) \in Nat
  OBVIOUS
<1>3. ASSUME Wrong # {} PROVE FALSE
  <2>1. PICK k \in Wrong : \A j \in Wrong : k <= j
    <3>1. Wrong \in SUBSET Nat
      BY <1>2
    <3> HIDE DEF Wrong
    <3>2. QED
      BY <1>3, <3>1, NatLeast
  <2>2. k \in 0..Len(es) /\ k \in Nat /\ ~ Grown(index, b, es, k, after[k])
    BY <1>2
  <2>3. CASE k = 0
    <3>1. after[0] = index
      BY <1>1 DEF InSteps
    <3>2. Len(index.snapshots) \in Nat /\ index.cumulative \in Nat
      BY DEF Index
    <3>3. 1..0 = {} /\ SumFunctionOnSet([i \in DOMAIN es |-> RewardOf(es[i])], {}) = 0
      BY SumEmpty
    <3>4. Grown(index, b, es, 0, index)
      BY <3>2, <3>3 DEF Grown
    <3>5. QED
      BY <2>2, <2>3, <3>1, <3>4
  <2>4. CASE k # 0
    <3>1. k \in 1..Len(es) /\ k - 1 \in 0..Len(es) /\ ~(k <= k - 1)
      BY <2>2, <2>4
    <3>2. k - 1 \notin Wrong
      <4> HIDE DEF Wrong
      <4>1. QED
        BY <2>1, <3>1
    <3>3. Grown(index, b, es, k - 1, after[k - 1])
      BY <3>1, <3>2
    <3>4. after[k] = HandleEvent(after[k - 1], b, es[k])
      BY <1>1, <3>1 DEF InSteps
    <3>5. es[k] \in VaultEvents /\ after[k - 1] \in Index
      BY <3>1, <3>3 DEF Grown
    <3>6. Handled(after[k - 1], b, es[k], after[k])
      BY <3>4, <3>5, HandleEventIs
    <3>7. Grown(index, b, es, k, after[k])
      BY <3>1, <3>3, <3>6, GrownStep
    <3>8. QED
      BY <2>2, <3>7
  <2>5. QED
    BY <2>3, <2>4
<1>4. Grown(index, b, es, Len(es), after[Len(es)])
  BY <1>2, <1>3
<1>5. QED
  BY <1>1, <1>4

(***************************************************************************)
(* The points of the chart.  Distinct times have one order: the place of a *)
(* point is the number of points up to its time.                           *)
(***************************************************************************)

\* The place of p in the order of time.
UpTo(S, p) == {q \in S : q.t <= p.t}
Place(S, p) == Cardinality(UpTo(S, p))

\* Places are numbers up to the number of points, in the order of time.
LEMMA PlaceInOrder ==
  ASSUME NEW S, IsFiniteSet(S), \A p \in S : p.t \in Nat, NEW p \in S, NEW q \in S
  PROVE  /\ Place(S, p) \in 1..Cardinality(S)
         /\ Place(S, p) < Place(S, q) <=> p.t < q.t
<1>1. /\ IsFiniteSet(UpTo(S, p)) /\ IsFiniteSet(UpTo(S, q)) /\ Cardinality(S) \in Nat
      /\ Place(S, p) \in Nat /\ Place(S, q) \in Nat /\ Place(S, p) <= Cardinality(S)
      /\ UpTo(S, p) \in SUBSET S /\ UpTo(S, q) \in SUBSET S
  BY FS_Subset, FS_CardinalityType DEF Place, UpTo
<1>2. p \in UpTo(S, p) /\ q \in UpTo(S, q) /\ p.t \in Nat /\ q.t \in Nat
  BY DEF UpTo
<1>3. Place(S, p) # 0
  BY <1>1, <1>2, FS_EmptySet DEF Place
<1>4. ASSUME p.t < q.t PROVE Place(S, p) < Place(S, q)
  <2>1. UpTo(S, p) \subseteq UpTo(S, q) /\ q \notin UpTo(S, p)
    BY <1>2, <1>4 DEF UpTo
  <2>2. Place(S, p) <= Place(S, q) /\ Place(S, p) # Place(S, q)
    BY <1>1, <1>2, <2>1, FS_Subset DEF Place
  <2>3. QED
    BY <1>1, <2>2
<1>5. ASSUME q.t <= p.t PROVE Place(S, q) <= Place(S, p)
  <2>1. UpTo(S, q) \subseteq UpTo(S, p)
    BY <1>2, <1>5 DEF UpTo
  <2>2. QED
    BY <1>1, <2>1, FS_Subset DEF Place
<1>6. QED
  BY <1>1, <1>2, <1>3, <1>4, <1>5

InOrder(s) == \A i, j \in DOMAIN s : i < j => s[i].t < s[j].t

\* Points of distinct times can be put in order.
LEMMA OrderExists ==
  ASSUME NEW S, IsFiniteSet(S), \A p \in S : p.t \in Nat,
         \A p, q \in S : p.t = q.t => p = q
  PROVE  \E s \in [1..Cardinality(S) -> S] : InOrder(s)
<1> DEFINE n == Cardinality(S)
           place == [p \in S |-> Place(S, p)]
           s == [k \in 1..n |-> CHOOSE p \in S : place[p] = k]
<1>1. n \in Nat /\ IsFiniteSet(1..n) /\ Cardinality(1..n) = n
  <2>1. n \in Nat
    BY FS_CardinalityType
  <2> HIDE DEF n
  <2>2. QED
    BY <2>1, FS_Interval
<1>2. place \in [S -> 1..n]
  BY PlaceInOrder
<1>3. \A p, q \in S : place[p] < place[q] <=> p.t < q.t
  BY PlaceInOrder
<1>4. ASSUME NEW p \in S, NEW q \in S, place[p] = place[q] PROVE p = q
  <2>1. place[p] \in Nat /\ place[q] \in Nat
    BY <1>1, <1>2
  <2> HIDE DEF place
  <2>2. ~(p.t < q.t) /\ ~(q.t < p.t)
    BY <1>3, <1>4, <2>1
  <2>3. QED
    BY <2>2
<1>5. place \in Injection(S, 1..n)
  BY <1>2, <1>4 DEF Injection, IsInjective
<1>6. place \in Surjection(S, 1..n)
  BY <1>1, <1>5, FS_Injection
<1>7. ASSUME NEW k \in 1..n PROVE s[k] \in S /\ place[s[k]] = k
  <2>1. \E p \in S : place[p] = k
    BY <1>6 DEF Surjection
  <2>2. QED
    BY <2>1
<1> HIDE DEF s, place, n
<1>8. ASSUME NEW i \in 1..n, NEW j \in 1..n, i < j PROVE s[i].t < s[j].t
  BY <1>3, <1>7, <1>8
<1>9. s \in [1..n -> S]
  BY <1>7 DEF s
<1>10. InOrder(s)
  BY <1>8, <1>9 DEF InOrder
<1>11. QED
  BY <1>9, <1>10 DEF n

\* Put in order, none is left out.
LEMMA OrderCovers ==
  ASSUME NEW S, IsFiniteSet(S), \A p \in S : p.t \in Nat,
         NEW s \in [1..Cardinality(S) -> S], InOrder(s), NEW p \in S
  PROVE  \E i \in DOMAIN s : s[i] = p
<1> DEFINE n == Cardinality(S)
<1>1. n \in Nat
  BY FS_CardinalityType
<1> HIDE DEF n
<1>2. IsFiniteSet(1..n) /\ Cardinality(1..n) = n
  BY <1>1, FS_Interval
<1>3. s \in [1..n -> S]
  BY DEF n
<1>4. ASSUME NEW i \in 1..n, NEW j \in 1..n, s[i] = s[j] PROVE i = j
  <2>1. ~(s[i].t < s[j].t) /\ ~(s[j].t < s[i].t)
    <3>1. s[i].t \in Nat
      BY <1>3
    <3>2. QED
      BY <1>4, <3>1
  <2>2. ~(i < j) /\ ~(j < i)
    BY <1>3, <2>1 DEF InOrder
  <2>3. QED
    BY <1>1, <2>2
<1>5. s \in Injection(1..n, S)
  BY <1>3, <1>4 DEF Injection, IsInjective
<1>6. s \in Surjection(1..n, S)
  BY <1>2, <1>5, FS_Injection DEF n
<1>7. QED
  BY <1>3, <1>6 DEF Surjection

\* A function on 1..n is a sequence.
LEMMA FunctionIsSeq ==
  ASSUME NEW n \in Nat, NEW S, NEW s \in [1..n -> S]
  PROVE  s \in Seq(S) /\ Len(s) = n
  OBVIOUS

Row == [t : Nat, rate : Nat, trigger : Triggers]

\* The page's points: those of the rows, one for each time, in order.
PointsOf(rows, s) ==
  /\ s \in Seq([t : Nat, rate : Nat]) /\ InOrder(s)
  /\ \A i \in DOMAIN s : \E j \in DOMAIN rows : s[i].t = rows[j].t /\ s[i].rate = rows[j].rate
  /\ \A j \in DOMAIN rows : \E i \in DOMAIN s : s[i].t = rows[j].t

\* The chart of the rows asked for holds a point for each of their times and no other.
LEMMA DedupeIs ==
  ASSUME NEW rows \in Seq(Row)
  PROVE  PointsOf(rows, dedupeByTimestamp(rows))
<1> DEFINE last == {i \in DOMAIN rows : \A j \in DOMAIN rows : rows[j].t = rows[i].t => j <= i}
           kept == {[t |-> rows[i].t, rate |-> rows[i].rate] : i \in last}
           s == dedupeByTimestamp(rows)
           n == Cardinality(kept)
<1>1. /\ Len(rows) \in Nat /\ DOMAIN rows = 1..Len(rows)
      /\ \A i \in DOMAIN rows : rows[i].t \in Nat /\ rows[i].rate \in Nat
  <2>1. \A i \in DOMAIN rows : rows[i] \in Row
    OBVIOUS
  <2>2. QED
    BY <2>1 DEF Row
<1>2. IsFiniteSet(last)
  <2>1. IsFiniteSet(1..Len(rows))
    BY <1>1, FS_Interval
  <2>2. last \in SUBSET (1..Len(rows))
    BY <1>1
  <2> HIDE DEF last
  <2>3. QED
    BY <2>1, <2>2, FS_Subset
<1>3. IsFiniteSet(kept)
  <2> DEFINE f == [i \in last |-> [t |-> rows[i].t, rate |-> rows[i].rate]]
  <2>1. f \in Surjection(last, kept)
    BY DEF Surjection
  <2> HIDE DEF f, last, kept
  <2>2. QED
    BY <1>2, <2>1, FS_Surjection
<1>4. \A p \in kept : p.t \in Nat /\ p \in [t : Nat, rate : Nat]
  BY <1>1
<1>5. ASSUME NEW p \in kept, NEW q \in kept, p.t = q.t PROVE p = q
  <2>1. PICK i \in last : p = [t |-> rows[i].t, rate |-> rows[i].rate]
    OBVIOUS
  <2>2. PICK j \in last : q = [t |-> rows[j].t, rate |-> rows[j].rate]
    OBVIOUS
  <2>3. i <= j /\ j <= i /\ i \in Nat /\ j \in Nat
    BY <1>1, <1>5, <2>1, <2>2
  <2>4. QED
    BY <2>1, <2>2, <2>3
<1>6. s \in [1..n -> kept] /\ InOrder(s)
  <2>1. \E z \in [1..n -> kept] : InOrder(z)
    <3> HIDE DEF kept
    <3>1. QED
      BY <1>3, <1>4, <1>5, OrderExists
  <2>2. s = CHOOSE z \in [1..n -> kept] : InOrder(z)
    BY DEF dedupeByTimestamp, InOrder
  <2> HIDE DEF s, n, kept
  <2>3. QED
    BY <2>1, <2>2
<1>7. n \in Nat
  BY <1>3, FS_CardinalityType
<1>8. ASSUME NEW i \in DOMAIN s
      PROVE  \E j \in DOMAIN rows : s[i].t = rows[j].t /\ s[i].rate = rows[j].rate
  <2>1. s[i] \in kept
    BY <1>6
  <2> HIDE DEF s
  <2>2. QED
    BY <2>1
<1>9. ASSUME NEW j \in DOMAIN rows PROVE \E i \in DOMAIN s : s[i].t = rows[j].t
  <2> DEFINE same == {k \in DOMAIN rows : rows[k].t = rows[j].t}
             k == Max(same)
  <2>1. same \in SUBSET (1..Len(rows)) /\ same \in SUBSET Nat /\ same # {}
    BY <1>1
  <2>2. IsFiniteSet(same)
    <3>1. IsFiniteSet(1..Len(rows))
      BY <1>1, FS_Interval
    <3> HIDE DEF same
    <3>2. QED
      BY <2>1, <3>1, FS_Subset
  <2>3. k \in same /\ \A i \in same : i <= k
    <3> HIDE DEF same
    <3>1. QED
      BY <2>1, <2>2, MaxIsLargest
  <2> HIDE DEF k
  <2>4. k \in last /\ rows[k].t = rows[j].t
    BY <2>3
  <2> DEFINE p == [t |-> rows[k].t, rate |-> rows[k].rate]
  <2>5. p \in kept /\ p.t = rows[j].t
    BY <2>4
  <2>6. \E i \in DOMAIN s : s[i] = p
    <3> HIDE DEF s, kept, p
    <3>1. QED
      BY <1>3, <1>4, <1>6, <2>5, OrderCovers DEF n
  <2>7. QED
    BY <2>5, <2>6
<1>10. s \in Seq([t : Nat, rate : Nat])
  <2> HIDE DEF s, n, kept
  <2>1. s \in [1..n -> [t : Nat, rate : Nat]]
    BY <1>4, <1>6
  <2> DEFINE P == [t : Nat, rate : Nat]
  <2>2. s \in [1..n -> P]
    BY <2>1
  <2> HIDE DEF P
  <2>3. s \in Seq(P)
    BY <1>7, <2>2, FunctionIsSeq
  <2>4. QED
    BY <2>3 DEF P
<1> HIDE DEF s
<1>11. QED
  BY <1>6, <1>8, <1>9, <1>10 DEF PointsOf, s

(***************************************************************************)
(* The invariant.                                                          *)
(***************************************************************************)

\* Every block read left a snapshot of its own, in order, if it held events.
SnapshotsOK ==
  LET snaps == store.snapshots IN
  /\ \A i \in DOMAIN snaps : snaps[i].rate = snaps[i].t /\ snaps[i].t \in 1..store.upto
  /\ \A i, j \in DOMAIN snaps : i <= j => snaps[i].t <= snaps[j].t
  /\ \A b \in 1..store.upto : blocks[b] # << >> => \E i \in DOMAIN snaps : snaps[i].t = b

\* A day's row spans the blocks of the day, and carries what was compounded by the last.
DayOK(d, row) ==
  /\ row.rateOpen \in BlocksOfDay(d) /\ row.rateClose \in BlocksOfDay(d)
  /\ \A b \in BlocksOfDay(d) : row.rateOpen <= b /\ b <= row.rateClose
  /\ row.cumulative = HarvestedUpTo(row.rateClose)

DaysOK ==
  /\ DOMAIN store.days = DaysIndexed
  /\ \A d \in DaysIndexed : DayOK(d, store.days[d])
  /\ store.cumulative = HarvestedUpTo(store.upto)
  /\ IsFiniteSet(EventsUpTo(store.upto))

\* Rows that can be shown of the blocks bs: each rate of its own block, in order and
\* without gaps.
ChartOf(bs, rows) ==
  /\ rows \in Seq([t : Nat, rate : Nat]) /\ InOrder(rows)
  /\ \A i \in DOMAIN rows : rows[i].rate = rows[i].t /\ rows[i].t <= Len(bs)
  /\ \A b \in 1..Len(bs) :
       bs[b] # << >> /\ (\E i \in DOMAIN rows : rows[i].t > b)
         => \E i \in DOMAIN rows : rows[i].t = b

LoadsOK ==
  /\ DOMAIN loads = Loads
  /\ shownBy = "rates" =>
       /\ ChartOf(blocks, points)
       /\ \A i \in Loads : loads[i].step = "answered" => ChartOf(blocks, loads[i].rows)

\* Samples taken by now, of rates up to the newest: none runs backwards, and none shows a
\* rate before it was there.
SamplesOK(s, now, newest) ==
  /\ s \in Seq([t : Nat, rate : Nat])
  /\ \A i \in DOMAIN s : s[i].rate <= s[i].t /\ s[i].t <= now /\ s[i].rate <= newest
  /\ \A i, j \in DOMAIN s : i < j => s[i].t <= s[j].t /\ s[i].rate <= s[j].rate

SessionOK ==
  /\ read \in Nat /\ read <= head /\ polled \in {0, read}
  /\ SamplesOK(sampled, head, read)

HistoryInv ==
  /\ blocks \in Seq(Seq(VaultEvents)) /\ store \in Index /\ store.upto <= head
  /\ SnapshotsOK /\ DaysOK /\ LoadsOK /\ SessionOK

\* A block more does not change what earlier ones hold.
LEMMA HistoryKept ==
  ASSUME blocks \in Seq(Seq(VaultEvents)), NEW es \in Seq(VaultEvents),
         blocks' = Append(blocks, es) \/ blocks' = blocks
  PROVE  /\ blocks' \in Seq(Seq(VaultEvents)) /\ head <= Len(blocks')
         /\ \A b \in 1..head : blocks'[b] = blocks[b]
<1> DEFINE T == Seq(VaultEvents)
<1>1. blocks \in Seq(T) /\ es \in T
  OBVIOUS
<1> HIDE DEF T
<1>2. /\ Append(blocks, es) \in Seq(T) /\ Len(Append(blocks, es)) = Len(blocks) + 1
      /\ \A b \in 1..Len(blocks) : Append(blocks, es)[b] = blocks[b]
      /\ Len(blocks) \in Nat
  BY <1>1
<1>3. CASE blocks' = blocks
  BY <1>1, <1>2, <1>3 DEF head, T
<1>4. CASE blocks' = Append(blocks, es)
  BY <1>2, <1>4 DEF head, T
<1>5. QED
  BY <1>3, <1>4

\* Nor what was harvested in them.
LEMMA HarvestedKept ==
  ASSUME blocks \in Seq(Seq(VaultEvents)), blocks' \in Seq(Seq(VaultEvents)),
         \A b \in 1..head : blocks'[b] = blocks[b],
         NEW c \in 0..head
  PROVE  /\ EventsUpTo(c)' = EventsUpTo(c) /\ HarvestedUpTo(c)' = HarvestedUpTo(c)
<1>1. \A k \in 1..c : blocks'[k] = blocks[k]
  BY DEF head
<1> DEFINE E(bs) == UNION {{k} \X DOMAIN bs[k] : k \in 1..c}
           R(bs) == [k \in E(bs) |-> RewardOf(bs[k[1]][k[2]])]
<1>2. EventsUpTo(c) = E(blocks) /\ EventsUpTo(c)' = E(blocks')
  BY DEF EventsUpTo
<1>3. E(blocks) = E(blocks')
  BY <1>1
<1>4. R(blocks) = R(blocks')
  <2>1. ASSUME NEW k \in E(blocks) PROVE blocks[k[1]] = blocks'[k[1]]
    BY <1>1
  <2>2. QED
    BY <1>3, <2>1
<1>5. /\ HarvestedUpTo(c) = SumFunctionOnSet(R(blocks), E(blocks))
      /\ HarvestedUpTo(c)' = SumFunctionOnSet(R(blocks'), E(blocks'))
  BY DEF HarvestedUpTo, EventsUpTo
<1> HIDE DEF E, R
<1>6. QED
  BY <1>2, <1>3, <1>4, <1>5

\* What is harvested by the end of a block: what was before it, and its own events.
LEMMA HarvestedStep ==
  ASSUME blocks \in Seq(Seq(VaultEvents)), NEW c \in Nat, c < head, IsFiniteSet(EventsUpTo(c))
  PROVE  /\ IsFiniteSet(EventsUpTo(c + 1))
         /\ HarvestedUpTo(c + 1)
              = HarvestedUpTo(c)
                + SumFunctionOnSet([i \in DOMAIN blocks[c + 1] |-> RewardOf(blocks[c + 1][i])],
                                   1..Len(blocks[c + 1]))
<1> DEFINE b == c + 1
           es == blocks[b]
           n == Len(es)
           r == [i \in DOMAIN es |-> RewardOf(es[i])]
           E == EventsUpTo(c)
           F == EventsUpTo(b)
           R == [k \in F |-> RewardOf(blocks[k[1]][k[2]])]
           P(j) == E \cup ({b} \X (1..j))
<1>1. /\ b \in 1..Len(blocks) /\ es \in Seq(VaultEvents) /\ n \in Nat /\ DOMAIN es = 1..n
      /\ \A k \in 1..Len(blocks) : blocks[k] \in Seq(VaultEvents)
  BY DEF head
<1>2. F = P(n)
  <2>1. 1..b = (1..c) \cup {b}
    OBVIOUS
  <2>2. F = E \cup ({b} \X DOMAIN es)
    BY <2>1 DEF EventsUpTo
  <2>3. QED
    BY <1>1, <2>2
<1>3. \A j \in Nat : <<b, j>> \notin E
  BY DEF EventsUpTo
<1>4. \A k \in F : R[k] \in Nat
  <2>1. ASSUME NEW k \in F PROVE RewardOf(blocks[k[1]][k[2]]) \in Nat
    <3>1. PICK a \in 1..b : k \in {a} \X DOMAIN blocks[a]
      BY DEF EventsUpTo
    <3>2. k[1] = a /\ k[2] \in DOMAIN blocks[a]
      BY <3>1
    <3>3. a \in 1..Len(blocks)
      BY <1>1
    <3>4. blocks[a] \in Seq(VaultEvents)
      BY <1>1, <3>3
    <3>5. blocks[a][k[2]] \in VaultEvents
      BY <3>2, <3>4
    <3>6. QED
      BY <3>2, <3>5, EventRecords
  <2>2. QED
    BY <2>1
<1>5. \A i \in 1..n : <<b, i>> \in F /\ R[<<b, i>>] = r[i] /\ r[i] \in Nat
  <2>1. ASSUME NEW i \in 1..n PROVE <<b, i>> \in F /\ R[<<b, i>>] = r[i]
    <3>1. <<b, i>> \in F
      BY <1>2
    <3>2. QED
      BY <1>1, <3>1
  <2>2. QED
    BY <1>4, <2>1
<1>6. HarvestedUpTo(b) = SumFunctionOnSet(R, F)
  BY DEF HarvestedUpTo
<1>7. HarvestedUpTo(c) = SumFunctionOnSet(R, E)
  <2> DEFINE Q == [k \in E |-> RewardOf(blocks[k[1]][k[2]])]
  <2>1. HarvestedUpTo(c) = SumFunctionOnSet(Q, E)
    BY DEF HarvestedUpTo
  <2>2. E \subseteq F
    BY <1>2
  <2>3. \A k \in E : Q[k] = R[k] /\ Q[k] \in Int
    BY <1>4, <2>2
  <2> HIDE DEF Q, R, E
  <2>4. SumFunctionOnSet(Q, E) = SumFunctionOnSet(R, E)
    BY <2>3, SumSame DEF E
  <2>5. QED
    BY <2>1, <2>4
<1> HIDE DEF R, r, E, F, b, es, n
<1>8. ASSUME NEW j \in 0..n
      PROVE  /\ IsFiniteSet(P(j)) /\ IsFiniteSet(1..j)
             /\ SumFunctionOnSet(R, P(j)) = SumFunctionOnSet(R, E) + SumFunctionOnSet(r, 1..j)
  <2> DEFINE Right(k) == /\ IsFiniteSet(P(k))
                         /\ SumFunctionOnSet(R, P(k))
                              = SumFunctionOnSet(R, E) + SumFunctionOnSet(r, 1..k)
             Wrong == {k \in 0..n : ~ Right(k)}
  <2>0. \A k \in 0..n : P(k) \subseteq F
    BY <1>1, <1>2
  <2>1. SumFunctionOnSet(R, E) \in Nat
    <3>1. \A k \in E : R[k] \in Nat
      BY <1>2, <1>4
    <3>2. QED
      BY <3>1, SumNat DEF E
  <2>2. ASSUME Wrong # {} PROVE FALSE
    <3>1. PICK k \in Wrong : \A i \in Wrong : k <= i
      <4>1. Wrong \in SUBSET Nat
        BY <1>1
      <4> HIDE DEF Wrong
      <4>2. QED
        BY <2>2, <4>1, NatLeast
    <3>2. k \in 0..n /\ k \in Nat /\ ~ Right(k)
      BY <1>1
    <3>3. CASE k = 0
      <4>1. P(0) = E /\ 1..0 = {}
        OBVIOUS
      <4>2. SumFunctionOnSet(r, {}) = 0
        BY SumEmpty
      <4>3. Right(0)
        <5>1. IsFiniteSet(1..0) /\ IsFiniteSet(P(0))
          BY <4>1, FS_EmptySet DEF E
        <5> DEFINE total == SumFunctionOnSet(R, E)
        <5>2. SumFunctionOnSet(R, P(0)) = total /\ SumFunctionOnSet(r, 1..0) = 0
          BY <4>1, <4>2
        <5>3. total \in Nat
          BY <2>1
        <5> HIDE DEF total, P
        <5>4. SumFunctionOnSet(R, P(0)) = total + SumFunctionOnSet(r, 1..0)
          BY <5>2, <5>3
        <5>5. QED
          BY <5>1, <5>4 DEF total
      <4>4. QED
        BY <3>2, <3>3, <4>3
    <3>4. CASE k # 0
      <4>1. k \in 1..n /\ k - 1 \in 0..n /\ ~(k <= k - 1) /\ k - 1 \in Nat
        BY <3>2, <3>4, <1>1
      <4>2. k - 1 \notin Wrong
        <5> HIDE DEF Wrong
        <5>1. QED
          BY <3>1, <4>1
      <4>3. Right(k - 1)
        BY <4>1, <4>2
      <4>4. 1..k = (1..(k - 1)) \cup {k} /\ k \notin 1..(k - 1)
        BY <4>1
      <4>5. P(k) = P(k - 1) \cup {<<b, k>>} /\ <<b, k>> \notin P(k - 1)
        BY <1>3, <4>1, <4>4
      <4>6. P(k) \ {<<b, k>>} = P(k - 1) /\ (1..k) \ {k} = 1..(k - 1)
        BY <4>4, <4>5
      <4>7. IsFiniteSet(P(k)) /\ IsFiniteSet(1..k)
        <5>1. IsFiniteSet(P(k - 1))
          BY <4>3
        <5>2. IsFiniteSet(1..k)
          BY <4>1, FS_Interval
        <5> HIDE DEF P
        <5>3. IsFiniteSet(P(k - 1) \cup {<<b, k>>})
          BY <5>1, FS_AddElement
        <5>4. QED
          BY <4>5, <5>2, <5>3
      <4>8. SumFunctionOnSet(R, P(k)) = R[<<b, k>>] + SumFunctionOnSet(R, P(k - 1))
        <5>1. \A x \in P(k) : R[x] \in Int
          BY <1>4, <2>0, <4>1
        <5>2. <<b, k>> \in P(k)
          BY <4>5
        <5> HIDE DEF P
        <5>3. SumFunctionOnSet(R, P(k))
                = R[<<b, k>>] + SumFunctionOnSet(R, P(k) \ {<<b, k>>})
          BY <4>7, <5>1, <5>2, SumRemove
        <5>4. QED
          BY <4>6, <5>3
      <4>9. SumFunctionOnSet(r, 1..k) = r[k] + SumFunctionOnSet(r, 1..(k - 1))
        <5>1. \A x \in 1..k : r[x] \in Int
          <6>1. 1..k \subseteq 1..n
            BY <4>1, <1>1
          <6>2. \A x \in 1..k : r[x] \in Nat
            BY <1>5, <6>1
          <6>3. QED
            BY <6>2
        <5>2. k \in 1..k
          BY <4>1
        <5> HIDE DEF P
        <5>3. QED
          BY <4>6, <4>7, <5>1, <5>2, SumRemove
      <4>10. SumFunctionOnSet(r, 1..(k - 1)) \in Nat /\ R[<<b, k>>] = r[k] /\ r[k] \in Nat
        <5>1. \A x \in 1..(k - 1) : r[x] \in Nat
          <6>1. 1..(k - 1) \subseteq 1..n
            BY <4>1, <1>1
          <6>2. QED
            BY <1>5, <6>1
        <5>2. IsFiniteSet(1..(k - 1))
          BY <4>1, FS_Interval
        <5>3. QED
          BY <1>5, <4>1, <5>1, <5>2, SumNat
      <4> HIDE DEF P
      <4>11. Right(k)
        BY <2>1, <4>3, <4>7, <4>8, <4>9, <4>10
      <4>12. QED
        BY <3>2, <4>11
    <3>5. QED
      BY <3>3, <3>4
  <2>3. IsFiniteSet(1..j)
    BY <1>1, FS_Interval
  <2>4. QED
    BY <2>2, <2>3
<1>9. IsFiniteSet(F) /\ SumFunctionOnSet(R, F) = SumFunctionOnSet(R, E) + SumFunctionOnSet(r, 1..n)
  <2>1. n \in 0..n
    BY <1>1
  <2> HIDE DEF P
  <2>2. QED
    BY <1>2, <1>8, <2>1
<1>10. QED
  BY <1>6, <1>7, <1>9 DEF r, F, b, es, n

\* The block that is indexed is the next one, and all of its events are handled.
LEMMA IndexBlockIs ==
  ASSUME HistoryInv, IndexBlock
  PROVE  LET b == store.upto + 1 IN
         /\ b \in 1..head /\ store.upto \in Nat /\ blocks[b] \in Seq(VaultEvents)
         /\ blocks \in Seq(Seq(VaultEvents)) /\ blocks' = blocks
         /\ store \in Index /\ store' \in Index /\ store'.upto = b
         /\ Len(store.snapshots) \in Nat /\ Len(blocks[b]) \in Nat
         /\ \E n : /\ Grown(store, b, blocks[b], Len(blocks[b]), n)
                   /\ store'.snapshots = n.snapshots /\ store'.days = n.days
                   /\ store'.cumulative = n.cumulative
<1> DEFINE b == store.upto + 1
           es == blocks[b]
           n == Indexed(store, b, es)
<1>1. /\ store.upto \in Nat /\ blocks \in Seq(Seq(VaultEvents)) /\ store \in Index
      /\ store.snapshots \in Seq([t : Nat, rate : Nat, trigger : Triggers])
  BY DEF HistoryInv, Index
<1>2. b \in 1..head /\ b \in Nat /\ blocks' = blocks
  <2>1. b <= head
    BY DEF IndexBlock
  <2>2. blocks' = blocks
    BY DEF IndexBlock
  <2>3. QED
    BY <1>1, <2>1, <2>2 DEF head
<1>3. es \in Seq(VaultEvents)
  BY <1>1, <1>2 DEF head
<1>4. store' = [n EXCEPT !.upto = b]
  BY DEF IndexBlock, Indexed
<1> HIDE DEF n, b, es
<1>5. Grown(store, b, es, Len(es), n)
  BY <1>1, <1>2, <1>3, IndexedIs DEF n
<1>6. n \in Index
  BY <1>5 DEF Grown
<1>7. /\ store' \in Index /\ store'.upto = b /\ store'.snapshots = n.snapshots
      /\ store'.days = n.days /\ store'.cumulative = n.cumulative
  BY <1>2, <1>4, <1>6 DEF Index
<1>8. QED
  BY <1>1, <1>2, <1>3, <1>5, <1>7 DEF b, es

\* The next block's snapshots are the latest.
LEMMA IndexKeepsSnapshots ==
  ASSUME HistoryInv, IndexBlock
  PROVE  SnapshotsOK'
<1> DEFINE b == store.upto + 1
           k == Len(blocks[b])
           m == Len(store.snapshots)
<1>1. /\ b \in 1..head /\ store.upto \in Nat /\ blocks' = blocks /\ store'.upto = b
      /\ blocks[b] \in Seq(VaultEvents) /\ m \in Nat /\ k \in Nat
      /\ store \in Index /\ store' \in Index
  BY IndexBlockIs
<1>2. PICK n : Grown(store, b, blocks[b], k, n) /\ store'.snapshots = n.snapshots
  BY IndexBlockIs
<1>3. /\ Len(store'.snapshots) = m + k
      /\ \A i \in 1..m : store'.snapshots[i] = store.snapshots[i]
      /\ \A i \in (m + 1)..(m + k) :
           store'.snapshots[i].t = b /\ store'.snapshots[i].rate = b
  BY <1>2 DEF Grown
<1>4. DOMAIN store.snapshots = 1..m /\ DOMAIN store'.snapshots = 1..(m + k)
  BY <1>1, <1>3 DEF Index
<1>5. SnapshotsOK
  BY DEF HistoryInv
<1>6. \A i \in 1..m : /\ store.snapshots[i].rate = store.snapshots[i].t
                      /\ store.snapshots[i].t \in 1..store.upto
  BY <1>4, <1>5 DEF SnapshotsOK
<1>7. \A i, j \in 1..m : i <= j => store.snapshots[i].t <= store.snapshots[j].t
  BY <1>4, <1>5 DEF SnapshotsOK
<1> HIDE DEF b, k, m
<1>8. b \in Nat /\ \A t \in 1..store.upto : t \in 1..b /\ t < b
  BY <1>1 DEF b
<1>9. ASSUME NEW i \in 1..(m + k)
      PROVE  /\ store'.snapshots[i].rate = store'.snapshots[i].t
             /\ store'.snapshots[i].t \in 1..b
             /\ i \in 1..m \/ store'.snapshots[i].t = b
  <2>1. CASE i \in 1..m
    BY <1>3, <1>6, <1>8, <2>1
  <2>2. CASE i \notin 1..m
    <3>1. i \in (m + 1)..(m + k) /\ b \in 1..b
      BY <1>1, <1>8, <2>2
    <3>2. QED
      BY <1>3, <3>1
  <2>3. QED
    BY <2>1, <2>2
<1>10. ASSUME NEW i \in 1..(m + k), NEW j \in 1..(m + k), i <= j
       PROVE  store'.snapshots[i].t <= store'.snapshots[j].t
  <2>1. CASE j \in 1..m
    <3>1. i \in 1..m
      BY <1>1, <1>10, <2>1
    <3>2. QED
      BY <1>3, <1>7, <1>10, <2>1, <3>1
  <2>2. CASE j \notin 1..m
    BY <1>8, <1>9, <2>2
  <2>3. QED
    BY <2>1, <2>2
<1>11. ASSUME NEW c \in 1..b, blocks[c] # << >>
       PROVE  \E i \in 1..(m + k) : store'.snapshots[i].t = c
  <2>1. CASE c = b
    <3>1. k # 0
      BY <1>1, <1>11, <2>1 DEF k
    <3>2. m + k \in 1..(m + k) /\ m + k \in (m + 1)..(m + k)
      BY <1>1, <3>1
    <3>3. QED
      BY <1>3, <2>1, <3>2
  <2>2. CASE c # b
    <3>1. c \in 1..store.upto
      BY <1>1, <2>2 DEF b
    <3>2. PICK i \in 1..m : store.snapshots[i].t = c
      BY <1>4, <1>5, <1>11, <3>1 DEF SnapshotsOK
    <3>3. i \in 1..(m + k)
      BY <1>1
    <3>4. QED
      BY <1>3, <3>2, <3>3
  <2>3. QED
    BY <2>1, <2>2
<1>12. QED
  BY <1>1, <1>4, <1>9, <1>10, <1>11 DEF SnapshotsOK

\* The day of the next block is closed by it; the rows of other days are left.
LEMMA IndexKeepsDays ==
  ASSUME HistoryInv, IndexBlock
  PROVE  DaysOK'
<1> SUFFICES ASSUME NEW b, b = store.upto + 1 PROVE DaysOK'
  OBVIOUS
<1> DEFINE es == blocks[b]
           day == b \div BlocksPerDay
           r == [i \in DOMAIN es |-> RewardOf(es[i])]
<1>1. /\ b \in 1..head /\ store.upto \in Nat /\ blocks' = blocks /\ store'.upto = b
      /\ es \in Seq(VaultEvents) /\ Len(es) \in Nat
      /\ blocks \in Seq(Seq(VaultEvents))
      /\ store \in Index /\ store' \in Index
  BY IndexBlockIs
<1>2. PICK n : /\ Grown(store, b, es, Len(es), n)
               /\ store'.days = n.days /\ store'.cumulative = n.cumulative
  BY IndexBlockIs
<1>3. DaysOK
  BY DEF HistoryInv
<1>4. /\ IsFiniteSet(EventsUpTo(b))
      /\ HarvestedUpTo(b) = HarvestedUpTo(store.upto) + SumFunctionOnSet(r, 1..Len(es))
  <2>1. store.upto < head /\ IsFiniteSet(EventsUpTo(store.upto))
    BY <1>1, <1>3 DEF DaysOK, head
  <2>2. QED
    BY <1>1, <2>1, HarvestedStep
<1>5. \A c \in 0..head : EventsUpTo(c)' = EventsUpTo(c) /\ HarvestedUpTo(c)' = HarvestedUpTo(c)
  BY <1>1, HarvestedKept
<1>6. store'.cumulative = HarvestedUpTo(b)
  <2>1. store'.cumulative = store.cumulative + SumFunctionOnSet(r, 1..Len(es))
    BY <1>2 DEF Grown
  <2>2. store.cumulative = HarvestedUpTo(store.upto)
    BY <1>3 DEF DaysOK
  <2>3. QED
    BY <1>4, <2>1, <2>2
<1>7. b \in 0..head /\ head \in Nat
  BY <1>1 DEF head
<1>8. IsFiniteSet(EventsUpTo(b)') /\ store'.cumulative = HarvestedUpTo(b)'
  BY <1>4, <1>5, <1>6, <1>7
<1>9. 1..b = (1..store.upto) \cup {b} /\ b \notin 1..store.upto
  BY <1>1
<1> HIDE DEF r, es
<1>10. ASSUME NEW d
       PROVE  BlocksOfDay(d)' = IF es # << >> /\ d = day THEN BlocksOfDay(d) \cup {b}
                                ELSE BlocksOfDay(d)
  BY <1>1, <1>9 DEF BlocksOfDay, es
<1>11. DaysIndexed' = IF es # << >> THEN DaysIndexed \cup {day} ELSE DaysIndexed
  BY <1>1, <1>9 DEF DaysIndexed, es
<1>12. ASSUME NEW d PROVE d \in DaysIndexed <=> BlocksOfDay(d) # {}
  BY DEF DaysIndexed, BlocksOfDay
<1>13. \A d : \A c \in BlocksOfDay(d) : c \in 1..store.upto /\ c \in 0..head /\ c < b /\ c \in Nat
  BY <1>1, <1>7 DEF BlocksOfDay
<1>14. \A d \in DaysIndexed : DayOK(d, store.days[d])
  BY <1>3 DEF DaysOK
<1>15. ASSUME NEW d \in DaysIndexed, BlocksOfDay(d)' = BlocksOfDay(d),
              NEW row, row = store.days[d]
       PROVE  DayOK(d, row)'
  <2>1. DayOK(d, row)
    BY <1>14, <1>15
  <2>2. HarvestedUpTo(row.rateClose)' = HarvestedUpTo(row.rateClose)
    BY <1>5, <1>13, <2>1 DEF DayOK
  <2>3. QED
    BY <1>15, <2>1, <2>2 DEF DayOK
<1>16. CASE es = << >>
  <2>1. store'.days = store.days
    BY <1>2, <1>16 DEF Grown
  <2>2. DaysIndexed' = DaysIndexed /\ \A d : BlocksOfDay(d)' = BlocksOfDay(d)
    BY <1>10, <1>11, <1>16
  <2>3. DOMAIN store'.days = DaysIndexed'
    BY <1>3, <2>1, <2>2 DEF DaysOK
  <2>4. ASSUME NEW d \in DaysIndexed', NEW row, row = store'.days[d] PROVE DayOK(d, row)'
    BY <1>15, <2>1, <2>2, <2>4
  <2>5. QED
    BY <1>1, <1>8, <2>3, <2>4 DEF DaysOK, DayOK
<1>17. CASE es # << >>
  <2> DEFINE open == IF day \in DOMAIN store.days THEN store.days[day].rateOpen ELSE b
  <2>1. /\ DOMAIN store'.days = DOMAIN store.days \cup {day}
        /\ \A d \in DOMAIN store.days \ {day} : store'.days[d] = store.days[d]
        /\ store'.days[day] = [rateOpen |-> open, rateClose |-> b, cumulative |-> n.cumulative]
    <3>1. Len(es) # 0
      BY <1>1, <1>17
    <3>2. QED
      BY <1>2, <3>1 DEF Grown
  <2>2. DaysIndexed' = DaysIndexed \cup {day} /\ DOMAIN store.days = DaysIndexed
    BY <1>3, <1>11, <1>17 DEF DaysOK
  <2>3. ASSUME NEW row, row = store'.days[day] PROVE DayOK(day, row)'
    <3>1. BlocksOfDay(day)' = BlocksOfDay(day) \cup {b}
      BY <1>10, <1>17
    <3>2. row.rateOpen = open /\ row.rateClose = b /\ row.cumulative = store'.cumulative
      BY <1>2, <2>1, <2>3
    <3>3. open \in BlocksOfDay(day) \cup {b} /\ \A c \in BlocksOfDay(day) \cup {b} : open <= c
      <4>1. b \in Nat
        BY <1>7
      <4>2. CASE day \in DOMAIN store.days
        <5>1. DayOK(day, store.days[day]) /\ open = store.days[day].rateOpen
          BY <1>14, <2>2, <4>2
        <5>2. QED
          BY <1>13, <4>1, <5>1 DEF DayOK
      <4>3. CASE day \notin DOMAIN store.days
        <5>1. BlocksOfDay(day) = {} /\ open = b
          BY <1>12, <2>2, <4>3
        <5>2. QED
          BY <4>1, <5>1
      <4>4. QED
        BY <4>2, <4>3
    <3>4. \A c \in BlocksOfDay(day) \cup {b} : c <= b
      BY <1>7, <1>13
    <3> HIDE DEF open, day
    <3>5. QED
      BY <1>8, <3>1, <3>2, <3>3, <3>4 DEF DayOK
  <2>4. ASSUME NEW d \in DaysIndexed', NEW row, row = store'.days[d] PROVE DayOK(d, row)'
    <3>1. CASE d = day
      BY <2>3, <2>4, <3>1
    <3>2. CASE d # day
      <4>1. d \in DaysIndexed /\ row = store.days[d]
        BY <2>1, <2>2, <2>4, <3>2
      <4>2. BlocksOfDay(d)' = BlocksOfDay(d)
        BY <1>10, <3>2
      <4>3. QED
        BY <1>15, <4>1, <4>2
    <3>3. QED
      BY <3>1, <3>2
  <2>5. DOMAIN store'.days = DaysIndexed'
    BY <2>1, <2>2
  <2>6. QED
    BY <1>1, <1>8, <2>4, <2>5 DEF DaysOK, DayOK
<1>18. QED
  BY <1>16, <1>17

\* Sequences over a set hold its elements.
LEMMA SeqElement ==
  ASSUME NEW S, NEW s \in Seq(S), NEW i \in DOMAIN s
  PROVE  s[i] \in S
  OBVIOUS

\* Points have times and rates.
LEMMA PointsAreNat ==
  ASSUME NEW rows \in Seq([t : Nat, rate : Nat])
  PROVE  \A i \in DOMAIN rows : rows[i].t \in Nat /\ rows[i].rate \in Nat
<1> DEFINE P == [t : Nat, rate : Nat]
<1>1. ASSUME NEW i \in DOMAIN rows PROVE rows[i] \in P
  <2>1. rows \in Seq(P)
    OBVIOUS
  <2> HIDE DEF P
  <2>2. QED
    BY <2>1, SeqElement
<1>2. QED
  BY <1>1

\* A stretch of a sequence.
LEMMA SubSeqIs ==
  ASSUME NEW S, NEW s, NEW m \in Int, NEW n \in Int, m <= n, \A i \in m..n : s[i] \in S
  PROVE  /\ SubSeq(s, m, n) \in Seq(S)
         /\ Len(SubSeq(s, m, n)) = n - m + 1
         /\ \A i \in 1..(n - m + 1) : SubSeq(s, m, n)[i] = s[m + i - 1]
  OBVIOUS

\* A prefix of the snapshots, deduplicated, is a chart.
LEMMA QueryIsChart ==
  ASSUME HistoryInv
  PROVE  ChartOf(blocks, dedupeByTimestamp(RateQuery))
<1> DEFINE snaps == store.snapshots
           m == Min({RATE_QUERY_FIRST, Len(snaps)})
           rows == RateQuery
           s == dedupeByTimestamp(rows)
<1>1. snaps \in Seq(Row) /\ store.upto <= head /\ SnapshotsOK /\ store.upto \in Nat
  BY DEF HistoryInv, Index, Row
<1>2. Len(snaps) \in Nat /\ DOMAIN snaps = 1..Len(snaps) /\ RATE_QUERY_FIRST \in Nat
  BY <1>1, HistoryAssumption
<1>3. m \in Nat /\ m <= Len(snaps)
  BY <1>2, MinPair
<1>4. rows = SubSeq(snaps, 1, m)
  BY DEF RateQuery
<1> HIDE DEF m, rows
<1>5. rows \in Seq(Row) /\ DOMAIN rows = 1..m /\ \A i \in 1..m : rows[i] = snaps[i]
  BY <1>1, <1>2, <1>3, <1>4
<1>6. PointsOf(rows, s)
  BY <1>5, DedupeIs
<1> HIDE DEF s
<1>7. s \in Seq([t : Nat, rate : Nat]) /\ InOrder(s)
  BY <1>6 DEF PointsOf
<1>8. head \in Nat
  BY DEF head, HistoryInv
<1>9. ASSUME NEW i \in DOMAIN s
      PROVE  \E j \in 1..m : /\ s[i].t = snaps[j].t /\ s[i].rate = snaps[j].rate
                             /\ snaps[j].rate = snaps[j].t /\ snaps[j].t \in 1..store.upto
  <2>1. PICK j \in DOMAIN rows : s[i].t = rows[j].t /\ s[i].rate = rows[j].rate
    BY <1>6 DEF PointsOf
  <2>2. j \in 1..m /\ j \in DOMAIN snaps /\ rows[j] = snaps[j]
    BY <1>2, <1>3, <1>5
  <2>3. snaps[j].rate = snaps[j].t /\ snaps[j].t \in 1..store.upto
    BY <1>1, <2>2 DEF SnapshotsOK
  <2>4. QED
    BY <2>1, <2>2, <2>3
<1>10. \A i \in DOMAIN s : s[i].rate = s[i].t /\ s[i].t <= head
  BY <1>1, <1>8, <1>9
<1>11. ASSUME NEW b \in 1..head, blocks[b] # << >>, NEW i \in DOMAIN s, s[i].t > b
       PROVE  \E k \in DOMAIN s : s[k].t = b
  <2>1. PICK j \in 1..m : s[i].t = snaps[j].t /\ snaps[j].t \in 1..store.upto
    BY <1>9
  <2>2. b \in 1..store.upto
    BY <1>1, <1>11, <2>1
  <2>3. PICK k \in DOMAIN snaps : snaps[k].t = b
    BY <1>1, <1>11, <2>2 DEF SnapshotsOK
  <2>4. ~(j <= k)
    <3>1. j \in DOMAIN snaps
      BY <1>2, <1>3
    <3>2. ASSUME j <= k PROVE FALSE
      <4>1. snaps[j].t <= snaps[k].t
        BY <1>1, <2>3, <3>1, <3>2 DEF SnapshotsOK
      <4>2. QED
        BY <1>11, <2>1, <2>3, <4>1
    <3>3. QED
      BY <3>2
  <2>5. k \in DOMAIN rows /\ rows[k].t = b
    BY <1>2, <1>3, <1>5, <2>3, <2>4
  <2>6. QED
    BY <1>6, <2>5 DEF PointsOf
<1>12. ChartOf(blocks, s)
  BY <1>7, <1>10, <1>11 DEF ChartOf, head
<1>13. QED
  BY <1>12 DEF s, rows

\* Time and new rates do not spoil the samples there are.
LEMMA SamplesKept ==
  ASSUME NEW s, NEW now \in Nat, NEW newest \in Nat, SamplesOK(s, now, newest),
         NEW later \in Nat, NEW newer \in Nat, now <= later, newest <= newer
  PROVE  SamplesOK(s, later, newer)
<1>1. s \in Seq([t : Nat, rate : Nat])
  BY DEF SamplesOK
<1>2. \A i \in DOMAIN s : s[i].t \in Nat /\ s[i].rate \in Nat
  BY <1>1, PointsAreNat
<1>3. QED
  BY <1>1, <1>2 DEF SamplesOK

\* The newest rate is sampled with the time of now, unless it repeats a recent sample; the
\* oldest samples are dropped.
LEMMA AddKeepsSamples ==
  ASSUME head \in Nat, NEW s, NEW rate \in Nat, rate <= head, SamplesOK(s, head, rate)
  PROVE  SamplesOK(add(s, rate), head, rate)
<1> DEFINE P == [t : Nat, rate : Nat]
           longer == Append(s, [t |-> head, rate |-> rate])
           n == Len(s)
           m == Max({1, Len(longer) - MAX_POINTS + 1})
           added == SubSeq(longer, m, Len(longer))
<1>1. s \in Seq(P) /\ n \in Nat /\ DOMAIN s = 1..n
  BY DEF SamplesOK
<1>2. add(s, rate) = s \/ add(s, rate) = added
  BY DEF add
<1>3. [t |-> head, rate |-> rate] \in P
  OBVIOUS
<1> DEFINE p == [t |-> head, rate |-> rate]
<1>4. p.t = head /\ p.rate = rate
  OBVIOUS
<1> HIDE DEF P
<1>5. /\ longer \in Seq(P) /\ Len(longer) = n + 1 /\ longer[n + 1] = p
      /\ \A i \in 1..n : longer[i] = s[i]
  BY <1>1, <1>3
<1>6. m \in 1..(n + 1)
  <2>1. MAX_POINTS \in Nat \ {0}
    BY HistoryAssumption
  <2> DEFINE y == Len(longer) - MAX_POINTS + 1
  <2> HIDE DEF longer, n
  <2>2. y \in Int /\ y <= n + 1
    BY <1>1, <1>5, <2>1
  <2> HIDE DEF y
  <2>3. m = Max({1, y})
    BY DEF y
  <2> HIDE DEF m
  <2>4. m \in {1, y} /\ m >= 1 /\ m >= y
    BY <2>2, <2>3, MaxPair
  <2>5. QED
    BY <1>1, <2>2, <2>4
<1>7. added = SubSeq(longer, m, n + 1)
  BY <1>5
<1> HIDE DEF longer, m, n, p, added
<1>8. ASSUME NEW i \in 1..(n + 1)
      PROVE  longer[i].rate <= longer[i].t /\ longer[i].t <= head /\ longer[i].rate <= rate
  <2>1. CASE i = n + 1
    BY <1>4, <1>5, <2>1
  <2>2. CASE i # n + 1
    <3>1. i \in 1..n /\ longer[i] = s[i]
      BY <1>1, <1>5, <2>2
    <3>2. QED
      BY <1>1, <3>1 DEF SamplesOK
  <2>3. QED
    BY <2>1, <2>2
<1>9. ASSUME NEW i \in 1..(n + 1), NEW j \in 1..(n + 1), i < j
      PROVE  longer[i].t <= longer[j].t /\ longer[i].rate <= longer[j].rate
  <2>1. i \in 1..n /\ longer[i] = s[i]
    BY <1>1, <1>5, <1>9
  <2>2. CASE j = n + 1
    BY <1>4, <1>5, <1>8, <2>2
  <2>3. CASE j # n + 1
    <3>1. j \in 1..n /\ longer[j] = s[j]
      BY <1>1, <1>5, <2>3
    <3>2. QED
      BY <1>1, <1>9, <2>1, <3>1 DEF SamplesOK
  <2>4. QED
    BY <2>2, <2>3
<1> DEFINE k == n + 1 - m + 1
<1>10. /\ added \in Seq(P) /\ DOMAIN added = 1..k
       /\ \A i \in 1..k : added[i] = longer[m + i - 1] /\ m + i - 1 \in 1..(n + 1)
  <2>1. \A i \in m..(n + 1) : longer[i] \in P
    BY <1>1, <1>5, <1>6
  <2>2. m \in Int /\ n + 1 \in Int /\ m <= n + 1
    BY <1>1, <1>6
  <2>3. /\ added \in Seq(P) /\ Len(added) = k
        /\ \A i \in 1..k : added[i] = longer[m + i - 1]
    <3> DEFINE e == n + 1
    <3>1. m \in Int /\ e \in Int /\ m <= e /\ \A i \in m..e : longer[i] \in P
      BY <2>1, <2>2
    <3>2. added = SubSeq(longer, m, e)
      BY <1>7
    <3> HIDE DEF e
    <3>3. /\ SubSeq(longer, m, e) \in Seq(P) /\ Len(SubSeq(longer, m, e)) = e - m + 1
          /\ \A i \in 1..(e - m + 1) : SubSeq(longer, m, e)[i] = longer[m + i - 1]
      BY <3>1, SubSeqIs
    <3>4. k = e - m + 1
      BY <1>1, <2>2 DEF e
    <3> HIDE DEF k
    <3>5. QED
      BY <3>2, <3>3, <3>4
  <2>4. DOMAIN added = 1..k
    BY <2>3
  <2>5. \A i \in 1..k : m + i - 1 \in 1..(n + 1)
    BY <1>1, <1>6
  <2>6. QED
    BY <2>3, <2>4, <2>5
<1>11. \A i \in DOMAIN added :
         added[i].rate <= added[i].t /\ added[i].t <= head /\ added[i].rate <= rate
  BY <1>8, <1>10
<1>12. ASSUME NEW i \in 1..k, NEW j \in 1..k, i < j
       PROVE  added[i].t <= added[j].t /\ added[i].rate <= added[j].rate
  <2>1. m + i - 1 < m + j - 1
    BY <1>6, <1>12
  <2>2. QED
    BY <1>9, <1>10, <2>1
<1>13. SamplesOK(added, head, rate)
  BY <1>10, <1>11, <1>12 DEF SamplesOK, P
<1>14. QED
  BY <1>2, <1>13

\* A poll answers with a rate no older than the last.
LEMMA PollKeepsSession ==
  ASSUME HistoryInv, NEW b \in 1..head, PollRate(b)
  PROVE  SessionOK'
<1>1. /\ head \in Nat /\ b \in Nat /\ b <= head /\ read \in Nat /\ read <= b
      /\ SamplesOK(sampled, head, read)
  BY DEF HistoryInv, SessionOK, head, PollRate
<1>2. SamplesOK(sampled, head, b)
  BY <1>1, SamplesKept
<1>3. SamplesOK(add(sampled, b), head, b)
  BY <1>1, <1>2, AddKeepsSamples
<1>4. read' = b /\ polled' = b /\ sampled' = add(sampled, b) /\ head' = head
  BY DEF PollRate, indexVars, head
<1>5. QED
  BY <1>1, <1>3, <1>4 DEF SessionOK

\* A page opened again samples the rate of the cache, which is that of the last poll, or
\* loses samples.
LEMMA RemountKeepsSession ==
  ASSUME HistoryInv, Remount
  PROVE  SessionOK'
<1>1. /\ head \in Nat /\ read \in Nat /\ read <= head /\ polled \in {0, read}
      /\ SamplesOK(sampled, head, read)
  BY DEF HistoryInv, SessionOK, head
<1>2. read' = read /\ head' = head
  BY DEF Remount, indexVars, head
<1>3. SamplesOK(<< >>, head, read)
  BY DEF SamplesOK
<1>4. polled # 0 => SamplesOK(add(sampled, polled), head, read)
  BY <1>1, AddKeepsSamples
<1>5. polled' \in {0, read} /\ SamplesOK(sampled', head, read)
  BY <1>1, <1>3, <1>4 DEF Remount
<1>6. QED
  BY <1>1, <1>2, <1>5 DEF SessionOK

\* A chart stays one when blocks are added.
LEMMA ChartKept ==
  ASSUME blocks \in Seq(Seq(VaultEvents)), NEW bs \in Seq(Seq(VaultEvents)),
         head <= Len(bs), \A b \in 1..head : bs[b] = blocks[b],
         NEW rows, ChartOf(blocks, rows)
  PROVE  ChartOf(bs, rows)
<1>1. head \in Nat /\ Len(bs) \in Nat
  BY DEF head
<1>2. /\ rows \in Seq([t : Nat, rate : Nat]) /\ InOrder(rows)
      /\ \A i \in DOMAIN rows : rows[i].rate = rows[i].t /\ rows[i].t <= head
      /\ \A b \in 1..head :
           blocks[b] # << >> /\ (\E i \in DOMAIN rows : rows[i].t > b)
             => \E i \in DOMAIN rows : rows[i].t = b
  BY DEF ChartOf, head
<1>3. \A i \in DOMAIN rows : rows[i].t \in Nat
  BY <1>2, PointsAreNat
<1>4. \A i \in DOMAIN rows : rows[i].rate = rows[i].t /\ rows[i].t <= Len(bs)
  BY <1>1, <1>2, <1>3
<1>5. ASSUME NEW b \in 1..Len(bs), bs[b] # << >>, \E i \in DOMAIN rows : rows[i].t > b
      PROVE  \E i \in DOMAIN rows : rows[i].t = b
  <2>1. b \in 1..head
    BY <1>1, <1>2, <1>3, <1>5
  <2>2. QED
    BY <1>2, <1>5, <2>1
<1>6. QED
  BY <1>2, <1>4, <1>5 DEF ChartOf

\* A page that was never answered shows no gap.
LEMMA EmptyChart == ASSUME NEW bs PROVE ChartOf(bs, << >>)
  BY DEF ChartOf, InOrder

\* A new block is not indexed yet.
LEMMA MineBlockInv ==
  ASSUME HistoryInv, NEW events \in BlockContents, MineBlock(events)
  PROVE  HistoryInv'
<1>1. /\ blocks \in Seq(Seq(VaultEvents)) /\ events \in Seq(VaultEvents)
      /\ blocks' = Append(blocks, events)
      /\ UNCHANGED <<store, shownBy, loads, points, read, polled, sampled>>
  BY HistoryAssumption DEF HistoryInv, MineBlock, chartVars, sessionVars
<1>2. /\ blocks' \in Seq(Seq(VaultEvents)) /\ head <= Len(blocks') /\ head \in Nat
      /\ Len(blocks') \in Nat /\ \A b \in 1..head : blocks'[b] = blocks[b]
  <2>1. /\ blocks' \in Seq(Seq(VaultEvents)) /\ head <= Len(blocks')
        /\ \A b \in 1..head : blocks'[b] = blocks[b]
    BY <1>1, HistoryKept
  <2>2. QED
    BY <1>1, <2>1 DEF head
<1>3. store \in Index /\ store.upto <= head /\ store.upto \in Nat
  BY DEF HistoryInv, Index
<1>4. \A b \in 1..store.upto : blocks'[b] = blocks[b]
  BY <1>2, <1>3
<1>5. SnapshotsOK'
  BY <1>1, <1>4 DEF HistoryInv, SnapshotsOK
<1>6. \A c \in 0..store.upto : /\ EventsUpTo(c)' = EventsUpTo(c)
                               /\ HarvestedUpTo(c)' = HarvestedUpTo(c)
  <2>1. \A c \in 0..store.upto : c \in 0..head
    BY <1>2, <1>3
  <2>2. QED
    BY <1>1, <1>2, <2>1, HarvestedKept
<1>7. DaysOK'
  <2>1. DaysOK /\ store' = store
    BY <1>1 DEF HistoryInv
  <2>2. DaysIndexed' = DaysIndexed
    BY <1>1, <1>4 DEF DaysIndexed
  <2>3. \A d : BlocksOfDay(d)' = BlocksOfDay(d)
    BY <1>1, <1>4 DEF BlocksOfDay
  <2>4. ASSUME NEW c, c = store.upto
        PROVE  HarvestedUpTo(c)' = HarvestedUpTo(c) /\ EventsUpTo(c)' = EventsUpTo(c)
    BY <1>3, <1>6, <2>4
  <2>5. store'.cumulative = HarvestedUpTo(store.upto)' /\ IsFiniteSet(EventsUpTo(store.upto))'
    <3> SUFFICES ASSUME NEW c, c = store.upto
                 PROVE  store'.cumulative = HarvestedUpTo(c)' /\ IsFiniteSet(EventsUpTo(c)')
      BY <2>1
    <3>1. QED
      BY <2>1, <2>4 DEF DaysOK
  <2>6. ASSUME NEW d \in DaysIndexed', NEW row, row = store'.days[d] PROVE DayOK(d, row)'
    <3>1. d \in DaysIndexed /\ DayOK(d, row)
      BY <2>1, <2>2, <2>6 DEF DaysOK
    <3>2. row.rateClose \in 0..store.upto
      BY <1>3, <3>1 DEF DayOK, BlocksOfDay
    <3>3. HarvestedUpTo(row.rateClose)' = HarvestedUpTo(row.rateClose)
      BY <1>6, <3>2
    <3>4. QED
      BY <2>3, <3>1, <3>3 DEF DayOK
  <2>7. QED
    BY <2>1, <2>2, <2>5, <2>6 DEF DaysOK, DayOK
<1>8. LoadsOK'
  <2>1. \A rows : ChartOf(blocks, rows) => ChartOf(blocks', rows)
    BY <1>1, <1>2, ChartKept
  <2>2. QED
    BY <1>1, <2>1 DEF HistoryInv, LoadsOK
<1>9. SessionOK'
  <2>1. /\ read \in Nat /\ read <= head /\ polled \in {0, read}
        /\ SamplesOK(sampled, head, read)
    BY DEF HistoryInv, SessionOK
  <2>2. SamplesOK(sampled, Len(blocks'), read)
    BY <1>2, <2>1, SamplesKept
  <2>3. head' = Len(blocks')
    BY DEF head
  <2>4. read <= Len(blocks')
    BY <1>2, <2>1
  <2>5. QED
    BY <1>1, <2>1, <2>2, <2>3, <2>4 DEF SessionOK
<1>10. head' = Len(blocks') /\ store'.upto <= head'
  BY <1>1, <1>2, <1>3 DEF head
<1>11. QED
  BY <1>1, <1>2, <1>3, <1>5, <1>7, <1>8, <1>9, <1>10 DEF HistoryInv

\* Before the first block there is nothing to show.
LEMMA HistoryInitInv == HistoryInit => HistoryInv
<1> SUFFICES ASSUME HistoryInit PROVE HistoryInv
  OBVIOUS
<1>1. blocks = << >> /\ head = 0 /\ blocks \in Seq(Seq(VaultEvents))
  BY DEF HistoryInit, head
<1>2. store = EmptyStore /\ points = << >> /\ sampled = << >> /\ loads = [i \in Loads |-> NoLoad]
  BY DEF HistoryInit
<1>3. [d \in {} |-> 0] \in UNION {[D -> DayRow] : D \in SUBSET Nat}
  <2>1. [d \in {} |-> 0] \in [{} -> DayRow] /\ {} \in SUBSET Nat
    OBVIOUS
  <2>2. QED
    BY <2>1
<1>4. store \in Index
  BY <1>2, <1>3 DEF EmptyStore, Index
<1>5. /\ store.upto = 0 /\ store.snapshots = << >> /\ store.days = [d \in {} |-> 0]
      /\ store.cumulative = 0
  BY <1>2 DEF EmptyStore
<1>6. 1..0 = {}
  OBVIOUS
<1>7. SnapshotsOK
  BY <1>5, <1>6 DEF SnapshotsOK
<1>8. DaysOK
  <2>1. DaysIndexed = {}
    BY <1>5, <1>6 DEF DaysIndexed
  <2>2. EventsUpTo(0) = {}
    BY <1>6 DEF EventsUpTo
  <2>3. HarvestedUpTo(0) = 0
    BY <2>2, SumEmpty DEF HarvestedUpTo
  <2>4. QED
    BY <1>5, <2>1, <2>2, <2>3, FS_EmptySet DEF DaysOK
<1>9. ChartOf(blocks, << >>) /\ \A i \in Loads : loads[i].step # "answered"
  BY <1>2, EmptyChart DEF NoLoad
<1>10. LoadsOK
  BY <1>2, <1>9 DEF LoadsOK
<1>11. SessionOK
  <2>1. read = 0 /\ polled = 0
    BY DEF HistoryInit
  <2>2. QED
    BY <1>1, <1>2, <2>1 DEF SessionOK, SamplesOK
<1>12. QED
  BY <1>1, <1>4, <1>5, <1>7, <1>8, <1>10, <1>11 DEF HistoryInv

\* The steps of the page leave the chain and the index alone.
LEMMA PageStepInv ==
  ASSUME HistoryInv, UNCHANGED <<blocks, store>>, LoadsOK', SessionOK'
  PROVE  HistoryInv'
<1>1. SnapshotsOK'
  BY DEF HistoryInv, SnapshotsOK
<1>2. /\ \A c : EventsUpTo(c)' = EventsUpTo(c) /\ HarvestedUpTo(c)' = HarvestedUpTo(c)
      /\ \A d : BlocksOfDay(d)' = BlocksOfDay(d)
      /\ DaysIndexed' = DaysIndexed
  <2>1. \A c : EventsUpTo(c)' = EventsUpTo(c)
    BY DEF EventsUpTo
  <2>2. \A c : HarvestedUpTo(c)' = HarvestedUpTo(c)
    BY <2>1 DEF HarvestedUpTo
  <2>3. QED
    BY <2>1, <2>2 DEF BlocksOfDay, DaysIndexed
<1>3. \A d, row : DayOK(d, row)' <=> DayOK(d, row)
  BY <1>2 DEF DayOK
<1>4. DaysOK'
  <2>1. /\ DOMAIN store.days = DaysIndexed /\ \A d \in DaysIndexed : DayOK(d, store.days[d])
        /\ store.cumulative = HarvestedUpTo(store.upto) /\ IsFiniteSet(EventsUpTo(store.upto))
    BY DEF HistoryInv, DaysOK
  <2>2. ASSUME NEW c, c = store.upto
        PROVE  store'.cumulative = HarvestedUpTo(c)' /\ IsFiniteSet(EventsUpTo(c)')
    BY <1>2, <2>1, <2>2
  <2>3. store'.cumulative = HarvestedUpTo(store.upto)' /\ IsFiniteSet(EventsUpTo(store.upto))'
    BY <2>2
  <2>4. ASSUME NEW d \in DaysIndexed', NEW row, row = store'.days[d] PROVE DayOK(d, row)'
    BY <1>2, <1>3, <2>1, <2>4
  <2>5. DOMAIN store'.days = DaysIndexed'
    BY <1>2, <2>1
  <2>6. QED
    BY <2>3, <2>4, <2>5 DEF DaysOK, DayOK
<1>5. QED
  BY <1>1, <1>4 DEF HistoryInv, head

\* Every step keeps the invariant.
LEMMA HistoryNextInv == HistoryInv /\ [HistoryNext]_historyVars => HistoryInv'
<1> SUFFICES ASSUME HistoryInv, [HistoryNext]_historyVars PROVE HistoryInv'
  OBVIOUS
<1>0. LoadsOK
  BY DEF HistoryInv
<1>1. ASSUME NEW events \in BlockContents, MineBlock(events) PROVE HistoryInv'
  BY <1>1, MineBlockInv
<1>2. CASE IndexBlock
  <2>1. SnapshotsOK' /\ DaysOK'
    BY <1>2, IndexKeepsSnapshots, IndexKeepsDays
  <2>2. /\ blocks' = blocks /\ store' \in Index /\ store'.upto <= head
    BY <1>2, IndexBlockIs DEF head
  <2>3. UNCHANGED <<shownBy, loads, points, read, polled, sampled>>
    BY <1>2 DEF IndexBlock, chartVars, sessionVars
  <2>4. QED
    BY <2>1, <2>2, <2>3 DEF HistoryInv, LoadsOK, SessionOK, head
<1>3. ASSUME NEW i \in Loads, Load(i) PROVE HistoryInv'
  <2>1. /\ loads' = [loads EXCEPT ![i] = [step |-> "asked", rows |-> << >>]]
        /\ UNCHANGED <<blocks, store, shownBy, points, read, polled, sampled>>
    BY <1>3 DEF Load, indexVars, sessionVars
  <2>2. LoadsOK'
    BY <1>0, <2>1 DEF LoadsOK
  <2>3. QED
    BY <2>1, <2>2, PageStepInv DEF HistoryInv, SessionOK, head
<1>4. ASSUME NEW i \in Loads, ExecuteQuery(i) PROVE HistoryInv'
  <2>1. /\ loads' = [loads EXCEPT ![i] = [step |-> "answered", rows |-> Query]]
        /\ UNCHANGED <<blocks, store, shownBy, points, read, polled, sampled>>
    BY <1>4 DEF ExecuteQuery, indexVars, sessionVars
  <2>2. shownBy = "rates" => ChartOf(blocks, Query)
    BY QueryIsChart DEF Query
  <2>3. LoadsOK'
    BY <1>0, <2>1, <2>2 DEF LoadsOK
  <2>4. QED
    BY <2>1, <2>3, PageStepInv DEF HistoryInv, SessionOK, head
<1>5. ASSUME NEW i \in Loads, TakeAnswer(i) PROVE HistoryInv'
  <2>1. /\ loads[i].step = "answered" /\ points' = loads[i].rows
        /\ loads' = [loads EXCEPT ![i] = NoLoad]
        /\ UNCHANGED <<blocks, store, shownBy, read, polled, sampled>>
    BY <1>5 DEF TakeAnswer, indexVars, sessionVars
  <2>2. LoadsOK'
    BY <1>0, <2>1 DEF LoadsOK, NoLoad
  <2>3. QED
    BY <2>1, <2>2, PageStepInv DEF HistoryInv, SessionOK, head
<1>6. ASSUME NEW i \in Loads, LoadFails(i) PROVE HistoryInv'
  <2>1. /\ loads' = [loads EXCEPT ![i] = NoLoad]
        /\ UNCHANGED <<blocks, store, shownBy, points, read, polled, sampled>>
    BY <1>6 DEF LoadFails, indexVars, sessionVars
  <2>2. LoadsOK'
    BY <1>0, <2>1 DEF LoadsOK, NoLoad
  <2>3. QED
    BY <2>1, <2>2, PageStepInv DEF HistoryInv, SessionOK, head
<1>7. ASSUME NEW b \in 1..head, PollRate(b) PROVE HistoryInv'
  <2>1. SessionOK'
    BY <1>7, PollKeepsSession
  <2>2. UNCHANGED <<blocks, store, shownBy, loads, points>>
    BY <1>7 DEF PollRate, indexVars, chartVars
  <2>3. LoadsOK'
    BY <1>0, <2>2 DEF LoadsOK
  <2>4. QED
    BY <2>1, <2>2, <2>3, PageStepInv
<1>10. CASE Remount
  <2>1. SessionOK'
    BY <1>10, RemountKeepsSession
  <2>2. /\ loads' = [i \in Loads |-> NoLoad] /\ points' = << >>
        /\ UNCHANGED <<blocks, store, shownBy>>
    BY <1>10 DEF Remount, indexVars
  <2>3. ChartOf(blocks, << >>)
    BY EmptyChart
  <2>4. LoadsOK'
    BY <2>2, <2>3 DEF LoadsOK, NoLoad
  <2>5. QED
    BY <2>1, <2>2, <2>4, PageStepInv
<1>8. CASE UNCHANGED historyVars
  <2>1. UNCHANGED <<blocks, store, shownBy, loads, points, read, polled, sampled>>
    BY <1>8 DEF historyVars, indexVars, chartVars, sessionVars
  <2>2. LoadsOK' /\ SessionOK'
    BY <1>0, <2>1 DEF LoadsOK, SessionOK, HistoryInv, head
  <2>3. QED
    BY <2>1, <2>2, PageStepInv
<1>9. QED
  BY <1>1, <1>2, <1>3, <1>4, <1>5, <1>6, <1>7, <1>8, <1>10 DEF HistoryNext

\* What the invariant says of the page.
LEMMA InvIsHistory == HistoryInv => ChartIsHistory
<1> SUFFICES ASSUME HistoryInv PROVE ChartIsHistory
  OBVIOUS
<1>1. ASSUME NEW rows \in Seq([t : Nat, rate : Nat]), InOrder(rows), NEW i \in DOMAIN rows, i > 1
      PROVE  rows[i - 1].t < rows[i].t
  <2>1. i - 1 \in DOMAIN rows /\ i - 1 < i
    BY <1>1
  <2>2. QED
    BY <1>1, <2>1 DEF InOrder
<1>2. ASSUME shownBy = "rates"
      PROVE  /\ \A i \in DOMAIN ShownRates :
                  /\ ShownRates[i].rate <= ShownRates[i].t
                  /\ i > 1 => /\ ShownRates[i - 1].t <= ShownRates[i].t
                              /\ ShownRates[i - 1].rate <= ShownRates[i].rate
             /\ \A i \in DOMAIN points :
                  /\ points[i].rate = points[i].t
                  /\ i > 1 => points[i - 1].t < points[i].t
             /\ \A b \in 1..head :
                  (blocks[b] # << >> /\ \E i \in DOMAIN points : points[i].t > b)
                    => \E i \in DOMAIN points : points[i].t = b
  <2>1. ChartOf(blocks, points) /\ SamplesOK(sampled, head, read)
    BY <1>2 DEF HistoryInv, LoadsOK, SessionOK
  <2>2. \A i \in DOMAIN points : /\ points[i].rate = points[i].t
                                 /\ i > 1 => points[i - 1].t < points[i].t
    BY <1>1, <2>1 DEF ChartOf
  <2>3. ASSUME NEW i \in DOMAIN sampled
        PROVE  /\ sampled[i].rate <= sampled[i].t
               /\ i > 1 => /\ sampled[i - 1].t <= sampled[i].t
                           /\ sampled[i - 1].rate <= sampled[i].rate
    <3>1. sampled \in Seq([t : Nat, rate : Nat])
      BY <2>1 DEF SamplesOK
    <3>2. i > 1 => i - 1 \in DOMAIN sampled /\ i - 1 < i
      BY <3>1
    <3>3. QED
      BY <2>1, <3>2 DEF SamplesOK
  <2>4. ASSUME NEW i \in DOMAIN points
        PROVE  /\ points[i].rate <= points[i].t
               /\ i > 1 => /\ points[i - 1].t <= points[i].t
                           /\ points[i - 1].rate <= points[i].rate
    <3>1. points \in Seq([t : Nat, rate : Nat])
      BY <2>1 DEF ChartOf
    <3>2. \A k \in DOMAIN points : points[k].t \in Nat /\ points[k].rate \in Nat
      BY <3>1, PointsAreNat
    <3>3. i > 1 => i - 1 \in DOMAIN points
      BY <3>1
    <3>4. QED
      BY <2>2, <3>2, <3>3
  <2>5. ShownRates = sampled \/ ShownRates = points
    BY DEF ShownRates
  <2>6. \A i \in DOMAIN ShownRates :
          /\ ShownRates[i].rate <= ShownRates[i].t
          /\ i > 1 => /\ ShownRates[i - 1].t <= ShownRates[i].t
                      /\ ShownRates[i - 1].rate <= ShownRates[i].rate
    BY <2>3, <2>4, <2>5
  <2>7. \A b \in 1..head :
          (blocks[b] # << >> /\ \E i \in DOMAIN points : points[i].t > b)
            => \E i \in DOMAIN points : points[i].t = b
    BY <2>1 DEF ChartOf, head
  <2>8. QED
    BY <2>2, <2>6, <2>7
<1>3. DOMAIN store.days = DaysIndexed
  BY DEF HistoryInv, DaysOK
<1>4. ASSUME NEW d \in DaysIndexed
      PROVE  /\ store.days[d].rateOpen = Min(BlocksOfDay(d))
             /\ store.days[d].rateClose = Max(BlocksOfDay(d))
             /\ store.days[d].cumulative = HarvestedUpTo(Max(BlocksOfDay(d)))
  <2> DEFINE row == store.days[d]
  <2>1. DayOK(d, row) /\ BlocksOfDay(d) \in SUBSET Nat
    BY DEF HistoryInv, DaysOK, BlocksOfDay
  <2>2. row.rateOpen = Min(BlocksOfDay(d)) /\ row.rateClose = Max(BlocksOfDay(d))
    BY <2>1, MinIs, MaxIs DEF DayOK
  <2>3. QED
    BY <2>1, <2>2 DEF DayOK
<1>5. QED
  BY <1>2, <1>3, <1>4 DEF ChartIsHistory

\* However far the index lags behind the chain, in whatever order answers of the store arrive
\* and whenever the page is opened again, the chart drawn from the index is a stretch of the
\* vault's history without gaps, each rate that of its own block, the one drawn from samples
\* never runs backwards nor shows a rate before it was there, and each day's row opens and
\* closes with the rates of its first and last event and carries the rewards compounded by
\* its end.
THEOREM ChartIsAlwaysHistory == HistorySpec => []ChartIsHistory
BY HistoryInitInv, HistoryNextInv, InvIsHistory, PTL DEF HistorySpec
=============================================================================
