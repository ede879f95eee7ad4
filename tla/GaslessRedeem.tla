---------------------------- MODULE GaslessRedeem ----------------------------
(***************************************************************************)
(* The redeem page of the ltZEN frontend over RelayService: RedeemForm,    *)
(* useRedeem and HttpRelayer for the gasless path, useTxLifecycle for the  *)
(* standard one.                                                           *)
(*                                                                         *)
(* A flow is one run of redeemGasless.  It is an async function: it goes   *)
(* on, and writes the page's phase, even after the form was reset (the     *)
(* gasless box is not locked) and another redemption was started.  Timers  *)
(* (quote expiry, the polling deadline, the signature's deadline) may fire *)
(* at any moment.                                                          *)
(***************************************************************************)
EXTENDS RelayService

Flows == Requests

VARIABLES
  phase,               \* gaslessPhase of useRedeem
  flow,                \* per run of redeemGasless: where it is
  signed,              \* the nonce that run has read and signs
  standard,            \* phase of useTxLifecycle, success and error as one
  standardTx           \* the wallet's transaction, as the chain has it

pageVars == <<phase, flow, signed, standard, standardTx>>
redeemVars == <<relayVars, pageVars>>

Busy == phase \in {"signing", "submitting", "relaying"}
FlowStep == {"unused", "signing", "submitting", "polling",
             "confirmed", "failed", "refused", "timeout"}
Settled == {"confirmed", "failed", "refused", "timeout"}

RedeemTypeOK ==
  /\ RelayTypeOK
  /\ phase \in {"idle", "signing", "submitting", "relaying", "confirmed", "timeout", "failed"}
  /\ flow \in [Flows -> FlowStep] /\ signed \in [Flows -> Nat]
  /\ standard \in {"idle", "awaiting-signature", "pending", "settled"}
  /\ standardTx \in {"none", "sent", "over"}

RedeemInit ==
  /\ RelayInit
  /\ phase = "idle"
  /\ flow = [f \in Flows |-> "unused"]
  /\ signed = [f \in Flows |-> 0]
  /\ standard = "idle" /\ standardTx = "none"

(***************************************************************************)
(* The form.                                                               *)
(***************************************************************************)

\* Setting or clearing the gasless box, or leaving the timeout panel for a standard redemption:
\* resetGasless, which no running flow hears of.
ResetGasless ==
  /\ phase # "idle" /\ phase' = "idle"
  /\ UNCHANGED <<relayVars, flow, signed, standard, standardTx>>

\* No step of the standard path runs.  The form also wants a quote that is ready and a balance that
\* is enough, but the balance it knows is that of a query some seconds old, or not there yet, and
\* then it lets anything through: of the shares on the chain a click may make no assumption.
CanSubmit == standard \notin {"awaiting-signature", "pending"}

(***************************************************************************)
(* redeemGasless.                                                          *)
(***************************************************************************)

SetFlow(f, step) == flow' = [flow EXCEPT ![f] = step]

\* The nonce that goes into the message.
readDepositSignContext == nonce

\* Up to the wallet's prompt: with a quote that has not expired, the nonce is read.
StartGasless(f) ==
  /\ CanSubmit /\ ~Busy
  /\ flow[f] = "unused" /\ \A g \in 1..(f - 1) : flow[g] # "unused"
  /\ SetFlow(f, "signing") /\ phase' = "signing"
  /\ signed' = [signed EXCEPT ![f] = readDepositSignContext]
  /\ UNCHANGED <<relayVars, standard, standardTx>>

Sign(f) ==
  /\ flow[f] = "signing"
  /\ SetFlow(f, "submitting") /\ phase' = "submitting"
  /\ UNCHANGED <<relayVars, signed, standard, standardTx>>

RejectSigning(f) ==
  /\ flow[f] = "signing"
  /\ SetFlow(f, "failed") /\ phase' = "failed"
  /\ UNCHANGED <<relayVars, signed, standard, standardTx>>

TakeReply(f) == reply' = [reply EXCEPT ![f] = "none"]

\* HttpRelayer.submit returned a handle, which starts polling; the phase stays.
TakeAccepted(f) ==
  /\ flow[f] = "submitting" /\ reply[f] = "accepted"
  /\ SetFlow(f, "polling") /\ TakeReply(f)
  /\ UNCHANGED <<jobs, tasks, chainVars, phase, signed, standard, standardTx>>

\* HttpRelayer.submit threw: an HTTP error, or no answer at all.
TakeRejected(f) ==
  /\ flow[f] = "submitting"
  /\ \/ reply[f] = "refused" /\ SetFlow(f, "refused")
     \/ reply[f] = "lost" /\ SetFlow(f, "failed")
     \/ reply[f] = "none" /\ tasks[f] = "over" /\ SetFlow(f, "failed")
  /\ phase' = "failed" /\ TakeReply(f)
  /\ UNCHANGED <<jobs, tasks, chainVars, signed, standard, standardTx>>

\* The listener of redeemGasless: the phase follows the status, a final one ends the flow.
Emit(f, status) ==
  /\ phase' = status
  /\ IF status \in Settled THEN SetFlow(f, status) ELSE UNCHANGED flow

\* GET of the job, which answers 404 for one it does not know.
GetJob(f) == jobs[f] # "unknown"

\* One answered poll.  An unknown job, or a poll that fails, changes nothing.
Poll(f) ==
  /\ flow[f] = "polling" /\ GetJob(f)
  /\ Emit(f, jobs[f])
  /\ UNCHANGED <<relayVars, signed, standard, standardTx>>

\* Mutant: the deadline is looked at only when the server knows the job.
PollTimeoutOnAnswer(f) ==
  /\ flow[f] = "polling" /\ GetJob(f)
  /\ Emit(f, "timeout")
  /\ UNCHANGED <<relayVars, signed, standard, standardTx>>

\* TIMEOUT_MS have passed at the head of the polling loop.
PollTimeout(f) ==
  /\ flow[f] = "polling"
  /\ Emit(f, "timeout")
  /\ UNCHANGED <<relayVars, signed, standard, standardTx>>

(***************************************************************************)
(* The standard redemption: useRedeem's redeem through runStep.            *)
(***************************************************************************)

\* With the gasless box cleared.  Bound: one transaction of the wallet.
StartStandard ==
  /\ CanSubmit /\ standardTx = "none" /\ phase' = "idle"
  /\ standard' = "awaiting-signature"
  /\ UNCHANGED <<relayVars, flow, signed, standardTx>>

WalletAnswers ==
  /\ standard = "awaiting-signature"
  /\ \/ /\ standard' = "pending" /\ standardTx' = "sent"
     \/ /\ standard' = "settled" /\ UNCHANGED standardTx
  /\ UNCHANGED <<relayVars, phase, flow, signed>>

\* The wallet's transaction is mined.
MineStandard ==
  /\ standardTx = "sent"
  /\ standardTx' = "over"
  /\ shares' = IF shares >= 1 THEN shares - 1 ELSE shares
  /\ UNCHANGED <<serverVars, txs, late, nonce, phase, flow, signed, standard>>

\* waitForTransactionReceipt returns (success), or throws (error): on a revert, or because reading
\* the receipt failed while the transaction was still to be mined.
StandardSettles ==
  /\ standard = "pending" /\ standard' = "settled"
  /\ UNCHANGED <<relayVars, phase, flow, signed, standardTx>>

(***************************************************************************)
(* Page and service together.                                              *)
(***************************************************************************)

ServerStep(f) ==
  /\ \/ flow[f] = "submitting" /\ Accept(f, signed[f])
     \/ flow[f] = "submitting" /\ Refuse(f)
     \/ Broadcast(f)
     \/ BroadcastFails(f)
     \/ WaitConfirms(f)
     \/ WaitThrows(f)
  /\ UNCHANGED pageVars

ChainStep(f) ==
  /\ Mine(f, signed[f]) \/ ExpireTx(f)
  /\ UNCHANGED pageVars

\* A restart matters while somebody waits for the process.
World ==
  /\ \/ Restart /\ \E f \in Flows : flow[f] \in {"submitting", "polling"}
     \/ \E f \in Flows : flow[f] = "submitting" /\ LoseReply(f)
  /\ UNCHANGED pageVars

FlowNext(f) ==
  \/ StartGasless(f) \/ Sign(f) \/ RejectSigning(f)
  \/ TakeAccepted(f) \/ TakeRejected(f) \/ Poll(f) \/ PollTimeout(f)

RedeemNext ==
  \/ ResetGasless
  \/ StartStandard \/ WalletAnswers \/ MineStandard \/ StandardSettles
  \/ \E f \in Flows : FlowNext(f) \/ ServerStep(f) \/ ChainStep(f)
  \/ World

\* The event loops of server and page run what is due, timers fire, and rrelayer does not keep a
\* transaction for ever.  Nothing is assumed of the user, of the network or of prices.
RedeemFairness ==
  \A f \in Flows :
    /\ WF_redeemVars(ServerStep(f))
    /\ WF_redeemVars(ChainStep(f))
    /\ WF_redeemVars(TakeAccepted(f) \/ TakeRejected(f))
    /\ WF_redeemVars(PollTimeout(f))

RedeemSpec == RedeemInit /\ [][RedeemNext]_redeemVars /\ RedeemFairness

(***************************************************************************)
(* Properties.                                                             *)
(***************************************************************************)

\* Something else happened to the user since this message was signed: its nonce went to another
\* message, its deadline passed, or the balance was spent.
Overtaken(f) == nonce > signed[f] \/ f \in late \/ shares = 0

\* Hazard: a request is refused after something of it was started.  Once the service has refused
\* a message (an HTTP error), its transaction never reaches rrelayer, so the user may sign
\* another without redeeming twice.
RefusedNeverLands == \A f \in Flows : flow[f] = "refused" => txs[f] = "none"

\* Hazard: the wait for a transaction ends in an error and the code guesses.  A redemption shown
\* as confirmed was executed, unless its message was overtaken.
ConfirmedUnlessOvertaken ==
  \A f \in Flows : jobs[f] = "confirmed" \/ flow[f] = "confirmed" =>
                     txs[f] = "mined" \/ Overtaken(f)

\* What "landed" and "confirmed" say: a redemption shown as confirmed was executed.
ConfirmedWasExecuted == \A f \in Flows : flow[f] = "confirmed" => txs[f] = "mined"

\* Hazard: the server forgets the job, or never answers.  Every submitted redemption comes to an
\* end on the page: confirmed, failed, refused or timed out.
SubmissionSettles ==
  \A f \in Flows : flow[f] \in {"submitting", "polling"} ~> flow[f] \in Settled
=============================================================================
