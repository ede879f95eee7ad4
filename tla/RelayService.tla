---------------------------- MODULE RelayService ----------------------------
(***************************************************************************)
(* The relay backend of ltzen-frontend/src/server/relay: it takes a signed *)
(* redemption over HTTP, prices and checks it, answers with the id of a    *)
(* job kept in memory, and then broadcasts the transaction through         *)
(* rrelayer and waits for it in the background.  A client polls the job.   *)
(*                                                                         *)
(* One user's requests are modelled, each redeeming one unit of shares.    *)
(* rrelayer, the hub chain, the network and gas prices are external: a     *)
(* sent transaction is mined, reverts or expires, an answer may be lost,   *)
(* and the process may be restarted, which forgets its jobs.               *)
(***************************************************************************)
EXTENDS Naturals

CONSTANTS
  MaxRequests,         \* bound: requests ever sent, one per signed message
  InitialShares        \* units of shares the user holds

ASSUME RelayAssumption == MaxRequests \in Nat /\ InitialShares \in Nat

Requests == 1..MaxRequests

VARIABLES
  jobs,                \* the Map of jobs.ts: status per request, "unknown" if absent
  tasks,               \* the background task of each request
  reply,               \* the HTTP answer to each POST, until the client has it
  txs,                 \* rrelayer's transaction for each request
  late,                \* requests whose transaction met an expired deadline
  nonce, shares        \* hub chain: the user's nonce and balance

serverVars == <<jobs, tasks, reply>>
chainVars  == <<txs, late, nonce, shares>>
relayVars  == <<serverVars, chainVars>>

JobStatus == {"unknown", "relaying", "confirmed", "failed"}
TaskStep  == {"none", "broadcasting", "waiting", "over"}
TxStatus  == {"none", "sent", "mined", "reverted", "expired"}

RelayTypeOK ==
  /\ jobs \in [Requests -> JobStatus]
  /\ tasks \in [Requests -> TaskStep]
  /\ reply \in [Requests -> {"none", "accepted", "refused", "lost"}]
  /\ txs \in [Requests -> TxStatus]
  /\ late \in SUBSET Requests /\ nonce \in Nat /\ shares \in Nat

RelayInit ==
  /\ jobs = [r \in Requests |-> "unknown"]
  /\ tasks = [r \in Requests |-> "none"]
  /\ reply = [r \in Requests |-> "none"]
  /\ txs = [r \in Requests |-> "none"]
  /\ late = {} /\ nonce = 0 /\ shares = InitialShares

(***************************************************************************)
(* Accepting a request.  signed is the nonce its message was signed with.  *)
(* That the fee has risen above the signed maximum (FeeQuote models it) is *)
(* one of the reasons for which any request may be refused.                *)
(***************************************************************************)

\* createJob and the patches up to the first await of the background task.
CreateJob(r) ==
  /\ jobs' = [jobs EXCEPT ![r] = "relaying"]
  /\ tasks' = [tasks EXCEPT ![r] = "broadcasting"]

\* patchJob: a job forgotten by a restart stays forgotten.
PatchJob(r, status) ==
  jobs' = IF jobs[r] = "unknown" THEN jobs ELSE [jobs EXCEPT ![r] = status]

\* verifySignature: the message is rebuilt with the nonce read from the chain.
SignatureValid(signed) == signed = nonce

\* assertChainState and simulateMetaTx, with a deadline still ahead.
ChainStateAllows == shares >= 1

\* validateRelayRequest.
ValidRequest(signed) == SignatureValid(signed) /\ ChainStateAllows

\* queueRelay, answered with the job's id.
Accept(r, signed) ==
  /\ reply[r] = "none" /\ tasks[r] = "none"
  /\ ValidRequest(signed)
  /\ CreateJob(r)
  /\ reply' = [reply EXCEPT ![r] = "accepted"]
  /\ UNCHANGED chainVars

\* Mutant: the job exists, and runs, before the request is validated.
RefuseAfterQueueing(r) ==
  /\ reply[r] = "none" /\ tasks[r] = "none"
  /\ CreateJob(r)
  /\ reply' = [reply EXCEPT ![r] = "refused"]
  /\ UNCHANGED chainVars

\* queueRelay throws: a check (assertRequest, assertFeeLimits) or a read fails, the fee has risen
\* above the signed maximum, or rrelayer's clients cannot be built (an error getRrelayerClients
\* keeps until a restart).
Refuse(r) ==
  /\ reply[r] = "none" /\ tasks[r] = "none"
  /\ reply' = [reply EXCEPT ![r] = "refused"]
  /\ tasks' = [tasks EXCEPT ![r] = "over"]
  /\ UNCHANGED <<jobs, chainVars>>

(***************************************************************************)
(* The background task.                                                    *)
(***************************************************************************)

\* broadcastContractCall returned: rrelayer has the transaction.
Broadcast(r) ==
  /\ tasks[r] = "broadcasting"
  /\ tasks' = [tasks EXCEPT ![r] = "waiting"]
  /\ txs' = [txs EXCEPT ![r] = "sent"]
  /\ UNCHANGED <<jobs, reply, late, nonce, shares>>

\* broadcastContractCall threw; rrelayer may have taken the transaction all the same.
BroadcastFails(r) ==
  /\ tasks[r] = "broadcasting"
  /\ tasks' = [tasks EXCEPT ![r] = "over"]
  /\ \E s \in {"none", "sent"} : txs' = [txs EXCEPT ![r] = s]
  /\ PatchJob(r, "failed")
  /\ UNCHANGED <<reply, late, nonce, shares>>

\* waitForTransactionReceiptById returned the receipt of a transaction that went through.
WaitConfirms(r) ==
  /\ tasks[r] = "waiting" /\ txs[r] = "mined"
  /\ tasks' = [tasks EXCEPT ![r] = "over"]
  /\ PatchJob(r, "confirmed")
  /\ UNCHANGED <<reply, chainVars>>

\* Mutant: a hash is taken for a receipt.
HasHash(r) == txs[r] # "none"
\* A receipt exists for the transaction, whether it succeeded or reverted.
HasReceipt(r) == txs[r] \in {"mined", "reverted"}

\* It threw (FAILED, EXPIRED, or an error of the status API): one look at the chain decides.
WaitThrows(r) ==
  /\ tasks[r] = "waiting"
  /\ tasks' = [tasks EXCEPT ![r] = "over"]
  /\ \/ HasReceipt(r) /\ PatchJob(r, "confirmed")
     \/ PatchJob(r, "failed")
  /\ UNCHANGED <<reply, chainVars>>

(***************************************************************************)
(* Outside the process.                                                    *)
(***************************************************************************)

\* The process starts anew with an empty Map; requests being handled lose their connection.
Restart ==
  /\ jobs' = [r \in Requests |-> "unknown"]
  /\ tasks' = [r \in Requests |-> IF tasks[r] = "none" THEN "none" ELSE "over"]
  /\ UNCHANGED <<reply, chainVars>>

\* The request, or the answer to it, is lost on the network.
LoseReply(r) ==
  /\ reply[r] # "lost"
  /\ reply' = [reply EXCEPT ![r] = "lost"]
  /\ UNCHANGED <<jobs, tasks, chainVars>>

\* The hub contract checks nonce and balance again, and the deadline, which may have passed.
Mine(r, signed) ==
  /\ txs[r] = "sent"
  /\ \/ /\ signed = nonce /\ shares >= 1
        /\ txs' = [txs EXCEPT ![r] = "mined"]
        /\ nonce' = nonce + 1 /\ shares' = shares - 1
        /\ UNCHANGED late
     \/ /\ txs' = [txs EXCEPT ![r] = "reverted"]
        /\ late' = IF signed = nonce /\ shares >= 1 THEN late \cup {r} ELSE late
        /\ UNCHANGED <<nonce, shares>>
  /\ UNCHANGED serverVars

\* rrelayer gives up on a transaction that was not mined.
ExpireTx(r) ==
  /\ txs[r] = "sent"
  /\ txs' = [txs EXCEPT ![r] = "expired"]
  /\ UNCHANGED <<serverVars, late, nonce, shares>>
=============================================================================
