--------------------------- MODULE CrossChainStake ---------------------------
(***************************************************************************)
(* The page that stakes ZEN held on the other chain (useCrossChainStake,   *)
(* CrossChainStakeWizard): sign a credit for the inbound station, bridge   *)
(* the ZEN with that signature, wait for the credit, then stake it, or     *)
(* withdraw it, by a signed message.                                       *)
(*                                                                         *)
(* The page derives its step from what it remembers and from the credit    *)
(* it last read.  Its functions are asynchronous and capture what they     *)
(* use when they start.  Both chains, the bridge, the wallet and the relay *)
(* are external; InboundStation and RelayService model the latter closely. *)
(***************************************************************************)
EXTENDS OftDust

CONSTANTS
  InputAmounts,     \* what the user may type
  MaxSignatures, MaxSends, MaxCalls   \* bounds: credits signed, transfers, calls on the hub

ASSUME StakePageAssumption ==
  /\ InputAmounts \subseteq Nat \ {0}
  /\ {MaxSignatures, MaxSends, MaxCalls} \subseteq Nat

VARIABLES
  amountWei,        \* 0 if undefined
  stakePhase,       \* phase
  signing,          \* what signCredit has captured while it asks the wallet, else 0
  creditSig,        \* signature, nonce and deadline as one, or NoSig
  bridgeTxHash,     \* set or not
  credited,         \* the query's data
  signatures,       \* credits signed so far: the next (random, fresh) nonce
  allowance,        \* on the other chain, for the adapter
  allowanceRead,    \* and as the page's query has it
  click,            \* runs of bridgeFromBase: how far each is, and what it has captured
  sends,            \* the transfer of each run: amount, compose payload, where it is
  credit, used,     \* the station: the user's credit, nonces of composes used
  call,             \* the page's call on the hub, and those it gave up on
  mishap            \* history: something happened that the page cannot know of

stakeVars == <<amountWei, stakePhase, signing, creditSig, bridgeTxHash, credited, signatures,
               allowance, allowanceRead, click, sends, credit, used, call, mishap>>
allowances == <<allowance, allowanceRead>>

NoSig == [amount |-> 0, nonce |-> 0]
NoPayload == [assets |-> 0, sig |-> NoSig]
NoRun == [step |-> "none", amount |-> 0, sig |-> NoSig, approves |-> FALSE]
NoCall == [kind |-> "none", assets |-> 0, tx |-> "none", open |-> FALSE]
Sends == 1..MaxSends
Calls == 1..MaxCalls

StakeInit ==
  /\ amountWei = 0 /\ stakePhase = "idle" /\ signing = 0 /\ creditSig = NoSig
  /\ bridgeTxHash = FALSE /\ credited = 0 /\ signatures = 0
  /\ allowance = 0 /\ allowanceRead = 0
  /\ click = [i \in Sends |-> NoRun]
  /\ sends = [i \in Sends |-> [amount |-> 0, payload |-> NoPayload, at |-> "none"]]
  /\ credit = 0 /\ used = {}
  /\ call = [n \in Calls |-> NoCall] /\ mishap = FALSE

(***************************************************************************)
(* What the page shows.                                                    *)
(***************************************************************************)

StakeBusy == stakePhase \in {"signing", "approving", "bridging", "staking", "withdrawing"}

StakeStep ==
  CASE stakePhase = "confirmed" -> "done"
    [] stakePhase # "confirmed" /\ credited > 0 -> "sign-stake"
    [] stakePhase # "confirmed" /\ credited = 0 ->
         IF bridgeTxHash /\ stakePhase # "failed" THEN "wait-credit"
         ELSE IF creditSig # NoSig THEN "bridge"
         ELSE IF amountWei # 0 THEN "sign-credit" ELSE "amount"

needsApproval == allowanceRead < amountWei

\* The wizard's button, which does what the step calls for.
Primary(steps) == ~StakeBusy /\ StakeStep \in steps

\* The credit is read again every few seconds, and on demand.
ReadCredit ==
  /\ credited # credit /\ credited' = credit
  /\ UNCHANGED <<amountWei, stakePhase, signing, creditSig, bridgeTxHash, signatures, allowances,
                 click, sends, credit, used, call, mishap>>

\* So is the allowance.
ReadBaseAllowance ==
  /\ allowanceRead # allowance /\ allowanceRead' = allowance
  /\ UNCHANGED <<amountWei, stakePhase, signing, creditSig, bridgeTxHash, credited, signatures,
                 allowance, click, sends, credit, used, call, mishap>>

\* The input and the Max button; neither is locked while the wallet asks for a signature.
EditAmount(a) ==
  /\ StakeStep \in {"amount", "sign-credit"} /\ a # amountWei
  /\ amountWei' = a
  /\ mishap' = (mishap \/ signing # 0)
  /\ UNCHANGED <<stakePhase, signing, creditSig, bridgeTxHash, credited, signatures, allowances,
                 click, sends, credit, used, call>>

(***************************************************************************)
(* signCredit.                                                             *)
(***************************************************************************)

SignCredit ==
  LET assets == truncateOftAmountLD(amountWei)
  IN  /\ Primary({"amount", "sign-credit"})
      /\ assets # 0 /\ signing = 0 /\ signatures < MaxSignatures
      /\ amountWei' = assets /\ signing' = assets /\ stakePhase' = "signing"
      /\ UNCHANGED <<creditSig, bridgeTxHash, credited, signatures, allowances, click, sends,
                     credit, used, call, mishap>>

\* Signed; switching back to the other chain may still be refused, the signature stays.
CreditSigned ==
  /\ signing # 0
  /\ creditSig' = [amount |-> signing, nonce |-> signatures + 1]
  /\ signatures' = signatures + 1 /\ signing' = 0
  /\ stakePhase' \in {"idle", "failed"}
  /\ UNCHANGED <<amountWei, bridgeTxHash, credited, allowances, click, sends, credit, used,
                 call, mishap>>

SigningRefused ==
  /\ signing # 0
  /\ stakePhase' = "failed" /\ signing' = 0
  /\ UNCHANGED <<amountWei, creditSig, bridgeTxHash, credited, signatures, allowances, click,
                 sends, credit, used, call, mishap>>

(***************************************************************************)
(* bridgeFromBase.  Each run goes on with what the page had when the       *)
(* button was clicked.                                                     *)
(***************************************************************************)

Open(i) == click[i].step \notin {"none", "over"}
RunOver(i) == click' = [click EXCEPT ![i] = [NoRun EXCEPT !.step = "over"]]

\* The wizard asks the wallet for the other chain first (ensureBase); until it is there the phase
\* stays as it was, and the button can be clicked again.
StartBridge(i) ==
  /\ Primary({"bridge"}) /\ amountWei # 0
  /\ click[i] = NoRun /\ \A j \in 1..(i - 1) : click[j] # NoRun
  /\ click' = [click EXCEPT ![i] = [step |-> "switching", amount |-> amountWei, sig |-> creditSig,
                                approves |-> needsApproval]]
  /\ mishap' = (mishap \/ \E j \in Sends : Open(j))
  /\ UNCHANGED <<amountWei, stakePhase, signing, creditSig, bridgeTxHash, credited, signatures,
                 allowances, sends, credit, used, call>>

BaseReady(i) ==
  /\ click[i].step = "switching"
  /\ stakePhase' = IF click[i].approves THEN "approving" ELSE "bridging"
  /\ click' = [click EXCEPT ![i].step = stakePhase']
  /\ UNCHANGED <<amountWei, signing, creditSig, bridgeTxHash, credited, signatures, allowances,
                 sends, credit, used, call, mishap>>

\* Refused: silently when the wizard has asked, as a failure when the hook asks again.
SwitchRefused(i) ==
  /\ click[i].step = "switching" /\ RunOver(i)
  /\ stakePhase' \in {stakePhase, "failed"}
  /\ UNCHANGED <<amountWei, signing, creditSig, bridgeTxHash, credited, signatures, allowances,
                 sends, credit, used, call, mishap>>

\* The approval is mined and the allowance read again, which may fail.
Approve(i) ==
  /\ click[i].step = "approving"
  /\ allowance' = click[i].amount /\ allowanceRead' \in {allowanceRead, click[i].amount}
  /\ stakePhase' = "bridging" /\ click' = [click EXCEPT ![i].step = "bridging"]
  /\ UNCHANGED <<amountWei, signing, creditSig, bridgeTxHash, credited, signatures, sends,
                 credit, used, call, mishap>>

\* The owner, nonce and deadline go with the signature.
encodeStationComposePayload(assets, sig) == [assets |-> assets, sig |-> sig]

\* The amount must be the one signed, or at least one without dust, which the code takes for it.
SendBridge(i) ==
  /\ click[i].step = "bridging" /\ truncateOftAmountLD(click[i].amount) = click[i].amount
  /\ sends' = [sends EXCEPT ![i] = [amount |-> click[i].amount, at |-> "sent",
                  payload |-> encodeStationComposePayload(click[i].amount, click[i].sig)]]
  /\ click' = [click EXCEPT ![i].step = "receipt"]
  /\ UNCHANGED <<amountWei, stakePhase, signing, creditSig, bridgeTxHash, credited, signatures,
                 allowances, credit, used, call, mishap>>

\* Dust in the amount, a wallet that refuses, a quote that fails, a transfer that reverts; or the
\* receipt cannot be read while the transfer goes through.
BridgeFails(i) ==
  /\ click[i].step \in {"approving", "bridging", "receipt"} /\ RunOver(i)
  /\ stakePhase' = "failed"
  /\ mishap' = (mishap \/ sends[i].at \notin {"none", "reverted"})
  /\ UNCHANGED <<amountWei, signing, creditSig, bridgeTxHash, credited, signatures, allowances,
                 sends, credit, used, call>>

BridgeSent(i) ==
  /\ click[i].step = "receipt" /\ sends[i].at \notin {"sent", "reverted"} /\ RunOver(i)
  /\ bridgeTxHash' = TRUE /\ stakePhase' = "waiting"
  /\ UNCHANGED <<amountWei, signing, creditSig, credited, signatures, allowances, sends, credit,
                 used, call, mishap>>

(***************************************************************************)
(* stakeFromCredit and withdrawCredit.                                     *)
(***************************************************************************)

StartCall(n, kind) ==
  /\ Primary({"sign-stake"})
  /\ call[n] = NoCall /\ \A k \in 1..(n - 1) : call[k] # NoCall
  /\ call' = [call EXCEPT ![n] = [kind |-> kind, assets |-> credited, tx |-> "asked",
                                  open |-> TRUE]]
  /\ stakePhase' = IF kind = "stake" THEN "staking" ELSE "withdrawing"
  /\ UNCHANGED <<amountWei, signing, creditSig, bridgeTxHash, credited, signatures, allowances,
                 click, sends, credit, used, mishap>>

SignCall(n) ==
  /\ call[n].open /\ call[n].tx = "asked"
  /\ call' = [call EXCEPT ![n].tx = "signed"]
  /\ UNCHANGED <<amountWei, stakePhase, signing, creditSig, bridgeTxHash, credited, signatures,
                 allowances, click, sends, credit, used, mishap>>

\* Through the relay or by the wallet itself.
SubmitCall(n) ==
  /\ call[n].open /\ call[n].tx = "signed"
  /\ call' = [call EXCEPT ![n].tx = "sent"]
  /\ UNCHANGED <<amountWei, stakePhase, signing, creditSig, bridgeTxHash, credited, signatures,
                 allowances, click, sends, credit, used, mishap>>

\* Mutant: a withdrawal leaves the signature it has used up.
ForgetBridgeOnly == bridgeTxHash' = FALSE /\ UNCHANGED creditSig
\* What a confirmed withdrawal clears; the amount stays.
ForgetCredit == bridgeTxHash' = FALSE /\ creditSig' = NoSig

CallConfirmed(n) ==
  /\ call[n].open /\ call[n].tx = "landed"
  /\ IF call[n].kind = "stake"
     THEN stakePhase' = "confirmed" /\ UNCHANGED <<bridgeTxHash, creditSig>>
     ELSE stakePhase' = "idle" /\ ForgetCredit
  /\ call' = [call EXCEPT ![n].open = FALSE]
  /\ UNCHANGED <<amountWei, signing, credited, signatures, allowances, click, sends, credit,
                 used, mishap>>

\* Refused, reverted, or given up on while it may still land.
CallFails(n) ==
  /\ call[n].open
  /\ stakePhase' = "failed"
  /\ call' = [call EXCEPT ![n].open = FALSE,
                          ![n].tx = IF @ \in {"asked", "signed"} THEN "refused" ELSE @]
  /\ mishap' = (mishap \/ call[n].tx \in {"sent", "landed"})
  /\ UNCHANGED <<amountWei, signing, creditSig, bridgeTxHash, credited, signatures, allowances,
                 click, sends, credit, used>>

\* "Start over" once done: reset.
ResetStake ==
  /\ Primary({"done"})
  /\ amountWei' = 0 /\ stakePhase' = "idle" /\ creditSig' = NoSig /\ bridgeTxHash' = FALSE
  /\ UNCHANGED <<signing, credited, signatures, allowances, click, sends, credit, used, call,
                 mishap>>

(***************************************************************************)
(* The chains.                                                             *)
(***************************************************************************)

MineSend(i) ==
  /\ sends[i].at = "sent"
  /\ \/ /\ allowance >= sends[i].amount
        /\ sends' = [sends EXCEPT ![i].at = "bridged"]
        /\ allowance' = allowance - sends[i].amount
     \/ sends' = [sends EXCEPT ![i].at = "reverted"] /\ UNCHANGED allowance
  /\ UNCHANGED <<amountWei, stakePhase, signing, creditSig, bridgeTxHash, credited, signatures,
                 allowanceRead, click, credit, used, call, mishap>>

\* What the station asks of a compose: the amount it came with, and a signature over it whose
\* nonce is unused.
Acceptable(send) ==
  /\ send.payload.assets = send.amount
  /\ send.payload.sig.amount = send.payload.assets /\ send.payload.sig.nonce \notin used

\* The compose is executed, or is rejected although it could have been: its deadline has passed.
ComposeSend(i) ==
  /\ sends[i].at = "bridged"
  /\ \/ /\ Acceptable(sends[i])
        /\ sends' = [sends EXCEPT ![i].at = "credited"]
        /\ credit' = credit + sends[i].amount /\ used' = used \cup {sends[i].payload.sig.nonce}
        /\ UNCHANGED mishap
     \/ /\ ~Acceptable(sends[i])
        /\ sends' = [sends EXCEPT ![i].at = "rejected"]
        /\ UNCHANGED <<credit, used, mishap>>
     \/ /\ sends' = [sends EXCEPT ![i].at = "rejected"] /\ mishap' = TRUE
        /\ UNCHANGED <<credit, used>>
  /\ UNCHANGED <<amountWei, stakePhase, signing, creditSig, bridgeTxHash, credited, signatures,
                 allowances, click, call>>

LandCall(n) ==
  /\ call[n].tx = "sent"
  /\ \/ /\ credit >= call[n].assets
        /\ call' = [call EXCEPT ![n].tx = "landed"] /\ credit' = credit - call[n].assets
     \/ call' = [call EXCEPT ![n].tx = "reverted"] /\ UNCHANGED credit
  /\ UNCHANGED <<amountWei, stakePhase, signing, creditSig, bridgeTxHash, credited, signatures,
                 allowances, click, sends, used, mishap>>

StakeNext ==
  \/ ReadCredit \/ ReadBaseAllowance \/ SignCredit \/ CreditSigned \/ SigningRefused
  \/ ResetStake
  \/ \E a \in InputAmounts \cup {0} : EditAmount(a)
  \/ \E i \in Sends :
       \/ StartBridge(i) \/ BaseReady(i) \/ SwitchRefused(i) \/ Approve(i) \/ SendBridge(i)
       \/ BridgeFails(i) \/ BridgeSent(i) \/ MineSend(i) \/ ComposeSend(i)
  \/ \E n \in Calls :
       \/ \E kind \in {"stake", "withdraw"} : StartCall(n, kind)
       \/ SignCall(n) \/ SubmitCall(n) \/ CallConfirmed(n) \/ CallFails(n) \/ LandCall(n)

StakePageSpec == StakeInit /\ [][StakeNext]_stakeVars

(***************************************************************************)
(* Properties.                                                             *)
(***************************************************************************)

\* Hazard: a signature carried twice, or for another amount, after withdrawals, failures and
\* new amounts; the station would keep the ZEN and credit nobody.  Unless the bridge button was
\* clicked again while an earlier click still waited for the wallet, the amount was edited under
\* the wallet's prompt, a receipt or a call that went through was taken for a failure, or the
\* compose came too late, every transfer the page makes is credited.
CreditedUnlessMishap == ~mishap => \A i \in Sends : sends[i].at # "rejected"

\* What bridgeFromBase says of its amount: it is the one that was signed.
SentAsSigned == \A i \in Sends : sends[i].payload.sig.amount = sends[i].amount
=============================================================================
