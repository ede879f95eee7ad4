---------------------------- MODULE RedeemToBase ----------------------------
(***************************************************************************)
(* The page that redeems ltZEN to the other chain (useRedeemToBase,        *)
(* RedeemToBaseWizard): redeem into the egress station, bridge the credit  *)
(* to the confirmed address, watch that address for the ZEN; or withdraw   *)
(* the credit to the user's own account.                                   *)
(*                                                                         *)
(* Everything the page remembers is lost when it is loaded again; the      *)
(* credit is then read from the chain, and taken to be 0 until the query   *)
(* answers.  Both chains, the bridge and the relay are external;           *)
(* EgressStation and RelayService model the latter closely.  The phase     *)
(* "waiting" counts as busy and disables the button, so that markDone and  *)
(* startOver can never be called and only loading the page again leaves    *)
(* it.                                                                     *)
(***************************************************************************)
EXTENDS OftDust

CONSTANTS
  ShareAmounts,     \* what the user may type
  LtBalance,        \* the user's ltZEN; a share redeems for one ZEN
  RelayFees,        \* what a relayed call may cost
  MaxOps,           \* bound: signed calls
  MaxOutside        \* bound: transfers at the destination that are not the page's

ASSUME BasePageAssumption ==
  /\ ShareAmounts \subseteq Nat \ {0} /\ RelayFees \subseteq Nat
  /\ {LtBalance, MaxOps, MaxOutside} \subseteq Nat

VARIABLES
  sharesWei,        \* 0 if undefined
  destConfirmed,
  basePhase,        \* phase
  baseTxHash,       \* bridgeTxHash: set or not
  baseBalanceBefore, baseZenBalance,   \* -1 if undefined
  baseCredited,     \* credited: data of creditedQuery, 0 while it has none
  creditRead,       \* it has data
  op,               \* the page's calls: kind, assets and where the transaction is
  ltBalance, egressCredit, flight, destZen,   \* the chains: flight maps calls to ZEN under way
  outside,          \* transfers at the destination from or to others
  misled            \* history: a call went through, or a read failed, and the page cannot know

baseVars == <<sharesWei, destConfirmed, basePhase, baseTxHash, baseBalanceBefore, baseZenBalance,
              baseCredited, creditRead, op, ltBalance, egressCredit, flight, destZen, outside,
              misled>>
creditedQuery == <<baseCredited, creditRead>>
hubVars == <<ltBalance, egressCredit, flight, destZen, outside>>

Ops == 1..MaxOps
NoOp == [kind |-> "none", assets |-> 0, tx |-> "none"]

BaseInit ==
  /\ sharesWei = 0 /\ destConfirmed = FALSE /\ basePhase = "idle" /\ baseTxHash = FALSE
  /\ baseBalanceBefore = -1 /\ baseZenBalance = -1
  /\ baseCredited = 0 /\ creditRead = FALSE
  /\ op = [n \in Ops |-> NoOp]
  /\ ltBalance = LtBalance /\ egressCredit = 0 /\ flight = [n \in Ops |-> 0]
  /\ destZen = 0 /\ outside = 0 /\ misled = FALSE

(***************************************************************************)
(* What the page shows.                                                    *)
(***************************************************************************)

BaseBusy == basePhase \in {"signing", "relaying", "withdrawing", "waiting"}

baseArrived == baseBalanceBefore >= 0 /\ baseZenBalance >= 0 /\ baseZenBalance > baseBalanceBefore

BaseStep ==
  IF baseArrived THEN "done"
  ELSE IF baseTxHash /\ (basePhase = "waiting" \/ truncateOftAmountLD(baseCredited) > 0)
  THEN "wait-base"
  ELSE IF truncateOftAmountLD(baseCredited) > 0 THEN "bridge"
  ELSE IF destConfirmed /\ sharesWei # 0 THEN "redeem"
  ELSE IF sharesWei # 0 THEN "confirm-dest" ELSE "amount"

\* creditedQuery, every five seconds.
ReadCredited ==
  /\ ~(creditRead /\ baseCredited = egressCredit)
  /\ baseCredited' = egressCredit /\ creditRead' = TRUE
  /\ UNCHANGED <<sharesWei, destConfirmed, basePhase, baseTxHash, baseBalanceBefore,
                 baseZenBalance, op, hubVars, misled>>

\* baseZenBalanceQuery, every eight seconds and only while waiting.
ReadBaseBalance ==
  /\ basePhase = "waiting" /\ baseZenBalance # destZen
  /\ baseZenBalance' = destZen
  /\ UNCHANGED <<sharesWei, destConfirmed, basePhase, baseTxHash, baseBalanceBefore,
                 creditedQuery, op, hubVars, misled>>

EditShares(a) ==
  /\ BaseStep \in {"amount", "confirm-dest"} /\ a # sharesWei
  /\ sharesWei' = a
  /\ UNCHANGED <<destConfirmed, basePhase, baseTxHash, baseBalanceBefore, baseZenBalance,
                 creditedQuery, op, hubVars, misled>>

confirmDest ==
  /\ ~BaseBusy /\ BaseStep \in {"amount", "confirm-dest"} /\ sharesWei # 0
  /\ destConfirmed' = TRUE
  /\ UNCHANGED <<sharesWei, basePhase, baseTxHash, baseBalanceBefore, baseZenBalance,
                 creditedQuery, op, hubVars, misled>>

(***************************************************************************)
(* relayRedeemAndCredit, relayBridge and withdrawCredit.                   *)
(***************************************************************************)

StartOp(n, kind, assets) ==
  /\ ~BaseBusy /\ assets # 0
  /\ op[n] = NoOp /\ \A k \in 1..(n - 1) : op[k] # NoOp
  /\ op' = [op EXCEPT ![n] = [kind |-> kind, assets |-> assets, tx |-> "asked"]]
  /\ basePhase' = IF kind = "withdraw" THEN "withdrawing" ELSE "signing"
  /\ UNCHANGED <<sharesWei, destConfirmed, baseTxHash, baseBalanceBefore, baseZenBalance,
                 creditedQuery, hubVars, misled>>

relayRedeemAndCredit(n) == BaseStep = "redeem" /\ StartOp(n, "redeem", sharesWei)
relayBridge(n) == BaseStep = "bridge" /\ StartOp(n, "bridge", baseCredited)
withdrawCredit(n) == BaseStep \in {"bridge", "wait-base"} /\ StartOp(n, "withdraw", baseCredited)

\* The call a running function is at: the last one, unless the page was loaded again since.
Awaited(n) ==
  /\ basePhase \in {"signing", "relaying", "withdrawing"}
  /\ op[n] # NoOp /\ \A k \in Ops : k > n => op[k] = NoOp

\* Mutant: the balance at the destination is read once the transfer is confirmed.
BalanceAtEnd(n) ==
  IF op[n].kind = "bridge" /\ op[n].tx = "landed" THEN baseBalanceBefore' = destZen
  ELSE UNCHANGED baseBalanceBefore
\* What relayBridge reads at the destination, between the signature and the submission.
BalanceRead(n) ==
  IF op[n].kind = "bridge" /\ op[n].tx = "asked" THEN baseBalanceBefore' = destZen
  ELSE UNCHANGED baseBalanceBefore

SignOp(n) ==
  /\ Awaited(n) /\ op[n].tx = "asked"
  /\ op' = [op EXCEPT ![n].tx = "signed"]
  /\ BalanceRead(n)
  /\ basePhase' = IF op[n].kind = "withdraw" THEN basePhase ELSE "relaying"
  /\ UNCHANGED <<sharesWei, destConfirmed, baseTxHash, baseZenBalance, creditedQuery, hubVars,
                 misled>>

SubmitOp(n) ==
  /\ Awaited(n) /\ op[n].tx = "signed"
  /\ op' = [op EXCEPT ![n].tx = "sent"]
  /\ UNCHANGED <<sharesWei, destConfirmed, basePhase, baseTxHash, baseBalanceBefore,
                 baseZenBalance, creditedQuery, hubVars, misled>>

\* Mutant: the queries are not invalidated once a call is confirmed.
KeepCredited == UNCHANGED <<creditedQuery, misled>>
\* `await queryClient.invalidateQueries()`: the credit is read again, or the read fails unnoticed.
RefreshCredited ==
  \/ baseCredited' = egressCredit /\ creditRead' = TRUE /\ UNCHANGED misled
  \/ UNCHANGED creditedQuery /\ misled' = TRUE

OpConfirmed(n) ==
  /\ Awaited(n) /\ op[n].tx = "landed"
  /\ op' = [op EXCEPT ![n].tx = "confirmed"]
  /\ RefreshCredited /\ BalanceRead(n)
  /\ basePhase' = IF op[n].kind = "bridge" THEN "waiting" ELSE "idle"
  /\ IF op[n].kind = "withdraw" THEN baseTxHash' = FALSE /\ destConfirmed' = FALSE
     ELSE baseTxHash' = (baseTxHash \/ op[n].kind = "bridge") /\ UNCHANGED destConfirmed
  /\ UNCHANGED <<sharesWei, baseZenBalance, hubVars>>

\* Refused or reverted; or given up on, while it goes through.
OpFails(n) ==
  /\ Awaited(n)
  /\ basePhase' = "failed"
  /\ op' = [op EXCEPT ![n].tx = IF @ \in {"asked", "signed"} THEN "refused" ELSE @]
  /\ misled' = (misled \/ op[n].tx \in {"sent", "landed"})
  /\ UNCHANGED <<sharesWei, destConfirmed, baseTxHash, baseBalanceBefore, baseZenBalance,
                 creditedQuery, hubVars>>

\* The page is loaded again: until the query answers, it shows a credit of 0 and waits for nothing.
ReloadPage ==
  /\ sharesWei' = 0 /\ destConfirmed' = FALSE /\ basePhase' = "idle" /\ baseTxHash' = FALSE
  /\ baseBalanceBefore' = -1 /\ baseZenBalance' = -1
  /\ baseCredited' = 0 /\ creditRead' = FALSE
  /\ op' = [n \in Ops |-> IF op[n].tx \in {"asked", "signed"}
                          THEN [op[n] EXCEPT !.tx = "refused"] ELSE op[n]]
  /\ misled' = (misled \/ \E n \in Ops : op[n].tx = "sent")
  /\ UNCHANGED hubVars

(***************************************************************************)
(* The chains.                                                             *)
(***************************************************************************)

SetTx(n, tx) == op' = [op EXCEPT ![n].tx = tx]

LandOp(n) ==
  /\ op[n].tx = "sent"
  /\ \/ \E fee \in RelayFees :
          /\ op[n].kind = "redeem" /\ ltBalance >= op[n].assets /\ fee < op[n].assets
          /\ SetTx(n, "landed")
          /\ ltBalance' = ltBalance - op[n].assets
          /\ egressCredit' = egressCredit + op[n].assets - fee
          /\ UNCHANGED flight
     \/ \E fee \in RelayFees :
          LET net == op[n].assets - fee  sent == truncateOftAmountLD(net)
          IN  /\ op[n].kind = "bridge" /\ egressCredit >= op[n].assets /\ sent > 0
              /\ SetTx(n, "landed")
              /\ egressCredit' = egressCredit - op[n].assets + (net - sent)
              /\ flight' = [flight EXCEPT ![n] = sent]
              /\ UNCHANGED ltBalance
     \/ /\ op[n].kind = "withdraw" /\ egressCredit >= op[n].assets
        /\ SetTx(n, "landed")
        /\ egressCredit' = egressCredit - op[n].assets
        /\ UNCHANGED <<ltBalance, flight>>
     \/ /\ SetTx(n, "reverted")
        /\ UNCHANGED <<ltBalance, egressCredit, flight>>
  /\ UNCHANGED <<sharesWei, destConfirmed, basePhase, baseTxHash, baseBalanceBefore,
                 baseZenBalance, creditedQuery, destZen, outside, misled>>

ArriveOnBase(n) ==
  /\ flight[n] > 0
  /\ destZen' = destZen + flight[n] /\ flight' = [flight EXCEPT ![n] = 0]
  /\ UNCHANGED <<sharesWei, destConfirmed, basePhase, baseTxHash, baseBalanceBefore,
                 baseZenBalance, creditedQuery, op, ltBalance, egressCredit, outside, misled>>

\* The owner of the destination spends what is there, or receives ZEN from elsewhere.
OutsideTransfer ==
  /\ outside < MaxOutside /\ outside' = outside + 1
  /\ \/ destZen > 0 /\ destZen' = 0
     \/ destZen' = destZen + 1
  /\ UNCHANGED <<sharesWei, destConfirmed, basePhase, baseTxHash, baseBalanceBefore,
                 baseZenBalance, creditedQuery, op, ltBalance, egressCredit, flight, misled>>

BaseNext ==
  \/ ReadCredited \/ ReadBaseBalance \/ confirmDest \/ ReloadPage \/ OutsideTransfer
  \/ \E a \in ShareAmounts \cup {0} : EditShares(a)
  \/ \E n \in Ops :
       \/ relayRedeemAndCredit(n) \/ relayBridge(n) \/ withdrawCredit(n)
       \/ SignOp(n) \/ SubmitOp(n) \/ OpConfirmed(n) \/ OpFails(n)
       \/ LandOp(n) \/ ArriveOnBase(n)

\* The bridge delivers what was sent, and the page keeps polling.
BaseFairness ==
  /\ \A n \in Ops : WF_baseVars(ArriveOnBase(n))
  /\ WF_baseVars(ReadBaseBalance)

BasePageSpec == BaseInit /\ [][BaseNext]_baseVars /\ BaseFairness

(***************************************************************************)
(* Properties.                                                             *)
(***************************************************************************)

\* Hazard: the credit is known from a query that lags behind the call that made it.  Once the
\* query has answered, and unless a call went through or a read failed without the page knowing,
\* it does not offer to redeem the same shares again while the credit of a redemption waits to be
\* bridged.
RedeemOfferedOnce ==
  BaseStep = "redeem" /\ ~BaseBusy /\ creditRead /\ ~misled =>
    truncateOftAmountLD(egressCredit) = 0

\* Hazard: the ZEN may arrive before the page looks for it, or while it does.  Once it waits, the
\* page shows the arrival, if nobody else moves ZEN at the destination and it is not loaded again.
ArrivalIsSeen == basePhase = "waiting" ~> BaseStep = "done" \/ basePhase # "waiting" \/ outside > 0
=============================================================================
