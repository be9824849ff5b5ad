------------------------------ MODULE Payments ------------------------------
(***************************************************************************)
(* PaymentsService: the ledger's withdrawal operations together with the   *)
(* notifications it sends, and the promise the two keep (module Account).  *)
(*                                                                         *)
(* Notifications are appended to the outbox of NotificationsService and    *)
(* never leave it.  Of those about a request only the last one counts: it  *)
(* is what influencer and Finance believe of the request.  A call that the *)
(* role of its user does not allow (canManagePayments) changes nothing.    *)
(***************************************************************************)
EXTENDS Ledger

VARIABLE
  told     \* the status the last notification about each request carried

allVars == <<vars, told>>

PaymentsInit == Init /\ told = [w \in WithdrawalIds |-> "none"]

Tell(w, status) == told' = [told EXCEPT ![w] = status]

----------------------------------------------------------------------------
\* createWithdrawal: withdrawal.requested, to Finance.
CreateWithdrawal(w, i, brand, amount) ==
  /\ RequestWithdrawal(w, i, brand, amount)
  /\ Tell(w, "pending")

\* Mutant of AnnouncedStatus: the status the caller decided on.
AnnouncedStatus_Decided(w, decision) == decision

\* The status a decision's notification carries: that of the request the database
\* returns, decided or, when it was no longer pending, as it was.
AnnouncedStatus(w, decision) == withdrawals'[w].status

\* decideWithdrawal: a request that is no longer pending is returned as it is and
\* announced all the same.
DecideAndTell(w, decision) ==
  /\ \/ DecideWithdrawal(w, decision)
     \/ /\ withdrawals[w].status # "none"
        /\ ~IsDecidable(w)
        /\ UNCHANGED vars
  /\ Tell(w, AnnouncedStatus(w, decision))

\* recordPayment: payment.recorded, with the status the request has by then.
PayAndTell(p, w, amount, ids) ==
  /\ RecordPayment(p, w, amount, ids)
  /\ Tell(w, withdrawals'[w].status)

\* ... and when the database throws, nothing is sent.
RefuseQuietly(w, amount) == RefusePayment(w, amount) /\ UNCHANGED told

\* What is not about requests leaves their notifications alone; the one about a
\* resolved adjustment (resolveAdjustment) is among them.
ElsewhereStep ==
  /\ Tick \/ PartnerStep \/ TierStep \/ OrderStep \/ SettlementStep \/ AdjustmentStep
  /\ UNCHANGED told

PaymentsNext ==
  \/ ElsewhereStep
  \/ \E w \in WithdrawalIds, i \in Influencers, brand \in Brands, amount \in RequestAmounts :
       CreateWithdrawal(w, i, brand, amount)
  \/ \E w \in WithdrawalIds, decision \in {"approved", "rejected"} : DecideAndTell(w, decision)
  \/ \E p \in PaymentIds, w \in WithdrawalIds, amount \in PaymentAmounts,
        ids \in SUBSET AdjustmentIds : PayAndTell(p, w, amount, ids)
  \/ \E w \in WithdrawalIds, amount \in PaymentAmounts : RefuseQuietly(w, amount)

PaymentsSpec == PaymentsInit /\ [][PaymentsNext]_allVars

----------------------------------------------------------------------------
\* What was last told about a request is its status, however often it was decided
\* and paid, and in which order: with one exception, a payment that was refused has
\* approved a pending request and nobody heard of it (decideWithdrawal announces
\* decisions that decide nothing; recordPayment throws after it has approved).
StatusesAreTold ==
  \A w \in WithdrawalIds :
    \/ told[w] = withdrawals[w].status
    \/ told[w] = "pending" /\ withdrawals[w].status = "approved"

----------------------------------------------------------------------------
(* The promise.  Claims are the requests, each together with its payments. *)

ClaimStatus ==
  [none |-> "unmade", pending |-> "asked", approved |-> "granted",
   rejected |-> "refused", paid |-> "settled"]

Claim(w) ==
  [status  |-> ClaimStatus[withdrawals[w].status],
   owner   |-> withdrawals[w].influencer,
   asked   |-> withdrawals[w].amount,
   settled |-> Total([p \in PaymentIds |->
                 IF payments[p].status = "recorded" /\ payments[p].withdrawal = w
                 THEN payments[p].amount ELSE 0], PaymentCount)]

Promised == INSTANCE Account WITH
  Owners         <- Influencers,
  Nobody         <- None,
  ClaimCount     <- WithdrawalCount,
  AskedAmounts   <- RequestAmounts,
  SettledAmounts <- PaymentAmounts,
  Tolerance      <- 1,
  earned         <- [i \in Influencers |-> CommissionTotal(i, "CONFIRMED")],
  claims         <- [w \in WithdrawalIds |-> Claim(w)]

\* The service keeps the promise of Account, its tolerance being one cent:
\* requests, decisions, payments refused and recorded and adjustments, amid
\* commissions that come and go, are steps of the account or invisible to it
\* (requestWithdrawal, decideWithdrawal, recordPayment).
ImplementsAccount == Promised!Spec

=============================================================================
