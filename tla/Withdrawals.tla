---------------------------- MODULE Withdrawals ----------------------------
(***************************************************************************)
(* Withdrawal requests, their decisions, payments, and the adjustments a   *)
(* reconciliation opens when an influencer was paid more than is left.     *)
(***************************************************************************)
EXTENDS LedgerState

CONSTANTS
  RequestAmounts,   \* amounts an influencer may ask for
  PaymentAmounts    \* amounts Finance may type in for a payment

ASSUME WithdrawalConstants ==
  /\ RequestAmounts \subseteq Int
  /\ PaymentAmounts \subseteq Int

----------------------------------------------------------------------------
(* Requests. *)

IsAssignedToBrand(i, brand) ==
  \E c \in Campaigns : <<c, i>> \in assigned /\ BrandOf[c] = brand

\* Mutant of CanRequest: the request is weighed against the confirmed amount,
\* whatever other requests have reserved.
CanRequest_IgnoringReservations(i, brand, amount) ==
  /\ influencerStatus[i] = "approved"
  /\ IsAssignedToBrand(i, brand)
  /\ amount > 0
  /\ balances[i].confirmed - balances[i].withdrawn >= MinimumAmount[brand]
  /\ amount <= balances[i].confirmed - balances[i].withdrawn

\* The checks of requestWithdrawal, in its order.
CanRequest(i, brand, amount) ==
  /\ influencerStatus[i] = "approved"
  /\ IsAssignedToBrand(i, brand)
  /\ amount > 0
  /\ balances[i].available >= MinimumAmount[brand]
  /\ amount <= balances[i].available

\* Mutant of Reserved: the available amount is not recalculated.
Reserved_Stale(b, amount) == [b EXCEPT !.pending = @ + amount]

\* A balance once a request has reserved an amount of it.
Reserved(b, amount) == Recalculate([b EXCEPT !.pending = @ + amount])

\* requestWithdrawal
RequestWithdrawal(w, i, brand, amount) ==
  /\ IsNextFree(withdrawals, w)
  /\ CanRequest(i, brand, amount)
  /\ withdrawals' = [withdrawals EXCEPT ![w] =
       [status |-> "pending", influencer |-> i, amount |-> amount]]
  /\ balances' = [balances EXCEPT ![i] = Reserved(@, amount)]
  /\ UNCHANGED <<now, partnerVars, tierVars, orderVars,
                 payments, adjustments, adjustmentByOrder>>

----------------------------------------------------------------------------
(* Decisions. *)

\* Mutant of IsDecidable: an approved request may be decided again.
IsDecidable_Approved(w) == withdrawals[w].status \in {"pending", "approved"}

\* Any other request is returned to the caller as it is.
IsDecidable(w) == withdrawals[w].status = "pending"

\* Mutant of Released: the reservation of a rejected request stays.
Released_Kept(b, amount) == Recalculate(b)

\* A balance once an amount is no longer reserved: never less than nothing is.
Released(b, amount) == Recalculate([b EXCEPT !.pending = Larger(@ - amount, 0)])

\* decideWithdrawal
DecideWithdrawal(w, decision) ==
  /\ IsDecidable(w)
  /\ withdrawals' = [withdrawals EXCEPT ![w].status = decision]
  /\ balances' = IF decision = "rejected"
                 THEN [balances EXCEPT ![withdrawals[w].influencer] =
                         Released(@, withdrawals[w].amount)]
                 ELSE balances
  /\ UNCHANGED <<now, partnerVars, tierVars, orderVars,
                 payments, adjustments, adjustmentByOrder>>

----------------------------------------------------------------------------
(* Adjustments. *)

\* getPendingAdjustmentTotal
PendingAdjustmentTotal(rows, i) ==
  Total([a \in AdjustmentIds |->
           IF rows[a].status = "pending" /\ OwnerOf(rows[a].order) = i
           THEN rows[a].amount ELSE 0], AdjustmentCount)

\* refreshBalanceAdjustments
RefreshBalanceAdjustments(b, rows, i) ==
  Recalculate([b EXCEPT !.adjustment = PendingAdjustmentTotal(rows, i)])

\* Mutant of Resolved: an adjustment already resolved is resolved again.
Resolved_Again(ids, payment) ==
  [a \in AdjustmentIds |->
     IF a \in ids
     THEN [adjustments[a] EXCEPT !.status = "resolved", !.payment = payment]
     ELSE adjustments[a]]

\* The adjustments once those of ids that are pending have been resolved, by a
\* payment or (0) by an administrator; one already resolved is left as it is.
Resolved(ids, payment) ==
  [a \in AdjustmentIds |->
     IF a \in ids /\ adjustments[a].status = "pending"
     THEN [adjustments[a] EXCEPT !.status = "resolved", !.payment = payment]
     ELSE adjustments[a]]

\* Mutant of OwnersOf: a payment does not refresh the balances.
OwnersOf_Nobody(ids) == {}

\* The influencers whose adjustments are pending and among ids.
OwnersOf(ids) ==
  {OwnerOf(adjustments[a].order) : a \in {b \in ids : adjustments[b].status = "pending"}}

\* resolveWithdrawalAdjustment, from the administrator's endpoint.
ResolveWithdrawalAdjustment(a) ==
  /\ adjustments[a].status = "pending"
  /\ adjustments' = Resolved({a}, 0)
  /\ LET i == OwnerOf(adjustments[a].order) IN
     balances' = [balances EXCEPT ![i] = RefreshBalanceAdjustments(@, Resolved({a}, 0), i)]
  /\ UNCHANGED <<now, partnerVars, tierVars, orderVars,
                 withdrawals, payments, adjustmentByOrder>>

\* Mutant of HasPendingAdjustment: the index by order is not consulted.
HasPendingAdjustment_Never(o) == FALSE

\* A pending adjustment of the order exists: only its wording is refreshed.
HasPendingAdjustment(o) ==
  /\ adjustmentByOrder[o] # 0
  /\ adjustments[adjustmentByOrder[o]].status = "pending"

\* Mutant of Deficit: what pending adjustments already claim is counted again.
Deficit_CountedAgain(i) == Larger(0, -balances[i].available)

\* What an influencer owes beyond what pending adjustments already claim.
Deficit(i) ==
  Larger(0, -balances[i].available - PendingAdjustmentTotal(adjustments, i))

(***************************************************************************)
(* recordReconciliation, for a report with one mismatch entry, on an order: *)
(* createAdjustmentForOrder.  A report with several entries is processed   *)
(* entry by entry, to the same effect as that many reports of one entry.   *)
(***************************************************************************)
RecordReconciliation(a, o) ==
  LET i      == OwnerOf(o)
      amount == Smaller(Deficit(i), commissions[o].amount)
      rows   == [adjustments EXCEPT ![a] =
                   [status |-> "pending", order |-> o, amount |-> amount, payment |-> 0]]
  IN
  /\ IsNextFree(adjustments, a)
  /\ ~HasPendingAdjustment(o)
  /\ commissions[o].state # "NONE"
  /\ Deficit(i) > 0
  /\ amount > 0
  /\ adjustments' = rows
  /\ adjustmentByOrder' = [adjustmentByOrder EXCEPT ![o] = a]
  /\ balances' = [balances EXCEPT ![i] = RefreshBalanceAdjustments(@, rows, i)]
  /\ UNCHANGED <<now, partnerVars, tierVars, orderVars, withdrawals, payments>>

----------------------------------------------------------------------------
(* Payments. *)

\* A rejected or paid request is refused; a pending one is approved first.
IsPayable(w) == withdrawals[w].status \in {"pending", "approved"}

\* The difference between the amount typed in and the amount requested is
\* compared with 0.01 as doubles: a difference of exactly one cent comes out as
\* more or as less, depending on the two amounts.
MayMatch(w, amount)    == Distance(amount, withdrawals[w].amount) <= 1
MayMismatch(w, amount) == Distance(amount, withdrawals[w].amount) >= 1

\* Mutant of PaidOut: the amount replaces what was withdrawn before.
PaidOut_Overwritten(b, amount) ==
  Recalculate([b EXCEPT !.pending = Larger(@ - amount, 0), !.withdrawn = amount])

\* A balance once an amount has been paid.
PaidOut(b, amount) ==
  Recalculate([b EXCEPT !.pending = Larger(@ - amount, 0), !.withdrawn = @ + amount])

(***************************************************************************)
(* recordPayment, with the adjustments Finance ticks as recovered by it:   *)
(* any that exist, whoever they belong to.                                 *)
(***************************************************************************)
RecordPayment(p, w, amount, ids) ==
  LET payee == withdrawals[w].influencer
      paid  == [balances EXCEPT ![payee] = PaidOut(@, amount)]
      rows  == Resolved(ids, p)
  IN
  /\ IsNextFree(payments, p)
  /\ IsPayable(w)
  /\ MayMatch(w, amount)
  /\ \A a \in ids : adjustments[a].status # "none"
  /\ withdrawals' = [withdrawals EXCEPT ![w].status = "paid"]
  /\ payments' = [payments EXCEPT ![p] =
       [status |-> "recorded", withdrawal |-> w, amount |-> amount, applied |-> ids]]
  /\ adjustments' = rows
  /\ balances' = [i \in Influencers |->
       IF i \in OwnersOf(ids) THEN RefreshBalanceAdjustments(paid[i], rows, i) ELSE paid[i]]
  /\ UNCHANGED <<now, partnerVars, tierVars, orderVars, adjustmentByOrder>>

\* recordPayment throws on the amount: a pending request has been approved by
\* then, and stays approved.
RefusePayment(w, amount) ==
  /\ withdrawals[w].status = "pending"
  /\ MayMismatch(w, amount)
  /\ withdrawals' = [withdrawals EXCEPT ![w].status = "approved"]
  /\ UNCHANGED <<now, partnerVars, tierVars, orderVars, balances,
                 payments, adjustments, adjustmentByOrder>>

=============================================================================
