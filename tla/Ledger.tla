------------------------------- MODULE Ledger -------------------------------
(***************************************************************************)
(* The ledger of the affiliate program: order events, settlements, tiers,  *)
(* withdrawals, payments and adjustments over the one in-memory database.  *)
(* Every handler runs to its end before the next one starts, so handlers   *)
(* interleave as whole steps, in any order and with any admissible input.  *)
(***************************************************************************)
EXTENDS Commissions, Withdrawals

----------------------------------------------------------------------------
(* Initial state: influencers have signed up, nothing else has happened. *)

EmptyBalance ==
  [estimated |-> 0, confirmed |-> 0, reverted |-> 0, pending |-> 0,
   withdrawn |-> 0, adjustment |-> 0, available |-> 0]

Init ==
  /\ now = 0
  /\ influencerStatus = [i \in Influencers |-> "pending"]
  /\ assigned = {}
  /\ programs = InitialProgram
  /\ tiers = [pair \in Campaigns \X Influencers |->
                [enrolled |-> FALSE, level |-> 0, percent |-> 0,
                 windowStart |-> 0, history |-> <<>>]]
  /\ orders = [o \in OrderIds |-> [status |-> "none", code |-> None, updatedAt |-> 0]]
  /\ commissions = [o \in OrderIds |->
       [state |-> "NONE", amount |-> 0, eligible |-> 0, confirmedAt |-> 0]]
  /\ balances = [i \in Influencers |-> EmptyBalance]
  /\ withdrawals = [w \in WithdrawalIds |->
       [status |-> "none", influencer |-> None, amount |-> 0]]
  /\ payments = [p \in PaymentIds |->
       [status |-> "none", withdrawal |-> 0, amount |-> 0, applied |-> {}]]
  /\ adjustments = [a \in AdjustmentIds |->
       [status |-> "none", order |-> 0, amount |-> 0, payment |-> 0]]
  /\ adjustmentByOrder = [o \in OrderIds |-> 0]

----------------------------------------------------------------------------
\* The clock of the process moves on.
Tick ==
  /\ now < MaxTime
  /\ now' = now + 1
  /\ UNCHANGED <<partnerVars, tierVars, orderVars, balances, withdrawalVars>>

PartnerStep ==
  \/ \E i \in Influencers, status \in InfluencerStatuses : UpdateInfluencerStatus(i, status)
  \/ \E c \in Campaigns, i \in Influencers : AssignInfluencerToCampaign(c, i)

TierStep ==
  \/ \E c \in Campaigns, program \in TierPrograms : UpdateCampaignTiers(c, program)
  \/ \E date \in Time : EvaluateTiers(date)

OrderStep ==
  \E o \in OrderIds, coupon \in Codes \cup {None}, status \in OrderStatuses,
     event \in EventTypes, eligible \in EligibleAmounts :
    RegisterOrderEvent(o, coupon, status, event, eligible)

SettlementStep ==
  \E date \in Time, waiting \in WaitingPeriods : RunSettlement(date, waiting)

WithdrawalStep ==
  \/ \E w \in WithdrawalIds, i \in Influencers, brand \in Brands, amount \in RequestAmounts :
       RequestWithdrawal(w, i, brand, amount)
  \/ \E w \in WithdrawalIds, decision \in {"approved", "rejected"} :
       DecideWithdrawal(w, decision)

PaymentStep ==
  \/ \E p \in PaymentIds, w \in WithdrawalIds, amount \in PaymentAmounts,
        ids \in SUBSET AdjustmentIds : RecordPayment(p, w, amount, ids)
  \/ \E w \in WithdrawalIds, amount \in PaymentAmounts : RefusePayment(w, amount)

AdjustmentStep ==
  \/ \E a \in AdjustmentIds, o \in OrderIds : RecordReconciliation(a, o)
  \/ \E a \in AdjustmentIds : ResolveWithdrawalAdjustment(a)

Next ==
  \/ Tick
  \/ PartnerStep
  \/ TierStep
  \/ OrderStep
  \/ SettlementStep
  \/ WithdrawalStep
  \/ PaymentStep
  \/ AdjustmentStep

Spec == Init /\ [][Next]_vars

\* The same system seen from the commission engine alone, with no tier program
\* and no withdrawal going on.
CommissionSpec == Init /\ [][Tick \/ OrderStep \/ SettlementStep]_vars

\* ... and with tiers.
TierSpec ==
  Init /\ [][Tick \/ OrderStep \/ SettlementStep \/ TierStep]_vars

----------------------------------------------------------------------------
TypeOK ==
  /\ now \in Time
  /\ influencerStatus \in [Influencers -> InfluencerStatuses \cup {"pending"}]
  /\ assigned \subseteq Campaigns \X Influencers
  /\ programs \in [Campaigns -> TierPrograms]
  /\ tiers \in [Campaigns \X Influencers -> TierAssignment]
  /\ orders \in [OrderIds -> Order]
  /\ commissions \in [OrderIds -> Commission]
  /\ balances \in [Influencers -> Balance]
  /\ withdrawals \in [WithdrawalIds -> Withdrawal]
  /\ payments \in [PaymentIds -> Payment]
  /\ adjustments \in [AdjustmentIds -> Adjustment]
  /\ adjustmentByOrder \in [OrderIds -> 0..AdjustmentCount]

----------------------------------------------------------------------------
(* Commissions and balances. *)

\* A commission exists only for an order that was attributed, and never has to
\* look for its influencer: an order that has one keeps its code.
CommissionsAreAttributed ==
  \A o \in OrderIds :
    commissions[o].state # "NONE" => orders[o].status # "none" /\ orders[o].code # None

\* The commissions of an influencer that are in a state, added up.
CommissionTotal(i, state) ==
  Total([o \in OrderIds |->
           IF commissions[o].state = state /\ OwnerOf(o) = i
           THEN commissions[o].amount ELSE 0], OrderCount)

\* The three buckets of every balance (syncInfluencerBalance keeps them by adding
\* and subtracting) are exactly the influencer's commissions in the three states,
\* whatever order events, settlements and changes of tier have done to them.
BalancesMatchCommissions ==
  \A i \in Influencers :
    /\ balances[i].estimated = CommissionTotal(i, "ESTIMATED")
    /\ balances[i].confirmed = CommissionTotal(i, "CONFIRMED")
    /\ balances[i].reverted  = CommissionTotal(i, "REVERTED")

\* A settlement that is run again, as of the same date and with the same waiting
\* period, changes nothing: what one run decides about a commission, to confirm it
\* or to revert it, the next run does not decide differently, and no amount is
\* posted twice (runSettlement).
SettlementIsIdempotent ==
  [][orders' = orders /\ commissions' # commissions =>
       \A date \in Time, waiting \in WaitingPeriods :
         RunSettlement(date, waiting) =>
           /\ \A o \in OrderIds :
                SettledCommission(o, date, date - waiting)' = commissions'[o]
           /\ \A i \in Influencers :
                SettledBalance(i, date - waiting)' = balances'[i]]_vars

----------------------------------------------------------------------------
(* Tiers. *)

\* The history of an assignment is one unbroken line: each period ends on the date
\* the next one starts and at another level, and only the last one is open, which
\* is the tier in force (evaluateTiers).  A period may end before it starts: an
\* evaluation may be dated in the past.
HistoryIsContiguous ==
  \A pair \in DOMAIN tiers :
    LET row == tiers[pair]
        n   == Len(row.history)
    IN  row.enrolled =>
          /\ n > 0
          /\ row.history[n].to = Open
          /\ row.history[n].level = row.level
          /\ row.history[n].percent = row.percent
          /\ \A k \in 1..(n - 1) :
               /\ row.history[k].to = row.history[k + 1].from
               /\ row.history[k].level # row.history[k + 1].level

\* A commission is priced with a percent that its influencer has had: whatever an
\* administrator does to the tier program, and however often events, settlements
\* and evaluations have touched order and assignment since, its amount is the
\* share some period of the influencer's own history gives (registerOrderEvent).
PricedByHistory ==
  \A o \in OrderIds :
    commissions[o].state # "NONE" =>
      \E c \in Campaigns :
        LET history == tiers[<<c, OwnerOf(o)>>].history IN
        \E k \in DOMAIN history :
          commissions[o].amount = RoundedShare(commissions[o].eligible, history[k].percent)

\* An evaluation lifts nobody to a tier above the default one whose threshold is
\* more than all the sales the influencer has confirmed in the campaign, estimated
\* and reverted ones not counted (calculateConfirmedSalesVolume).  The webhook takes
\* a negative amount too; one that lies outside the window takes nothing away, so
\* the sales are those above zero.
TiersAreEarned ==
  [][\A c \in Campaigns, i \in Influencers :
       LET old == tiers[<<c, i>>]
           new == tiers'[<<c, i>>]
           confirmed == Total([o \in OrderIds |->
             IF /\ commissions[o].state = "CONFIRMED"
                /\ OwnerOf(o) = i
                /\ CampaignOf[orders[o].code] = c
             THEN Larger(commissions[o].eligible, 0) ELSE 0], OrderCount)
       IN  old.enrolled /\ new.level # old.level =>
             \/ new.level = ResolveDefaultTier(c).level
             \/ \E k \in DOMAIN programs[c] :
                  /\ programs[c][k].level = new.level
                  /\ programs[c][k].threshold <= confirmed]_vars

----------------------------------------------------------------------------
(* Withdrawals, payments and adjustments. *)

\* Whatever changed a balance, its available amount is what is confirmed, less
\* what is withdrawn and what is reserved (recalculateAvailableBalance was not
\* forgotten anywhere).
AvailableIsDerived ==
  \A i \in Influencers :
    balances[i].available =
      balances[i].confirmed - balances[i].withdrawn - balances[i].pending

PaymentTotal(i) ==
  Total([p \in PaymentIds |->
           IF /\ payments[p].status = "recorded"
              /\ withdrawals[payments[p].withdrawal].influencer = i
           THEN payments[p].amount ELSE 0], PaymentCount)

OpenTotal(i) ==
  Total([w \in WithdrawalIds |->
           IF /\ withdrawals[w].status \in {"pending", "approved"}
              /\ withdrawals[w].influencer = i
           THEN withdrawals[w].amount ELSE 0], WithdrawalCount)

PaidCount(i) ==
  Total([w \in WithdrawalIds |->
           IF withdrawals[w].status = "paid" /\ withdrawals[w].influencer = i
           THEN 1 ELSE 0], WithdrawalCount)

\* What a balance says was withdrawn is what its payments add up to
\* (recordPayment).
WithdrawnMatchesPayments ==
  \A i \in Influencers : balances[i].withdrawn = PaymentTotal(i)

\* What a balance says is reserved is what its open requests ask for, up to one
\* cent for each payment made: a payment may differ from its request by a cent,
\* and releases what it pays, not what was reserved (recordPayment).
ReservationsMatchOpenRequests ==
  \A i \in Influencers :
    Distance(balances[i].pending, OpenTotal(i)) <= PaidCount(i)

\* Only a commission that is reverted or repriced takes an available amount below
\* zero.  Requests, decisions and payments, in whatever order they come, do so by
\* no more than one cent for each payment made: each may have been a cent more
\* than was reserved, and nothing less than zero stays reserved (recordPayment).
OnlyCommissionsOverdraw ==
  [][UNCHANGED commissions =>
       \A i \in Influencers :
         balances'[i].available >= Smaller(balances[i].available, 0) - PaidCount(i)']_vars

\* The adjustment amount of a balance is what its pending adjustments add up to.
AdjustmentAmountMatches ==
  \A i \in Influencers :
    balances[i].adjustment = PendingAdjustmentTotal(adjustments, i)

\* However often a reconciliation reports an order, the order has at most one
\* pending adjustment, and it is the one its index leads to.
OnePendingAdjustmentPerOrder ==
  \A a \in AdjustmentIds :
    adjustments[a].status = "pending" => adjustmentByOrder[adjustments[a].order] = a

\* An adjustment that is opened claims no more than the influencer owes together
\* with all other pending ones (createAdjustmentForOrder).
AdjustmentsClaimOnlyDebt ==
  [][\A a \in AdjustmentIds :
       adjustments[a].status = "none" /\ adjustments'[a].status = "pending" =>
         LET i == OwnerOf(adjustments'[a].order) IN
         balances'[i].adjustment <= -balances'[i].available]_vars

\* An adjustment is resolved once: neither a later payment that lists it nor an
\* administrator changes what resolved it.
ResolutionIsFinal ==
  [][\A a \in AdjustmentIds :
       adjustments[a].status = "resolved" => adjustments'[a] = adjustments[a]]_vars

----------------------------------------------------------------------------
(* What the documentation says of the program, and the program does not do.  *)

\* README.md:129, "los ajustes pendientes reducen la capacidad de retiro hasta ser
\* resueltos": an adjustment that is opened takes its amount off the available
\* amount, and one that is resolved gives it back.
AdjustmentsReduceCapacity ==
  [][UNCHANGED <<commissions, withdrawals>> =>
       \A i \in Influencers :
         balances'[i].available + balances'[i].adjustment =
           balances[i].available + balances[i].adjustment]_vars

\* README.md:118, the settlement "revierte pedidos cancelados": when it has run, no
\* commission of a canceled order is left unreverted.
SettlementsRevertCanceledOrders ==
  [][(\E date \in Time, waiting \in WaitingPeriods : RunSettlement(date, waiting)) =>
       \A o \in OrderIds :
         commissions'[o].state # "NONE" /\ orders[o].status = "canceled" =>
           commissions'[o].state = "REVERTED"]_vars

=============================================================================
