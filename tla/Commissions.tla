---------------------------- MODULE Commissions ----------------------------
(***************************************************************************)
(* The commission engine: order events from VTEX webhooks and the          *)
(* settlement run.  The API process is single threaded and these methods   *)
(* do not await, so each is one step.                                      *)
(***************************************************************************)
EXTENDS Tiers

CONSTANTS
  EligibleAmounts,  \* eligible amounts an event may carry or compute to
  WaitingPeriods    \* waiting periods a settlement may be run with

EventTypes == {"order-created", "order-paid", "order-canceled"}

ASSUME CommissionConstants ==
  /\ EligibleAmounts \subseteq Int
  /\ WaitingPeriods \subseteq Nat

\* Mutant of ResolveCommissionState: a state of its own for canceled orders.
ResolveCommissionState_Canceled(event) ==
  CASE event = "order-paid"     -> "CONFIRMED"
    [] event = "order-canceled" -> "CANCELED"
    [] event = "order-created"  -> "ESTIMATED"

\* resolveCommissionState
ResolveCommissionState(event) ==
  CASE event = "order-paid"     -> "CONFIRMED"
    [] event = "order-canceled" -> "REVERTED"
    [] event = "order-created"  -> "ESTIMATED"

\* Mutant of UpdatedOrder: a later event re-attributes the order to its coupon.
UpdatedOrder_Reattributed(o, coupon, status) ==
  [status |-> status, updatedAt |-> now,
   code |-> IF coupon = None THEN orders[o].code ELSE coupon]

\* The order row after an event.  The first event fixes the code (and with it
\* the influencer and the campaign) for good, also when it carries none.
UpdatedOrder(o, coupon, status) ==
  IF orders[o].status = "none"
  THEN [status |-> status, code |-> coupon, updatedAt |-> now]
  ELSE [orders[o] EXCEPT !.status = status, !.updatedAt = now]

\* The campaign whose tier prices the commission: the one of the event's coupon
\* if it carries one, else the one of the order.
PricingCampaign(o, coupon) ==
  CampaignOf[IF coupon # None THEN coupon ELSE orders[o].code]

\* The commission row after an event on an attributed order.
UpdatedCommission(o, event, eligible, percent) ==
  LET state == ResolveCommissionState(event) IN
  [state       |-> state,
   amount      |-> RoundedShare(eligible, percent),
   eligible    |-> eligible,
   confirmedAt |-> IF state = "CONFIRMED" THEN now ELSE commissions[o].confirmedAt]

(***************************************************************************)
(* registerOrderEvent, from handleOrderWebhook.  Status and event type are *)
(* separate fields of the webhook, and VTEX may deliver events twice, late *)
(* or out of order.  A coupon nobody knows is None.                        *)
(***************************************************************************)
RegisterOrderEvent(o, coupon, status, event, eligible) ==
  LET order      == UpdatedOrder(o, coupon, status)
      owner      == InfluencerOf[order.code]
      campaign   == PricingCampaign(o, coupon)
      assignment == EnsureTierAssignment(campaign, owner)
      commission == UpdatedCommission(o, event, eligible, assignment.percent)
  IN
  /\ orders' = [orders EXCEPT ![o] = order]
  /\ IF order.code = None
     THEN UNCHANGED <<commissions, tiers, balances>>
     ELSE /\ commissions' = [commissions EXCEPT ![o] = commission]
          /\ tiers' = [tiers EXCEPT ![<<campaign, owner>>] = assignment]
          /\ balances' = [balances EXCEPT ![owner] =
                            SyncInfluencerBalance(@, commissions[o], commission)]
  /\ UNCHANGED <<now, partnerVars, programs, withdrawalVars>>

----------------------------------------------------------------------------
\* Mutant of ShouldConfirmCommission: the order's status is not looked at.
ShouldConfirmCommission_AnyStatus(o, threshold) == orders[o].updatedAt <= threshold

\* shouldConfirmCommission
ShouldConfirmCommission(o, threshold) ==
  /\ orders[o].status \in {"paid", "invoiced", "shipped"}
  /\ orders[o].updatedAt <= threshold

\* The commissions a settlement confirms, and those it reverts.
IsReversal(o) ==
  /\ commissions[o].state = "CONFIRMED"
  /\ orders[o].status \in {"canceled", "returned"}

IsConfirmation(o, threshold) ==
  /\ commissions[o].state = "ESTIMATED"
  /\ ShouldConfirmCommission(o, threshold)

\* A commission after a settlement as of the evaluation date.
SettledCommission(o, date, threshold) ==
  IF IsConfirmation(o, threshold)
  THEN [commissions[o] EXCEPT !.state = "CONFIRMED", !.confirmedAt = date]
  ELSE IF IsReversal(o)
  THEN [commissions[o] EXCEPT !.state = "REVERTED"]
  ELSE commissions[o]

\* What a settlement confirms of, and reverts from, an influencer.
ConfirmedTotal(i, threshold) ==
  Total([o \in OrderIds |->
           IF IsConfirmation(o, threshold) /\ OwnerOf(o) = i
           THEN commissions[o].amount ELSE 0], OrderCount)

RevertedTotal(i) ==
  Total([o \in OrderIds |->
           IF IsReversal(o) /\ OwnerOf(o) = i
           THEN commissions[o].amount ELSE 0], OrderCount)

\* The syncInfluencerBalance calls of a settlement, added up.  No commission is
\* both confirmed and reverted by one run, so their order does not matter.
SettledBalance(i, threshold) ==
  Recalculate([balances[i] EXCEPT
    !.estimated = @ - ConfirmedTotal(i, threshold),
    !.confirmed = @ + ConfirmedTotal(i, threshold) - RevertedTotal(i),
    !.reverted  = @ + RevertedTotal(i)])

(***************************************************************************)
(* runSettlement over every commission, as of a date the caller chooses,   *)
(* past or future.  An estimated commission whose order was canceled       *)
(* matches neither case and stays as it is.                                *)
(***************************************************************************)
RunSettlement(date, waiting) ==
  LET threshold == date - waiting IN
  /\ commissions' = [o \in OrderIds |-> SettledCommission(o, date, threshold)]
  /\ balances' = [i \in Influencers |-> SettledBalance(i, threshold)]
  /\ UNCHANGED <<now, partnerVars, tierVars, orders, withdrawalVars>>

=============================================================================
