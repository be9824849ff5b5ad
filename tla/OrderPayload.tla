----------------------------- MODULE OrderPayload -----------------------------
(***************************************************************************)
(* What the platform makes of the payload of an order: its normalisation   *)
(* by VtexClient and VtexController, and the part of it that commissions   *)
(* are computed on; and the row of an order as its events come in.  A      *)
(* field that a payload does not have is Absent.                           *)
(***************************************************************************)
EXTENDS Integers, Sequences, FiniteSets, Functions, TLC

Absent == -1

CONSTANTS
  CampaignForms,    \* basis and scope of the campaign of the order's coupon
  OrderForms,       \* an order as VTEX has it: its lines, tax and shipping
  PayloadForms      \* where a payload says what the order is made of

\* Amounts are numbers of either sign: the payload's validation asks for no more.
ASSUME PayloadConstants ==
  /\ \A order \in OrderForms :
       /\ {order.tax, order.shipping} \subseteq Int \ {Absent}
       /\ IsFiniteSet(DOMAIN order.lines)
       /\ \A n \in DOMAIN order.lines :
            {order.lines[n].quantity, order.lines[n].price, order.lines[n].discount} \subseteq Int
  /\ \A form \in PayloadForms : form.charges \in {"fields", "totals", "none"}

VARIABLES
  campaign,
  includeShipping,  \* of the configuration
  orderRow,         \* the platform's order
  told              \* history: the order and the form of its last payload

payloadVars == <<campaign, includeShipping, orderRow, told>>

Or(value, default) == IF value = Absent THEN default ELSE value
MaxOf(a, b) == IF a >= b THEN a ELSE b

\* resolveNumber: what is not there is zero.
ResolveNumber(value) == Or(value, 0)

\* normalizeItems: one item as VTEX gives it.  Its discount is the item's own or that
\* of its price definition, which no payload that is admitted has.
NormalizedItem(item) ==
  [sku |-> item.sku, category |-> item.category, quantity |-> ResolveNumber(item.quantity),
   price |-> ResolveNumber(item.price),
   discount |-> ResolveNumber(Or(item.discount, item.definitionDiscount))]

\* Mutant of MergedItem: the discount of the payload is not looked at.
MergedItem_Gross(dto, normalized) ==
  [normalized EXCEPT !.quantity = dto.quantity, !.price = dto.price, !.discount = 0]

\* The controller puts what the validated payload says before what was normalised;
\* items are paired by their position.
MergedItem(dto, normalized) ==
  [normalized EXCEPT !.quantity = dto.quantity, !.price = dto.price,
                     !.discount = Or(dto.discount, normalized.discount)]

\* resolveAmountFromTotals: the first total with that name.
AmountFromTotals(totals, id) ==
  LET matching == SelectSeq(totals, LAMBDA total : total.id = id)
  IN IF matching = <<>> THEN Absent ELSE ResolveNumber(matching[1].value)

\* handleOrderWebhook with mapOrderPayload: the event made of a payload.  Tax and
\* shipping may be given apart, or among the totals, or not at all.
EventOf(payload) ==
  [eligible |-> payload.eligible,
   items |-> [n \in DOMAIN payload.items |->
                MergedItem(payload.items[n], NormalizedItem(payload.items[n]))],
   shipping |-> Or(payload.shipping, AmountFromTotals(payload.totals, "Shipping")),
   tax |-> Or(payload.tax, AmountFromTotals(payload.totals, "Tax"))]

----------------------------------------------------------------------------

\* isItemEligible: a campaign without scope takes every item.
IsItemEligible(form, item) ==
  \/ form.scope = {}
  \/ form.scopeType = "sku" /\ item.sku \in form.scope
  \/ form.scopeType # "sku" /\ item.category \in form.scope

LineAmount(item) == item.price * item.quantity - item.discount

EligibleLines(form, items) == {n \in DOMAIN items : IsItemEligible(form, items[n])}

Subtotal(items, lines) ==
  SumFunctionOnSet([n \in DOMAIN items |-> LineAmount(items[n])], lines)

\* calculateEligibleAmount.
EligibleAmount(form, items, tax, shipping, withShipping) ==
  MaxOf(Subtotal(items, EligibleLines(form, items))
          + (IF form.basis = "post_tax" THEN Or(tax, 0) ELSE 0)
          + (IF withShipping THEN Or(shipping, 0) ELSE 0), 0)

----------------------------------------------------------------------------
(* The order. *)

NoRow == [tax |-> Absent, shipping |-> Absent, eligible |-> Absent, items |-> <<>>]

PayloadInit ==
  /\ campaign \in CampaignForms
  /\ includeShipping \in BOOLEAN
  /\ orderRow = NoRow
  /\ told = <<>>

\* registerOrderEvent: what an event does not say of tax and shipping the order
\* keeps, but its eligible amount is computed from the event alone.
RegisteredOrder(row, event) ==
  [items |-> event.items,
   tax |-> Or(event.tax, row.tax), shipping |-> Or(event.shipping, row.shipping),
   eligible |-> Or(event.eligible,
                   EligibleAmount(campaign, event.items, event.tax, event.shipping,
                                  includeShipping))]

\* What VTEX sends of an order: prices as they are, discounts with the item or with
\* its price definition, tax and shipping in fields, among the totals, or not.
PayloadOf(order, form) ==
  [eligible |-> form.eligible,
   items |-> [n \in DOMAIN order.lines |->
     LET line == order.lines[n]
     IN  [sku |-> line.sku, category |-> line.category,
          quantity |-> line.quantity, price |-> line.price,
          discount |-> IF form.discounts = "item" THEN line.discount ELSE Absent,
          definitionDiscount |-> IF form.discounts = "item" THEN Absent ELSE line.discount]],
   tax |-> IF form.charges = "fields" THEN order.tax ELSE Absent,
   shipping |-> IF form.charges = "fields" THEN order.shipping ELSE Absent,
   totals |-> IF form.charges = "totals"
              THEN <<[id |-> "Items", value |-> 0], [id |-> "Shipping", value |-> order.shipping],
                     [id |-> "Tax", value |-> order.tax]>>
              ELSE <<>>]

\* validateDto refuses a payload with a field OrderWebhookDto does not name.
Admitted(payload) ==
  /\ payload.totals = <<>>
  /\ \A n \in DOMAIN payload.items : payload.items[n].definitionDiscount = Absent

PayloadNext ==
  \E order \in OrderForms, form \in PayloadForms :
    /\ Admitted(PayloadOf(order, form))
    /\ orderRow' = RegisteredOrder(orderRow, EventOf(PayloadOf(order, form)))
    /\ told' = <<order, form>>
    /\ UNCHANGED <<campaign, includeShipping>>

----------------------------------------------------------------------------

\* What commissions are computed on is what the customer pays for the lines in the
\* campaign's scope, less their discounts, with tax and shipping as the campaign
\* and the configuration say and never less than nothing: for every way of
\* writing an order that is complete, and whatever earlier events said of it
\* (normalizeItems, handleOrderWebhook, calculateEligibleAmount).
EligibleAmountsAreNet ==
  told # <<>> =>
    LET order == told[1]
        InScope(n) ==
          campaign.scope # {} =>
            (IF campaign.scopeType = "sku" THEN order.lines[n].sku
             ELSE order.lines[n].category) \in campaign.scope
        net == [n \in DOMAIN order.lines |->
                  IF InScope(n) THEN order.lines[n].quantity * order.lines[n].price
                                       - Or(order.lines[n].discount, 0)
                  ELSE 0]
        charges == (IF campaign.basis = "post_tax" THEN order.tax ELSE 0)
                     + (IF includeShipping THEN order.shipping ELSE 0)
        due == charges + SumFunction(net)
    IN  told[2].charges # "none" /\ told[2].eligible = Absent =>
          orderRow.eligible = (IF due > 0 THEN due ELSE 0)

=============================================================================
