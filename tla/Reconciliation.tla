--------------------------- MODULE Reconciliation ---------------------------
(***************************************************************************)
(* Reconciliation of the platform's orders with those of VTEX: the webhook *)
(* that keeps the orders, the daily report fetched through VtexClient, its *)
(* comparison by VtexService and what is recorded, claimed and mailed.     *)
(*                                                                         *)
(* Webhooks may be lost, duplicated and reordered.  A run awaits the       *)
(* report, and what it is compared with are the orders as they are when it *)
(* has come; it may take the place of one that is still waiting.           *)
(***************************************************************************)
EXTENDS VtexClient, Alerts

CONSTANTS
  Orders,
  Foreign,          \* orders whose coupon the platform has no code for
  OrderTotals,      \* amounts of an order
  PageSize,         \* orders in an answer of VTEX (per_page)
  Runs,             \* those of the client's calls that a reconciliation makes
  LastDay, InFlight \* bounds of the model

ASSUME ReconciliationConstants ==
  /\ Foreign \subseteq Orders
  /\ OrderTotals \subseteq Nat
  /\ PageSize \in Nat \ {0}
  /\ Runs \subseteq Calls
  /\ {LastDay, InFlight} \subseteq Nat

VARIABLES
  today,
  store,            \* VTEX's orders
  webhooks,         \* events on their way to the platform
  orders,           \* the platform's orders
  runs              \* calls of runDailyReconciliation

platform == <<today, store, webhooks, orders>>
reconciliationVars == <<clientVars, alertVars, platform, runs>>

Days == 0..LastDay
Statuses == {"paid", "canceled"}
NoOrder == [status |-> "none", amount |-> 0]
Snapshot == [status : Statuses \cup {"none"}, amount : OrderTotals \cup {0}]
Event == [order : Orders, status : Statuses, amount : OrderTotals]

\* What recordReconciliation keeps of a run.
NoRecord == [missingInPlatform |-> {}, missingInVtex |-> {}, statusMismatch |-> {},
             amountMismatch |-> {}, couponMismatch |-> {}]
Record == [DOMAIN NoRecord -> SUBSET Orders]

\* date is the day asked for; report what VTEX answered, by order.
Run == [stage : {"idle", "asking", "mailing", "ended"}, date : Days,
        report : [Orders -> Snapshot], record : Record]
EmptyReport == [o \in Orders |-> NoOrder]

ReconciliationTypeOK ==
  /\ ClientTypeOK
  /\ AlertTypeOK(Runs)
  /\ today \in Days
  /\ store \in [Orders -> [status : Statuses \cup {"none"}, amount : OrderTotals \cup {0},
                           day : Days]]
  /\ webhooks \subseteq Event
  /\ orders \in [Orders -> Snapshot]
  /\ runs \in [Runs -> Run]

ReconciliationInit ==
  /\ ClientInit
  /\ AlertInit
  /\ today = 0
  /\ store = [o \in Orders |-> [status |-> "none", amount |-> 0, day |-> 0]]
  /\ webhooks = {}
  /\ orders = EmptyReport
  /\ runs = [c \in Runs |-> [stage |-> "idle", date |-> 0, report |-> EmptyReport,
                              record |-> NoRecord]]

----------------------------------------------------------------------------
(* VTEX and its webhooks. *)

DayEnds ==
  /\ today < LastDay
  /\ today' = today + 1
  /\ UNCHANGED <<clientVars, alertVars, store, webhooks, orders, runs>>

\* An order is placed, or one that is paid is canceled or changes its amount; the
\* event that says so sets out.
OrderChanges(o, status, amount) ==
  /\ \/ store[o].status = "none" /\ status = "paid"
     \/ store[o].status = "paid" /\ (status = "canceled" <=> amount = store[o].amount)
  /\ Cardinality(webhooks) < InFlight
  /\ store' = [store EXCEPT ![o].status = status, ![o].amount = amount,
                            ![o].day = IF store[o].status = "none" THEN today ELSE @]
  /\ webhooks' = webhooks \cup {[order |-> o, status |-> status, amount |-> amount]}
  /\ UNCHANGED <<clientVars, alertVars, today, orders, runs>>

WebhookIsLost(event) ==
  /\ event \in webhooks
  /\ webhooks' = webhooks \ {event}
  /\ UNCHANGED <<clientVars, alertVars, today, store, orders, runs>>

\* handleOrderWebhook: whatever the order has been, it is now what the event says.
\* VTEX may deliver the event again.
HandleOrderWebhook(event, again) ==
  /\ event \in webhooks
  /\ orders' = [orders EXCEPT ![event.order] =
                  [status |-> event.status, amount |-> event.amount]]
  /\ webhooks' = IF again THEN webhooks ELSE webhooks \ {event}
  /\ UNCHANGED <<clientVars, alertVars, today, store, runs>>

----------------------------------------------------------------------------
(* The report. *)

Placed(o) == store[o].status # "none"
OrdersOf(date) == {o \in Orders : Placed(o) /\ store[o].day = date}

\* fetchDailyReport asks VTEX for the orders that were created on that day.
RunDailyReconciliation(c, date) ==
  /\ runs[c].stage = "idle"
  /\ date <= today
  /\ runs' = [runs EXCEPT ![c].stage = "asking", ![c].date = date]
  /\ calls' = StartedCall(c)
  /\ UNCHANGED <<credentialIndex, expired, alertVars, platform>>

\* VTEX answers with one page, and no other is asked for.
Page(date) ==
  IF Cardinality(OrdersOf(date)) <= PageSize
  THEN {OrdersOf(date)}
  ELSE {page \in SUBSET OrdersOf(date) : Cardinality(page) = PageSize}

\* The orders as they are when VTEX answers, of which normalizeDailyReport makes the
\* report once the body is read.
VtexAnswers(c) ==
  /\ Answered(c)
  /\ \E page \in Page(runs[c].date) :
       runs' = [runs EXCEPT ![c].report =
                  [o \in Orders |-> IF o \in page
                     THEN [status |-> store[o].status, amount |-> store[o].amount]
                     ELSE NoOrder]]
  /\ UNCHANGED <<alertVars, platform>>

\* One of the loop's other steps, taken by itself or because VTEX is heard of.
LoopRuns(c)  == LoopStep(c) /\ UNCHANGED <<alertVars, platform, runs>>
AnswerRuns(c) == AnswerStep(c) /\ UNCHANGED <<alertVars, platform, runs>>

----------------------------------------------------------------------------
(* The comparison. *)

\* Mutant of AmountWithinTolerance: only amounts that are the same.
AmountWithinTolerance_Exact(platformAmount, vtexAmount) == platformAmount = vtexAmount

\* amountWithinTolerance: one per cent of what the platform has.
AmountWithinTolerance(platformAmount, vtexAmount) ==
  LET distance == IF platformAmount >= vtexAmount
                  THEN platformAmount - vtexAmount ELSE vtexAmount - platformAmount
  IN  IF platformAmount = 0 THEN vtexAmount < 1 ELSE distance * 100 <= platformAmount

Known(snapshots) == {o \in Orders : snapshots[o].status # "none"}

\* buildDiscrepancyReport: the report against all the platform's orders.
BuildDiscrepancyReport(report) ==
  LET both == Known(report) \cap Known(orders) IN
  [missingInPlatform |-> Known(report) \ Known(orders),
   missingInVtex     |-> Known(orders) \ Known(report),
   statusMismatch    |-> {o \in both : orders[o].status # report[o].status},
   amountMismatch    |-> {o \in both :
     ~AmountWithinTolerance(orders[o].amount, report[o].amount)},
   couponMismatch    |-> both \cap Foreign]

\* Only these raise an alert.
Alarming(record) ==
  record.missingInPlatform \cup record.missingInVtex \cup record.amountMismatch

\* processReconciliationAdjustments: the orders adjustments are made for.
ClaimedOrders(record) == record.statusMismatch \cup record.missingInVtex

\* runDailyReconciliation goes on when the report has come.
CompareReport(c) ==
  /\ runs[c].stage = "asking"
  /\ calls[c].phase = "done"
  /\ LET record == BuildDiscrepancyReport(runs[c].report)
     IN  runs' = [runs EXCEPT ![c].record = record, ![c].report = EmptyReport,
                    ![c].stage = IF Alarming(record) = {} THEN "ended" ELSE "mailing"]
  /\ UNCHANGED <<clientVars, alertVars, platform>>

\* ... or gives up: nothing is recorded.
ReportFails(c) ==
  /\ runs[c].stage = "asking"
  /\ calls[c].phase = "failed"
  /\ runs' = [runs EXCEPT ![c].stage = "ended", ![c].report = EmptyReport]
  /\ UNCHANGED <<clientVars, alertVars, platform>>

\* notifyReconciliationAlert: the mail is awaited.
MailAnswered(c, taken) ==
  /\ runs[c].stage = "mailing"
  /\ SendAlert(c, "finance", taken)
  /\ runs' = [runs EXCEPT ![c].stage = "ended"]
  /\ UNCHANGED <<clientVars, platform>>

----------------------------------------------------------------------------
VtexStep ==
  \/ DayEnds
  \/ \E o \in Orders, status \in Statuses, amount \in OrderTotals : OrderChanges(o, status, amount)
  \/ \E event \in webhooks : WebhookIsLost(event)
  \/ \E event \in webhooks, again \in BOOLEAN : HandleOrderWebhook(event, again)

ReportStep(c) == LoopRuns(c) \/ AnswerRuns(c) \/ VtexAnswers(c)

RunStep(c) ==
  \/ CompareReport(c)
  \/ ReportFails(c)
  \/ \E taken \in BOOLEAN : MailAnswered(c, taken)

ReconciliationNext ==
  \/ VtexStep
  \/ \E c \in Runs, date \in Days : RunDailyReconciliation(c, date)
  \/ \E c \in Runs : ReportStep(c) \/ RunStep(c)

\* The loop goes on, a wait for headers is timed out (resolveWithTimeout) and a promise
\* that is settled is taken up; the transport of mails has time limits of its own.
\* Nothing is fair about VTEX: it need not answer, nor end a body it has begun.
ReconciliationFairness == \A c \in Runs : WF_reconciliationVars(LoopRuns(c) \/ RunStep(c))

----------------------------------------------------------------------------

\* A run that compares a report which is still what VTEX has, all of it, records
\* every order of that day on which the two differ, as what differs, and no order
\* of that day on which they agree but for the coupon (buildDiscrepancyReport).
RecordsAreExact ==
  [][\A c \in Runs :
       LET report == runs[c].report
           day    == OrdersOf(runs[c].date)
           record == runs'[c].record IN
       /\ runs[c].stage = "asking" /\ runs'[c].stage # "asking" /\ calls[c].phase = "done"
       /\ \A o \in day : report[o] = [status |-> store[o].status, amount |-> store[o].amount]
       => \A o \in day :
            /\ o \in record.missingInPlatform <=> orders[o].status = "none"
            /\ o \notin record.missingInVtex
            /\ o \in record.statusMismatch <=>
                 orders[o].status \notin {"none", store[o].status}
            /\ o \in record.amountMismatch <=>
                 /\ orders[o].status # "none"
                 /\ \/ 100 * store[o].amount > 101 * orders[o].amount
                    \/ 100 * store[o].amount < 99 * orders[o].amount]_reconciliationVars

\* A comparison that ended with alerts, however many others ran beside it and
\* whatever the transport did, has left its record in the outbox, addressed to the
\* people of finance, to everybody's or to the default address (sendAlert,
\* getRecipients).
AlertsReachTheOutbox ==
  \A c \in Runs :
    runs[c].stage = "ended" /\ Alarming(runs[c].record) # {} /\ calls[c].phase = "done" =>
      \E mail \in outbox :
        /\ mail.raiser = c
        /\ mail.to # {}
        /\ mail.to \in {mailConfig.recipients["finance"], mailConfig.recipients["global"],
                       {DefaultAddress}}

\* Every run ends, however often its request is refused, timed out and retried, unless
\* VTEX begins an answer that it never ends: the time limit is that of the headers, and
\* the body of a report or of an error is awaited without one (request, sendAlert).
RunsEnd == \A c \in Runs :
  runs[c].stage # "idle" ~> (runs[c].stage = "ended" \/ [](IsReading(c)))

\* docs and alerts say of an order in missingInVtex that it does not exist in VTEX:
\* vtex.service.ts:421, "pedidos existen en la plataforma pero no en VTEX", and
\* README.md:127, adjustments are made for "pedidos ausentes en VTEX".
MissingOrdersAreAbsent ==
  \A c \in Runs :
    runs[c].stage # "idle" /\ calls[c].phase = "done" =>
      \A o \in ClaimedOrders(runs[c].record) : o \in runs[c].record.missingInVtex => ~Placed(o)

=============================================================================
