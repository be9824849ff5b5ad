----------------------------- MODULE Dashboard -----------------------------
(***************************************************************************)
(* What the panels show of the ledger.  DashboardService and               *)
(* CommissionsService keep no state: every figure is added up afresh from  *)
(* the rows the database lists, the same figure in different ways for      *)
(* different panels, while balances are kept by increments.                *)
(***************************************************************************)
EXTENDS Ledger, FiniteSets, Functions

\* The influencers are rows of a table.
ASSUME DashboardConstants == IsFiniteSet(Influencers)

\* sumBy
SumBy(items, Selector(_)) == SumFunction([item \in items |-> Selector(item)])

----------------------------------------------------------------------------
(* The rows a panel asks the database for. *)

OrdersOf(i) ==
  {o \in OrderIds : orders[o].status # "none" /\ orders[o].code # None /\ OwnerOf(o) = i}

\* listCommissions
ListCommissions == {o \in OrderIds : commissions[o].state # "NONE"}

CommissionsOf(i) == {o \in ListCommissions : OwnerOf(o) = i}

\* listWithdrawalRequests, of one influencer or of all.
ListWithdrawalRequests(whose) ==
  {w \in WithdrawalIds : withdrawals[w].status # "none" /\ withdrawals[w].influencer \in whose}

\* listPayments: a payment has the influencer of its request.
ListPayments(whose) ==
  {p \in PaymentIds : /\ payments[p].status # "none"
                      /\ withdrawals[payments[p].withdrawal].influencer \in whose}

\* listWithdrawalAdjustments
ListWithdrawalAdjustments(whose) ==
  {a \in AdjustmentIds : /\ adjustments[a].status # "none"
                         /\ OwnerOf(adjustments[a].order) \in whose}

\* listTierHistory, of one influencer in one campaign: oldest first.
ListTierHistory(c, i) == tiers[<<c, i>>].history

----------------------------------------------------------------------------
(* Figures. *)

CommissionAmount(o) == commissions[o].amount
RequestedAmount(w)  == withdrawals[w].amount
PaymentAmount(p)    == payments[p].amount

\* An event on an attributed order gives it and its commission the same one.
EligibleAmount(o) == commissions[o].eligible

InState(rows, state) == {o \in rows : commissions[o].state = state}

\* Mutant of PendingOnly: every request that was not rejected is waiting.
PendingOnly_NotRejected(rows) == {w \in rows : withdrawals[w].status # "rejected"}

\* The requests nobody has decided yet.
PendingOnly(rows) == {w \in rows : withdrawals[w].status = "pending"}

\* buildInfluencerMetrics
InfluencerMetrics(i) ==
  [totalSales          |-> SumBy(OrdersOf(i), EligibleAmount),
   estimatedCommission |-> SumBy(InState(CommissionsOf(i), "ESTIMATED"), CommissionAmount),
   confirmedCommission |-> SumBy(InState(CommissionsOf(i), "CONFIRMED"), CommissionAmount),
   reversedCommission  |-> SumBy(InState(CommissionsOf(i), "REVERTED"), CommissionAmount),
   pendingWithdrawals  |-> SumBy(PendingOnly(ListWithdrawalRequests({i})), RequestedAmount),
   withdrawnAmount     |-> SumBy(ListPayments({i}), PaymentAmount)]

\* groupSalesByCampaign: a row for each campaign the influencer has orders in.
SalesByCampaign(i) ==
  [c \in {CampaignOf[orders[o].code] : o \in OrdersOf(i)} |->
     LET rows == {o \in OrdersOf(i) : CampaignOf[orders[o].code] = c} IN
     [orders              |-> Cardinality(rows),
      salesAmount         |-> SumBy(rows, EligibleAmount),
      estimatedCommission |-> SumBy(InState(rows, "ESTIMATED"), CommissionAmount),
      confirmedCommission |-> SumBy(InState(rows, "CONFIRMED"), CommissionAmount)]]

\* CommissionsService.summary
CommissionSummary ==
  [confirmedAmount |-> SumBy(InState(ListCommissions, "CONFIRMED"), CommissionAmount),
   estimatedAmount |-> SumBy(InState(ListCommissions, "ESTIMATED"), CommissionAmount),
   reversedAmount  |-> SumBy(InState(ListCommissions, "REVERTED"), CommissionAmount)]

\* computeTopInfluencers, before the panel sorts them and cuts them off at eight.
TopInfluencers ==
  [i \in {OwnerOf(o) : o \in ListCommissions} |->
     [confirmedCommission |-> SumBy(InState(CommissionsOf(i), "CONFIRMED"), CommissionAmount),
      estimatedCommission |-> SumBy(InState(CommissionsOf(i), "ESTIMATED"), CommissionAmount)]]

\* aggregatePerformanceByBrand: sales count in whatever state the commission is.
PerformanceByBrand ==
  LET BrandOfOrder(o) == BrandOf[CampaignOf[orders[o].code]] IN
  [b \in {BrandOfOrder(o) : o \in ListCommissions} |->
     LET rows == {o \in ListCommissions : BrandOfOrder(o) = b} IN
     [totalSales          |-> SumBy(rows, EligibleAmount),
      confirmedCommission |-> SumBy(InState(rows, "CONFIRMED"), CommissionAmount)]]

\* getFinanceDashboard
FinancePanel ==
  [withdrawals |-> ListWithdrawalRequests(Influencers),
   payments    |-> ListPayments(Influencers),
   adjustments |-> ListWithdrawalAdjustments(Influencers),
   balances    |-> balances]

\* The totals of the Finance page (computeTotals), of the lists it is sent.
FinanceTotals(panel) ==
  [confirmedBalance   |-> SumBy(Influencers, LAMBDA i : panel.balances[i].confirmed),
   pendingWithdrawals |-> SumBy(PendingOnly(panel.withdrawals), RequestedAmount),
   pendingAdjustments |-> Cardinality({a \in panel.adjustments : adjustments[a].status = "pending"})]

----------------------------------------------------------------------------
(* Progress through the tiers. *)

\* Mutant of SortedBefore: the tiers stay as the campaign lists them.
SortedBefore_Listed(program, j, k) == j < k

\* The sort of a campaign's tiers: the lowest level first, and those of a level as
\* the campaign lists them.
SortedBefore(program, j, k) ==
  \/ program[j].level < program[k].level
  \/ program[j].level = program[k].level /\ j < k

\* The tier that comes right after another one.
IsNextTier(program, j, k) ==
  /\ SortedBefore(program, j, k)
  /\ ~ \E m \in DOMAIN program : SortedBefore(program, j, m) /\ SortedBefore(program, m, k)

\* Of the sorted tiers of a name, the first.
IsFirstNamed(program, name, j) ==
  /\ program[j].name = name
  /\ ~ \E m \in DOMAIN program : program[m].name = name /\ SortedBefore(program, m, j)

\* resolveTierProgress, for a campaign the influencer has a history in: the name of
\* the last period's tier, and the tier that follows the first one of that name, if
\* any.  A name that the campaign no longer lists has none, whatever its levels.  The
\* percentage of the way is left out.
TierProgress(c, i) ==
  LET history == ListTierHistory(c, i)
      current == history[Len(history)].name
      program == programs[c]
      next    == {k \in DOMAIN program :
                    \E j \in DOMAIN program :
                      IsFirstNamed(program, current, j) /\ IsNextTier(program, j, k)}
  IN  [currentTier |-> current,
       nextTier    |-> {[name |-> program[k].name, level |-> program[k].level,
                         threshold |-> program[k].threshold] : k \in next}]

----------------------------------------------------------------------------
(* The panels. *)

\* getInfluencerDashboard
InfluencerPanel(i) ==
  [metrics         |-> InfluencerMetrics(i),
   balances        |-> balances[i],
   salesByCampaign |-> SalesByCampaign(i),
   tierProgress    |-> [c \in {c \in Campaigns : ListTierHistory(c, i) # <<>>} |-> TierProgress(c, i)],
   withdrawals     |-> ListWithdrawalRequests({i}),
   payments        |-> ListPayments({i}),
   adjustments     |-> ListWithdrawalAdjustments({i})]

\* getAdminDashboard
AdminPanel ==
  [confirmedCommission |-> SumBy(InState(ListCommissions, "CONFIRMED"), CommissionAmount),
   topInfluencers      |-> TopInfluencers,
   performanceByBrand  |-> PerformanceByBrand]

\* The panel of an influencer agrees with the balance it is shown beside: the same
\* commissions and payments, one kept by increments and one added up.  Waiting
\* requests are among what is reserved, up to the cent a payment may release too
\* much.
InfluencerPanelAgrees(i) ==
  LET panel   == InfluencerPanel(i)
      metrics == panel.metrics
      sales   == panel.salesByCampaign
  IN
  /\ metrics.estimatedCommission = panel.balances.estimated
  /\ metrics.confirmedCommission = panel.balances.confirmed
  /\ metrics.reversedCommission  = panel.balances.reverted
  /\ metrics.withdrawnAmount     = panel.balances.withdrawn
  /\ metrics.pendingWithdrawals <= panel.balances.pending + PaidCount(i)
  /\ metrics.totalSales = SumBy(DOMAIN sales, LAMBDA c : sales[c].salesAmount)
  /\ metrics.confirmedCommission = SumBy(DOMAIN sales, LAMBDA c : sales[c].confirmedCommission)

\* One figure, four ways: what Finance adds up from balances is what the
\* administrator sees as a total, by influencer and by brand, and what the summary
\* of commissions says.
OfficePanelsAgree ==
  LET confirmed == AdminPanel.confirmedCommission
      top       == AdminPanel.topInfluencers
      brands    == AdminPanel.performanceByBrand
      totals    == FinanceTotals(FinancePanel)
  IN
  /\ CommissionSummary.confirmedAmount = confirmed
  /\ SumBy(DOMAIN top, LAMBDA i : top[i].confirmedCommission) = confirmed
  /\ SumBy(DOMAIN brands, LAMBDA b : brands[b].confirmedCommission) = confirmed
  /\ totals.confirmedBalance = confirmed
  /\ totals.pendingWithdrawals =
       SumBy(Influencers, LAMBDA i : InfluencerMetrics(i).pendingWithdrawals)

\* No two panels contradict each other, nor the balances they stand beside, in any
\* state that order events, settlements, payments and adjustments lead to
\* (DashboardService, CommissionsService, the Finance page).
PanelsAgree ==
  /\ \A i \in Influencers : InfluencerPanelAgrees(i)
  /\ OfficePanelsAgree

\* A program in which a higher level always has a higher threshold, and those of a
\* level have the same.
ThresholdsRise(program) ==
  \A j, k \in DOMAIN program :
    program[j].level < program[k].level <=> program[j].threshold < program[k].threshold

\* The campaign has a tier of that name and level.
IsListed(c, name, level) ==
  \E k \in DOMAIN programs[c] : programs[c][k].name = name /\ programs[c][k].level = level

\* The sales of an influencer that are confirmed in a campaign.
ConfirmedIn(c, i) ==
  {o \in InState(CommissionsOf(i), "CONFIRMED") : CampaignOf[orders[o].code] = c}

\* Whoever moves up a tier, where thresholds rise with levels, does so past the tier
\* the panel announced: there was a next one, its level and threshold are no more than
\* those of the tier reached, and the sales confirmed in the campaign come to it
\* (negative ones, which may lie outside the window, not counted).  The panel looks
\* for the tier by its name and the evaluation replaces it by its level, so the
\* exception is an influencer whose tier the campaign no longer lists under both: who
\* has one that was renamed is shown to have no tier ahead, and may move up
\* (resolveTierProgress against evaluateTiers).
ProgressLeadsAhead ==
  [][\A c \in Campaigns, i \in Influencers :
       LET progress == TierProgress(c, i)   \* as the panel shows it
           current  == tiers[<<c, i>>].level
           reached  == tiers'[<<c, i>>].level
           sales    == SumBy(ConfirmedIn(c, i), LAMBDA o : Larger(EligibleAmount(o), 0))
       IN  /\ ThresholdsRise(programs[c])
           /\ tiers[<<c, i>>].enrolled
           /\ reached > current
           /\ IsListed(c, progress.currentTier, current)
           => /\ progress.nextTier # {}
              /\ \A t \in progress.nextTier : t.level <= reached /\ t.threshold <= sales]_vars

=============================================================================
