-------------------------- MODULE DashboardProofs --------------------------
(***************************************************************************)
(* Theorems about what the panels show, for every number of influencers,   *)
(* campaigns, brands, orders, requests and payments.                       *)
(*                                                                         *)
(* A panel adds up the rows it is given.  Its figures agree with balances  *)
(* because of the invariants of the ledger, and with each other because    *)
(* the rows of a total are those of its groups.                            *)
(***************************************************************************)
EXTENDS Dashboard, BalanceProofs

----------------------------------------------------------------------------
(* What the figures of a panel add up. *)

LEMMA TablesAreFinite ==
  /\ {OrderCount, WithdrawalCount, PaymentCount} \subseteq Nat
  /\ IsFiniteSet(OrderIds) /\ IsFiniteSet(WithdrawalIds) /\ IsFiniteSet(PaymentIds)
<1>1. {OrderCount, WithdrawalCount, PaymentCount} \subseteq Nat
  BY LedgerConstants DEF LedgerConstants
<1>2. QED
  BY <1>1, FS_Interval DEF OrderIds, WithdrawalIds, PaymentIds

CommissionAmounts == [o \in OrderIds |-> commissions[o].amount]
EligibleOnes      == [o \in OrderIds |-> commissions[o].eligible]

LEMMA CommissionFigures ==
  ASSUME TypeInv, NEW rows, rows \subseteq OrderIds
  PROVE  /\ IsFiniteSet(rows)
         /\ SumBy(rows, CommissionAmount) = SumFunctionOnSet(CommissionAmounts, rows)
         /\ SumBy(rows, EligibleAmount) = SumFunctionOnSet(EligibleOnes, rows)
         /\ SumBy(rows, CommissionAmount) \in Int
         /\ SumBy(rows, EligibleAmount) \in Int
         /\ \A o \in OrderIds : CommissionAmounts[o] \in Int /\ EligibleOnes[o] \in Int
<1>1. IsFiniteSet(rows)
  BY TablesAreFinite, FS_Subset
<1>2. \A o \in OrderIds : CommissionAmounts[o] \in Int /\ EligibleOnes[o] \in Int
  BY DEF CommissionAmounts, EligibleOnes, TypeInv, TypeOK, Commission
<1> DEFINE f == [o \in rows |-> CommissionAmount(o)]
<1> DEFINE g == [o \in rows |-> EligibleAmount(o)]
<1>3. /\ SumBy(rows, CommissionAmount) = SumFunctionOnSet(f, rows)
      /\ SumBy(rows, EligibleAmount) = SumFunctionOnSet(g, rows)
  BY DEF SumBy, SumFunction
<1>4. \A o \in rows : f[o] = CommissionAmounts[o] /\ g[o] = EligibleOnes[o]
  BY DEF CommissionAmounts, EligibleOnes, CommissionAmount, EligibleAmount
<1> HIDE DEF f, g
<1>5. /\ SumFunctionOnSet(f, rows) = SumFunctionOnSet(CommissionAmounts, rows)
      /\ SumFunctionOnSet(g, rows) = SumFunctionOnSet(EligibleOnes, rows)
  BY <1>1, <1>4, SumDependsOnValues
<1>6. /\ SumFunctionOnSet(CommissionAmounts, rows) \in Int
      /\ SumFunctionOnSet(EligibleOnes, rows) \in Int
  BY <1>1, <1>2, SumType
<1>7. QED
  BY <1>1, <1>2, <1>3, <1>5, <1>6

\* The commissions of an influencer that are in a state, as a panel adds them up.
LEMMA CommissionsInState ==
  ASSUME TypeInv, NEW i, NEW state \in CommissionStates
  PROVE  SumBy(InState(CommissionsOf(i), state), CommissionAmount) = CommissionTotal(i, state)
<1> DEFINE rows == InState(CommissionsOf(i), state)
<1>1. rows \subseteq OrderIds
  BY DEF InState, CommissionsOf, ListCommissions
<1>2. \A o \in OrderIds : o \in rows <=> commissions[o].state = state /\ OwnerOf(o) = i
  BY DEF InState, CommissionsOf, ListCommissions, CommissionStates
<1>3. /\ SumBy(rows, CommissionAmount) = SumFunctionOnSet(CommissionAmounts, rows)
      /\ \A o \in OrderIds : CommissionAmounts[o] \in Int
  BY <1>1, CommissionFigures
<1> HIDE DEF rows
<1>4. SumFunctionOnSet(CommissionAmounts, rows)
        = Total([o \in 1..OrderCount |-> IF o \in rows THEN CommissionAmounts[o] ELSE 0], OrderCount)
  <2>1. OrderCount \in Nat /\ rows \subseteq 1..OrderCount
        /\ \A o \in rows : CommissionAmounts[o] \in Int
    BY <1>1, <1>3, TablesAreFinite DEF OrderIds
  <2>2. QED
    BY <2>1, SumOfRows
<1>5. [o \in 1..OrderCount |-> IF o \in rows THEN CommissionAmounts[o] ELSE 0] = Share(i, state)
  BY <1>2 DEF Share, CommissionAmounts, OrderIds
<1>6. QED
  BY <1>3, <1>4, <1>5, CommissionTotalIsTotal DEF rows


\* The payments to an influencer, as a panel adds them up.
LEMMA PaymentsMade ==
  ASSUME TypeInv, NEW i
  PROVE  SumBy(ListPayments({i}), PaymentAmount) = PaymentTotal(i)
<1> DEFINE rows == ListPayments({i})
<1> DEFINE f == [p \in rows |-> PaymentAmount(p)]
<1> DEFINE g == [p \in 1..PaymentCount |-> IF p \in rows THEN f[p] ELSE 0]
<1>1. rows \subseteq 1..PaymentCount /\ PaymentIds = 1..PaymentCount
  BY DEF ListPayments, PaymentIds
<1>2. \A p \in PaymentIds :
        p \in rows <=> /\ payments[p].status = "recorded"
                       /\ withdrawals[payments[p].withdrawal].influencer = i
  BY DEF ListPayments, TypeInv, TypeOK, Payment
<1>3. SumBy(rows, PaymentAmount) = SumFunctionOnSet(f, rows)
  BY DEF SumBy, SumFunction
<1>4. \A p \in rows : f[p] = payments[p].amount /\ f[p] \in Int
  BY <1>1 DEF PaymentAmount, TypeInv, TypeOK, Payment
<1>5. g = [p \in PaymentIds |->
             IF /\ payments[p].status = "recorded"
                /\ withdrawals[payments[p].withdrawal].influencer = i
             THEN payments[p].amount ELSE 0]
  <2> HIDE DEF f, rows
  <2>1. QED
    BY <1>1, <1>2, <1>4
<1> HIDE DEF f, rows
<1>6. SumFunctionOnSet(f, rows) = Total(g, PaymentCount)
  BY <1>1, <1>4, TablesAreFinite, SumOfRows
<1>7. QED
  BY <1>3, <1>5, <1>6 DEF PaymentTotal, rows

\* Requests that wait are open.
LEMMA RequestsWaiting ==
  ASSUME TypeInv, RequestsAreMade, NEW i
  PROVE  /\ SumBy(PendingOnly(ListWithdrawalRequests({i})), RequestedAmount) <= OpenTotal(i)
         /\ SumBy(PendingOnly(ListWithdrawalRequests({i})), RequestedAmount) \in Int
         /\ OpenTotal(i) \in Int
<1> DEFINE rows == PendingOnly(ListWithdrawalRequests({i}))
<1> DEFINE f == [w \in rows |-> RequestedAmount(w)]
<1> DEFINE g == [w \in 1..WithdrawalCount |-> IF w \in rows THEN f[w] ELSE 0]
<1> DEFINE h == [w \in WithdrawalIds |->
                   IF /\ withdrawals[w].status \in {"pending", "approved"}
                      /\ withdrawals[w].influencer = i
                   THEN withdrawals[w].amount ELSE 0]
<1>1. rows \subseteq 1..WithdrawalCount /\ WithdrawalIds = 1..WithdrawalCount
      /\ WithdrawalCount \in Nat
  BY TablesAreFinite DEF PendingOnly, ListWithdrawalRequests, WithdrawalIds
<1>2. \A w \in rows : withdrawals[w].status = "pending" /\ withdrawals[w].influencer = i
  BY DEF PendingOnly, ListWithdrawalRequests
<1>3. SumBy(rows, RequestedAmount) = SumFunctionOnSet(f, rows)
  BY DEF SumBy, SumFunction
<1>4. \A w \in rows : f[w] = withdrawals[w].amount /\ f[w] \in Int
  BY <1>1 DEF RequestedAmount, TypeInv, TypeOK, Withdrawal
<1>5. \A w \in WithdrawalIds :
        withdrawals[w].amount \in Int /\ (withdrawals[w].status # "none" => withdrawals[w].amount > 0)
  BY DEF RequestsAreMade, TypeInv, TypeOK, Withdrawal
<1>6. h \in [1..WithdrawalCount -> Int]
  BY <1>1, <1>5
<1> HIDE DEF f, rows
<1>7. g \in [1..WithdrawalCount -> Int]
  BY <1>4
<1>8. \A w \in 1..WithdrawalCount : g[w] <= h[w]
  BY <1>1, <1>2, <1>4, <1>5
<1>9. SumFunctionOnSet(f, rows) = Total(g, WithdrawalCount)
  BY <1>1, <1>4, SumOfRows
<1>10. OpenTotal(i) = Total(h, WithdrawalCount)
  BY DEF OpenTotal
<1> HIDE DEF g, h
<1>11. Total(g, WithdrawalCount) <= Total(h, WithdrawalCount)
  BY <1>1, <1>6, <1>7, <1>8, TotalMonotonic
<1>12. Total(g, WithdrawalCount) \in Int /\ Total(h, WithdrawalCount) \in Int
  BY <1>1, <1>6, <1>7, TotalType
<1>13. QED
  BY <1>3, <1>9, <1>10, <1>11, <1>12 DEF rows

----------------------------------------------------------------------------
(* Figures by group. *)

\* What is confirmed adds up, however the commissions are grouped.
LEMMA GroupsOfConfirmed ==
  ASSUME TypeInv, NEW rows, rows \subseteq OrderIds,
         NEW K, IsFiniteSet(K), NEW key, \A o \in rows : key[o] \in K
  PROVE  SumFunctionOnSet(
           [k \in K |-> SumBy(InState({o \in rows : key[o] = k}, "CONFIRMED"), CommissionAmount)], K)
           = SumBy(InState(rows, "CONFIRMED"), CommissionAmount)
<1> DEFINE group ==
      [k \in K |-> SumBy(InState({o \in rows : key[o] = k}, "CONFIRMED"), CommissionAmount)]
<1> DEFINE S == InState(rows, "CONFIRMED")
<1>1. S \subseteq OrderIds /\ \A o \in S : key[o] \in K
  BY DEF InState
<1>2. /\ IsFiniteSet(S)
      /\ SumBy(S, CommissionAmount) = SumFunctionOnSet(CommissionAmounts, S)
      /\ \A o \in S : CommissionAmounts[o] \in Int
  BY <1>1, CommissionFigures
<1>3. ASSUME NEW k \in K
      PROVE  group[k] = SumFunctionOnSet(CommissionAmounts, {o \in S : key[o] = k})
  <2> DEFINE part == InState({o \in rows : key[o] = k}, "CONFIRMED")
  <2>1. part = {o \in S : key[o] = k} /\ part \subseteq OrderIds
    BY DEF InState
  <2> HIDE DEF part, S
  <2>2. SumBy(part, CommissionAmount) = SumFunctionOnSet(CommissionAmounts, part)
    BY <2>1, CommissionFigures
  <2>3. QED
    BY <2>1, <2>2 DEF part
<1> DEFINE sums == [k \in K |-> SumFunctionOnSet(CommissionAmounts, {o \in S : key[o] = k})]
<1>4. \A k \in K : group[k] = sums[k]
  BY <1>3
<1> HIDE DEF S
<1>5. SumFunctionOnSet(sums, K) = SumFunctionOnSet(CommissionAmounts, S)
  BY <1>1, <1>2, SumOfGroups
<1> HIDE DEF sums, group
<1>6. SumFunctionOnSet(group, K) = SumFunctionOnSet(sums, K)
  BY <1>4, SumDependsOnValues
<1>7. SumFunctionOnSet(group, K) = SumBy(S, CommissionAmount)
  BY <1>2, <1>5, <1>6
<1>8. QED
  BY <1>7 DEF S, group

\* The rows of the panel of an influencer, one for each campaign.
LEMMA SalesAreGrouped ==
  ASSUME TypeInv, NEW i
  PROVE  LET sales == SalesByCampaign(i) IN
         /\ SumBy(DOMAIN sales, LAMBDA c : sales[c].salesAmount)
              = SumBy(OrdersOf(i), EligibleAmount)
         /\ SumBy(DOMAIN sales, LAMBDA c : sales[c].confirmedCommission)
              = SumBy(InState(OrdersOf(i), "CONFIRMED"), CommissionAmount)
<1> DEFINE S == OrdersOf(i)
<1> DEFINE K == {CampaignOf[orders[o].code] : o \in S}
<1> DEFINE key == [o \in S |-> CampaignOf[orders[o].code]]
<1> DEFINE sales == SalesByCampaign(i)
<1> DEFINE amount == [c \in K |-> sales[c].salesAmount]
<1> DEFINE confirmed == [c \in K |-> sales[c].confirmedCommission]
<1>1. S \subseteq OrderIds /\ IsFiniteSet(S)
      /\ SumBy(S, EligibleAmount) = SumFunctionOnSet(EligibleOnes, S)
      /\ \A o \in S : EligibleOnes[o] \in Int
  <2>1. S \subseteq OrderIds
    BY DEF OrdersOf
  <2>2. QED
    BY <2>1, CommissionFigures
<1>2. key \in [S -> K] /\ \A c \in K : \E o \in S : key[o] = c
  OBVIOUS
<1>3. IsFiniteSet(K)
  <2> HIDE DEF S, K, key
  <2>1. QED
    BY <1>1, <1>2, FiniteImage
<1>4. /\ DOMAIN sales = K
      /\ \A c \in K :
           /\ sales[c].salesAmount
                = SumBy({o \in S : CampaignOf[orders[o].code] = c}, EligibleAmount)
           /\ sales[c].confirmedCommission
                = SumBy(InState({o \in S : CampaignOf[orders[o].code] = c}, "CONFIRMED"),
                        CommissionAmount)
  BY DEF SalesByCampaign
<1>5. \A c \in K : {o \in S : CampaignOf[orders[o].code] = c} = {o \in S : key[o] = c}
  OBVIOUS
<1>6. /\ SumBy(K, LAMBDA c : sales[c].salesAmount) = SumFunctionOnSet(amount, K)
      /\ SumBy(K, LAMBDA c : sales[c].confirmedCommission) = SumFunctionOnSet(confirmed, K)
  BY DEF SumBy, SumFunction
<1>7. \A c \in K :
        /\ amount[c] = SumBy({o \in S : key[o] = c}, EligibleAmount)
        /\ confirmed[c] = SumBy(InState({o \in S : key[o] = c}, "CONFIRMED"), CommissionAmount)
  <2> HIDE DEF K, S, sales, key
  <2>1. QED
    BY <1>4, <1>5
<1> HIDE DEF amount, confirmed, K, key, sales, S
<1>8. \A c \in K : amount[c] = SumFunctionOnSet(EligibleOnes, {o \in S : key[o] = c})
  <2> SUFFICES ASSUME NEW c \in K
               PROVE  amount[c] = SumFunctionOnSet(EligibleOnes, {o \in S : key[o] = c})
    OBVIOUS
  <2>1. {o \in S : key[o] = c} \subseteq OrderIds
    BY <1>1
  <2>2. QED
    BY <1>7, <2>1, CommissionFigures
<1> DEFINE amounts == [c \in K |-> SumFunctionOnSet(EligibleOnes, {o \in S : key[o] = c})]
<1> DEFINE parts ==
      [c \in K |-> SumBy(InState({o \in S : key[o] = c}, "CONFIRMED"), CommissionAmount)]
<1>9. SumFunctionOnSet(amount, K) = SumFunctionOnSet(EligibleOnes, S)
  <2>1. \A c \in K : amount[c] = amounts[c]
    BY <1>8
  <2>2. \A o \in S : key[o] \in K
    BY <1>2
  <2>3. SumFunctionOnSet(amounts, K) = SumFunctionOnSet(EligibleOnes, S)
    BY <1>1, <1>3, <2>2, SumOfGroups
  <2> HIDE DEF amounts
  <2>4. QED
    BY <1>3, <2>1, <2>3, SumDependsOnValues
<1>10. SumFunctionOnSet(confirmed, K) = SumBy(InState(S, "CONFIRMED"), CommissionAmount)
  <2>1. \A c \in K : confirmed[c] = parts[c]
    BY <1>7
  <2>2. \A o \in S : key[o] \in K
    BY <1>2
  <2>3. SumFunctionOnSet(parts, K) = SumBy(InState(S, "CONFIRMED"), CommissionAmount)
    BY <1>1, <1>3, <2>2, GroupsOfConfirmed
  <2> HIDE DEF parts
  <2>4. QED
    BY <1>3, <2>1, <2>3, SumDependsOnValues
<1>11. QED
  BY <1>1, <1>4, <1>6, <1>9, <1>10 DEF sales, S

\* Requests that wait add up, by the influencers who made them.
LEMMA GroupsOfWaiting ==
  ASSUME TypeInv, RequestsAreMade
  PROVE  SumBy(Influencers, LAMBDA i : SumBy(PendingOnly(ListWithdrawalRequests({i})), RequestedAmount))
           = SumBy(PendingOnly(ListWithdrawalRequests(Influencers)), RequestedAmount)
<1> DEFINE S == PendingOnly(ListWithdrawalRequests(Influencers))
<1> DEFINE amounts == [w \in WithdrawalIds |-> withdrawals[w].amount]
<1> DEFINE key == [w \in S |-> withdrawals[w].influencer]
<1> DEFINE group == [i \in Influencers |->
                       SumBy(PendingOnly(ListWithdrawalRequests({i})), RequestedAmount)]
<1> DEFINE sums == [i \in Influencers |-> SumFunctionOnSet(amounts, {w \in S : key[w] = i})]
<1>1. /\ S \subseteq WithdrawalIds
      /\ \A w \in S : key[w] = withdrawals[w].influencer /\ key[w] \in Influencers
  BY DEF PendingOnly, ListWithdrawalRequests
<1>2. IsFiniteSet(S) /\ IsFiniteSet(Influencers)
  BY <1>1, TablesAreFinite, FS_Subset, DashboardConstants DEF DashboardConstants
<1>3. \A w \in WithdrawalIds : amounts[w] \in Int
  BY DEF TypeInv, TypeOK, Withdrawal
<1>4. ASSUME NEW rows, rows \subseteq S
      PROVE  SumBy(rows, RequestedAmount) = SumFunctionOnSet(amounts, rows)
  <2> DEFINE f == [w \in rows |-> RequestedAmount(w)]
  <2>1. SumBy(rows, RequestedAmount) = SumFunctionOnSet(f, rows)
    BY DEF SumBy, SumFunction
  <2>2. \A w \in rows : f[w] = amounts[w]
    BY <1>1, <1>4 DEF RequestedAmount
  <2>3. IsFiniteSet(rows)
    BY <1>2, <1>4, FS_Subset
  <2> HIDE DEF f, amounts, S
  <2>4. SumFunctionOnSet(f, rows) = SumFunctionOnSet(amounts, rows)
    BY <2>2, <2>3, SumDependsOnValues
  <2>5. QED
    BY <2>1, <2>4
<1>5. ASSUME NEW i \in Influencers PROVE group[i] = sums[i]
  <2>1. PendingOnly(ListWithdrawalRequests({i})) = {w \in S : key[w] = i}
    BY DEF PendingOnly, ListWithdrawalRequests
  <2>2. {w \in S : key[w] = i} \subseteq S
    OBVIOUS
  <2> HIDE DEF S, key, amounts
  <2>3. SumBy(PendingOnly(ListWithdrawalRequests({i})), RequestedAmount)
          = SumFunctionOnSet(amounts, {w \in S : key[w] = i})
    BY <1>4, <2>1, <2>2
  <2>4. QED
    BY <2>3
<1>6. SumBy(Influencers, LAMBDA i : SumBy(PendingOnly(ListWithdrawalRequests({i})), RequestedAmount))
        = SumFunctionOnSet(group, Influencers)
  BY DEF SumBy, SumFunction
<1>7. SumBy(S, RequestedAmount) = SumFunctionOnSet(amounts, S)
  BY <1>4
<1> HIDE DEF S, key, amounts
<1>8. SumFunctionOnSet(sums, Influencers) = SumFunctionOnSet(amounts, S)
  BY <1>1, <1>2, <1>3, SumOfGroups
<1> HIDE DEF group, sums
<1>9. SumFunctionOnSet(group, Influencers) = SumFunctionOnSet(sums, Influencers)
  BY <1>2, <1>5, SumDependsOnValues
<1>10. QED
  BY <1>6, <1>7, <1>8, <1>9 DEF S

----------------------------------------------------------------------------
(* The panels agree. *)

LEMMA InfluencerPanelFollows ==
  ASSUME TypeInv, BalancesMatchCommissions, WithdrawalInv, NEW i \in Influencers
  PROVE  InfluencerPanelAgrees(i)
<1> DEFINE panel == InfluencerPanel(i)
<1> DEFINE metrics == InfluencerMetrics(i)
<1> DEFINE sales == SalesByCampaign(i)
<1>1. panel.metrics = metrics /\ panel.balances = balances[i] /\ panel.salesByCampaign = sales
  BY DEF InfluencerPanel
<1>2. /\ metrics.totalSales = SumBy(OrdersOf(i), EligibleAmount)
      /\ metrics.estimatedCommission = SumBy(InState(CommissionsOf(i), "ESTIMATED"), CommissionAmount)
      /\ metrics.confirmedCommission = SumBy(InState(CommissionsOf(i), "CONFIRMED"), CommissionAmount)
      /\ metrics.reversedCommission = SumBy(InState(CommissionsOf(i), "REVERTED"), CommissionAmount)
      /\ metrics.pendingWithdrawals
           = SumBy(PendingOnly(ListWithdrawalRequests({i})), RequestedAmount)
      /\ metrics.withdrawnAmount = SumBy(ListPayments({i}), PaymentAmount)
  BY DEF InfluencerMetrics
<1> HIDE DEF panel, metrics
<1>3. /\ metrics.estimatedCommission = balances[i].estimated
      /\ metrics.confirmedCommission = balances[i].confirmed
      /\ metrics.reversedCommission = balances[i].reverted
  BY <1>2, CommissionsInState DEF BalancesMatchCommissions, CommissionStates
<1>4. metrics.withdrawnAmount = balances[i].withdrawn
  BY <1>2, PaymentsMade DEF WithdrawalInv, WithdrawnMatchesPayments
<1>5. metrics.pendingWithdrawals <= balances[i].pending + PaidCount(i)
  <2>1. /\ metrics.pendingWithdrawals <= OpenTotal(i)
        /\ metrics.pendingWithdrawals \in Int /\ OpenTotal(i) \in Int
    BY <1>2, RequestsWaiting DEF WithdrawalInv
  <2>2. Distance(balances[i].pending, OpenTotal(i)) <= PaidCount(i)
    BY DEF WithdrawalInv, ReservationsMatchOpenRequests
  <2>3. PaidCount(i) \in Int
    <3> DEFINE paid == [w \in WithdrawalIds |->
           IF withdrawals[w].status = "paid" /\ withdrawals[w].influencer = i THEN 1 ELSE 0]
    <3>1. paid \in [1..WithdrawalCount -> Int] /\ WithdrawalCount \in Nat
      BY TablesAreFinite DEF WithdrawalIds
    <3>2. PaidCount(i) = Total(paid, WithdrawalCount)
      BY DEF PaidCount
    <3> HIDE DEF paid
    <3>3. QED
      BY <3>1, <3>2, TotalType
  <2>4. balances[i].pending \in Int
    BY DEF TypeInv, TypeOK, Balance
  <2>5. QED
    BY <2>1, <2>2, <2>3, <2>4 DEF Distance
<1>6. InState(CommissionsOf(i), "CONFIRMED") = InState(OrdersOf(i), "CONFIRMED")
  BY DEF InState, CommissionsOf, ListCommissions, OrdersOf, TypeInv, CommissionsAreAttributed
<1>7. /\ SumBy(DOMAIN sales, LAMBDA c : sales[c].salesAmount) = metrics.totalSales
      /\ SumBy(DOMAIN sales, LAMBDA c : sales[c].confirmedCommission) = metrics.confirmedCommission
  BY <1>2, <1>6, SalesAreGrouped
<1> HIDE DEF sales
<1>8. InfluencerPanelAgrees(i) <=>
        /\ metrics.estimatedCommission = balances[i].estimated
        /\ metrics.confirmedCommission = balances[i].confirmed
        /\ metrics.reversedCommission = balances[i].reverted
        /\ metrics.withdrawnAmount = balances[i].withdrawn
        /\ metrics.pendingWithdrawals <= balances[i].pending + PaidCount(i)
        /\ metrics.totalSales = SumBy(DOMAIN sales, LAMBDA c : sales[c].salesAmount)
        /\ metrics.confirmedCommission = SumBy(DOMAIN sales, LAMBDA c : sales[c].confirmedCommission)
  BY <1>1 DEF InfluencerPanelAgrees, panel
<1>9. QED
  BY <1>3, <1>4, <1>5, <1>7, <1>8

LEMMA OfficePanelsFollow ==
  ASSUME TypeInv, BalancesMatchCommissions, RequestsAreMade
  PROVE  OfficePanelsAgree
<1> DEFINE rows == ListCommissions
<1> DEFINE owner == [o \in rows |-> OwnerOf(o)]
<1> DEFINE brand == [o \in rows |-> BrandOf[CampaignOf[orders[o].code]]]
<1> DEFINE owners == {OwnerOf(o) : o \in rows}
<1> DEFINE brands == {BrandOf[CampaignOf[orders[o].code]] : o \in rows}
<1> DEFINE top == TopInfluencers
<1> DEFINE performance == PerformanceByBrand
<1> DEFINE confirmed == SumBy(InState(rows, "CONFIRMED"), CommissionAmount)
<1> DEFINE grouped(key, K) ==
      [k \in K |-> SumBy(InState({o \in rows : key[o] = k}, "CONFIRMED"), CommissionAmount)]
<1>1. rows \subseteq OrderIds /\ IsFiniteSet(rows)
  BY TablesAreFinite, FS_Subset DEF ListCommissions
<1>2. \A o \in rows : OwnerOf(o) \in Influencers
  BY LedgerConstants
  DEF LedgerConstants, ListCommissions, OwnerOf, TypeInv, TypeOK, CommissionsAreAttributed, Order
<1>3. IsFiniteSet(owners) /\ IsFiniteSet(brands) /\ IsFiniteSet(Influencers)
  <2>1. /\ owner \in [rows -> owners] /\ \A i \in owners : \E o \in rows : owner[o] = i
        /\ brand \in [rows -> brands] /\ \A b \in brands : \E o \in rows : brand[o] = b
    OBVIOUS
  <2> HIDE DEF owner, brand, owners, brands, rows
  <2>2. IsFiniteSet(owners)
    BY <1>1, <2>1, FiniteImage
  <2>3. IsFiniteSet(brands)
    BY <1>1, <2>1, FiniteImage
  <2>4. QED
    BY <2>2, <2>3, DashboardConstants DEF DashboardConstants
<1>4. /\ \A o \in rows : owner[o] \in owners /\ brand[o] \in brands
      /\ \A o \in rows : owner[o] \in Influencers
  BY <1>2
<1>5. ASSUME NEW key, NEW K, IsFiniteSet(K), \A o \in rows : key[o] \in K
      PROVE  SumFunctionOnSet(grouped(key, K), K) = confirmed
  <2> HIDE DEF rows
  <2>1. QED
    BY <1>1, <1>5, GroupsOfConfirmed
<1>6. SumBy(DOMAIN top, LAMBDA i : top[i].confirmedCommission) = confirmed
  <2> DEFINE f == [i \in owners |-> top[i].confirmedCommission]
  <2>1. /\ DOMAIN top = owners
        /\ \A i \in owners :
             top[i].confirmedCommission = SumBy(InState(CommissionsOf(i), "CONFIRMED"), CommissionAmount)
    BY DEF TopInfluencers
  <2>2. \A i : CommissionsOf(i) = {o \in rows : owner[o] = i}
    BY DEF CommissionsOf
  <2>3. SumBy(owners, LAMBDA i : top[i].confirmedCommission) = SumFunctionOnSet(f, owners)
    BY DEF SumBy, SumFunction
  <2> HIDE DEF top, owners, owner, rows, confirmed
  <2>4. f = grouped(owner, owners)
    BY <2>1, <2>2
  <2> HIDE DEF f
  <2>5. QED
    BY <1>3, <1>4, <1>5, <2>1, <2>3, <2>4
<1>7. SumBy(DOMAIN performance, LAMBDA b : performance[b].confirmedCommission) = confirmed
  <2> DEFINE f == [b \in brands |-> performance[b].confirmedCommission]
  <2> DEFINE part(b) == {o \in rows : BrandOf[CampaignOf[orders[o].code]] = b}
  <2>1. /\ DOMAIN performance = brands
        /\ \A b \in brands :
             performance[b].confirmedCommission = SumBy(InState(part(b), "CONFIRMED"), CommissionAmount)
    BY DEF PerformanceByBrand
  <2>2. \A b : part(b) = {o \in rows : brand[o] = b}
    OBVIOUS
  <2>3. SumBy(brands, LAMBDA b : performance[b].confirmedCommission) = SumFunctionOnSet(f, brands)
    BY DEF SumBy, SumFunction
  <2> HIDE DEF performance, brands, brand, rows, confirmed, part
  <2>4. f = grouped(brand, brands)
    BY <2>1, <2>2
  <2> HIDE DEF f
  <2>5. QED
    BY <1>3, <1>4, <1>5, <2>1, <2>3, <2>4
<1>8. SumBy(Influencers, LAMBDA i : FinancePanel.balances[i].confirmed) = confirmed
  <2> DEFINE f == [i \in Influencers |-> balances[i].confirmed]
  <2>1. FinancePanel.balances = balances
    BY DEF FinancePanel
  <2>2. SumBy(Influencers, LAMBDA i : FinancePanel.balances[i].confirmed)
          = SumFunctionOnSet(f, Influencers)
    BY <2>1 DEF SumBy, SumFunction
  <2>3. \A i : CommissionsOf(i) = {o \in rows : owner[o] = i}
    BY DEF CommissionsOf
  <2>4. \A i \in Influencers :
          balances[i].confirmed = SumBy(InState(CommissionsOf(i), "CONFIRMED"), CommissionAmount)
    BY CommissionsInState DEF BalancesMatchCommissions, CommissionStates
  <2> HIDE DEF owner, rows, confirmed
  <2>5. f = grouped(owner, Influencers)
    BY <2>3, <2>4
  <2> HIDE DEF f
  <2>6. QED
    BY <1>3, <1>4, <1>5, <2>2, <2>5
<1>9. SumBy(PendingOnly(FinancePanel.withdrawals), RequestedAmount)
        = SumBy(Influencers, LAMBDA i : InfluencerMetrics(i).pendingWithdrawals)
  <2>1. FinancePanel.withdrawals = ListWithdrawalRequests(Influencers)
    BY DEF FinancePanel
  <2>2. \A i : InfluencerMetrics(i).pendingWithdrawals
                 = SumBy(PendingOnly(ListWithdrawalRequests({i})), RequestedAmount)
    BY DEF InfluencerMetrics
  <2> DEFINE f == [i \in Influencers |-> InfluencerMetrics(i).pendingWithdrawals]
  <2> DEFINE g == [i \in Influencers |->
                     SumBy(PendingOnly(ListWithdrawalRequests({i})), RequestedAmount)]
  <2>3. f = g
    BY <2>2
  <2>4. SumBy(Influencers, LAMBDA i : InfluencerMetrics(i).pendingWithdrawals) = SumFunction(f)
    BY DEF SumBy
  <2>5. SumBy(Influencers, LAMBDA i : SumBy(PendingOnly(ListWithdrawalRequests({i})), RequestedAmount))
          = SumFunction(g)
    BY DEF SumBy
  <2> HIDE DEF f, g
  <2>6. QED
    BY <2>1, <2>3, <2>4, <2>5, GroupsOfWaiting
<1>10. /\ CommissionSummary.confirmedAmount = confirmed
       /\ AdminPanel.confirmedCommission = confirmed
       /\ AdminPanel.topInfluencers = top
       /\ AdminPanel.performanceByBrand = performance
  BY DEF CommissionSummary, AdminPanel
<1>11. /\ FinanceTotals(FinancePanel).confirmedBalance
            = SumBy(Influencers, LAMBDA i : FinancePanel.balances[i].confirmed)
       /\ FinanceTotals(FinancePanel).pendingWithdrawals
            = SumBy(PendingOnly(FinancePanel.withdrawals), RequestedAmount)
  BY DEF FinanceTotals
<1> HIDE DEF confirmed, top, performance
<1>12. /\ SumBy(DOMAIN AdminPanel.topInfluencers,
                LAMBDA i : AdminPanel.topInfluencers[i].confirmedCommission)
            = SumBy(DOMAIN top, LAMBDA i : top[i].confirmedCommission)
       /\ SumBy(DOMAIN AdminPanel.performanceByBrand,
                LAMBDA b : AdminPanel.performanceByBrand[b].confirmedCommission)
            = SumBy(DOMAIN performance, LAMBDA b : performance[b].confirmedCommission)
  BY <1>10
<1>13. QED
  BY <1>6, <1>7, <1>8, <1>9, <1>10, <1>11, <1>12 DEF OfficePanelsAgree

\* No two panels contradict each other, nor the balances they stand beside: what the
\* database keeps by increments is what every panel adds up, by influencer, campaign
\* and brand (DashboardService, CommissionsService, the Finance page).
THEOREM PanelsCorrectness == Spec => []PanelsAgree
<1> DEFINE Inv == TypeInv /\ BalancesMatchCommissions /\ WithdrawalInv
<1>1. Inv => PanelsAgree
  BY InfluencerPanelFollows, OfficePanelsFollow DEF PanelsAgree, WithdrawalInv
<1>2. QED
  BY <1>1, TypeInvariance, BalanceCorrectness, WithdrawalInvariance, PTL

----------------------------------------------------------------------------
(***************************************************************************)
(* The tier a panel announces.  An evaluation does not look at the sorted  *)
(* tiers the panel reads, only at thresholds.  What ties the two is that   *)
(* nothing lies between a tier and the one after it: whatever tier above   *)
(* the current one is reached, the announced one is on the way there.      *)
(***************************************************************************)

LEMMA TierTypes ==
  ASSUME NEW program \in Seq(Tier)
  PROVE  /\ DOMAIN program \subseteq Nat
         /\ \A k \in DOMAIN program : program[k].level \in Nat /\ program[k].threshold \in Nat
<1>1. DOMAIN program = 1..Len(program) /\ Len(program) \in Nat
  BY LenProperties
<1>2. \A k \in DOMAIN program : program[k] \in Tier
  BY <1>1, ElementOfSeq
<1>3. QED
  BY <1>1, <1>2 DEF Tier

\* A tier that another one comes after has a next one.
LEMMA NextTierExists ==
  ASSUME NEW program \in Seq(Tier), NEW j \in DOMAIN program, NEW r \in DOMAIN program,
         SortedBefore(program, j, r)
  PROVE  \E k \in DOMAIN program : IsNextTier(program, j, k)
<1> DEFINE After == {k \in DOMAIN program : SortedBefore(program, j, k)}
<1> DEFINE Levels == {program[k].level : k \in After}
<1>1. /\ DOMAIN program \subseteq Nat
      /\ \A k \in DOMAIN program : program[k].level \in Nat
  BY TierTypes
<1>2. Levels \in SUBSET Nat /\ Levels # {}
  BY <1>1
<1>3. PICK m \in Levels : \A l \in Levels : m <= l
  <2> HIDE DEF Levels
  <2>1. QED
    BY <1>2, Least
<1> DEFINE Lowest == {k \in After : program[k].level = m}
<1>4. Lowest \in SUBSET Nat /\ Lowest # {}
  BY <1>1
<1>5. PICK k \in Lowest : \A l \in Lowest : k <= l
  <2> HIDE DEF Lowest
  <2>1. QED
    BY <1>4, Least
<1>6. k \in DOMAIN program /\ SortedBefore(program, j, k) /\ program[k].level = m
  OBVIOUS
<1>7. ASSUME NEW n \in DOMAIN program, SortedBefore(program, j, n), SortedBefore(program, n, k)
      PROVE  FALSE
  <2>1. n \in After /\ program[n].level \in Levels
    BY <1>7
  <2>2. /\ program[n].level \in Nat /\ m \in Nat /\ n \in Nat /\ k \in Nat
    BY <1>1, <1>6
  <2>3. m <= program[n].level
    BY <1>3, <2>1
  <2>4. program[n].level = m /\ n < k
    BY <1>6, <1>7, <2>2, <2>3 DEF SortedBefore
  <2>5. k <= n
    BY <1>5, <2>1, <2>4
  <2>6. QED
    BY <2>2, <2>4, <2>5
<1>8. QED
  BY <1>6, <1>7 DEF IsNextTier

\* A name that is listed has a first tier, which is not above any other of that name.
LEMMA FirstNamedExists ==
  ASSUME NEW program \in Seq(Tier), NEW name, NEW at \in DOMAIN program, program[at].name = name
  PROVE  \E j \in DOMAIN program : IsFirstNamed(program, name, j)
<1> DEFINE Named == {k \in DOMAIN program : program[k].name = name}
<1> DEFINE Levels == {program[k].level : k \in Named}
<1>1. /\ DOMAIN program \subseteq Nat
      /\ \A k \in DOMAIN program : program[k].level \in Nat
  BY TierTypes
<1>2. Levels \in SUBSET Nat /\ Levels # {}
  BY <1>1
<1>3. PICK m \in Levels : \A l \in Levels : m <= l
  <2> HIDE DEF Levels
  <2>1. QED
    BY <1>2, Least
<1> DEFINE Lowest == {k \in Named : program[k].level = m}
<1>4. Lowest \in SUBSET Nat /\ Lowest # {}
  BY <1>1
<1>5. PICK j \in Lowest : \A l \in Lowest : j <= l
  <2> HIDE DEF Lowest
  <2>1. QED
    BY <1>4, Least
<1>6. j \in DOMAIN program /\ program[j].name = name /\ program[j].level = m
  OBVIOUS
<1>7. ASSUME NEW n \in DOMAIN program, program[n].name = name, SortedBefore(program, n, j)
      PROVE  FALSE
  <2>1. n \in Named /\ program[n].level \in Levels
    BY <1>7
  <2>2. program[n].level \in Nat /\ m \in Nat /\ n \in Nat /\ j \in Nat
    BY <1>1, <1>6
  <2>3. m <= program[n].level
    BY <1>3, <2>1
  <2>4. program[n].level = m /\ n < j
    BY <1>6, <1>7, <2>2, <2>3 DEF SortedBefore
  <2>5. j <= n
    BY <1>5, <2>1, <2>4
  <2>6. QED
    BY <2>2, <2>4, <2>5
<1>8. QED
  BY <1>6, <1>7 DEF IsFirstNamed

LEMMA FirstNamedIsLowest ==
  ASSUME NEW program \in Seq(Tier), NEW name, NEW at \in DOMAIN program, program[at].name = name,
         NEW j \in DOMAIN program, IsFirstNamed(program, name, j)
  PROVE  program[j].level <= program[at].level
<1>1. program[j].level \in Nat /\ program[at].level \in Nat
  BY TierTypes
<1>2. ~ SortedBefore(program, at, j)
  BY DEF IsFirstNamed
<1>3. QED
  BY <1>1, <1>2 DEF SortedBefore

\* The next tier is not above any tier of a higher level.
LEMMA NextTierIsOnTheWay ==
  ASSUME NEW program \in Seq(Tier), ThresholdsRise(program),
         NEW j \in DOMAIN program, NEW k \in DOMAIN program, NEW r \in DOMAIN program,
         IsNextTier(program, j, k), program[j].level < program[r].level
  PROVE  program[k].level <= program[r].level /\ program[k].threshold <= program[r].threshold
<1>1. /\ program[j].level \in Nat /\ program[k].level \in Nat /\ program[r].level \in Nat
      /\ program[k].threshold \in Nat /\ program[r].threshold \in Nat
  BY TierTypes
<1>2. SortedBefore(program, j, r)
  BY DEF SortedBefore
<1>3. ~ SortedBefore(program, r, k)
  BY <1>2 DEF IsNextTier
<1>4. ~ (program[r].level < program[k].level)
  BY <1>3 DEF SortedBefore
<1>5. ~ (program[r].threshold < program[k].threshold)
  BY <1>4 DEF ThresholdsRise
<1>6. QED
  BY <1>1, <1>4, <1>5

\* The default tier is one of those with the lowest threshold.
LEMMA DefaultTierIsLowest ==
  ASSUME NEW c, programs[c] \in Seq(Tier), programs[c] # <<>>
  PROVE  \E k \in DOMAIN programs[c] :
           /\ ResolveDefaultTier(c) = programs[c][k]
           /\ \A j \in DOMAIN programs[c] : ~ (programs[c][j].threshold < programs[c][k].threshold)
<1> DEFINE program == programs[c]
<1> DEFINE IsLowest(k) == \A j \in DOMAIN program :
             \/ program[k].threshold < program[j].threshold
             \/ /\ program[k].threshold = program[j].threshold
                /\ k <= j
<1> DEFINE lowest == CHOOSE k \in DOMAIN program : IsLowest(k)
<1>1. \E k \in DOMAIN program : IsLowest(k)
  BY DefaultTierExists
<1>2. lowest \in DOMAIN program /\ IsLowest(lowest)
  <2> HIDE DEF IsLowest
  <2>1. QED
    BY <1>1
<1>3. ResolveDefaultTier(c) = program[lowest]
  BY DEF ResolveDefaultTier
<1>4. ASSUME NEW j \in DOMAIN program PROVE ~ (program[j].threshold < program[lowest].threshold)
  <2> HIDE DEF lowest
  <2>1. program[j].threshold \in Nat /\ program[lowest].threshold \in Nat
    BY <1>2, TierTypes
  <2>2. program[lowest].threshold < program[j].threshold
        \/ program[lowest].threshold = program[j].threshold
    BY <1>2
  <2>3. QED
    BY <2>1, <2>2
<1>5. QED
  BY <1>2, <1>3, <1>4

\* The sales confirmed in a campaign, as a panel would add them up.
LEMMA ConfirmedSalesAddUp ==
  ASSUME TypeInv, NEW c, NEW i
  PROVE  SumBy(ConfirmedIn(c, i), LAMBDA o : Larger(EligibleAmount(o), 0)) = AllConfirmedSales(c, i)
<1> DEFINE rows == ConfirmedIn(c, i)
<1> DEFINE f == [o \in rows |-> Larger(EligibleAmount(o), 0)]
<1>1. OrderCount \in Nat /\ OrderIds = 1..OrderCount /\ rows \subseteq 1..OrderCount
  BY TablesAreFinite DEF OrderIds, ConfirmedIn, InState, CommissionsOf, ListCommissions
<1>2. \A o \in OrderIds :
        o \in rows <=> /\ commissions[o].state = "CONFIRMED"
                       /\ OwnerOf(o) = i
                       /\ CampaignOf[orders[o].code] = c
  BY DEF ConfirmedIn, InState, CommissionsOf, ListCommissions
<1>3. SumBy(rows, LAMBDA o : Larger(EligibleAmount(o), 0)) = SumFunctionOnSet(f, rows)
  BY DEF SumBy, SumFunction
<1>4. \A o \in rows : f[o] = Larger(commissions[o].eligible, 0) /\ f[o] \in Int
  BY <1>1 DEF EligibleAmount, Larger, TypeInv, TypeOK, Commission
<1> HIDE DEF rows, f
<1>5. SumFunctionOnSet(f, rows)
        = Total([o \in 1..OrderCount |-> IF o \in rows THEN f[o] ELSE 0], OrderCount)
  BY <1>1, <1>4, SumOfRows
<1>6. [o \in 1..OrderCount |-> IF o \in rows THEN f[o] ELSE 0]
        = [o \in OrderIds |->
             IF /\ commissions[o].state = "CONFIRMED"
                /\ OwnerOf(o) = i
                /\ CampaignOf[orders[o].code] = c
             THEN Larger(commissions[o].eligible, 0) ELSE 0]
  BY <1>1, <1>2, <1>4
<1>7. QED
  BY <1>3, <1>5, <1>6 DEF AllConfirmedSales, rows

LEMMA StepsPassNextTier ==
  ASSUME TypeInv, TierInv, [Next]_vars, NEW c \in Campaigns, NEW i \in Influencers,
         ThresholdsRise(programs[c]), tiers[<<c, i>>].enrolled,
         tiers'[<<c, i>>].level > tiers[<<c, i>>].level,
         IsListed(c, TierProgress(c, i).currentTier, tiers[<<c, i>>].level)
  PROVE  /\ TierProgress(c, i).nextTier # {}
         /\ \A t \in TierProgress(c, i).nextTier :
              t.level <= tiers'[<<c, i>>].level /\ t.threshold <= AllConfirmedSales(c, i)
<1> DEFINE program == programs[c]
<1> DEFINE name == TierProgress(c, i).currentTier
<1> DEFINE current == tiers[<<c, i>>].level
<1> DEFINE reached == tiers'[<<c, i>>].level
<1> DEFINE sales == AllConfirmedSales(c, i)
<1> DEFINE next == {k \in DOMAIN program :
                      \E j \in DOMAIN program :
                        IsFirstNamed(program, name, j) /\ IsNextTier(program, j, k)}
<1>1. <<c, i>> \in DOMAIN tiers
  BY DEF TypeInv, TypeOK
<1>2. TierProgress(c, i).nextTier =
        {[name |-> program[k].name, level |-> program[k].level,
          threshold |-> program[k].threshold] : k \in next}
  BY DEF TierProgress
<1> HIDE DEF name
<1>3. program \in Seq(Tier)
  BY LedgerConstants DEF LedgerConstants, TypeInv, TypeOK
<1>4. \A k \in DOMAIN program : program[k].level \in Nat /\ program[k].threshold \in Nat
  BY <1>3, TierTypes
<1>5. PICK at \in DOMAIN program : program[at].name = name /\ program[at].level = current
  BY DEF IsListed, name
<1>6. current \in Nat /\ reached > current
  BY <1>4, <1>5
<1>7. \E r \in DOMAIN program : program[r].level = reached /\ program[r].threshold <= sales
  <2>1. CASE reached = ResolveDefaultTier(c).level
    <3>1. program # <<>>
      BY <1>3, <1>5, EmptySeq
    <3>2. PICK k \in DOMAIN program :
             /\ ResolveDefaultTier(c) = program[k]
             /\ \A j \in DOMAIN program : ~ (program[j].threshold < program[k].threshold)
      BY <1>3, <3>1, DefaultTierIsLowest
    <3>3. program[at].level < program[k].level
      BY <1>4, <1>5, <1>6, <2>1, <3>2
    <3>4. program[at].threshold < program[k].threshold
      BY <3>3 DEF ThresholdsRise
    <3>5. QED
      BY <3>2, <3>4
  <2>2. CASE reached # ResolveDefaultTier(c).level
    <3>1. reached # current
      BY <1>6
    <3>2. QED
      BY <2>2, <3>1, StepsEarnTiers
  <2>3. QED
    BY <2>1, <2>2
<1>8. PICK r \in DOMAIN program : program[r].level = reached /\ program[r].threshold <= sales
  BY <1>7
<1>9. next # {}
  <2>1. PICK j \in DOMAIN program : IsFirstNamed(program, name, j)
    BY <1>3, <1>5, FirstNamedExists
  <2>2. program[j].level <= current
    BY <1>3, <1>5, <2>1, FirstNamedIsLowest
  <2>3. SortedBefore(program, j, r)
    BY <1>4, <1>6, <1>8, <2>2 DEF SortedBefore
  <2>4. \E k \in DOMAIN program : IsNextTier(program, j, k)
    BY <1>3, <2>3, NextTierExists
  <2>5. QED
    BY <2>1, <2>4
<1>10. ASSUME NEW k \in next
       PROVE  program[k].level <= reached /\ program[k].threshold <= sales
  <2>1. PICK j \in DOMAIN program : IsFirstNamed(program, name, j) /\ IsNextTier(program, j, k)
    OBVIOUS
  <2>2. program[j].level < program[r].level
    <3>1. program[j].level <= current
      BY <1>3, <1>5, <2>1, FirstNamedIsLowest
    <3>2. QED
      BY <1>4, <1>6, <1>8, <3>1
  <2>3. program[k].level <= program[r].level /\ program[k].threshold <= program[r].threshold
    BY <1>3, <2>1, <2>2, NextTierIsOnTheWay
  <2>4. sales \in Int
    BY WindowsHoldConfirmedSales DEF TypeInv
  <2>5. QED
    BY <1>4, <1>8, <2>3, <2>4
<1> DEFINE announced(k) == [name |-> program[k].name, level |-> program[k].level,
                            threshold |-> program[k].threshold]
<1>11. TierProgress(c, i).nextTier = {announced(k) : k \in next}
  BY <1>2
<1> HIDE DEF next, reached, sales, program, announced
<1>12. TierProgress(c, i).nextTier # {}
  <2>1. PICK k \in next : TRUE
    BY <1>9
  <2>2. announced(k) \in TierProgress(c, i).nextTier
    BY <1>11
  <2>3. QED
    BY <2>2
<1>13. ASSUME NEW t \in TierProgress(c, i).nextTier
       PROVE  t.level <= reached /\ t.threshold <= sales
  <2>1. PICK k \in next : t = announced(k)
    BY <1>11
  <2>2. t.level = program[k].level /\ t.threshold = program[k].threshold
    BY <2>1 DEF announced
  <2>3. QED
    BY <1>10, <2>2
<1>14. QED
  BY <1>12, <1>13 DEF reached, sales

\* Whoever moves up a tier does so past the tier the panel announced, for every
\* program whose thresholds rise with its levels that lists the tier under its name and
\* level (resolveTierProgress, evaluateTiers).
THEOREM ProgressCorrectness == Spec => ProgressLeadsAhead
<1> DEFINE Step ==
      \A c \in Campaigns, i \in Influencers :
        LET progress == TierProgress(c, i)
            current  == tiers[<<c, i>>].level
            reached  == tiers'[<<c, i>>].level
            sales    == SumBy(ConfirmedIn(c, i), LAMBDA o : Larger(EligibleAmount(o), 0))
        IN  /\ ThresholdsRise(programs[c])
            /\ tiers[<<c, i>>].enrolled
            /\ reached > current
            /\ IsListed(c, progress.currentTier, current)
            => /\ progress.nextTier # {}
               /\ \A t \in progress.nextTier : t.level <= reached /\ t.threshold <= sales
<1>1. TypeInv /\ TierInv /\ [Next]_vars => [Step]_vars
  BY StepsPassNextTier, ConfirmedSalesAddUp
<1>2. QED
  BY <1>1, TypeInvariance, TierInvariance, PTL DEF Spec, ProgressLeadsAhead

=============================================================================
