---------------------------- MODULE LedgerProofs ----------------------------
(***************************************************************************)
(* Theorems about Ledger, for every value of its constants: every number   *)
(* of influencers, campaigns, codes, orders, requests, payments and        *)
(* adjustments, every tier program and every amount.                       *)
(***************************************************************************)
EXTENDS Ledger, SumProofs, SequenceTheorems

----------------------------------------------------------------------------
(* Balances. *)

\* The balances whose available amount is up to date.
DerivedBalance ==
  {b \in Balance : b.available = b.confirmed - b.withdrawn - b.pending}

LEMMA RecalculateType ==
  ASSUME NEW b \in Balance
  PROVE  Recalculate(b) \in DerivedBalance
BY DEF Recalculate, Balance, DerivedBalance

LEMMA ApplyBalanceDeltaType ==
  ASSUME NEW b \in Balance, NEW state, NEW delta \in Int
  PROVE  ApplyBalanceDelta(b, state, delta) \in Balance
<1> DEFINE part(s) == IF state = s THEN delta ELSE 0
<1>1. /\ b.estimated + part("ESTIMATED") \in Int
      /\ b.confirmed + part("CONFIRMED") \in Int
      /\ b.reverted + part("REVERTED") \in Int
  BY DEF Balance
<1>2. ApplyBalanceDelta(b, state, delta) =
        [b EXCEPT !.estimated = b.estimated + part("ESTIMATED"),
                  !.confirmed = b.confirmed + part("CONFIRMED"),
                  !.reverted  = b.reverted + part("REVERTED")]
  BY DEF ApplyBalanceDelta
<1> HIDE DEF part
<1>3. QED
  BY <1>1, <1>2 DEF Balance

LEMMA SyncInfluencerBalanceType ==
  ASSUME NEW b \in Balance, NEW previous \in Commission, NEW current \in Commission
  PROVE  SyncInfluencerBalance(b, previous, current) \in DerivedBalance
<1>1. previous.amount \in Int /\ current.amount \in Int
  BY DEF Commission
<1>2. -previous.amount \in Int
  BY <1>1
<1>3. QED
  BY <1>1, <1>2, ApplyBalanceDeltaType, RecalculateType DEF SyncInfluencerBalance

----------------------------------------------------------------------------
(* Tiers. *)

\* Some tier of a program has the lowest threshold, and of those one is first.
LEMMA DefaultTierExists ==
  ASSUME NEW program \in Seq(Tier), program # <<>>
  PROVE  \E k \in DOMAIN program : \A j \in DOMAIN program :
           \/ program[k].threshold < program[j].threshold
           \/ /\ program[k].threshold = program[j].threshold
              /\ k <= j
<1>1. DOMAIN program = 1..Len(program) /\ Len(program) \in Nat /\ 1 \in DOMAIN program
  BY EmptySeq, LenProperties
<1>2. \A k \in DOMAIN program : program[k] \in Tier
  BY <1>1, ElementOfSeq
<1>3. \A k \in DOMAIN program : program[k].threshold \in Nat
  BY <1>2 DEF Tier
<1> DEFINE Thresholds == {program[k].threshold : k \in DOMAIN program}
<1>4. Thresholds \in SUBSET Nat /\ Thresholds # {}
  BY <1>1, <1>3
<1>5. PICK m \in Thresholds : \A x \in Thresholds : m <= x
  BY <1>4, Least
<1> DEFINE Lowest == {k \in DOMAIN program : program[k].threshold = m}
<1>6. Lowest \in SUBSET Nat /\ Lowest # {}
  BY <1>1, <1>5
<1>7. PICK k \in Lowest : \A j \in Lowest : k <= j
  BY <1>6, Least
<1>8. ASSUME NEW j \in DOMAIN program
      PROVE  \/ program[k].threshold < program[j].threshold
             \/ program[k].threshold = program[j].threshold /\ k <= j
  <2>1. program[j].threshold \in Thresholds /\ m <= program[j].threshold
    BY <1>5
  <2>2. CASE program[j].threshold = m
    BY <1>7, <2>2
  <2>3. CASE program[j].threshold # m
    BY <1>3, <1>7, <2>1, <2>3
  <2>4. QED
    BY <2>2, <2>3
<1>9. QED
  BY <1>7, <1>8

LEMMA ResolveDefaultTierType ==
  ASSUME programs \in [Campaigns -> TierPrograms], NEW c \in Campaigns
  PROVE  ResolveDefaultTier(c) \in Tier
<1>1. programs[c] \in Seq(Tier) /\ CommissionBase[c] \in Nat /\ Base \in TierNames
  BY LedgerConstants DEF LedgerConstants
<1>2. CASE programs[c] = <<>>
  BY <1>1, <1>2 DEF ResolveDefaultTier, Tier
<1>3. CASE programs[c] # <<>>
  <2> DEFINE IsLowest(k) == \A j \in DOMAIN programs[c] :
               \/ programs[c][k].threshold < programs[c][j].threshold
               \/ /\ programs[c][k].threshold = programs[c][j].threshold
                  /\ k <= j
  <2> DEFINE lowest == CHOOSE k \in DOMAIN programs[c] : IsLowest(k)
  <2>1. \E k \in DOMAIN programs[c] : IsLowest(k)
    BY <1>1, <1>3, DefaultTierExists
  <2>2. lowest \in DOMAIN programs[c]
    <3> HIDE DEF IsLowest
    <3>1. QED
      BY <2>1
  <2>3. ResolveDefaultTier(c) = programs[c][lowest]
    BY <1>3 DEF ResolveDefaultTier
  <2> HIDE DEF lowest
  <2>4. QED
    BY <1>1, <2>2, <2>3, ElementOfSeq, LenProperties
<1>4. QED
  BY <1>2, <1>3

\* The tiers whose threshold the sales reach, and the one of them that is chosen.
Reached(program, sales) == {k \in DOMAIN program : program[k].threshold <= sales}

IsHighest(program, sales, k) ==
  \A j \in Reached(program, sales) :
    \/ program[k].threshold > program[j].threshold
    \/ /\ program[k].threshold = program[j].threshold
       /\ k >= j

\* One has the highest threshold, and of those that have it one is last.
LEMMA TierForSalesExists ==
  ASSUME NEW program \in Seq(Tier), NEW sales \in Int, Reached(program, sales) # {}
  PROVE  \E k \in Reached(program, sales) : IsHighest(program, sales, k)
<1> DEFINE reached == Reached(program, sales)
<1>1. DOMAIN program = 1..Len(program) /\ Len(program) \in Nat
  BY LenProperties
<1>2. \A k \in DOMAIN program : program[k].threshold \in Nat
  <2>1. \A k \in DOMAIN program : program[k] \in Tier
    BY <1>1, ElementOfSeq
  <2>2. QED
    BY <2>1 DEF Tier
<1>3. \A k \in reached : /\ k \in 1..Len(program)
                         /\ program[k].threshold \in Nat
                         /\ program[k].threshold <= sales
  BY <1>1, <1>2 DEF Reached
<1> HIDE DEF reached
<1> DEFINE Gaps == {sales - program[k].threshold : k \in reached}
<1>4. Gaps \in SUBSET Nat /\ Gaps # {}
  BY <1>3 DEF reached
<1>5. PICK m \in Gaps : \A x \in Gaps : m <= x
  <2> HIDE DEF Gaps
  <2>1. QED
    BY <1>4, Least
<1> DEFINE Ends == {Len(program) - k : k \in {j \in reached : sales - program[j].threshold = m}}
<1>6. Ends \in SUBSET Nat /\ Ends # {}
  BY <1>1, <1>3, <1>5
<1>7. PICK e \in Ends : \A x \in Ends : e <= x
  <2> HIDE DEF Ends
  <2>1. QED
    BY <1>6, Least
<1>8. PICK k \in reached : sales - program[k].threshold = m /\ e = Len(program) - k
  BY <1>7
<1>9. ASSUME NEW j \in reached
      PROVE  \/ program[k].threshold > program[j].threshold
             \/ program[k].threshold = program[j].threshold /\ k >= j
  <2>1. /\ m <= sales - program[j].threshold
        /\ m = sales - program[k].threshold
    BY <1>5, <1>8
  <2>2. /\ program[j].threshold \in Nat /\ program[k].threshold \in Nat
        /\ j \in Nat /\ k \in Nat
    BY <1>1, <1>3
  <2>3. CASE sales - program[j].threshold = m
    <3>1. Len(program) - k <= Len(program) - j
      BY <1>7, <1>8, <2>3
    <3> HIDE DEF Gaps, Ends
    <3>2. k >= j
      BY <1>1, <2>2, <3>1
    <3>3. QED
      BY <2>1, <2>2, <2>3, <3>2
  <2>4. CASE sales - program[j].threshold # m
    <3> HIDE DEF Gaps, Ends
    <3>1. QED
      BY <2>1, <2>2, <2>4
  <2>5. QED
    BY <2>3, <2>4
<1>10. QED
  BY <1>8, <1>9 DEF reached, IsHighest

\* The tier for some sales is one whose threshold they reach, or the default one.
LEMMA TierForSalesIsReached ==
  ASSUME programs \in [Campaigns -> TierPrograms], NEW c \in Campaigns, NEW sales \in Int
  PROVE  \/ ResolveTierForSales(c, sales) = ResolveDefaultTier(c)
         \/ \E k \in DOMAIN programs[c] :
              /\ ResolveTierForSales(c, sales) = programs[c][k]
              /\ programs[c][k].threshold <= sales
<1>1. programs[c] \in Seq(Tier)
  BY LedgerConstants DEF LedgerConstants
<1> DEFINE highest == CHOOSE k \in Reached(programs[c], sales) : IsHighest(programs[c], sales, k)
<1>2. CASE Reached(programs[c], sales) = {}
  BY <1>2 DEF ResolveTierForSales, Reached
<1>3. CASE Reached(programs[c], sales) # {}
  <2>1. \E k \in Reached(programs[c], sales) : IsHighest(programs[c], sales, k)
    BY <1>1, <1>3, TierForSalesExists
  <2>2. highest \in Reached(programs[c], sales)
    BY <2>1
  <2>3. ResolveTierForSales(c, sales) = programs[c][highest]
    BY <1>3 DEF ResolveTierForSales, Reached, IsHighest
  <2> HIDE DEF highest
  <2>4. QED
    BY <2>2, <2>3 DEF Reached
<1>4. QED
  BY <1>2, <1>3

LEMMA ResolveTierForSalesType ==
  ASSUME programs \in [Campaigns -> TierPrograms], NEW c \in Campaigns, NEW sales \in Int
  PROVE  ResolveTierForSales(c, sales) \in Tier
<1>1. programs[c] \in Seq(Tier)
  BY LedgerConstants DEF LedgerConstants
<1>2. \A k \in DOMAIN programs[c] : programs[c][k] \in Tier
  BY <1>1, ElementOfSeq, LenProperties
<1>3. QED
  BY <1>2, TierForSalesIsReached, ResolveDefaultTierType

LEMMA ConfirmedSalesType ==
  ASSUME commissions \in [OrderIds -> Commission], NEW c, NEW i, NEW start, NEW end
  PROVE  ConfirmedSales(c, i, start, end) \in Int
<1> DEFINE f == [o \in OrderIds |->
           IF /\ commissions[o].state = "CONFIRMED"
              /\ CampaignOf[orders[o].code] = c
              /\ OwnerOf(o) = i
              /\ start <= commissions[o].confirmedAt
              /\ commissions[o].confirmedAt <= end
           THEN commissions[o].eligible
           ELSE 0]
<1>1. f \in [1..OrderCount -> Int]
  BY DEF OrderIds, Commission
<1>2. OrderCount \in Nat
  BY LedgerConstants DEF LedgerConstants
<1>3. ConfirmedSales(c, i, start, end) = Total(f, OrderCount)
  BY DEF ConfirmedSales
<1> HIDE DEF f
<1>4. QED
  BY <1>1, <1>2, <1>3, TotalType

LEMMA EnsureTierAssignmentType ==
  ASSUME programs \in [Campaigns -> TierPrograms], now \in Time,
         tiers \in [Campaigns \X Influencers -> TierAssignment],
         NEW c \in Campaigns, NEW i \in Influencers
  PROVE  EnsureTierAssignment(c, i) \in TierAssignment
<1>1. CASE tiers[<<c, i>>].enrolled
  BY <1>1 DEF EnsureTierAssignment
<1>2. CASE ~ tiers[<<c, i>>].enrolled
  <2> DEFINE default == ResolveDefaultTier(c)
  <2> DEFINE period == [name |-> default.name, level |-> default.level,
                        percent |-> default.percent, from |-> now, to |-> Open]
  <2>1. default \in Tier
    BY ResolveDefaultTierType
  <2>2. period \in TierPeriod
    BY <2>1 DEF Tier, TierPeriod
  <2>3. EnsureTierAssignment(c, i) =
          [enrolled |-> TRUE, level |-> default.level, percent |-> default.percent,
           windowStart |-> now, history |-> <<period>>]
    BY <1>2 DEF EnsureTierAssignment
  <2> HIDE DEF period, default
  <2>4. <<period>> \in Seq(TierPeriod)
    BY <2>2
  <2>5. QED
    BY <2>1, <2>3, <2>4 DEF Tier, TierAssignment
<1>3. QED
  BY <1>1, <1>2

LEMMA ClosePeriodType ==
  ASSUME NEW history \in Seq(TierPeriod), NEW date \in Time
  PROVE  ClosePeriod(history, date) \in Seq(TierPeriod)
<1>1. CASE history = <<>>
  BY <1>1 DEF ClosePeriod
<1>2. CASE history # <<>>
  <2>1. Len(history) \in 1..Len(history)
    BY <1>2, LenProperties, EmptySeq
  <2>2. [history[Len(history)] EXCEPT !.to = date] \in TierPeriod
    <3>1. history[Len(history)] \in TierPeriod
      BY <2>1, ElementOfSeq
    <3>2. QED
      BY <3>1 DEF TierPeriod
  <2>3. ClosePeriod(history, date) =
          [history EXCEPT ![Len(history)] = [history[Len(history)] EXCEPT !.to = date]]
    BY <1>2 DEF ClosePeriod
  <2>4. QED
    BY <2>1, <2>2, <2>3, ExceptSeq
<1>3. QED
  BY <1>1, <1>2

LEMMA EvaluatedTierType ==
  ASSUME programs \in [Campaigns -> TierPrograms],
         commissions \in [OrderIds -> Commission],
         tiers \in [Campaigns \X Influencers -> TierAssignment],
         NEW c \in Campaigns, NEW i \in Influencers, NEW date \in Time
  PROVE  EvaluatedTier(c, i, date) \in TierAssignment
<1> DEFINE row  == tiers[<<c, i>>]
<1> DEFINE next == ResolveTierForSales(c, ConfirmedSales(c, i, row.windowStart, date))
<1> DEFINE period == [name |-> next.name, level |-> next.level, percent |-> next.percent,
                      from |-> date, to |-> Open]
<1>1. row \in TierAssignment
  OBVIOUS
<1>2. next \in Tier
  BY ConfirmedSalesType, ResolveTierForSalesType
<1>3. period \in TierPeriod
  BY <1>2 DEF Tier, TierPeriod
<1>4. ClosePeriod(row.history, date) \in Seq(TierPeriod)
  BY <1>1, ClosePeriodType DEF TierAssignment
<1> DEFINE history == Append(ClosePeriod(row.history, date), period)
<1>5. history \in Seq(TierPeriod)
  <2> HIDE DEF period
  <2>1. QED
    BY <1>3, <1>4, AppendProperties
<1>6. EvaluatedTier(c, i, date) =
        IF date < row.windowStart \/ next.level = row.level
        THEN [row EXCEPT !.windowStart = date]
        ELSE [row EXCEPT !.level = next.level, !.percent = next.percent,
                         !.windowStart = date, !.history = history]
  BY DEF EvaluatedTier
<1> HIDE DEF row, next, history
<1>7. QED
  BY <1>1, <1>2, <1>5, <1>6 DEF Tier, TierAssignment

----------------------------------------------------------------------------
(* Type correctness: each operation keeps every table well formed. *)

LEMMA InitTypeOK == Init => TypeOK
<1>1. SUFFICES ASSUME Init PROVE TypeOK
  OBVIOUS
<1>2. now \in Time /\ 0 \in Time
  BY <1>1, LedgerConstants DEF Init, Time, LedgerConstants
<1>3. <<>> \in Seq(TierPeriod)
  OBVIOUS
<1>4. tiers \in [Campaigns \X Influencers -> TierAssignment]
  BY <1>1, <1>2, <1>3 DEF Init, TierAssignment
<1>5. /\ influencerStatus \in [Influencers -> InfluencerStatuses \cup {"pending"}]
      /\ assigned \subseteq Campaigns \X Influencers
      /\ programs \in [Campaigns -> TierPrograms]
  BY <1>1, LedgerConstants DEF Init, LedgerConstants
<1>6. /\ orders \in [OrderIds -> Order]
      /\ commissions \in [OrderIds -> Commission]
  BY <1>1, <1>2 DEF Init, Order, Commission
<1>7. balances \in [Influencers -> Balance]
  BY <1>1 DEF Init, EmptyBalance, Balance
<1>8. withdrawals \in [WithdrawalIds -> Withdrawal]
  BY <1>1 DEF Init, Withdrawal
<1>9. payments \in [PaymentIds -> Payment]
  BY <1>1, LedgerConstants DEF Init, Payment, LedgerConstants
<1>10. /\ adjustments \in [AdjustmentIds -> Adjustment]
       /\ adjustmentByOrder \in [OrderIds -> 0..AdjustmentCount]
  BY <1>1, LedgerConstants DEF Init, Adjustment, LedgerConstants
<1>11. QED
  BY <1>2, <1>4, <1>5, <1>6, <1>7, <1>8, <1>9, <1>10 DEF TypeOK

LEMMA PartnerStepTypeOK ==
  ASSUME TypeOK, PartnerStep
  PROVE  TypeOK'
<1>1. ASSUME NEW i \in Influencers, NEW status \in InfluencerStatuses,
             UpdateInfluencerStatus(i, status)
      PROVE  TypeOK'
  BY <1>1 DEF TypeOK, UpdateInfluencerStatus, tierVars, orderVars, withdrawalVars
<1>2. ASSUME NEW c \in Campaigns, NEW i \in Influencers, AssignInfluencerToCampaign(c, i)
      PROVE  TypeOK'
  <2>1. EnsureTierAssignment(c, i) \in TierAssignment
    BY EnsureTierAssignmentType DEF TypeOK
  <2>2. tiers' \in [Campaigns \X Influencers -> TierAssignment]
    BY <1>2, <2>1 DEF TypeOK, AssignInfluencerToCampaign
  <2>3. QED
    BY <1>2, <2>2 DEF TypeOK, AssignInfluencerToCampaign, orderVars, withdrawalVars
<1>3. QED
  BY <1>1, <1>2 DEF PartnerStep

LEMMA TierStepTypeOK ==
  ASSUME TypeOK, TierStep
  PROVE  TypeOK'
<1>1. ASSUME NEW c \in Campaigns, NEW program \in TierPrograms,
             UpdateCampaignTiers(c, program)
      PROVE  TypeOK'
  BY <1>1 DEF TypeOK, UpdateCampaignTiers, partnerVars, orderVars, withdrawalVars
<1>2. ASSUME NEW date \in Time, EvaluateTiers(date)
      PROVE  TypeOK'
  <2>1. ASSUME NEW pair \in Campaigns \X Influencers
        PROVE  EvaluatedTier(pair[1], pair[2], date) \in TierAssignment
    BY EvaluatedTierType DEF TypeOK
  <2>2. DOMAIN tiers = Campaigns \X Influencers
    BY DEF TypeOK
  <2>3. tiers' = [pair \in Campaigns \X Influencers |->
                    IF tiers[pair].enrolled
                    THEN EvaluatedTier(pair[1], pair[2], date)
                    ELSE tiers[pair]]
    BY <1>2, <2>2 DEF EvaluateTiers
  <2>4. tiers' \in [Campaigns \X Influencers -> TierAssignment]
    BY <2>1, <2>3 DEF TypeOK
  <2>5. QED
    BY <1>2, <2>4 DEF TypeOK, EvaluateTiers, partnerVars, orderVars, withdrawalVars
<1>3. QED
  BY <1>1, <1>2 DEF TierStep

LEMMA RoundedShareType ==
  ASSUME NEW amount \in Int, NEW percent \in Nat
  PROVE  RoundedShare(amount, percent) \in Int
<1>1. amount * percent + 50 \in Int
  OBVIOUS
<1>2. ASSUME NEW n \in Int PROVE n \div 100 \in Int
  OBVIOUS
<1>3. QED
  BY <1>1, <1>2 DEF RoundedShare

\* What an event on an order does to its row, once it is attributed.
LEMMA OrderEventRows ==
  ASSUME TypeOK, NEW o \in OrderIds, NEW coupon \in Codes \cup {None},
         NEW status \in OrderStatuses, NEW event \in EventTypes,
         NEW eligible \in EligibleAmounts,
         UpdatedOrder(o, coupon, status).code # None
  PROVE  LET owner      == InfluencerOf[UpdatedOrder(o, coupon, status).code]
             campaign   == PricingCampaign(o, coupon)
             assignment == EnsureTierAssignment(campaign, owner)
         IN  /\ owner \in Influencers
             /\ campaign \in Campaigns
             /\ assignment \in TierAssignment
             /\ UpdatedCommission(o, event, eligible, assignment.percent) \in Commission
<1> DEFINE order == UpdatedOrder(o, coupon, status)
<1> DEFINE owner == InfluencerOf[order.code]
<1> DEFINE campaign == PricingCampaign(o, coupon)
<1> DEFINE assignment == EnsureTierAssignment(campaign, owner)
<1>1. orders[o] \in Order
  BY DEF TypeOK
<1>2. order.code \in Codes
  BY <1>1 DEF UpdatedOrder, Order
<1>3. owner \in Influencers
  BY <1>2, LedgerConstants DEF LedgerConstants
<1>4. coupon # None \/ orders[o].code # None
  BY <1>1 DEF UpdatedOrder, Order
<1>5. campaign \in Campaigns
  BY <1>1, <1>4, LedgerConstants DEF LedgerConstants, PricingCampaign, Order
<1> HIDE DEF owner, campaign, order
<1>6. assignment \in TierAssignment
  BY <1>3, <1>5, EnsureTierAssignmentType DEF TypeOK
<1> HIDE DEF assignment
<1>7. assignment.percent \in Nat
  BY <1>6 DEF TierAssignment
<1>8. eligible \in Int /\ RoundedShare(eligible, assignment.percent) \in Int
  BY <1>7, RoundedShareType, CommissionConstants DEF CommissionConstants
<1>9. ResolveCommissionState(event) \in CommissionStates
  BY DEF ResolveCommissionState, EventTypes, CommissionStates
<1>10. commissions[o] \in Commission /\ now \in Time
  BY DEF TypeOK
<1>11. UpdatedCommission(o, event, eligible, assignment.percent) \in Commission
  BY <1>8, <1>9, <1>10 DEF UpdatedCommission, Commission
<1>12. QED
  BY <1>3, <1>5, <1>6, <1>11 DEF owner, campaign, order, assignment

LEMMA OrderStepTypeOK ==
  ASSUME TypeOK, OrderStep
  PROVE  TypeOK'
<1>1. PICK o \in OrderIds, coupon \in Codes \cup {None}, status \in OrderStatuses,
           event \in EventTypes, eligible \in EligibleAmounts :
             RegisterOrderEvent(o, coupon, status, event, eligible)
  BY DEF OrderStep
<1> DEFINE order == UpdatedOrder(o, coupon, status)
<1> DEFINE owner == InfluencerOf[order.code]
<1> DEFINE campaign == PricingCampaign(o, coupon)
<1> DEFINE assignment == EnsureTierAssignment(campaign, owner)
<1> DEFINE commission == UpdatedCommission(o, event, eligible, assignment.percent)
<1>2. order \in Order
  BY DEF TypeOK, UpdatedOrder, Order
<1>3. /\ orders' = [orders EXCEPT ![o] = order]
      /\ UNCHANGED <<now, partnerVars, programs, withdrawalVars>>
  BY <1>1 DEF RegisterOrderEvent
<1>4. orders' \in [OrderIds -> Order]
  BY <1>2, <1>3 DEF TypeOK
<1>5. CASE order.code = None
  <2>1. UNCHANGED <<commissions, tiers, balances>>
    BY <1>1, <1>5 DEF RegisterOrderEvent
  <2>2. QED
    BY <1>3, <1>4, <2>1 DEF TypeOK, partnerVars, withdrawalVars
<1>6. CASE order.code # None
  <2>1. /\ commissions' = [commissions EXCEPT ![o] = commission]
        /\ tiers' = [tiers EXCEPT ![<<campaign, owner>>] = assignment]
        /\ balances' = [balances EXCEPT ![owner] =
                          SyncInfluencerBalance(balances[owner], commissions[o], commission)]
    BY <1>1, <1>6 DEF RegisterOrderEvent
  <2>2. /\ owner \in Influencers
        /\ assignment \in TierAssignment
        /\ commission \in Commission
    BY <1>6, OrderEventRows
  <2> HIDE DEF order, owner, campaign, assignment, commission
  <2>3. SyncInfluencerBalance(balances[owner], commissions[o], commission) \in Balance
    BY <2>2, SyncInfluencerBalanceType DEF TypeOK, DerivedBalance
  <2>4. /\ commissions' \in [OrderIds -> Commission]
        /\ tiers' \in [Campaigns \X Influencers -> TierAssignment]
        /\ balances' \in [Influencers -> Balance]
    BY <2>1, <2>2, <2>3 DEF TypeOK
  <2>5. QED
    BY <1>3, <1>4, <2>4 DEF TypeOK, partnerVars, withdrawalVars
<1>7. QED
  BY <1>5, <1>6

LEMMA SettledBalanceType ==
  ASSUME commissions \in [OrderIds -> Commission], balances \in [Influencers -> Balance],
         NEW i \in Influencers, NEW threshold
  PROVE  SettledBalance(i, threshold) \in DerivedBalance
<1> DEFINE f == [o \in OrderIds |->
           IF IsConfirmation(o, threshold) /\ OwnerOf(o) = i
           THEN commissions[o].amount ELSE 0]
<1> DEFINE g == [o \in OrderIds |->
           IF IsReversal(o) /\ OwnerOf(o) = i
           THEN commissions[o].amount ELSE 0]
<1>1. f \in [1..OrderCount -> Int] /\ g \in [1..OrderCount -> Int]
  BY DEF OrderIds, Commission
<1>2. ConfirmedTotal(i, threshold) = Total(f, OrderCount) /\ RevertedTotal(i) = Total(g, OrderCount)
  BY DEF ConfirmedTotal, RevertedTotal
<1> HIDE DEF f, g
<1>3. ConfirmedTotal(i, threshold) \in Int /\ RevertedTotal(i) \in Int
  <2>1. OrderCount \in Nat
    BY LedgerConstants DEF LedgerConstants
  <2>2. QED
    BY <1>1, <1>2, <2>1, TotalType
<1> DEFINE b == [balances[i] EXCEPT
    !.estimated = @ - ConfirmedTotal(i, threshold),
    !.confirmed = @ + ConfirmedTotal(i, threshold) - RevertedTotal(i),
    !.reverted  = @ + RevertedTotal(i)]
<1>4. b \in Balance
  <2>1. balances[i] \in Balance
    OBVIOUS
  <2>2. /\ balances[i].estimated - ConfirmedTotal(i, threshold) \in Int
        /\ balances[i].confirmed + ConfirmedTotal(i, threshold) - RevertedTotal(i) \in Int
        /\ balances[i].reverted + RevertedTotal(i) \in Int
    BY <1>3, <2>1 DEF Balance
  <2>3. ASSUME NEW x \in Int, NEW y \in Int, NEW z \in Int
        PROVE  [balances[i] EXCEPT !.estimated = x, !.confirmed = y, !.reverted = z] \in Balance
    BY <2>1 DEF Balance
  <2>4. QED
    BY <2>2, <2>3
<1>5. SettledBalance(i, threshold) = Recalculate(b)
  BY DEF SettledBalance
<1> HIDE DEF b
<1>6. QED
  BY <1>4, <1>5, RecalculateType

LEMMA SettlementStepTypeOK ==
  ASSUME TypeOK, SettlementStep
  PROVE  TypeOK'
<1>1. PICK date \in Time, waiting \in WaitingPeriods : RunSettlement(date, waiting)
  BY DEF SettlementStep
<1> DEFINE threshold == date - waiting
<1>2. ASSUME NEW o \in OrderIds PROVE SettledCommission(o, date, threshold) \in Commission
  BY DEF TypeOK, SettledCommission, Commission, CommissionStates
<1>3. ASSUME NEW i \in Influencers PROVE SettledBalance(i, threshold) \in Balance
  BY SettledBalanceType DEF TypeOK, DerivedBalance
<1>4. /\ commissions' = [o \in OrderIds |-> SettledCommission(o, date, threshold)]
      /\ balances' = [i \in Influencers |-> SettledBalance(i, threshold)]
      /\ UNCHANGED <<now, partnerVars, tierVars, orders, withdrawalVars>>
  BY <1>1 DEF RunSettlement
<1> HIDE DEF threshold
<1>5. QED
  BY <1>2, <1>3, <1>4 DEF TypeOK, partnerVars, tierVars, withdrawalVars

----------------------------------------------------------------------------

LEMMA ReservedType ==
  ASSUME NEW b \in Balance, NEW amount \in Int
  PROVE  /\ Reserved(b, amount) \in DerivedBalance
         /\ Released(b, amount) \in DerivedBalance
         /\ PaidOut(b, amount) \in DerivedBalance
<1>1. /\ b.pending + amount \in Int
      /\ Larger(b.pending - amount, 0) \in Int
      /\ b.withdrawn + amount \in Int
  BY DEF Balance, Larger
<1>2. ASSUME NEW x \in Int
      PROVE  [b EXCEPT !.pending = x] \in Balance
  BY DEF Balance
<1>3. ASSUME NEW x \in Int, NEW y \in Int
      PROVE  [b EXCEPT !.pending = x, !.withdrawn = y] \in Balance
  BY DEF Balance
<1>4. QED
  BY <1>1, <1>2, <1>3, RecalculateType DEF Reserved, Released, PaidOut

LEMMA WithdrawalStepTypeOK ==
  ASSUME TypeOK, WithdrawalStep
  PROVE  TypeOK'
<1>1. ASSUME NEW w \in WithdrawalIds, NEW i \in Influencers, NEW brand \in Brands,
             NEW amount \in RequestAmounts, RequestWithdrawal(w, i, brand, amount)
      PROVE  TypeOK'
  <2>1. amount \in Int
    BY WithdrawalConstants DEF WithdrawalConstants
  <2>2. withdrawals' \in [WithdrawalIds -> Withdrawal]
    BY <1>1, <2>1 DEF TypeOK, RequestWithdrawal, Withdrawal, WithdrawalStatuses
  <2>3. balances' \in [Influencers -> Balance]
    BY <1>1, <2>1, ReservedType DEF DerivedBalance, TypeOK, RequestWithdrawal
  <2>4. QED
    BY <1>1, <2>2, <2>3 DEF TypeOK, RequestWithdrawal, partnerVars, tierVars, orderVars
<1>2. ASSUME NEW w \in WithdrawalIds, NEW decision \in {"approved", "rejected"},
             DecideWithdrawal(w, decision)
      PROVE  TypeOK'
  <2>1. withdrawals' \in [WithdrawalIds -> Withdrawal]
    BY <1>2 DEF TypeOK, DecideWithdrawal, Withdrawal, WithdrawalStatuses
  <2>2. withdrawals[w].amount \in Int
    BY DEF TypeOK, Withdrawal
  <2>3. balances' \in [Influencers -> Balance]
    BY <1>2, <2>2, ReservedType DEF DerivedBalance, TypeOK, DecideWithdrawal
  <2>4. QED
    BY <1>2, <2>1, <2>3 DEF TypeOK, DecideWithdrawal, partnerVars, tierVars, orderVars
<1>3. QED
  BY <1>1, <1>2 DEF WithdrawalStep

----------------------------------------------------------------------------

LEMMA PendingAdjustmentTotalType ==
  ASSUME NEW rows \in [AdjustmentIds -> Adjustment], NEW i
  PROVE  PendingAdjustmentTotal(rows, i) \in Int
<1> DEFINE f == [a \in AdjustmentIds |->
           IF rows[a].status = "pending" /\ OwnerOf(rows[a].order) = i
           THEN rows[a].amount ELSE 0]
<1>1. f \in [1..AdjustmentCount -> Int]
  BY DEF AdjustmentIds, Adjustment
<1>2. PendingAdjustmentTotal(rows, i) = Total(f, AdjustmentCount)
  BY DEF PendingAdjustmentTotal
<1> HIDE DEF f
<1>3. AdjustmentCount \in Nat
  BY LedgerConstants DEF LedgerConstants
<1>4. QED
  BY <1>1, <1>2, <1>3, TotalType

LEMMA RefreshBalanceAdjustmentsType ==
  ASSUME NEW rows \in [AdjustmentIds -> Adjustment], NEW i, NEW b \in Balance
  PROVE  RefreshBalanceAdjustments(b, rows, i) \in DerivedBalance
<1>1. [b EXCEPT !.adjustment = PendingAdjustmentTotal(rows, i)] \in Balance
  BY PendingAdjustmentTotalType DEF Balance
<1>2. QED
  BY <1>1, RecalculateType DEF RefreshBalanceAdjustments

LEMMA ResolvedType ==
  ASSUME adjustments \in [AdjustmentIds -> Adjustment],
         NEW ids, NEW payment \in 0..PaymentCount
  PROVE  Resolved(ids, payment) \in [AdjustmentIds -> Adjustment]
BY DEF Resolved, Adjustment

LEMMA PaymentStepTypeOK ==
  ASSUME TypeOK, PaymentStep
  PROVE  TypeOK'
<1>1. ASSUME NEW p \in PaymentIds, NEW w \in WithdrawalIds, NEW amount \in PaymentAmounts,
             NEW ids \in SUBSET AdjustmentIds, RecordPayment(p, w, amount, ids)
      PROVE  TypeOK'
  <2> DEFINE payee == withdrawals[w].influencer
  <2> DEFINE paid  == [balances EXCEPT ![payee] = PaidOut(balances[payee], amount)]
  <2> DEFINE rows  == Resolved(ids, p)
  <2>1. amount \in Int
    BY WithdrawalConstants DEF WithdrawalConstants
  <2>2. p \in 0..PaymentCount /\ w \in 0..WithdrawalCount
    BY DEF PaymentIds, WithdrawalIds
  <2>3. rows \in [AdjustmentIds -> Adjustment]
    BY <2>2, ResolvedType DEF TypeOK
  <2>4. paid \in [Influencers -> Balance]
    BY <2>1, ReservedType DEF DerivedBalance, TypeOK
  <2>5. /\ withdrawals' = [withdrawals EXCEPT ![w].status = "paid"]
        /\ payments' = [payments EXCEPT ![p] =
             [status |-> "recorded", withdrawal |-> w, amount |-> amount, applied |-> ids]]
        /\ adjustments' = rows
        /\ balances' = [i \in Influencers |->
             IF i \in OwnersOf(ids) THEN RefreshBalanceAdjustments(paid[i], rows, i) ELSE paid[i]]
        /\ UNCHANGED <<now, partnerVars, tierVars, orderVars, adjustmentByOrder>>
    BY <1>1 DEF RecordPayment
  <2>6. withdrawals' \in [WithdrawalIds -> Withdrawal]
    BY <2>5 DEF TypeOK, Withdrawal, WithdrawalStatuses
  <2>7. payments' \in [PaymentIds -> Payment]
    BY <2>1, <2>2, <2>5 DEF TypeOK, Payment
  <2> HIDE DEF payee, paid, rows
  <2>8. ASSUME NEW i \in Influencers
        PROVE  RefreshBalanceAdjustments(paid[i], rows, i) \in Balance /\ paid[i] \in Balance
    BY <2>3, <2>4, RefreshBalanceAdjustmentsType DEF DerivedBalance
  <2>9. balances' \in [Influencers -> Balance]
    BY <2>5, <2>8
  <2>10. QED
    BY <2>3, <2>5, <2>6, <2>7, <2>9 DEF TypeOK, partnerVars, tierVars, orderVars
<1>2. ASSUME NEW w \in WithdrawalIds, NEW amount \in PaymentAmounts, RefusePayment(w, amount)
      PROVE  TypeOK'
  <2>1. withdrawals' \in [WithdrawalIds -> Withdrawal]
    BY <1>2 DEF TypeOK, RefusePayment, Withdrawal, WithdrawalStatuses
  <2>2. QED
    BY <1>2, <2>1 DEF TypeOK, RefusePayment, partnerVars, tierVars, orderVars
<1>3. QED
  BY <1>1, <1>2 DEF PaymentStep

LEMMA OwnerType ==
  ASSUME TypeOK, CommissionsAreAttributed,
         NEW o \in OrderIds, commissions[o].state # "NONE"
  PROVE  OwnerOf(o) \in Influencers
BY LedgerConstants DEF TypeOK, CommissionsAreAttributed, Order, OwnerOf, LedgerConstants

LEMMA AdjustmentStepTypeOK ==
  ASSUME TypeOK, CommissionsAreAttributed, AdjustmentStep
  PROVE  TypeOK'
<1>1. ASSUME NEW a \in AdjustmentIds, NEW o \in OrderIds, RecordReconciliation(a, o)
      PROVE  TypeOK'
  <2> DEFINE i == OwnerOf(o)
  <2> DEFINE amount == Smaller(Deficit(i), commissions[o].amount)
  <2> DEFINE rows == [adjustments EXCEPT ![a] =
               [status |-> "pending", order |-> o, amount |-> amount, payment |-> 0]]
  <2>1. /\ commissions[o].state # "NONE"
        /\ adjustments' = rows
        /\ adjustmentByOrder' = [adjustmentByOrder EXCEPT ![o] = a]
        /\ balances' = [balances EXCEPT ![i] = RefreshBalanceAdjustments(balances[i], rows, i)]
        /\ UNCHANGED <<now, partnerVars, tierVars, orderVars, withdrawals, payments>>
    BY <1>1 DEF RecordReconciliation
  <2>2. i \in Influencers
    BY <2>1, OwnerType
  <2> HIDE DEF i
  <2>3. Deficit(i) \in Int
    <3>1. balances[i].available \in Int
      BY <2>2 DEF TypeOK, Balance
    <3>2. PendingAdjustmentTotal(adjustments, i) \in Int
      BY PendingAdjustmentTotalType DEF TypeOK
    <3>3. QED
      BY <3>1, <3>2 DEF Deficit, Larger
  <2>4. amount \in Int
    BY <2>3 DEF TypeOK, Commission, Smaller
  <2> HIDE DEF amount
  <2>5. rows \in [AdjustmentIds -> Adjustment]
    <3>1. o \in 0..OrderCount /\ 0 \in 0..PaymentCount
      BY LedgerConstants DEF OrderIds, LedgerConstants
    <3>2. QED
      BY <2>4, <3>1 DEF TypeOK, Adjustment
  <2> HIDE DEF rows
  <2>6. /\ balances' \in [Influencers -> Balance]
        /\ adjustmentByOrder' \in [OrderIds -> 0..AdjustmentCount]
    BY <2>1, <2>2, <2>5, RefreshBalanceAdjustmentsType DEF DerivedBalance, TypeOK, AdjustmentIds
  <2>7. QED
    BY <2>1, <2>5, <2>6 DEF TypeOK, partnerVars, tierVars, orderVars
<1>2. ASSUME NEW a \in AdjustmentIds, ResolveWithdrawalAdjustment(a)
      PROVE  TypeOK'
  <2> DEFINE i == OwnerOf(adjustments[a].order)
  <2> DEFINE rows == Resolved({a}, 0)
  <2>1. rows \in [AdjustmentIds -> Adjustment]
    BY ResolvedType, LedgerConstants DEF TypeOK, LedgerConstants
  <2>2. /\ adjustments' = rows
        /\ balances' = [balances EXCEPT ![i] = RefreshBalanceAdjustments(balances[i], rows, i)]
        /\ UNCHANGED <<now, partnerVars, tierVars, orderVars,
                       withdrawals, payments, adjustmentByOrder>>
    BY <1>2 DEF ResolveWithdrawalAdjustment
  <2> HIDE DEF rows, i
  <2>3. balances' \in [Influencers -> Balance]
    BY <2>1, <2>2, RefreshBalanceAdjustmentsType DEF DerivedBalance, TypeOK
  <2>4. QED
    BY <2>1, <2>2, <2>3 DEF TypeOK, partnerVars, tierVars, orderVars
<1>3. QED
  BY <1>1, <1>2 DEF AdjustmentStep

----------------------------------------------------------------------------
(* The invariant the types rest on: a reconciliation reads the owner of an *)
(* order that has a commission, so such an order must have a code.         *)

TypeInv == TypeOK /\ CommissionsAreAttributed

LEMMA InitTypeInv == Init => TypeInv
<1>1. Init => CommissionsAreAttributed
  BY DEF Init, CommissionsAreAttributed
<1>2. QED
  BY <1>1, InitTypeOK DEF TypeInv

LEMMA NextTypeOK ==
  ASSUME TypeInv, Next
  PROVE  TypeOK'
<1>1. CASE Tick
  BY <1>1, LedgerConstants DEF TypeInv, TypeOK, Tick, Time, LedgerConstants,
     partnerVars, tierVars, orderVars, withdrawalVars
<1>2. CASE PartnerStep
  BY <1>2, PartnerStepTypeOK DEF TypeInv
<1>3. CASE TierStep
  BY <1>3, TierStepTypeOK DEF TypeInv
<1>4. CASE OrderStep
  BY <1>4, OrderStepTypeOK DEF TypeInv
<1>5. CASE SettlementStep
  BY <1>5, SettlementStepTypeOK DEF TypeInv
<1>6. CASE WithdrawalStep
  BY <1>6, WithdrawalStepTypeOK DEF TypeInv
<1>7. CASE PaymentStep
  BY <1>7, PaymentStepTypeOK DEF TypeInv
<1>8. CASE AdjustmentStep
  BY <1>8, AdjustmentStepTypeOK DEF TypeInv
<1>9. QED
  BY <1>1, <1>2, <1>3, <1>4, <1>5, <1>6, <1>7, <1>8 DEF Next

\* The steps other than order events and settlements leave orders and commissions
\* as they are.
LEMMA OtherStepsKeepOrders ==
  ASSUME Tick \/ PartnerStep \/ TierStep \/ WithdrawalStep \/ PaymentStep \/ AdjustmentStep
  PROVE  UNCHANGED orderVars
BY DEF Tick, PartnerStep, TierStep, WithdrawalStep, PaymentStep, AdjustmentStep,
   UpdateInfluencerStatus, AssignInfluencerToCampaign, UpdateCampaignTiers, EvaluateTiers,
   RequestWithdrawal, DecideWithdrawal, RecordPayment, RefusePayment,
   RecordReconciliation, ResolveWithdrawalAdjustment

LEMMA NextAttributed ==
  ASSUME TypeInv, Next
  PROVE  CommissionsAreAttributed'
<1>1. CASE UNCHANGED orderVars
  BY <1>1 DEF TypeInv, CommissionsAreAttributed, orderVars
<1>2. CASE OrderStep
  <2>1. PICK o \in OrderIds, coupon \in Codes \cup {None}, status \in OrderStatuses,
             event \in EventTypes, eligible \in EligibleAmounts :
               RegisterOrderEvent(o, coupon, status, event, eligible)
    BY <1>2 DEF OrderStep
  <2> DEFINE order == UpdatedOrder(o, coupon, status)
  <2>2. orders' = [orders EXCEPT ![o] = order] /\ order.status # "none"
    <3>1. status # "none"
      BY LedgerConstants DEF LedgerConstants
    <3>2. order.status = status
      BY DEF UpdatedOrder, TypeInv, TypeOK, Order
    <3>3. QED
      BY <2>1, <3>1, <3>2 DEF RegisterOrderEvent
  <2>3. commissions[o].state # "NONE" => order.code # None
    BY DEF TypeInv, TypeOK, CommissionsAreAttributed, UpdatedOrder, Order
  <2>4. \A q \in OrderIds : q # o => commissions'[q] = commissions[q]
    BY <2>1 DEF RegisterOrderEvent, TypeInv, TypeOK
  <2>5. order.code = None => commissions' = commissions
    BY <2>1 DEF RegisterOrderEvent
  <2> HIDE DEF order
  <2>6. ASSUME NEW q \in OrderIds, commissions'[q].state # "NONE"
        PROVE  orders'[q].status # "none" /\ orders'[q].code # None
    <3>1. CASE q = o
      BY <2>2, <2>3, <2>5, <2>6, <3>1 DEF TypeInv, TypeOK
    <3>2. CASE q # o
      BY <2>2, <2>4, <2>6, <3>2 DEF TypeInv, TypeOK, CommissionsAreAttributed
    <3>3. QED
      BY <3>1, <3>2
  <2>7. QED
    BY <2>6 DEF CommissionsAreAttributed
<1>3. CASE SettlementStep
  <2>1. PICK date \in Time, waiting \in WaitingPeriods : RunSettlement(date, waiting)
    BY <1>3 DEF SettlementStep
  <2>2. ASSUME NEW o \in OrderIds, commissions'[o].state # "NONE"
        PROVE  commissions[o].state # "NONE"
    BY <2>1, <2>2 DEF RunSettlement, SettledCommission, IsConfirmation, IsReversal
  <2>3. orders' = orders
    BY <2>1 DEF RunSettlement
  <2>4. QED
    BY <2>2, <2>3 DEF TypeInv, CommissionsAreAttributed
<1>4. QED
  BY <1>1, <1>2, <1>3, OtherStepsKeepOrders DEF Next

\* An order that has a commission keeps it, and with it its influencer, for good.
LEMMA CommissionsKeepOwners ==
  ASSUME TypeInv, [Next]_vars, NEW o \in OrderIds, commissions[o].state # "NONE"
  PROVE  OwnerOf(o)' = OwnerOf(o) /\ commissions'[o].state # "NONE"
<1>1. CASE UNCHANGED orderVars
  BY <1>1 DEF orderVars, OwnerOf
<1>2. CASE OrderStep
  <2>1. PICK q \in OrderIds, coupon \in Codes \cup {None}, status \in OrderStatuses,
             event \in EventTypes, eligible \in EligibleAmounts :
               RegisterOrderEvent(q, coupon, status, event, eligible)
    BY <1>2 DEF OrderStep
  <2> DEFINE order == UpdatedOrder(q, coupon, status)
  <2> DEFINE assignment == EnsureTierAssignment(PricingCampaign(q, coupon), InfluencerOf[order.code])
  <2> DEFINE commission == UpdatedCommission(q, event, eligible, assignment.percent)
  <2>2. orders' = [orders EXCEPT ![q] = order]
    BY <2>1 DEF RegisterOrderEvent
  <2>3. order.code = None => commissions' = commissions
    BY <2>1 DEF RegisterOrderEvent
  <2>4. order.code # None => commissions' = [commissions EXCEPT ![q] = commission]
    BY <2>1 DEF RegisterOrderEvent
  <2>5. commission.state # "NONE"
    BY DEF UpdatedCommission, ResolveCommissionState, EventTypes
  <2>6. q = o => order.code = orders[o].code
    BY DEF TypeInv, TypeOK, CommissionsAreAttributed, UpdatedOrder, Order
  <2> HIDE DEF order, assignment, commission
  <2>7. orders'[o].code = orders[o].code
    BY <2>2, <2>6 DEF TypeInv, TypeOK
  <2>8. commissions'[o].state # "NONE"
    BY <2>3, <2>4, <2>5 DEF TypeInv, TypeOK
  <2>9. QED
    BY <2>7, <2>8 DEF OwnerOf
<1>3. CASE SettlementStep
  <2>1. PICK date \in Time, waiting \in WaitingPeriods : RunSettlement(date, waiting)
    BY <1>3 DEF SettlementStep
  <2>2. orders' = orders /\ commissions'[o] = SettledCommission(o, date, date - waiting)
    BY <2>1 DEF RunSettlement
  <2>3. SettledCommission(o, date, date - waiting).state # "NONE"
    BY DEF SettledCommission, TypeInv, TypeOK, Commission
  <2>4. QED
    BY <2>2, <2>3 DEF OwnerOf
<1>4. CASE UNCHANGED vars
  BY <1>1, <1>4 DEF vars
<1>5. QED
  BY <1>1, <1>2, <1>3, <1>4, OtherStepsKeepOrders DEF Next

\* The types, and the attribution they rest on, hold in every reachable state.
THEOREM TypeInvariance == Spec => []TypeInv
<1>1. Init => TypeInv
  BY InitTypeInv
<1>2. TypeInv /\ [Next]_vars => TypeInv'
  <2>1. SUFFICES ASSUME TypeInv, [Next]_vars PROVE TypeInv'
    OBVIOUS
  <2>2. CASE Next
    BY <2>1, <2>2, NextTypeOK, NextAttributed DEF TypeInv
  <2>3. CASE UNCHANGED vars
    BY <2>1, <2>3 DEF TypeInv, TypeOK, CommissionsAreAttributed, vars,
       partnerVars, tierVars, orderVars, withdrawalVars
  <2>4. QED
    BY <2>1, <2>2, <2>3
<1>3. QED
  BY <1>1, <1>2, PTL DEF Spec

\* Every table holds well-formed rows in every reachable state: no handler, from
\* whatever state and with whatever input, writes a row of another shape.
THEOREM TypeCorrectness == Spec => []TypeOK
<1>1. TypeInv => TypeOK
  BY DEF TypeInv
<1>2. QED
  BY <1>1, TypeInvariance, PTL

----------------------------------------------------------------------------
(* The available amount. *)

LEMMA NextAvailableIsDerived ==
  ASSUME TypeInv, AvailableIsDerived, Next
  PROVE  AvailableIsDerived'
<1>1. SUFFICES ASSUME NEW i \in Influencers PROVE balances'[i] \in DerivedBalance
  BY DEF AvailableIsDerived, DerivedBalance
<1>2. /\ balances[i] \in DerivedBalance
      /\ balances[i] \in Balance
      /\ balances \in [Influencers -> Balance]
  BY DEF AvailableIsDerived, DerivedBalance, TypeInv, TypeOK
<1>3. \A b \in Balance : Recalculate(b) \in DerivedBalance
  BY RecalculateType
<1>4. CASE balances' = balances
  BY <1>2, <1>4
<1>5. CASE OrderStep
  <2>1. PICK o \in OrderIds, coupon \in Codes \cup {None}, status \in OrderStatuses,
             event \in EventTypes, eligible \in EligibleAmounts :
               RegisterOrderEvent(o, coupon, status, event, eligible)
    BY <1>5 DEF OrderStep
  <2> DEFINE order == UpdatedOrder(o, coupon, status)
  <2> DEFINE owner == InfluencerOf[order.code]
  <2> DEFINE assignment == EnsureTierAssignment(PricingCampaign(o, coupon), owner)
  <2> DEFINE commission == UpdatedCommission(o, event, eligible, assignment.percent)
  <2>2. CASE order.code = None
    BY <1>2, <2>1, <2>2 DEF RegisterOrderEvent
  <2>3. CASE order.code # None
    <3>1. balances' = [balances EXCEPT ![owner] =
             SyncInfluencerBalance(balances[owner], commissions[o], commission)]
      BY <2>1, <2>3 DEF RegisterOrderEvent
    <3>2. owner \in Influencers /\ commission \in Commission /\ commissions[o] \in Commission
      BY <2>3, OrderEventRows DEF TypeInv, TypeOK
    <3> HIDE DEF order, owner, assignment, commission
    <3>3. SyncInfluencerBalance(balances[owner], commissions[o], commission) \in DerivedBalance
      BY <1>2, <3>2, SyncInfluencerBalanceType
    <3>4. QED
      BY <1>2, <3>1, <3>3
  <2>4. QED
    BY <2>2, <2>3
<1>6. CASE SettlementStep
  <2>1. PICK date \in Time, waiting \in WaitingPeriods : RunSettlement(date, waiting)
    BY <1>6 DEF SettlementStep
  <2>2. balances'[i] = SettledBalance(i, date - waiting)
    BY <2>1 DEF RunSettlement
  <2>3. SettledBalance(i, date - waiting) \in DerivedBalance
    BY SettledBalanceType DEF TypeInv, TypeOK
  <2>4. QED
    BY <2>2, <2>3
<1>7. CASE WithdrawalStep
  <2>1. ASSUME NEW amount \in Int
        PROVE  \A b \in Balance : Reserved(b, amount) \in DerivedBalance /\ Released(b, amount) \in DerivedBalance
    BY <2>1, ReservedType
  <2>2. ASSUME NEW w \in WithdrawalIds, NEW j \in Influencers, NEW brand \in Brands,
               NEW amount \in RequestAmounts, RequestWithdrawal(w, j, brand, amount)
        PROVE  balances'[i] \in DerivedBalance
    BY <1>2, <2>1, <2>2, WithdrawalConstants DEF RequestWithdrawal, WithdrawalConstants
  <2>3. ASSUME NEW w \in WithdrawalIds, NEW decision \in {"approved", "rejected"},
               DecideWithdrawal(w, decision)
        PROVE  balances'[i] \in DerivedBalance
    <3>1. withdrawals[w].amount \in Int
      BY DEF TypeInv, TypeOK, Withdrawal
    <3>2. QED
      BY <1>2, <2>1, <2>3, <3>1 DEF DecideWithdrawal
  <2>4. QED
    BY <1>7, <2>2, <2>3 DEF WithdrawalStep
<1>8. CASE PaymentStep
  <2>1. ASSUME NEW p \in PaymentIds, NEW w \in WithdrawalIds, NEW amount \in PaymentAmounts,
               NEW ids \in SUBSET AdjustmentIds, RecordPayment(p, w, amount, ids)
        PROVE  balances'[i] \in DerivedBalance
    <3> DEFINE paid == [balances EXCEPT ![withdrawals[w].influencer] =
                          PaidOut(balances[withdrawals[w].influencer], amount)]
    <3>1. amount \in Int
      BY WithdrawalConstants DEF WithdrawalConstants
    <3>2. paid[i] \in Balance /\ paid[i] \in DerivedBalance
      BY <1>2, <3>1, ReservedType DEF DerivedBalance
    <3>3. balances'[i] = IF i \in OwnersOf(ids)
                         THEN RefreshBalanceAdjustments(paid[i], Resolved(ids, p), i)
                         ELSE paid[i]
      BY <2>1 DEF RecordPayment
    <3>4. Resolved(ids, p) \in [AdjustmentIds -> Adjustment]
      BY ResolvedType DEF TypeInv, TypeOK, PaymentIds
    <3> HIDE DEF paid
    <3>5. RefreshBalanceAdjustments(paid[i], Resolved(ids, p), i) \in DerivedBalance
      BY <3>2, <3>4, RefreshBalanceAdjustmentsType
    <3>6. QED
      BY <3>2, <3>3, <3>5
  <2>2. ASSUME NEW w \in WithdrawalIds, NEW amount \in PaymentAmounts, RefusePayment(w, amount)
        PROVE  balances'[i] \in DerivedBalance
    BY <1>2, <2>2 DEF RefusePayment
  <2>3. QED
    BY <1>8, <2>1, <2>2 DEF PaymentStep
<1>9. CASE AdjustmentStep
  <2>1. AdjustmentStep => TypeOK'
    BY AdjustmentStepTypeOK DEF TypeInv
  <2>2. adjustments' \in [AdjustmentIds -> Adjustment]
    BY <1>9, <2>1 DEF TypeOK
  <2>3. \A j : \A b \in Balance : RefreshBalanceAdjustments(b, adjustments', j) \in DerivedBalance
    BY <2>2, RefreshBalanceAdjustmentsType
  <2>4. ASSUME NEW a \in AdjustmentIds, NEW o \in OrderIds, RecordReconciliation(a, o)
        PROVE  balances'[i] \in DerivedBalance
    <3>1. balances' = [balances EXCEPT ![OwnerOf(o)] =
             RefreshBalanceAdjustments(balances[OwnerOf(o)], adjustments', OwnerOf(o))]
      BY <2>4 DEF RecordReconciliation
    <3>2. QED
      BY <1>2, <2>3, <3>1
  <2>5. ASSUME NEW a \in AdjustmentIds, ResolveWithdrawalAdjustment(a)
        PROVE  balances'[i] \in DerivedBalance
    <3> DEFINE j == OwnerOf(adjustments[a].order)
    <3>1. balances' = [balances EXCEPT ![j] =
             RefreshBalanceAdjustments(balances[j], adjustments', j)]
      BY <2>5 DEF ResolveWithdrawalAdjustment
    <3> HIDE DEF j
    <3>2. QED
      BY <1>2, <2>3, <3>1
  <2>6. QED
    BY <1>9, <2>4, <2>5 DEF AdjustmentStep
<1>10. CASE Tick \/ PartnerStep \/ TierStep
  BY <1>4, <1>10 DEF Tick, PartnerStep, TierStep, UpdateInfluencerStatus,
     AssignInfluencerToCampaign, UpdateCampaignTiers, EvaluateTiers
<1>11. QED
  BY <1>5, <1>6, <1>7, <1>8, <1>9, <1>10 DEF Next

\* Whatever changed a balance last, its available amount is what is confirmed less
\* what is withdrawn and reserved: no handler forgets to recalculate it.
THEOREM AvailableCorrectness == Spec => []AvailableIsDerived
<1>1. Init => AvailableIsDerived
  BY DEF Init, EmptyBalance, AvailableIsDerived
<1>2. TypeInv /\ AvailableIsDerived /\ [Next]_vars => AvailableIsDerived'
  <2>1. SUFFICES ASSUME TypeInv, AvailableIsDerived, [Next]_vars PROVE AvailableIsDerived'
    OBVIOUS
  <2>2. CASE Next
    BY <2>1, <2>2, NextAvailableIsDerived
  <2>3. CASE UNCHANGED vars
    BY <2>1, <2>3 DEF AvailableIsDerived, vars
  <2>4. QED
    BY <2>1, <2>2, <2>3
<1>3. QED
  BY <1>1, <1>2, TypeInvariance, PTL DEF Spec

----------------------------------------------------------------------------
(***************************************************************************)
(* What a tier assignment keeps of its past, for every tier program, every *)
(* date of an evaluation and every sequence of order events.               *)
(*                                                                         *)
(* A commission is priced with the percent of its influencer's assignment, *)
(* and the assignment goes on to change.  That the percent stays in the    *)
(* history is what the invariant is about: the history of an assignment    *)
(* only grows, and its last period is always the tier in force.            *)
(***************************************************************************)

\* The body of HistoryIsContiguous, for one assignment.
Contiguous(row) ==
  LET n == Len(row.history)
  IN  /\ n > 0
      /\ row.history[n].to = Open
      /\ row.history[n].level = row.level
      /\ row.history[n].percent = row.percent
      /\ \A k \in 1..(n - 1) :
           /\ row.history[k].to = row.history[k + 1].from
           /\ row.history[k].level # row.history[k + 1].level

\* An assignment that was never created has no past that creating it would erase.
UnenrolledHaveNoHistory ==
  \A pair \in DOMAIN tiers : ~ tiers[pair].enrolled => tiers[pair].history = <<>>

\* The inductive invariant.
TierInv ==
  /\ HistoryIsContiguous
  /\ UnenrolledHaveNoHistory
  /\ PricedByHistory

\* The percents a history names are still there, at the same place.
HistoryKept(old, new) ==
  \A k \in DOMAIN old.history :
    k \in DOMAIN new.history /\ new.history[k].percent = old.history[k].percent

----------------------------------------------------------------------------
(* One assignment. *)

\* An assignment that is ensured is enrolled with a contiguous history, which holds
\* what the one before held.
LEMMA EnsureTierAssignmentKeeps ==
  ASSUME TypeOK, HistoryIsContiguous, UnenrolledHaveNoHistory,
         NEW c \in Campaigns, NEW i \in Influencers
  PROVE  /\ EnsureTierAssignment(c, i).enrolled
         /\ Contiguous(EnsureTierAssignment(c, i))
         /\ HistoryKept(tiers[<<c, i>>], EnsureTierAssignment(c, i))
         /\ tiers[<<c, i>>].enrolled => EnsureTierAssignment(c, i) = tiers[<<c, i>>]
<1> DEFINE row == tiers[<<c, i>>]
<1>1. <<c, i>> \in DOMAIN tiers
  BY DEF TypeOK
<1>2. CASE row.enrolled
  <2>1. EnsureTierAssignment(c, i) = row
    BY <1>2 DEF EnsureTierAssignment
  <2>2. Contiguous(row)
    BY <1>1, <1>2 DEF HistoryIsContiguous, Contiguous
  <2> HIDE DEF row
  <2>3. QED
    BY <1>2, <2>1, <2>2 DEF HistoryKept, row
<1>3. CASE ~ row.enrolled
  <2> DEFINE default == ResolveDefaultTier(c)
  <2> DEFINE period == [name |-> default.name, level |-> default.level,
                        percent |-> default.percent, from |-> now, to |-> Open]
  <2> DEFINE new == [enrolled |-> TRUE, level |-> default.level, percent |-> default.percent,
                     windowStart |-> now, history |-> <<period>>]
  <2>1. EnsureTierAssignment(c, i) = new
    BY <1>3 DEF EnsureTierAssignment
  <2>2. row.history = <<>>
    BY <1>1, <1>3 DEF UnenrolledHaveNoHistory
  <2>3. Contiguous(new)
    BY DEF Contiguous
  <2>4. HistoryKept(row, new)
    BY <2>2 DEF HistoryKept
  <2>5. QED
    BY <1>3, <2>1, <2>3, <2>4
<1>4. QED
  BY <1>2, <1>3

\* Closing the last period changes nothing but its end.
LEMMA ClosePeriodKeeps ==
  ASSUME NEW history \in Seq(TierPeriod), history # <<>>, NEW date \in Time
  PROVE  /\ Len(ClosePeriod(history, date)) = Len(history)
         /\ ClosePeriod(history, date)[Len(history)].to = date
         /\ \A k \in 1..Len(history) :
              /\ ClosePeriod(history, date)[k].level = history[k].level
              /\ ClosePeriod(history, date)[k].percent = history[k].percent
              /\ ClosePeriod(history, date)[k].from = history[k].from
              /\ k # Len(history) => ClosePeriod(history, date)[k].to = history[k].to
<1> DEFINE n == Len(history)
<1> DEFINE last == [history[n] EXCEPT !.to = date]
<1> DEFINE closed == [history EXCEPT ![n] = last]
<1>1. ClosePeriod(history, date) = closed
  BY DEF ClosePeriod
<1>2. n \in Nat /\ n \in 1..n /\ DOMAIN history = 1..n
  BY LenProperties, EmptySeq
<1>3. history[n] \in TierPeriod
  BY <1>2, ElementOfSeq
<1>4. last \in TierPeriod
  BY <1>3 DEF TierPeriod
<1>5. closed \in Seq(TierPeriod) /\ Len(closed) = n
  <2> HIDE DEF last
  <2>1. QED
    BY <1>2, <1>4, ExceptSeq
<1>6. /\ last.to = date
      /\ last.level = history[n].level
      /\ last.percent = history[n].percent
      /\ last.from = history[n].from
  BY <1>3 DEF TierPeriod
<1> HIDE DEF last
<1>7. closed[n] = last /\ \A k \in 1..n : k # n => closed[k] = history[k]
  BY <1>2
<1> HIDE DEF closed
<1>8. QED
  BY <1>1, <1>5, <1>6, <1>7

\* An evaluation keeps an assignment's history in one unbroken line, and only adds
\* to it.
LEMMA EvaluatedTierKeeps ==
  ASSUME TypeOK, NEW c \in Campaigns, NEW i \in Influencers, NEW date \in Time,
         tiers[<<c, i>>].enrolled, Contiguous(tiers[<<c, i>>])
  PROVE  /\ EvaluatedTier(c, i, date).enrolled
         /\ Contiguous(EvaluatedTier(c, i, date))
         /\ HistoryKept(tiers[<<c, i>>], EvaluatedTier(c, i, date))
<1> DEFINE row  == tiers[<<c, i>>]
<1> DEFINE next == ResolveTierForSales(c, ConfirmedSales(c, i, row.windowStart, date))
<1> DEFINE period == [name |-> next.name, level |-> next.level, percent |-> next.percent,
                      from |-> date, to |-> Open]
<1> DEFINE closed == ClosePeriod(row.history, date)
<1> DEFINE history == Append(closed, period)
<1> DEFINE n == Len(row.history)
<1>1. row \in TierAssignment
  BY DEF TypeOK
<1>2. row.history \in Seq(TierPeriod) /\ n \in Nat /\ n > 0 /\ DOMAIN row.history = 1..n
  BY <1>1, LenProperties DEF TierAssignment, Contiguous
<1>3. next \in Tier
  BY ConfirmedSalesType, ResolveTierForSalesType DEF TypeOK
<1>4. EvaluatedTier(c, i, date) =
        IF date < row.windowStart \/ next.level = row.level
        THEN [row EXCEPT !.windowStart = date]
        ELSE [row EXCEPT !.level = next.level, !.percent = next.percent,
                         !.windowStart = date, !.history = history]
  BY DEF EvaluatedTier
<1>5. Contiguous(row) /\ row.enrolled
  OBVIOUS
<1>6. period \in TierPeriod
  BY <1>3 DEF Tier, TierPeriod
<1>7. /\ period.level = next.level
      /\ period.percent = next.percent
      /\ period.from = date
      /\ period.to = Open
  OBVIOUS
<1> HIDE DEF row, next, period
<1>8. CASE date < row.windowStart \/ next.level = row.level
  <2> DEFINE new == [row EXCEPT !.windowStart = date]
  <2>1. /\ new.enrolled = row.enrolled
        /\ new.level = row.level
        /\ new.percent = row.percent
        /\ new.history = row.history
    BY <1>1 DEF TierAssignment
  <2>2. EvaluatedTier(c, i, date) = new
    BY <1>4, <1>8
  <2> HIDE DEF new
  <2>3. Contiguous(new) /\ HistoryKept(row, new)
    BY <1>5, <2>1 DEF Contiguous, HistoryKept
  <2>4. QED
    BY <1>5, <2>1, <2>2, <2>3 DEF row
<1>9. CASE ~ (date < row.windowStart \/ next.level = row.level)
  <2> DEFINE new == [row EXCEPT !.level = next.level, !.percent = next.percent,
                                !.windowStart = date, !.history = history]
  <2>1. EvaluatedTier(c, i, date) = new
    BY <1>4, <1>9
  <2>2. row.history # <<>>
    BY <1>2, EmptySeq
  <2>3. closed \in Seq(TierPeriod) /\ Len(closed) = n
    BY <1>2, <2>2, ClosePeriodType, ClosePeriodKeeps
  <2>4. /\ closed[n].to = date
        /\ \A k \in 1..n : /\ closed[k].level = row.history[k].level
                           /\ closed[k].percent = row.history[k].percent
                           /\ closed[k].from = row.history[k].from
                           /\ k # n => closed[k].to = row.history[k].to
    BY <1>2, <2>2, ClosePeriodKeeps
  <2> HIDE DEF closed
  <2>5. /\ history \in Seq(TierPeriod)
        /\ Len(history) = n + 1
        /\ history[n + 1] = period
        /\ \A k \in 1..n : history[k] = closed[k]
    BY <1>6, <2>3, AppendProperties
  <2>6. /\ new.enrolled = row.enrolled
        /\ new.level = next.level
        /\ new.percent = next.percent
        /\ new.history = history
    BY <1>1 DEF TierAssignment
  <2>7. DOMAIN history = 1..(n + 1)
    BY <2>5, LenProperties
  <2> HIDE DEF history, new, n
  <2>8. HistoryKept(row, new)
    <3>1. ASSUME NEW k \in DOMAIN row.history
          PROVE  k \in DOMAIN history /\ history[k].percent = row.history[k].percent
      BY <1>2, <2>4, <2>5, <2>7
    <3>2. QED
      BY <2>6, <3>1 DEF HistoryKept
  <2>9. ASSUME NEW k \in 1..n
        PROVE  /\ history[k].to = history[k + 1].from
               /\ history[k].level # history[k + 1].level
    <3>1. CASE k = n
      <4>1. row.history[n].level = row.level
        BY <1>5 DEF Contiguous, n
      <4>2. history[k] = closed[n] /\ history[k + 1] = period
        BY <1>2, <2>5, <3>1
      <4>3. closed[n].level = row.history[n].level
        BY <1>2, <2>4
      <4>4. QED
        BY <1>7, <1>9, <2>4, <4>1, <4>2, <4>3
    <3>2. CASE k # n
      <4>1. k \in 1..(n - 1) /\ k + 1 \in 1..n
        BY <1>2, <3>2
      <4>2. /\ row.history[k].to = row.history[k + 1].from
            /\ row.history[k].level # row.history[k + 1].level
        BY <1>5, <4>1 DEF Contiguous, n
      <4>3. history[k] = closed[k] /\ history[k + 1] = closed[k + 1]
        BY <2>5, <4>1
      <4>4. QED
        BY <2>4, <3>2, <4>1, <4>2, <4>3
    <3>3. QED
      BY <3>1, <3>2
  <2>10. Contiguous(new)
    <3>1. Len(new.history) = n + 1 /\ n + 1 > 0 /\ (n + 1) - 1 = n
      BY <1>2, <2>5, <2>6
    <3>2. QED
      BY <1>7, <2>5, <2>6, <2>9, <3>1 DEF Contiguous
  <2>11. QED
    BY <1>5, <2>1, <2>6, <2>8, <2>10 DEF row
<1>10. QED
  BY <1>8, <1>9

----------------------------------------------------------------------------
(* All assignments. *)

\* The steps other than the four that write assignments leave them as they are.
LEMMA OtherStepsKeepTiers ==
  ASSUME \/ Tick \/ SettlementStep \/ WithdrawalStep \/ PaymentStep \/ AdjustmentStep
         \/ \E i \in Influencers, status \in InfluencerStatuses : UpdateInfluencerStatus(i, status)
         \/ \E c \in Campaigns, program \in TierPrograms : UpdateCampaignTiers(c, program)
  PROVE  UNCHANGED tiers
BY DEF Tick, SettlementStep, WithdrawalStep, PaymentStep, AdjustmentStep,
   UpdateInfluencerStatus, UpdateCampaignTiers, RunSettlement,
   RequestWithdrawal, DecideWithdrawal, RecordPayment, RefusePayment,
   RecordReconciliation, ResolveWithdrawalAdjustment, tierVars

\* Apart from an evaluation, a step keeps an assignment or ensures it.
LEMMA AssignmentsAreEnsured ==
  ASSUME TypeOK, [Next]_vars
  PROVE  \/ \E date \in Time : EvaluateTiers(date)
         \/ tiers' = tiers
         \/ \E c \in Campaigns, i \in Influencers :
              tiers' = [tiers EXCEPT ![<<c, i>>] = EnsureTierAssignment(c, i)]
<1>1. CASE PartnerStep
  <2>1. CASE \E i \in Influencers, status \in InfluencerStatuses : UpdateInfluencerStatus(i, status)
    BY <2>1, OtherStepsKeepTiers
  <2>2. ASSUME NEW c \in Campaigns, NEW i \in Influencers, AssignInfluencerToCampaign(c, i)
        PROVE  tiers' = [tiers EXCEPT ![<<c, i>>] = EnsureTierAssignment(c, i)]
    BY <2>2 DEF AssignInfluencerToCampaign
  <2>3. QED
    BY <1>1, <2>1, <2>2 DEF PartnerStep
<1>2. CASE TierStep
  BY <1>2, OtherStepsKeepTiers DEF TierStep
<1>3. CASE OrderStep
  <2>1. PICK o \in OrderIds, coupon \in Codes \cup {None}, status \in OrderStatuses,
             event \in EventTypes, eligible \in EligibleAmounts :
               RegisterOrderEvent(o, coupon, status, event, eligible)
    BY <1>3 DEF OrderStep
  <2> DEFINE order == UpdatedOrder(o, coupon, status)
  <2> DEFINE owner == InfluencerOf[order.code]
  <2> DEFINE campaign == PricingCampaign(o, coupon)
  <2>2. CASE order.code = None
    BY <2>1, <2>2 DEF RegisterOrderEvent
  <2>3. CASE order.code # None
    <3>1. tiers' = [tiers EXCEPT ![<<campaign, owner>>] = EnsureTierAssignment(campaign, owner)]
      BY <2>1, <2>3 DEF RegisterOrderEvent
    <3>2. campaign \in Campaigns /\ owner \in Influencers
      BY <2>3, OrderEventRows
    <3> HIDE DEF campaign, owner
    <3>3. QED
      BY <3>1, <3>2
  <2>4. QED
    BY <2>2, <2>3
<1>4. CASE UNCHANGED vars
  BY <1>4 DEF vars, tierVars
<1>5. CASE Tick \/ SettlementStep \/ WithdrawalStep \/ PaymentStep \/ AdjustmentStep
  BY <1>5, OtherStepsKeepTiers
<1>6. QED
  BY <1>1, <1>2, <1>3, <1>4, <1>5 DEF Next

\* What every step does to every assignment.
LEMMA HistoriesGrow ==
  ASSUME TypeOK, HistoryIsContiguous, UnenrolledHaveNoHistory, [Next]_vars,
         NEW pair \in Campaigns \X Influencers
  PROVE  /\ tiers'[pair].enrolled => Contiguous(tiers'[pair])
         /\ ~ tiers'[pair].enrolled => tiers'[pair].history = <<>>
         /\ HistoryKept(tiers[pair], tiers'[pair])
<1> DEFINE Kept(row) ==
      /\ row.enrolled => Contiguous(row)
      /\ ~ row.enrolled => row.history = <<>>
      /\ HistoryKept(tiers[pair], row)
<1>1. DOMAIN tiers = Campaigns \X Influencers /\ pair = <<pair[1], pair[2]>>
      /\ pair[1] \in Campaigns /\ pair[2] \in Influencers
  BY DEF TypeOK
<1>2. Kept(tiers[pair])
  BY <1>1 DEF HistoryIsContiguous, UnenrolledHaveNoHistory, Contiguous, HistoryKept
<1>3. ASSUME tiers' = tiers
      PROVE  Kept(tiers'[pair])
  BY <1>2, <1>3
<1>4. ASSUME NEW c \in Campaigns, NEW i \in Influencers,
             tiers' = [tiers EXCEPT ![<<c, i>>] = EnsureTierAssignment(c, i)]
      PROVE  Kept(tiers'[pair])
  <2>1. CASE pair = <<c, i>>
    <3>1. tiers'[pair] = EnsureTierAssignment(c, i)
      BY <1>1, <1>4, <2>1
    <3>2. Kept(EnsureTierAssignment(c, i))
      BY <2>1, EnsureTierAssignmentKeeps
    <3>3. QED
      BY <3>1, <3>2
  <2>2. CASE pair # <<c, i>>
    <3>1. tiers'[pair] = tiers[pair]
      BY <1>1, <1>4, <2>2
    <3>2. QED
      BY <1>2, <3>1
  <2>3. QED
    BY <2>1, <2>2
<1>5. ASSUME NEW date \in Time, EvaluateTiers(date)
      PROVE  Kept(tiers'[pair])
  <2>1. tiers'[pair] = IF tiers[pair].enrolled
                       THEN EvaluatedTier(pair[1], pair[2], date)
                       ELSE tiers[pair]
    BY <1>1, <1>5 DEF EvaluateTiers
  <2>2. CASE tiers[pair].enrolled
    <3>1. Contiguous(tiers[pair])
      BY <1>2, <2>2
    <3>2. Kept(EvaluatedTier(pair[1], pair[2], date))
      BY <1>1, <2>2, <3>1, EvaluatedTierKeeps
    <3>3. QED
      BY <2>1, <2>2, <3>2
  <2>3. CASE ~ tiers[pair].enrolled
    <3>1. tiers'[pair] = tiers[pair]
      BY <2>1, <2>3
    <3>2. QED
      BY <1>2, <3>1
  <2>4. QED
    BY <2>2, <2>3
<1> HIDE DEF Kept
<1>6. Kept(tiers'[pair])
  BY <1>3, <1>4, <1>5, AssignmentsAreEnsured
<1>7. QED
  BY <1>6 DEF Kept

\* A commission after a step is the one before, as far as its price goes, or is
\* priced with the percent of the last period of its influencer's history.
LEMMA CommissionsArePriced ==
  ASSUME TypeInv, HistoryIsContiguous, UnenrolledHaveNoHistory, [Next]_vars,
         NEW o \in OrderIds, commissions'[o].state # "NONE"
  PROVE  \/ /\ commissions[o].state # "NONE"
            /\ commissions'[o].amount = commissions[o].amount
            /\ commissions'[o].eligible = commissions[o].eligible
         \/ \E c \in Campaigns : \E k \in DOMAIN tiers'[<<c, OwnerOf(o)'>>].history :
              commissions'[o].amount =
                RoundedShare(commissions'[o].eligible, tiers'[<<c, OwnerOf(o)'>>].history[k].percent)
<1>1. CASE UNCHANGED orderVars
  BY <1>1 DEF orderVars
<1>2. CASE SettlementStep
  <2>1. PICK date \in Time, waiting \in WaitingPeriods : RunSettlement(date, waiting)
    BY <1>2 DEF SettlementStep
  <2>2. commissions'[o] = SettledCommission(o, date, date - waiting)
    BY <2>1 DEF RunSettlement
  <2>3. commissions[o] \in Commission
    BY DEF TypeInv, TypeOK
  <2>4. QED
    BY <2>2, <2>3 DEF SettledCommission, IsConfirmation, IsReversal, Commission
<1>3. CASE OrderStep
  <2>1. PICK q \in OrderIds, coupon \in Codes \cup {None}, status \in OrderStatuses,
             event \in EventTypes, eligible \in EligibleAmounts :
               RegisterOrderEvent(q, coupon, status, event, eligible)
    BY <1>3 DEF OrderStep
  <2> DEFINE order == UpdatedOrder(q, coupon, status)
  <2> DEFINE owner == InfluencerOf[order.code]
  <2> DEFINE campaign == PricingCampaign(q, coupon)
  <2> DEFINE assignment == EnsureTierAssignment(campaign, owner)
  <2> DEFINE commission == UpdatedCommission(q, event, eligible, assignment.percent)
  <2>2. CASE order.code = None
    <3>1. commissions' = commissions
      BY <2>1, <2>2 DEF RegisterOrderEvent
    <3>2. QED
      BY <3>1
  <2>3. CASE order.code # None
    <3>1. /\ orders' = [orders EXCEPT ![q] = order]
          /\ commissions' = [commissions EXCEPT ![q] = commission]
          /\ tiers' = [tiers EXCEPT ![<<campaign, owner>>] = assignment]
      BY <2>1, <2>3 DEF RegisterOrderEvent
    <3>2. campaign \in Campaigns /\ owner \in Influencers
      BY <2>3, OrderEventRows DEF TypeInv
    <3>3. assignment \in TierAssignment /\ Contiguous(assignment)
      BY <3>2, EnsureTierAssignmentType, EnsureTierAssignmentKeeps DEF TypeInv, TypeOK
    <3>4. /\ commission.eligible = eligible
          /\ commission.amount = RoundedShare(eligible, assignment.percent)
      BY DEF UpdatedCommission
    <3>5. InfluencerOf[order.code] = owner
      OBVIOUS
    <3> HIDE DEF order, owner, campaign, assignment, commission
    <3>6. CASE q = o
      <4>1. commissions'[o] = commission /\ OwnerOf(o)' = owner
        BY <3>1, <3>5, <3>6 DEF TypeInv, TypeOK, OwnerOf
      <4>2. tiers'[<<campaign, OwnerOf(o)'>>] = assignment
        BY <3>1, <3>2, <4>1 DEF TypeInv, TypeOK
      <4> DEFINE n == Len(assignment.history)
      <4>3. n \in DOMAIN assignment.history /\ assignment.history[n].percent = assignment.percent
        BY <3>3, LenProperties DEF Contiguous, TierAssignment
      <4>4. commissions'[o].amount =
              RoundedShare(commissions'[o].eligible,
                           tiers'[<<campaign, OwnerOf(o)'>>].history[n].percent)
        BY <3>4, <4>1, <4>2, <4>3
      <4> HIDE DEF n
      <4>5. QED
        BY <3>2, <4>2, <4>3, <4>4
    <3>7. CASE q # o
      <4>1. commissions'[o] = commissions[o]
        BY <3>1, <3>7 DEF TypeInv, TypeOK
      <4>2. QED
        BY <4>1
    <3>8. QED
      BY <3>6, <3>7
  <2>4. QED
    BY <2>2, <2>3
<1>4. CASE UNCHANGED vars
  BY <1>1, <1>4 DEF vars
<1>5. QED
  BY <1>1, <1>2, <1>3, <1>4, OtherStepsKeepOrders DEF Next

----------------------------------------------------------------------------
(* The invariant. *)

LEMMA InitTierInv == Init => TierInv
<1>1. SUFFICES ASSUME Init PROVE TierInv
  OBVIOUS
<1>2. \A pair \in DOMAIN tiers : ~ tiers[pair].enrolled /\ tiers[pair].history = <<>>
  BY <1>1 DEF Init
<1>3. HistoryIsContiguous /\ UnenrolledHaveNoHistory
  BY <1>2 DEF HistoryIsContiguous, UnenrolledHaveNoHistory
<1>4. PricedByHistory
  BY <1>1 DEF Init, PricedByHistory
<1>5. QED
  BY <1>3, <1>4 DEF TierInv

LEMMA NextTierInv ==
  ASSUME TypeInv, TypeInv', TierInv, [Next]_vars
  PROVE  TierInv'
<1>1. /\ TypeOK /\ DOMAIN tiers = Campaigns \X Influencers
      /\ DOMAIN tiers' = Campaigns \X Influencers
      /\ HistoryIsContiguous /\ UnenrolledHaveNoHistory /\ PricedByHistory
  BY DEF TypeInv, TypeOK, TierInv
<1>2. \A pair \in Campaigns \X Influencers :
        /\ tiers'[pair].enrolled => Contiguous(tiers'[pair])
        /\ ~ tiers'[pair].enrolled => tiers'[pair].history = <<>>
        /\ HistoryKept(tiers[pair], tiers'[pair])
  BY <1>1, HistoriesGrow
<1>3. HistoryIsContiguous' /\ UnenrolledHaveNoHistory'
  BY <1>1, <1>2 DEF HistoryIsContiguous, UnenrolledHaveNoHistory, Contiguous
<1>4. ASSUME NEW o \in OrderIds, commissions'[o].state # "NONE"
      PROVE  \E c \in Campaigns : \E k \in DOMAIN tiers'[<<c, OwnerOf(o)'>>].history :
               commissions'[o].amount =
                 RoundedShare(commissions'[o].eligible, tiers'[<<c, OwnerOf(o)'>>].history[k].percent)
  <2>1. CASE /\ commissions[o].state # "NONE"
             /\ commissions'[o].amount = commissions[o].amount
             /\ commissions'[o].eligible = commissions[o].eligible
    <3>1. PICK c \in Campaigns : \E k \in DOMAIN tiers[<<c, OwnerOf(o)>>].history :
            commissions[o].amount =
              RoundedShare(commissions[o].eligible, tiers[<<c, OwnerOf(o)>>].history[k].percent)
      BY <1>1, <2>1 DEF PricedByHistory
    <3>2. PICK k \in DOMAIN tiers[<<c, OwnerOf(o)>>].history :
            commissions[o].amount =
              RoundedShare(commissions[o].eligible, tiers[<<c, OwnerOf(o)>>].history[k].percent)
      BY <3>1
    <3>3. OwnerOf(o)' = OwnerOf(o)
      BY <2>1, CommissionsKeepOwners
    <3>4. OwnerOf(o) \in Influencers
      BY <2>1, LedgerConstants DEF OwnerOf, TypeInv, TypeOK, CommissionsAreAttributed, Order,
         LedgerConstants
    <3>5. HistoryKept(tiers[<<c, OwnerOf(o)>>], tiers'[<<c, OwnerOf(o)>>])
      BY <1>2, <3>4
    <3>6. /\ k \in DOMAIN tiers'[<<c, OwnerOf(o)'>>].history
          /\ tiers'[<<c, OwnerOf(o)'>>].history[k].percent = tiers[<<c, OwnerOf(o)>>].history[k].percent
      BY <3>2, <3>3, <3>5 DEF HistoryKept
    <3>7. QED
      BY <2>1, <3>2, <3>6
  <2>2. QED
    BY <1>1, <1>4, <2>1, CommissionsArePriced
<1>5. PricedByHistory'
  BY <1>4 DEF PricedByHistory
<1>6. QED
  BY <1>3, <1>5 DEF TierInv

\* The invariant holds in every reachable state.
THEOREM TierInvariance == Spec => []TierInv
<1>1. TypeInv /\ TypeInv' /\ TierInv /\ [Next]_vars => TierInv'
  BY NextTierInv
<1>2. QED
  BY <1>1, InitTierInv, TypeInvariance, PTL DEF Spec

\* The history of an assignment is one unbroken line whose last period is the tier
\* in force, whatever the programs and the dates of the evaluations.
THEOREM HistoryCorrectness == Spec => []HistoryIsContiguous
<1>1. TierInv => HistoryIsContiguous
  BY DEF TierInv
<1>2. QED
  BY <1>1, TierInvariance, PTL

\* Every commission is the share that a period of its influencer's own history
\* gives, however the tier has changed since.
THEOREM PricingCorrectness == Spec => []PricedByHistory
<1>1. TierInv => PricedByHistory
  BY DEF TierInv
<1>2. QED
  BY <1>1, TierInvariance, PTL

----------------------------------------------------------------------------
(* Tiers are earned. *)

\* All sales above zero that an influencer has confirmed in a campaign.
AllConfirmedSales(c, i) ==
  Total([o \in OrderIds |->
           IF /\ commissions[o].state = "CONFIRMED"
              /\ OwnerOf(o) = i
              /\ CampaignOf[orders[o].code] = c
           THEN Larger(commissions[o].eligible, 0) ELSE 0], OrderCount)

\* A window holds no more than all of them.
LEMMA WindowsHoldConfirmedSales ==
  ASSUME TypeOK, NEW c, NEW i, NEW start, NEW end
  PROVE  /\ ConfirmedSales(c, i, start, end) \in Int
         /\ AllConfirmedSales(c, i) \in Int
         /\ ConfirmedSales(c, i, start, end) <= AllConfirmedSales(c, i)
<1> DEFINE f == [o \in OrderIds |->
           IF /\ commissions[o].state = "CONFIRMED"
              /\ CampaignOf[orders[o].code] = c
              /\ OwnerOf(o) = i
              /\ start <= commissions[o].confirmedAt
              /\ commissions[o].confirmedAt <= end
           THEN commissions[o].eligible
           ELSE 0]
<1> DEFINE g == [o \in OrderIds |->
           IF /\ commissions[o].state = "CONFIRMED"
              /\ OwnerOf(o) = i
              /\ CampaignOf[orders[o].code] = c
           THEN Larger(commissions[o].eligible, 0) ELSE 0]
<1>1. OrderCount \in Nat
  BY LedgerConstants DEF LedgerConstants
<1>2. ASSUME NEW o \in OrderIds
      PROVE  f[o] \in Int /\ g[o] \in Int /\ f[o] <= g[o]
  <2>1. commissions[o].eligible \in Int
    BY DEF TypeOK, Commission
  <2>2. QED
    BY <2>1 DEF Larger
<1>3. f \in [1..OrderCount -> Int] /\ g \in [1..OrderCount -> Int]
  BY <1>2 DEF OrderIds
<1>4. ConfirmedSales(c, i, start, end) = Total(f, OrderCount)
  BY DEF ConfirmedSales
<1>5. AllConfirmedSales(c, i) = Total(g, OrderCount)
  BY DEF AllConfirmedSales
<1> HIDE DEF f, g
<1>6. Total(f, OrderCount) <= Total(g, OrderCount)
  BY <1>1, <1>2, <1>3, TotalMonotonic DEF OrderIds
<1>7. QED
  BY <1>1, <1>3, <1>4, <1>5, <1>6, TotalType

\* One evaluation of one assignment.
LEMMA EvaluatedTierIsEarned ==
  ASSUME TypeOK, NEW c \in Campaigns, NEW i \in Influencers, NEW date \in Time,
         EvaluatedTier(c, i, date).level # tiers[<<c, i>>].level
  PROVE  \/ EvaluatedTier(c, i, date).level = ResolveDefaultTier(c).level
         \/ \E k \in DOMAIN programs[c] :
              /\ programs[c][k].level = EvaluatedTier(c, i, date).level
              /\ programs[c][k].threshold <= AllConfirmedSales(c, i)
<1> DEFINE row  == tiers[<<c, i>>]
<1> DEFINE sales == ConfirmedSales(c, i, row.windowStart, date)
<1> DEFINE next == ResolveTierForSales(c, sales)
<1>1. row \in TierAssignment /\ programs[c] \in Seq(Tier)
  BY LedgerConstants DEF TypeOK, LedgerConstants
<1>2. /\ sales \in Int
      /\ AllConfirmedSales(c, i) \in Int
      /\ sales <= AllConfirmedSales(c, i)
  BY WindowsHoldConfirmedSales
<1>3. EvaluatedTier(c, i, date).level = next.level
  <2>1. CASE date < row.windowStart \/ next.level = row.level
    <3>1. EvaluatedTier(c, i, date).level = row.level
      BY <1>1, <2>1 DEF EvaluatedTier, TierAssignment
    <3>2. QED
      BY <3>1
  <2>2. CASE ~ (date < row.windowStart \/ next.level = row.level)
    BY <1>1, <2>2 DEF EvaluatedTier, TierAssignment
  <2>3. QED
    BY <2>1, <2>2
<1> HIDE DEF sales
<1>4. \/ next = ResolveDefaultTier(c)
      \/ \E k \in DOMAIN programs[c] :
           next = programs[c][k] /\ programs[c][k].threshold <= sales
  BY <1>2, TierForSalesIsReached DEF TypeOK
<1> HIDE DEF next
<1>5. CASE next = ResolveDefaultTier(c)
  BY <1>3, <1>5
<1>6. ASSUME NEW k \in DOMAIN programs[c],
             next = programs[c][k], programs[c][k].threshold <= sales
      PROVE  /\ programs[c][k].level = EvaluatedTier(c, i, date).level
             /\ programs[c][k].threshold <= AllConfirmedSales(c, i)
  <2>1. programs[c][k].threshold \in Int
    <3>1. programs[c][k] \in Tier
      BY <1>1, ElementOfSeq, LenProperties
    <3>2. QED
      BY <3>1 DEF Tier
  <2>2. QED
    BY <1>2, <1>3, <1>6, <2>1
<1>7. QED
  BY <1>4, <1>5, <1>6

\* An assignment only changes its level in an evaluation, and then to the default
\* tier or to one whose threshold the confirmed sales reach.
LEMMA StepsEarnTiers ==
  ASSUME TypeInv, TierInv, [Next]_vars, NEW c \in Campaigns, NEW i \in Influencers,
         tiers[<<c, i>>].enrolled, tiers'[<<c, i>>].level # tiers[<<c, i>>].level
  PROVE  \/ tiers'[<<c, i>>].level = ResolveDefaultTier(c).level
         \/ \E k \in DOMAIN programs[c] :
              /\ programs[c][k].level = tiers'[<<c, i>>].level
              /\ programs[c][k].threshold <= AllConfirmedSales(c, i)
<1>1. TypeOK /\ HistoryIsContiguous /\ UnenrolledHaveNoHistory
      /\ DOMAIN tiers = Campaigns \X Influencers
  BY DEF TypeInv, TypeOK, TierInv
<1>2. tiers' # tiers
  OBVIOUS
<1>3. ASSUME NEW d \in Campaigns, NEW j \in Influencers,
             tiers' = [tiers EXCEPT ![<<d, j>>] = EnsureTierAssignment(d, j)]
      PROVE  FALSE
  <2>1. CASE <<d, j>> = <<c, i>>
    <3>1. tiers'[<<c, i>>] = EnsureTierAssignment(c, i)
      BY <1>1, <1>3, <2>1
    <3>2. EnsureTierAssignment(c, i) = tiers[<<c, i>>]
      BY DEF EnsureTierAssignment
    <3>3. QED
      BY <3>1, <3>2
  <2>2. CASE <<d, j>> # <<c, i>>
    BY <1>1, <1>3, <2>2
  <2>3. QED
    BY <2>1, <2>2
<1>4. PICK date \in Time : EvaluateTiers(date)
  BY <1>1, <1>2, <1>3, AssignmentsAreEnsured
<1>5. tiers'[<<c, i>>] = EvaluatedTier(c, i, date)
  BY <1>1, <1>4 DEF EvaluateTiers
<1>6. QED
  BY <1>1, <1>5, EvaluatedTierIsEarned

\* Nobody is lifted to a tier without the confirmed sales it asks for, whatever the
\* program, the window and the date of the evaluation.
THEOREM TierCorrectness == Spec => TiersAreEarned
<1> DEFINE Step ==
      \A c \in Campaigns, i \in Influencers :
        LET old == tiers[<<c, i>>]
            new == tiers'[<<c, i>>]
            confirmed == Total([o \in OrderIds |->
              IF /\ commissions[o].state = "CONFIRMED"
                 /\ OwnerOf(o) = i
                 /\ CampaignOf[orders[o].code] = c
              THEN Larger(commissions[o].eligible, 0) ELSE 0], OrderCount)
        IN  old.enrolled /\ new.level # old.level =>
              \/ new.level = ResolveDefaultTier(c).level
              \/ \E k \in DOMAIN programs[c] :
                   /\ programs[c][k].level = new.level
                   /\ programs[c][k].threshold <= confirmed
<1>1. TypeInv /\ TierInv /\ [Next]_vars => [Step]_vars
  BY StepsEarnTiers DEF AllConfirmedSales
<1>2. QED
  BY <1>1, TypeInvariance, TierInvariance, PTL DEF Spec, TiersAreEarned

=============================================================================
