--------------------------- MODULE BalanceProofs ---------------------------
(***************************************************************************)
(* What a balance says is what commissions, requests, payments and         *)
(* adjustments say, added up.                                              *)
(*                                                                         *)
(* The program never adds them up: it moves each amount from one bucket to *)
(* another as its commission changes state, reserves and releases amounts  *)
(* as requests are made, decided and paid, and opens and resolves          *)
(* adjustments.  The invariants say that no sequence of these makes the    *)
(* two drift apart, or by how much.                                        *)
(***************************************************************************)
EXTENDS LedgerProofs

----------------------------------------------------------------------------
(* The buckets of a balance are the influencer's commissions, added up. *)

\* What each order contributes to an influencer's bucket for a state.
Share(i, state) ==
  [o \in OrderIds |->
     IF commissions[o].state = state /\ OwnerOf(o) = i THEN commissions[o].amount ELSE 0]

LEMMA CommissionTotalIsTotal ==
  ASSUME NEW i, NEW state
  PROVE  CommissionTotal(i, state) = Total(Share(i, state), OrderCount)
BY DEF CommissionTotal, Share

LEMMA ShareType ==
  ASSUME commissions \in [OrderIds -> Commission], NEW i, NEW state
  PROVE  /\ Share(i, state) \in [1..OrderCount -> Int]
         /\ OrderCount \in Nat
         /\ OrderIds = 1..OrderCount
<1>1. Share(i, state) \in [1..OrderCount -> Int]
  BY DEF Share, OrderIds, Commission
<1>2. OrderCount \in Nat
  BY LedgerConstants DEF LedgerConstants
<1>3. QED
  BY <1>1, <1>2 DEF OrderIds

\* An event takes the old commission out of the owner's buckets and puts the new one
\* in.
LEMMA OrderEventMovesBuckets ==
  ASSUME NEW b \in Balance, NEW previous \in Commission, NEW current \in Commission
  PROVE  LET r == SyncInfluencerBalance(b, previous, current)
             in(commission, state) == IF commission.state = state THEN commission.amount ELSE 0
         IN  /\ r.estimated = b.estimated + in(current, "ESTIMATED") - in(previous, "ESTIMATED")
             /\ r.confirmed = b.confirmed + in(current, "CONFIRMED") - in(previous, "CONFIRMED")
             /\ r.reverted  = b.reverted + in(current, "REVERTED") - in(previous, "REVERTED")
<1> DEFINE p == ApplyBalanceDelta(b, previous.state, -previous.amount)
<1> DEFINE q == ApplyBalanceDelta(p, current.state, current.amount)
<1>1. previous.amount \in Int /\ -previous.amount \in Int /\ current.amount \in Int
  BY DEF Commission
<1>2. p \in Balance
  BY <1>1, ApplyBalanceDeltaType
<1>3. /\ p.estimated = b.estimated - (IF previous.state = "ESTIMATED" THEN previous.amount ELSE 0)
      /\ p.confirmed = b.confirmed - (IF previous.state = "CONFIRMED" THEN previous.amount ELSE 0)
      /\ p.reverted  = b.reverted  - (IF previous.state = "REVERTED" THEN previous.amount ELSE 0)
  BY <1>1 DEF ApplyBalanceDelta, Balance
<1> HIDE DEF p
<1>4. /\ q.estimated = p.estimated + (IF current.state = "ESTIMATED" THEN current.amount ELSE 0)
      /\ q.confirmed = p.confirmed + (IF current.state = "CONFIRMED" THEN current.amount ELSE 0)
      /\ q.reverted  = p.reverted  + (IF current.state = "REVERTED" THEN current.amount ELSE 0)
  BY <1>2 DEF ApplyBalanceDelta, Balance
<1>5. q \in Balance
  BY <1>1, <1>2, ApplyBalanceDeltaType
<1>6. SyncInfluencerBalance(b, previous, current) = Recalculate(q)
  BY DEF SyncInfluencerBalance, p
<1> HIDE DEF q
<1>7. /\ Recalculate(q).estimated = q.estimated
      /\ Recalculate(q).confirmed = q.confirmed
      /\ Recalculate(q).reverted = q.reverted
  BY <1>5 DEF Recalculate, Balance
<1>8. /\ b.estimated \in Int /\ b.confirmed \in Int /\ b.reverted \in Int
  BY DEF Balance
<1>9. QED
  BY <1>1, <1>3, <1>4, <1>6, <1>7, <1>8

LEMMA OrderStepKeepsMatch ==
  ASSUME TypeInv, TypeOK', BalancesMatchCommissions, OrderStep
  PROVE  BalancesMatchCommissions'
<1>1. PICK o \in OrderIds, coupon \in Codes \cup {None}, status \in OrderStatuses,
           event \in EventTypes, eligible \in EligibleAmounts :
             RegisterOrderEvent(o, coupon, status, event, eligible)
  BY DEF OrderStep
<1> DEFINE order == UpdatedOrder(o, coupon, status)
<1> DEFINE owner == InfluencerOf[order.code]
<1> DEFINE assignment == EnsureTierAssignment(PricingCampaign(o, coupon), owner)
<1> DEFINE current == UpdatedCommission(o, event, eligible, assignment.percent)
<1>2. orders' = [orders EXCEPT ![o] = order]
  BY <1>1 DEF RegisterOrderEvent
<1>3. commissions[o].state # "NONE" => order.code = orders[o].code /\ order.code # None
  BY DEF TypeInv, TypeOK, CommissionsAreAttributed, UpdatedOrder, Order
<1>4. CASE order.code = None
  <2>1. commissions' = commissions /\ balances' = balances
    BY <1>1, <1>4 DEF RegisterOrderEvent
  <2>2. ASSUME NEW q \in OrderIds, commissions[q].state # "NONE"
        PROVE  OwnerOf(q)' = OwnerOf(q)
    <3>1. q # o
      BY <1>3, <1>4, <2>2
    <3>2. orders'[q] = orders[q]
      BY <1>2, <3>1 DEF TypeInv, TypeOK
    <3>3. QED
      BY <3>2 DEF OwnerOf
  <2>3. ASSUME NEW i \in Influencers, NEW state \in CommissionStates
        PROVE  CommissionTotal(i, state)' = CommissionTotal(i, state)
    <3>1. \A q \in OrderIds : Share(i, state)'[q] = Share(i, state)[q]
      BY <2>1, <2>2 DEF Share, CommissionStates
    <3>2. Share(i, state)' = Share(i, state)
      BY <3>1 DEF Share
    <3>3. CommissionTotal(i, state)' = Total(Share(i, state)', OrderCount)
      BY DEF CommissionTotal, Share
    <3>4. QED
      BY <3>2, <3>3, CommissionTotalIsTotal
  <2>4. QED
    BY <2>1, <2>3 DEF BalancesMatchCommissions, CommissionStates
<1>5. CASE order.code # None
  <2>1. /\ commissions' = [commissions EXCEPT ![o] = current]
        /\ balances' = [balances EXCEPT ![owner] =
                          SyncInfluencerBalance(balances[owner], commissions[o], current)]
    BY <1>1, <1>5 DEF RegisterOrderEvent
  <2>2. owner \in Influencers /\ current \in Commission /\ commissions[o] \in Commission
    BY <1>5, OrderEventRows DEF TypeInv, TypeOK
  <2>3. OwnerOf(o)' = owner /\ \A q \in OrderIds : q # o => orders'[q] = orders[q]
    BY <1>2 DEF OwnerOf, TypeInv, TypeOK
  <2>4. commissions[o].state # "NONE" => OwnerOf(o) = owner
    BY <1>3 DEF OwnerOf
  <2> HIDE DEF order, owner, assignment, current
  <2>5. ASSUME NEW i \in Influencers, NEW state \in CommissionStates
        PROVE  CommissionTotal(i, state)' =
                 CommissionTotal(i, state)
                   + (IF i = owner /\ current.state = state THEN current.amount ELSE 0)
                   - (IF i = owner /\ commissions[o].state = state
                      THEN commissions[o].amount ELSE 0)
    <3> DEFINE f == Share(i, state)
    <3> DEFINE g == Share(i, state)'
    <3>1. /\ f \in [1..OrderCount -> Int]
          /\ OrderCount \in Nat /\ o \in 1..OrderCount /\ OrderIds = 1..OrderCount
      BY ShareType DEF TypeInv, TypeOK
    <3>2. g \in [1..OrderCount -> Int]
      <4>1. commissions' \in [OrderIds -> Commission]
        BY DEF TypeOK
      <4>2. QED
        BY <4>1 DEF Share, OrderIds, Commission
    <3>3. ASSUME NEW q \in OrderIds, q # o PROVE g[q] = f[q]
      <4>1. commissions'[q] = commissions[q] /\ orders'[q] = orders[q]
        BY <2>1, <2>3, <3>3 DEF TypeInv, TypeOK
      <4>2. QED
        BY <4>1 DEF Share, OwnerOf
    <3>4. g[o] = IF i = owner /\ current.state = state THEN current.amount ELSE 0
      <4>1. commissions'[o] = current
        BY <2>1 DEF TypeInv, TypeOK
      <4>2. QED
        BY <2>3, <4>1 DEF Share
    <3>5. f[o] = IF i = owner /\ commissions[o].state = state THEN commissions[o].amount ELSE 0
      BY <2>4 DEF Share, CommissionStates
    <3>6. CommissionTotal(i, state) = Total(f, OrderCount)
      BY CommissionTotalIsTotal
    <3>7. CommissionTotal(i, state)' = Total(g, OrderCount)
      BY DEF CommissionTotal, Share
    <3> HIDE DEF f, g
    <3>8. Total(g, OrderCount) = Total(f, OrderCount) + g[o] - f[o]
      BY <3>1, <3>2, <3>3, TotalOfChange
    <3>9. Total(f, OrderCount) \in Int /\ f[o] \in Int /\ g[o] \in Int
      BY <3>1, <3>2, TotalType
    <3>10. QED
      BY <3>4, <3>5, <3>6, <3>7, <3>8, <3>9
  <2>6. ASSUME NEW i \in Influencers
        PROVE  /\ balances'[i].estimated = CommissionTotal(i, "ESTIMATED")'
               /\ balances'[i].confirmed = CommissionTotal(i, "CONFIRMED")'
               /\ balances'[i].reverted  = CommissionTotal(i, "REVERTED")'
    <3>1. /\ balances[i].estimated = CommissionTotal(i, "ESTIMATED")
          /\ balances[i].confirmed = CommissionTotal(i, "CONFIRMED")
          /\ balances[i].reverted  = CommissionTotal(i, "REVERTED")
      BY DEF BalancesMatchCommissions
    <3>2. /\ balances[i] \in Balance
          /\ balances[i].estimated \in Int
          /\ balances[i].confirmed \in Int
          /\ balances[i].reverted \in Int
      BY DEF TypeInv, TypeOK, Balance
    <3>3. CASE i = owner
      <4>1. balances'[i] = SyncInfluencerBalance(balances[i], commissions[o], current)
        BY <2>1, <3>3 DEF TypeInv, TypeOK
      <4>2. QED
        BY <2>2, <2>5, <3>1, <3>2, <3>3, <4>1, OrderEventMovesBuckets DEF CommissionStates
    <3>4. CASE i # owner
      <4>1. balances'[i] = balances[i]
        BY <2>1, <3>4 DEF TypeInv, TypeOK
      <4>2. QED
        BY <2>5, <3>1, <3>2, <3>4, <4>1 DEF CommissionStates
    <3>5. QED
      BY <3>3, <3>4
  <2>7. QED
    BY <2>6 DEF BalancesMatchCommissions
<1>6. QED
  BY <1>4, <1>5

\* What a settlement moves: confirmed amounts out of one bucket into the next,
\* reverted ones out of that.
LEMMA SettlementMovesTotals ==
  ASSUME TypeInv, TypeOK', NEW date \in Time, NEW waiting \in WaitingPeriods,
         RunSettlement(date, waiting), NEW i \in Influencers
  PROVE  LET gained == ConfirmedTotal(i, date - waiting)
             lost   == RevertedTotal(i)
         IN  /\ gained \in Int /\ lost \in Int
             /\ CommissionTotal(i, "ESTIMATED")' = CommissionTotal(i, "ESTIMATED") - gained
             /\ CommissionTotal(i, "CONFIRMED")' = CommissionTotal(i, "CONFIRMED") + gained - lost
             /\ CommissionTotal(i, "REVERTED")'  = CommissionTotal(i, "REVERTED") + lost
<1> DEFINE threshold == date - waiting
<1> DEFINE gained == [o \in OrderIds |->
           IF IsConfirmation(o, threshold) /\ OwnerOf(o) = i THEN commissions[o].amount ELSE 0]
<1> DEFINE lost == [o \in OrderIds |->
           IF IsReversal(o) /\ OwnerOf(o) = i THEN commissions[o].amount ELSE 0]
<1> DEFINE old(state) == Share(i, state)
<1> DEFINE new(state) == Share(i, state)'
<1> DEFINE kept == [o \in OrderIds |-> old("CONFIRMED")[o] + gained[o]]
<1>1. OrderCount \in Nat /\ OrderIds = 1..OrderCount
  BY LedgerConstants DEF LedgerConstants, OrderIds
<1>2. commissions \in [OrderIds -> Commission] /\ commissions' \in [OrderIds -> Commission]
  BY DEF TypeInv, TypeOK
<1>3. gained \in [1..OrderCount -> Int] /\ lost \in [1..OrderCount -> Int]
  BY <1>1, <1>2 DEF Commission
<1>4. ASSUME NEW state PROVE old(state) \in [1..OrderCount -> Int]
  BY <1>2, ShareType
<1>5. ASSUME NEW state PROVE new(state) \in [1..OrderCount -> Int]
  BY <1>1, <1>2 DEF Share, Commission
<1>6. kept \in [1..OrderCount -> Int]
  <2> HIDE DEF gained, old
  <2>1. QED
    BY <1>1, <1>3, <1>4
<1>7. ASSUME NEW o \in OrderIds
      PROVE  /\ commissions'[o] = SettledCommission(o, date, threshold)
             /\ OwnerOf(o)' = OwnerOf(o)
  BY DEF RunSettlement, OwnerOf
<1>8. ASSUME NEW o \in OrderIds
      PROVE  /\ old("ESTIMATED")[o] = new("ESTIMATED")[o] + gained[o]
             /\ kept[o] = new("CONFIRMED")[o] + lost[o]
             /\ new("REVERTED")[o] = old("REVERTED")[o] + lost[o]
  <2>1. commissions[o].amount \in Int /\ commissions[o] \in Commission
    BY <1>2 DEF Commission
  <2>2. CASE IsConfirmation(o, threshold)
    <3>1. /\ commissions[o].state = "ESTIMATED"
          /\ commissions'[o].state = "CONFIRMED"
          /\ commissions'[o].amount = commissions[o].amount
          /\ ~ IsReversal(o)
      BY <1>7, <2>1, <2>2 DEF SettledCommission, IsConfirmation, IsReversal, Commission
    <3>2. QED
      BY <1>7, <2>1, <2>2, <3>1 DEF Share
  <2>3. CASE ~ IsConfirmation(o, threshold) /\ IsReversal(o)
    <3>1. /\ commissions[o].state = "CONFIRMED"
          /\ commissions'[o].state = "REVERTED"
          /\ commissions'[o].amount = commissions[o].amount
      BY <1>7, <2>1, <2>3 DEF SettledCommission, IsReversal, Commission
    <3>2. QED
      BY <1>7, <2>1, <2>3, <3>1 DEF Share
  <2>4. CASE ~ IsConfirmation(o, threshold) /\ ~ IsReversal(o)
    <3>1. commissions'[o] = commissions[o]
      BY <1>7, <2>4 DEF SettledCommission
    <3>2. QED
      BY <1>7, <2>1, <2>4, <3>1 DEF Share
  <2>5. QED
    BY <2>2, <2>3, <2>4
<1>9. \A o \in 1..OrderCount : kept[o] = old("CONFIRMED")[o] + gained[o]
  BY <1>1
<1>10. /\ ConfirmedTotal(i, threshold) = Total(gained, OrderCount)
       /\ RevertedTotal(i) = Total(lost, OrderCount)
  BY DEF ConfirmedTotal, RevertedTotal
<1>11. ASSUME NEW state PROVE CommissionTotal(i, state) = Total(old(state), OrderCount)
  BY CommissionTotalIsTotal
<1>12. ASSUME NEW state PROVE CommissionTotal(i, state)' = Total(new(state), OrderCount)
  BY DEF CommissionTotal, Share
<1> HIDE DEF gained, lost, old, new, kept
<1>13. Total(old("ESTIMATED"), OrderCount)
         = Total(new("ESTIMATED"), OrderCount) + Total(gained, OrderCount)
  BY <1>1, <1>3, <1>4, <1>5, <1>8, TotalOfSum
<1>14. Total(kept, OrderCount) = Total(new("CONFIRMED"), OrderCount) + Total(lost, OrderCount)
  BY <1>1, <1>3, <1>5, <1>6, <1>8, TotalOfSum
<1>15. Total(kept, OrderCount) = Total(old("CONFIRMED"), OrderCount) + Total(gained, OrderCount)
  BY <1>1, <1>3, <1>4, <1>6, <1>9, TotalOfSum
<1>16. Total(new("REVERTED"), OrderCount)
         = Total(old("REVERTED"), OrderCount) + Total(lost, OrderCount)
  BY <1>1, <1>3, <1>4, <1>5, <1>8, TotalOfSum
<1>17. /\ Total(gained, OrderCount) \in Int /\ Total(lost, OrderCount) \in Int
       /\ \A state : Total(old(state), OrderCount) \in Int /\ Total(new(state), OrderCount) \in Int
  BY <1>1, <1>3, <1>4, <1>5, TotalType
<1>18. QED
  BY <1>10, <1>11, <1>12, <1>13, <1>14, <1>15, <1>16, <1>17

LEMMA SettlementStepKeepsMatch ==
  ASSUME TypeInv, TypeOK', BalancesMatchCommissions, SettlementStep
  PROVE  BalancesMatchCommissions'
<1>1. PICK date \in Time, waiting \in WaitingPeriods : RunSettlement(date, waiting)
  BY DEF SettlementStep
<1>2. ASSUME NEW i \in Influencers
      PROVE  /\ balances'[i].estimated = CommissionTotal(i, "ESTIMATED")'
             /\ balances'[i].confirmed = CommissionTotal(i, "CONFIRMED")'
             /\ balances'[i].reverted  = CommissionTotal(i, "REVERTED")'
  <2> DEFINE gained == ConfirmedTotal(i, date - waiting)
  <2> DEFINE lost == RevertedTotal(i)
  <2>1. /\ gained \in Int /\ lost \in Int
        /\ CommissionTotal(i, "ESTIMATED")' = CommissionTotal(i, "ESTIMATED") - gained
        /\ CommissionTotal(i, "CONFIRMED")' = CommissionTotal(i, "CONFIRMED") + gained - lost
        /\ CommissionTotal(i, "REVERTED")'  = CommissionTotal(i, "REVERTED") + lost
    BY <1>1, SettlementMovesTotals
  <2>2. /\ balances[i].estimated = CommissionTotal(i, "ESTIMATED")
        /\ balances[i].confirmed = CommissionTotal(i, "CONFIRMED")
        /\ balances[i].reverted  = CommissionTotal(i, "REVERTED")
    BY DEF BalancesMatchCommissions
  <2>3. balances[i] \in Balance
    BY DEF TypeInv, TypeOK
  <2>4. balances'[i] = SettledBalance(i, date - waiting)
    BY <1>1 DEF RunSettlement
  <2>5. /\ SettledBalance(i, date - waiting).estimated = balances[i].estimated - gained
        /\ SettledBalance(i, date - waiting).confirmed = balances[i].confirmed + gained - lost
        /\ SettledBalance(i, date - waiting).reverted  = balances[i].reverted + lost
    BY <2>3 DEF SettledBalance, Recalculate, Balance
  <2>6. QED
    BY <2>1, <2>2, <2>4, <2>5
<1>3. QED
  BY <1>2 DEF BalancesMatchCommissions

\* Two balances with the same buckets.
SameBuckets(b, c) ==
  b.estimated = c.estimated /\ b.confirmed = c.confirmed /\ b.reverted = c.reverted

LEMMA PayoutsKeepBuckets ==
  ASSUME NEW b \in Balance
  PROVE  /\ SameBuckets(Recalculate(b), b)
         /\ \A amount \in Int : /\ SameBuckets(Reserved(b, amount), b)
                                /\ SameBuckets(Released(b, amount), b)
                                /\ SameBuckets(PaidOut(b, amount), b)
         /\ \A rows, i : SameBuckets(RefreshBalanceAdjustments(b, rows, i), b)
BY DEF SameBuckets, Recalculate, Reserved, Released, PaidOut, RefreshBalanceAdjustments, Balance

LEMMA OtherStepsKeepBuckets ==
  ASSUME TypeInv,
         Tick \/ PartnerStep \/ TierStep \/ WithdrawalStep \/ PaymentStep \/ AdjustmentStep,
         NEW i \in Influencers
  PROVE  SameBuckets(balances'[i], balances[i])
<1>1. balances \in [Influencers -> Balance] /\ balances[i] \in Balance
  BY DEF TypeInv, TypeOK
<1>2. SameBuckets(balances[i], balances[i])
  BY DEF SameBuckets
<1>3. CASE balances' = balances
  BY <1>2, <1>3
<1>4. CASE WithdrawalStep
  <2>1. ASSUME NEW w \in WithdrawalIds, NEW j \in Influencers, NEW brand \in Brands,
               NEW amount \in RequestAmounts, RequestWithdrawal(w, j, brand, amount)
        PROVE  SameBuckets(balances'[i], balances[i])
    <3>1. balances' = [balances EXCEPT ![j] = Reserved(balances[j], amount)]
      BY <2>1 DEF RequestWithdrawal
    <3>2. amount \in Int
      BY WithdrawalConstants DEF WithdrawalConstants
    <3>3. QED
      BY <1>1, <1>2, <3>1, <3>2, PayoutsKeepBuckets
  <2>2. ASSUME NEW w \in WithdrawalIds, NEW decision \in {"approved", "rejected"},
               DecideWithdrawal(w, decision)
        PROVE  SameBuckets(balances'[i], balances[i])
    <3>1. withdrawals[w].amount \in Int
      BY DEF TypeInv, TypeOK, Withdrawal
    <3>2. QED
      BY <1>1, <1>2, <2>2, <3>1, PayoutsKeepBuckets DEF DecideWithdrawal
  <2>3. QED
    BY <1>4, <2>1, <2>2 DEF WithdrawalStep
<1>5. CASE PaymentStep
  <2>1. ASSUME NEW p \in PaymentIds, NEW w \in WithdrawalIds, NEW amount \in PaymentAmounts,
               NEW ids \in SUBSET AdjustmentIds, RecordPayment(p, w, amount, ids)
        PROVE  SameBuckets(balances'[i], balances[i])
    <3> DEFINE payee == withdrawals[w].influencer
    <3> DEFINE paid == [balances EXCEPT ![payee] = PaidOut(balances[payee], amount)]
    <3>1. amount \in Int
      BY WithdrawalConstants DEF WithdrawalConstants
    <3>2. paid[i] \in Balance
      BY <1>1, <3>1, ReservedType DEF DerivedBalance
    <3>3. SameBuckets(paid[i], balances[i])
      <4> HIDE DEF payee
      <4>1. QED
        BY <1>1, <1>2, <3>1, PayoutsKeepBuckets
    <3>4. balances'[i] = IF i \in OwnersOf(ids)
                         THEN RefreshBalanceAdjustments(paid[i], Resolved(ids, p), i)
                         ELSE paid[i]
      BY <2>1 DEF RecordPayment
    <3> HIDE DEF paid
    <3>5. SameBuckets(RefreshBalanceAdjustments(paid[i], Resolved(ids, p), i), paid[i])
      BY <3>2, PayoutsKeepBuckets
    <3>6. QED
      BY <3>3, <3>4, <3>5 DEF SameBuckets
  <2>2. ASSUME NEW w \in WithdrawalIds, NEW amount \in PaymentAmounts, RefusePayment(w, amount)
        PROVE  SameBuckets(balances'[i], balances[i])
    BY <1>2, <2>2 DEF RefusePayment
  <2>3. QED
    BY <1>5, <2>1, <2>2 DEF PaymentStep
<1>6. CASE AdjustmentStep
  <2>1. PICK j, rows : balances' = [balances EXCEPT ![j] =
                                      RefreshBalanceAdjustments(balances[j], rows, j)]
    BY <1>6 DEF AdjustmentStep, RecordReconciliation, ResolveWithdrawalAdjustment
  <2>2. QED
    BY <1>1, <1>2, <2>1, PayoutsKeepBuckets
<1>7. CASE Tick \/ PartnerStep \/ TierStep
  BY <1>3, <1>7 DEF Tick, PartnerStep, TierStep, UpdateInfluencerStatus,
     AssignInfluencerToCampaign, UpdateCampaignTiers, EvaluateTiers
<1>8. QED
  BY <1>4, <1>5, <1>6, <1>7

LEMMA UnchangedKeepsTotals ==
  ASSUME UNCHANGED orderVars, NEW i, NEW state
  PROVE  CommissionTotal(i, state)' = CommissionTotal(i, state)
BY DEF CommissionTotal, OwnerOf, orderVars

\* In every reachable state the estimated, confirmed and reverted amounts of every
\* balance are the influencer's commissions in those states, added up: however many
\* orders there are and however often events are repeated or reordered, settlements
\* rerun or backdated, and tiers changed in between.
THEOREM BalanceCorrectness == Spec => []BalancesMatchCommissions
<1>1. Init => BalancesMatchCommissions
  <2>1. SUFFICES ASSUME Init, NEW i \in Influencers, NEW state \in CommissionStates
                 PROVE  CommissionTotal(i, state) = 0
    BY DEF BalancesMatchCommissions, Init, EmptyBalance, CommissionStates
  <2>2. commissions \in [OrderIds -> Commission]
    BY <2>1, InitTypeOK DEF TypeOK
  <2>3. \A o \in OrderIds : Share(i, state)[o] = 0
    BY <2>1 DEF Init, Share, CommissionStates
  <2>4. QED
    BY <2>2, <2>3, ShareType, TotalOfZeros, CommissionTotalIsTotal
<1>2. TypeInv /\ TypeInv' /\ BalancesMatchCommissions /\ [Next]_vars
        => BalancesMatchCommissions'
  <2>1. SUFFICES ASSUME TypeInv, TypeInv', BalancesMatchCommissions, [Next]_vars
                 PROVE  BalancesMatchCommissions'
    OBVIOUS
  <2>2. TypeOK'
    BY <2>1 DEF TypeInv
  <2>3. CASE OrderStep
    BY <2>1, <2>2, <2>3, OrderStepKeepsMatch
  <2>4. CASE SettlementStep
    BY <2>1, <2>2, <2>4, SettlementStepKeepsMatch
  <2>5. CASE Tick \/ PartnerStep \/ TierStep \/ WithdrawalStep \/ PaymentStep \/ AdjustmentStep
    <3>1. \A i \in Influencers : SameBuckets(balances'[i], balances[i])
      BY <2>1, <2>5, OtherStepsKeepBuckets
    <3>2. UNCHANGED orderVars
      BY <2>5, OtherStepsKeepOrders
    <3>3. \A i, state : CommissionTotal(i, state)' = CommissionTotal(i, state)
      BY <3>2, UnchangedKeepsTotals
    <3>4. QED
      BY <2>1, <3>1, <3>3 DEF BalancesMatchCommissions, SameBuckets
  <2>6. CASE UNCHANGED vars
    <3>1. balances' = balances /\ UNCHANGED orderVars
      BY <2>6 DEF vars, orderVars
    <3>2. \A i, state : CommissionTotal(i, state)' = CommissionTotal(i, state)
      BY <3>1, UnchangedKeepsTotals
    <3>3. QED
      BY <2>1, <3>1, <3>2 DEF BalancesMatchCommissions
  <2>7. QED
    BY <2>1, <2>3, <2>4, <2>5, <2>6 DEF Next
<1>3. QED
  BY <1>1, <1>2, TypeInvariance, PTL DEF Spec

----------------------------------------------------------------------------
(* A settlement that is run again. *)

\* What a settlement leaves estimated it may not confirm, and what it leaves confirmed
\* it may not revert: the same run finds nothing more to do.
LEMMA SettlementLeavesNothing ==
  ASSUME TypeInv, NEW date \in Time, NEW waiting \in WaitingPeriods,
         RunSettlement(date, waiting), NEW o \in OrderIds
  PROVE  ~ IsConfirmation(o, date - waiting)' /\ ~ IsReversal(o)'
<1> DEFINE threshold == date - waiting
<1>1. /\ commissions'[o] = SettledCommission(o, date, threshold)
      /\ orders' = orders
      /\ commissions[o] \in Commission
  BY DEF RunSettlement, TypeInv, TypeOK
<1>2. CASE IsConfirmation(o, threshold)
  <2>1. commissions'[o].state = "CONFIRMED"
    BY <1>1, <1>2 DEF SettledCommission, Commission
  <2>2. orders[o].status \in {"paid", "invoiced", "shipped"}
    BY <1>2 DEF IsConfirmation, ShouldConfirmCommission
  <2>3. QED
    BY <1>1, <2>1, <2>2 DEF IsConfirmation, IsReversal
<1>3. CASE ~ IsConfirmation(o, threshold) /\ IsReversal(o)
  <2>1. commissions'[o].state = "REVERTED"
    BY <1>1, <1>3 DEF SettledCommission, Commission
  <2>2. QED
    BY <2>1 DEF IsConfirmation, IsReversal
<1>4. CASE ~ IsConfirmation(o, threshold) /\ ~ IsReversal(o)
  <2>1. commissions'[o] = commissions[o]
    BY <1>1, <1>4 DEF SettledCommission
  <2>2. QED
    BY <1>1, <1>4, <2>1 DEF IsConfirmation, IsReversal, ShouldConfirmCommission
<1>5. QED
  BY <1>2, <1>3, <1>4

\* So it moves no amount either.
LEMMA SettlementMovesNothing ==
  ASSUME TypeInv, TypeOK', AvailableIsDerived', NEW date \in Time, NEW waiting \in WaitingPeriods,
         RunSettlement(date, waiting), NEW i \in Influencers
  PROVE  SettledBalance(i, date - waiting)' = balances'[i]
<1> DEFINE threshold == date - waiting
<1> DEFINE gained == [o \in OrderIds |->
           IF IsConfirmation(o, threshold) /\ OwnerOf(o) = i THEN commissions[o].amount ELSE 0]
<1> DEFINE lost == [o \in OrderIds |->
           IF IsReversal(o) /\ OwnerOf(o) = i THEN commissions[o].amount ELSE 0]
<1>1. ASSUME NEW o \in OrderIds PROVE gained'[o] = 0 /\ lost'[o] = 0
  BY SettlementLeavesNothing
<1>2. /\ OrderCount \in Nat /\ OrderIds = 1..OrderCount
      /\ gained' \in [1..OrderCount -> Int] /\ lost' \in [1..OrderCount -> Int]
  <2>1. OrderCount \in Nat /\ OrderIds = 1..OrderCount
    BY LedgerConstants DEF LedgerConstants, OrderIds
  <2>2. commissions' \in [OrderIds -> Commission]
    BY DEF TypeOK
  <2>3. QED
    BY <2>1, <2>2 DEF Commission
<1>3. /\ ConfirmedTotal(i, threshold)' = Total(gained', OrderCount)
      /\ RevertedTotal(i)' = Total(lost', OrderCount)
  BY DEF ConfirmedTotal, RevertedTotal
<1> HIDE DEF gained, lost
<1>4. ConfirmedTotal(i, threshold)' = 0 /\ RevertedTotal(i)' = 0
  BY <1>1, <1>2, <1>3, TotalOfZeros
<1>5. SettledBalance(i, threshold)' =
        Recalculate([balances'[i] EXCEPT
          !.estimated = @ - ConfirmedTotal(i, threshold)',
          !.confirmed = @ + ConfirmedTotal(i, threshold)' - RevertedTotal(i)',
          !.reverted  = @ + RevertedTotal(i)'])
  BY DEF SettledBalance, Recalculate
<1>6. balances'[i] \in Balance
      /\ balances'[i].available =
           balances'[i].confirmed - balances'[i].withdrawn - balances'[i].pending
  BY DEF TypeOK, AvailableIsDerived
<1>7. ASSUME NEW b \in Balance, b.available = b.confirmed - b.withdrawn - b.pending
      PROVE  Recalculate([b EXCEPT !.estimated = @ - 0, !.confirmed = @ + 0 - 0,
                                   !.reverted = @ + 0]) = b
  <2>1. b.estimated - 0 = b.estimated /\ b.confirmed + 0 - 0 = b.confirmed /\ b.reverted + 0 = b.reverted
    BY DEF Balance
  <2>2. [b EXCEPT !.estimated = b.estimated, !.confirmed = b.confirmed, !.reverted = b.reverted] = b
    BY DEF Balance
  <2>3. [b EXCEPT !.available = b.available] = b
    BY DEF Balance
  <2>4. QED
    BY <1>7, <2>1, <2>2, <2>3 DEF Recalculate
<1>8. QED
  BY <1>4, <1>5, <1>6, <1>7

\* A settlement that is run again, as of the same date and with the same waiting
\* period, changes neither a commission nor a balance: no amount is posted twice
\* (runSettlement).
THEOREM SettlementIdempotence == Spec => SettlementIsIdempotent
<1> DEFINE Step == orders' = orders /\ commissions' # commissions =>
       \A date \in Time, waiting \in WaitingPeriods :
         RunSettlement(date, waiting) =>
           /\ \A o \in OrderIds :
                SettledCommission(o, date, date - waiting)' = commissions'[o]
           /\ \A i \in Influencers :
                SettledBalance(i, date - waiting)' = balances'[i]
<1> DEFINE Inv == TypeInv /\ AvailableIsDerived
<1>1. Inv /\ Inv' /\ [Next]_vars => [Step]_vars
  <2>1. SUFFICES ASSUME Inv, Inv',
                        NEW date \in Time, NEW waiting \in WaitingPeriods,
                        RunSettlement(date, waiting)
                 PROVE  /\ \A o \in OrderIds :
                             SettledCommission(o, date, date - waiting)' = commissions'[o]
                        /\ \A i \in Influencers :
                             SettledBalance(i, date - waiting)' = balances'[i]
    OBVIOUS
  <2>2. ASSUME NEW o \in OrderIds
        PROVE  SettledCommission(o, date, date - waiting)' = commissions'[o]
    BY <2>1, SettlementLeavesNothing DEF SettledCommission
  <2>3. ASSUME NEW i \in Influencers
        PROVE  SettledBalance(i, date - waiting)' = balances'[i]
    BY <2>1, SettlementMovesNothing DEF TypeInv
  <2>4. QED
    BY <2>2, <2>3
<1>2. Spec => []Inv
  BY TypeInvariance, AvailableCorrectness, PTL
<1>3. QED
  BY <1>1, <1>2, PTL DEF Spec, SettlementIsIdempotent

----------------------------------------------------------------------------
(***************************************************************************)
(* What a balance says is reserved and withdrawn is what the requests and  *)
(* payments say; and, in the second half, what it says of adjustments is   *)
(* what the pending ones add up to.                                        *)
(*                                                                         *)
(* The program keeps both by adding and subtracting, never below nothing,  *)
(* and a payment may be a cent off its request.  The invariant says how    *)
(* far the two may drift apart over any sequence of requests, decisions,   *)
(* refused and recorded payments.                                          *)
(***************************************************************************)

\* A request that exists has somebody who made it, for more than nothing.
RequestsAreMade ==
  \A w \in WithdrawalIds :
    withdrawals[w].status # "none" =>
      withdrawals[w].influencer \in Influencers /\ withdrawals[w].amount > 0

\* A recorded payment has paid a request: no later request takes its place.
PaymentsSettleRequests ==
  \A p \in PaymentIds :
    payments[p].status = "recorded" =>
      /\ payments[p].withdrawal \in WithdrawalIds
      /\ withdrawals[payments[p].withdrawal].status = "paid"

ReservationsAreNotNegative ==
  \A i \in Influencers : balances[i].pending >= 0

\* The inductive invariant: without the first two conjuncts a payment could name
\* nobody's request, or one that is still to be made.
WithdrawalInv ==
  /\ RequestsAreMade
  /\ PaymentsSettleRequests
  /\ ReservationsAreNotNegative
  /\ WithdrawnMatchesPayments
  /\ ReservationsMatchOpenRequests

----------------------------------------------------------------------------
(* What one request and one payment contribute to an influencer's totals.  *)

OpenShare(request, i) ==
  IF request.status \in {"pending", "approved"} /\ request.influencer = i
  THEN request.amount ELSE 0

PaidShare(request, i) ==
  IF request.status = "paid" /\ request.influencer = i THEN 1 ELSE 0

LEMMA ShareTypes ==
  ASSUME NEW rows \in [WithdrawalIds -> Withdrawal], NEW i
  PROVE  /\ [w \in WithdrawalIds |-> OpenShare(rows[w], i)] \in [1..WithdrawalCount -> Int]
         /\ [w \in WithdrawalIds |-> PaidShare(rows[w], i)] \in [1..WithdrawalCount -> Int]
         /\ WithdrawalCount \in Nat
         /\ WithdrawalIds = 1..WithdrawalCount
<1>1. WithdrawalCount \in Nat
  BY LedgerConstants DEF LedgerConstants
<1>2. QED
  BY <1>1 DEF OpenShare, PaidShare, Withdrawal, WithdrawalIds

\* The totals are those of the shares.
LEMMA TotalsOfShares ==
  ASSUME NEW i
  PROVE  /\ OpenTotal(i) =
              Total([w \in WithdrawalIds |-> OpenShare(withdrawals[w], i)], WithdrawalCount)
         /\ PaidCount(i) =
              Total([w \in WithdrawalIds |-> PaidShare(withdrawals[w], i)], WithdrawalCount)
BY DEF OpenTotal, PaidCount, OpenShare, PaidShare

LEMMA TotalsOfSharesPrimed ==
  ASSUME NEW i
  PROVE  /\ OpenTotal(i)' =
              Total([w \in WithdrawalIds |-> OpenShare(withdrawals'[w], i)], WithdrawalCount)
         /\ PaidCount(i)' =
              Total([w \in WithdrawalIds |-> PaidShare(withdrawals'[w], i)], WithdrawalCount)
BY DEF OpenTotal, PaidCount, OpenShare, PaidShare

LEMMA TotalTypes ==
  ASSUME TypeOK, NEW i
  PROVE  /\ OpenTotal(i) \in Int
         /\ PaidCount(i) \in Int
         /\ PaidCount(i) >= 0
<1> DEFINE open == [w \in WithdrawalIds |-> OpenShare(withdrawals[w], i)]
<1> DEFINE paid == [w \in WithdrawalIds |-> PaidShare(withdrawals[w], i)]
<1>1. withdrawals \in [WithdrawalIds -> Withdrawal]
  BY DEF TypeOK
<1>2. /\ open \in [1..WithdrawalCount -> Int] /\ paid \in [1..WithdrawalCount -> Int]
      /\ WithdrawalCount \in Nat /\ WithdrawalIds = 1..WithdrawalCount
  BY <1>1, ShareTypes
<1>3. \A w \in 1..WithdrawalCount : paid[w] >= 0
  BY DEF PaidShare, WithdrawalIds
<1>4. OpenTotal(i) = Total(open, WithdrawalCount) /\ PaidCount(i) = Total(paid, WithdrawalCount)
  BY TotalsOfShares
<1> HIDE DEF open, paid
<1>5. QED
  BY <1>2, <1>3, <1>4, TotalType, TotalNonNegative

LEMMA PaidCountStaysType ==
  ASSUME TypeOK', NEW i
  PROVE  PaidCount(i)' \in Int /\ PaidCount(i)' >= 0
<1> DEFINE paid == [w \in WithdrawalIds |-> PaidShare(withdrawals'[w], i)]
<1>1. withdrawals' \in [WithdrawalIds -> Withdrawal]
  BY DEF TypeOK
<1>2. /\ paid \in [1..WithdrawalCount -> Int]
      /\ WithdrawalCount \in Nat /\ WithdrawalIds = 1..WithdrawalCount
  BY <1>1, ShareTypes
<1>3. \A w \in 1..WithdrawalCount : paid[w] >= 0
  BY DEF PaidShare, WithdrawalIds
<1>4. PaidCount(i)' = Total(paid, WithdrawalCount)
  BY TotalsOfSharesPrimed
<1> HIDE DEF paid
<1>5. QED
  BY <1>2, <1>3, <1>4, TotalType, TotalNonNegative

\* An open request asks for no more than all open requests together.
LEMMA OpenTotalCovers ==
  ASSUME TypeOK, RequestsAreMade, NEW w \in WithdrawalIds, NEW i
  PROVE  OpenTotal(i) >= OpenShare(withdrawals[w], i)
<1> DEFINE open == [v \in WithdrawalIds |-> OpenShare(withdrawals[v], i)]
<1>1. withdrawals \in [WithdrawalIds -> Withdrawal]
  BY DEF TypeOK
<1>2. /\ open \in [1..WithdrawalCount -> Int] /\ w \in 1..WithdrawalCount
      /\ WithdrawalCount \in Nat /\ WithdrawalIds = 1..WithdrawalCount
  BY <1>1, ShareTypes
<1>3. \A v \in WithdrawalIds : open[v] >= 0
  BY <1>1 DEF OpenShare, RequestsAreMade, Withdrawal
<1>4. OpenTotal(i) = Total(open, WithdrawalCount)
  BY TotalsOfShares
<1>5. open[w] = OpenShare(withdrawals[w], i)
  OBVIOUS
<1> HIDE DEF open
<1>6. QED
  BY <1>2, <1>3, <1>4, <1>5, TotalAtLeastOne

\* When one request changes, the totals change by its share.
LEMMA OneRequestChanges ==
  ASSUME TypeOK, TypeOK', NEW w \in WithdrawalIds,
         \A v \in WithdrawalIds : v # w => withdrawals'[v] = withdrawals[v],
         NEW i
  PROVE  /\ OpenTotal(i)' =
              OpenTotal(i) + OpenShare(withdrawals'[w], i) - OpenShare(withdrawals[w], i)
         /\ PaidCount(i)' =
              PaidCount(i) + PaidShare(withdrawals'[w], i) - PaidShare(withdrawals[w], i)
<1> DEFINE open(rows) == [v \in WithdrawalIds |-> OpenShare(rows[v], i)]
<1> DEFINE paid(rows) == [v \in WithdrawalIds |-> PaidShare(rows[v], i)]
<1> DEFINE old == withdrawals
<1> DEFINE next == withdrawals'
<1>1. old \in [WithdrawalIds -> Withdrawal] /\ next \in [WithdrawalIds -> Withdrawal]
  BY DEF TypeOK
<1>2. \A v \in WithdrawalIds : v # w => next[v] = old[v]
  OBVIOUS
<1>3. /\ OpenTotal(i) = Total(open(old), WithdrawalCount)
      /\ PaidCount(i) = Total(paid(old), WithdrawalCount)
      /\ OpenTotal(i)' = Total(open(next), WithdrawalCount)
      /\ PaidCount(i)' = Total(paid(next), WithdrawalCount)
  BY TotalsOfShares, TotalsOfSharesPrimed
<1> HIDE DEF old, next
<1>4. /\ open(old) \in [1..WithdrawalCount -> Int] /\ open(next) \in [1..WithdrawalCount -> Int]
      /\ paid(old) \in [1..WithdrawalCount -> Int] /\ paid(next) \in [1..WithdrawalCount -> Int]
      /\ WithdrawalCount \in Nat /\ WithdrawalIds = 1..WithdrawalCount
  BY <1>1, ShareTypes
<1>5. \A v \in WithdrawalIds :
        v # w => open(next)[v] = open(old)[v] /\ paid(next)[v] = paid(old)[v]
  BY <1>2
<1>6. /\ open(old)[w] = OpenShare(old[w], i) /\ open(next)[w] = OpenShare(next[w], i)
      /\ paid(old)[w] = PaidShare(old[w], i) /\ paid(next)[w] = PaidShare(next[w], i)
  OBVIOUS
<1> HIDE DEF open, paid
<1>7. /\ Total(open(next), WithdrawalCount)
           = Total(open(old), WithdrawalCount) + open(next)[w] - open(old)[w]
      /\ Total(paid(next), WithdrawalCount)
           = Total(paid(old), WithdrawalCount) + paid(next)[w] - paid(old)[w]
  BY <1>4, <1>5, TotalOfChange
<1>8. QED
  BY <1>3, <1>6, <1>7 DEF old, next

----------------------------------------------------------------------------
(* The steps that are not about requests. *)

\* No balance update of the commission engine or of the adjustments touches what is
\* reserved or withdrawn.
LEMMA UpdatesKeepReservations ==
  ASSUME NEW b \in Balance
  PROVE  /\ \A previous \in Commission, current \in Commission :
              LET r == SyncInfluencerBalance(b, previous, current)
              IN  r.pending = b.pending /\ r.withdrawn = b.withdrawn
         /\ \A rows, i :
              LET r == RefreshBalanceAdjustments(b, rows, i)
              IN  r.pending = b.pending /\ r.withdrawn = b.withdrawn
<1>1. ASSUME NEW state, NEW delta, NEW d \in Balance
      PROVE  LET r == ApplyBalanceDelta(d, state, delta)
             IN  r.pending = d.pending /\ r.withdrawn = d.withdrawn
  BY DEF ApplyBalanceDelta, Balance
<1>2. ASSUME NEW d \in Balance
      PROVE  Recalculate(d).pending = d.pending /\ Recalculate(d).withdrawn = d.withdrawn
  BY DEF Recalculate, Balance
<1>3. ASSUME NEW previous \in Commission, NEW current \in Commission
      PROVE  LET r == SyncInfluencerBalance(b, previous, current)
             IN  r.pending = b.pending /\ r.withdrawn = b.withdrawn
  <2> DEFINE p == ApplyBalanceDelta(b, previous.state, -previous.amount)
  <2> DEFINE q == ApplyBalanceDelta(p, current.state, current.amount)
  <2>1. -previous.amount \in Int /\ current.amount \in Int
    BY DEF Commission
  <2>2. p \in Balance /\ q \in Balance
    BY <2>1, ApplyBalanceDeltaType
  <2>3. p.pending = b.pending /\ p.withdrawn = b.withdrawn
    BY <1>1
  <2>4. q.pending = p.pending /\ q.withdrawn = p.withdrawn
    BY <1>1, <2>2
  <2>5. SyncInfluencerBalance(b, previous, current) = Recalculate(q)
    BY DEF SyncInfluencerBalance
  <2> HIDE DEF p, q
  <2>6. QED
    BY <1>2, <2>2, <2>3, <2>4, <2>5
<1>4. ASSUME NEW rows, NEW i
      PROVE  LET r == RefreshBalanceAdjustments(b, rows, i)
             IN  r.pending = b.pending /\ r.withdrawn = b.withdrawn
  BY DEF RefreshBalanceAdjustments, Recalculate, Balance
<1>5. QED
  BY <1>3, <1>4

LEMMA OrderStepKeepsReservations ==
  ASSUME TypeInv, OrderStep, NEW i \in Influencers
  PROVE  /\ balances'[i].pending = balances[i].pending
         /\ balances'[i].withdrawn = balances[i].withdrawn
<1>1. PICK o \in OrderIds, coupon \in Codes \cup {None}, status \in OrderStatuses,
           event \in EventTypes, eligible \in EligibleAmounts :
             RegisterOrderEvent(o, coupon, status, event, eligible)
  BY DEF OrderStep
<1> DEFINE order == UpdatedOrder(o, coupon, status)
<1> DEFINE owner == InfluencerOf[order.code]
<1> DEFINE assignment == EnsureTierAssignment(PricingCampaign(o, coupon), owner)
<1> DEFINE commission == UpdatedCommission(o, event, eligible, assignment.percent)
<1>2. CASE order.code = None
  BY <1>1, <1>2 DEF RegisterOrderEvent
<1>3. CASE order.code # None
  <2>1. balances' = [balances EXCEPT ![owner] =
           SyncInfluencerBalance(balances[owner], commissions[o], commission)]
    BY <1>1, <1>3 DEF RegisterOrderEvent
  <2>2. commission \in Commission /\ commissions[o] \in Commission
    BY <1>3, OrderEventRows DEF TypeInv, TypeOK
  <2>3. balances \in [Influencers -> Balance]
    BY DEF TypeInv, TypeOK
  <2> HIDE DEF order, owner, assignment, commission
  <2>4. QED
    BY <2>1, <2>2, <2>3, UpdatesKeepReservations
<1>4. QED
  BY <1>2, <1>3

LEMMA SettlementStepKeepsReservations ==
  ASSUME TypeInv, SettlementStep, NEW i \in Influencers
  PROVE  /\ balances'[i].pending = balances[i].pending
         /\ balances'[i].withdrawn = balances[i].withdrawn
<1>1. PICK date \in Time, waiting \in WaitingPeriods : RunSettlement(date, waiting)
  BY DEF SettlementStep
<1>2. balances[i] \in Balance
  BY DEF TypeInv, TypeOK
<1>3. balances'[i] = SettledBalance(i, date - waiting)
  BY <1>1 DEF RunSettlement
<1>4. QED
  BY <1>2, <1>3 DEF SettledBalance, Recalculate, Balance

LEMMA AdjustmentStepKeepsReservations ==
  ASSUME TypeInv, AdjustmentStep, NEW i \in Influencers
  PROVE  /\ balances'[i].pending = balances[i].pending
         /\ balances'[i].withdrawn = balances[i].withdrawn
<1>1. balances \in [Influencers -> Balance]
  BY DEF TypeInv, TypeOK
<1>2. ASSUME NEW j, balances' = [balances EXCEPT ![j] =
                                  RefreshBalanceAdjustments(balances[j], adjustments', j)]
      PROVE  /\ balances'[i].pending = balances[i].pending
             /\ balances'[i].withdrawn = balances[i].withdrawn
  BY <1>1, <1>2, UpdatesKeepReservations
<1>3. ASSUME NEW a \in AdjustmentIds, NEW o \in OrderIds, RecordReconciliation(a, o)
      PROVE  \E j : balances' = [balances EXCEPT ![j] =
                                   RefreshBalanceAdjustments(balances[j], adjustments', j)]
  BY <1>3 DEF RecordReconciliation
<1>4. ASSUME NEW a \in AdjustmentIds, ResolveWithdrawalAdjustment(a)
      PROVE  \E j : balances' = [balances EXCEPT ![j] =
                                   RefreshBalanceAdjustments(balances[j], adjustments', j)]
  BY <1>4 DEF ResolveWithdrawalAdjustment
<1>5. QED
  BY <1>2, <1>3, <1>4 DEF AdjustmentStep

LEMMA OtherStepsKeepReservations ==
  ASSUME TypeInv,
         Tick \/ PartnerStep \/ TierStep \/ OrderStep \/ SettlementStep \/ AdjustmentStep
  PROVE  /\ withdrawals' = withdrawals /\ payments' = payments
         /\ \A i \in Influencers :
              /\ balances'[i].pending = balances[i].pending
              /\ balances'[i].withdrawn = balances[i].withdrawn
<1>1. withdrawals' = withdrawals /\ payments' = payments
  <2>1. Tick \/ PartnerStep \/ TierStep => UNCHANGED withdrawalVars
    BY DEF Tick, PartnerStep, TierStep, UpdateInfluencerStatus,
       AssignInfluencerToCampaign, UpdateCampaignTiers, EvaluateTiers
  <2>2. OrderStep \/ SettlementStep => UNCHANGED withdrawalVars
    <3>1. \A o, coupon, status, event, eligible :
            RegisterOrderEvent(o, coupon, status, event, eligible) => UNCHANGED withdrawalVars
      BY DEF RegisterOrderEvent
    <3>2. \A date, waiting : RunSettlement(date, waiting) => UNCHANGED withdrawalVars
      BY DEF RunSettlement
    <3>3. QED
      BY <3>1, <3>2 DEF OrderStep, SettlementStep
  <2>3. AdjustmentStep => UNCHANGED <<withdrawals, payments>>
    BY DEF AdjustmentStep, RecordReconciliation, ResolveWithdrawalAdjustment
  <2>4. QED
    BY <2>1, <2>2, <2>3 DEF withdrawalVars
<1>2. Tick \/ PartnerStep \/ TierStep => balances' = balances
  BY DEF Tick, PartnerStep, TierStep, UpdateInfluencerStatus,
     AssignInfluencerToCampaign, UpdateCampaignTiers, EvaluateTiers
<1>3. QED
  BY <1>1, <1>2, OrderStepKeepsReservations, SettlementStepKeepsReservations,
     AdjustmentStepKeepsReservations

----------------------------------------------------------------------------
(* Payments, added up. *)

PaymentShare(i) ==
  [p \in PaymentIds |->
     IF /\ payments[p].status = "recorded"
        /\ withdrawals[payments[p].withdrawal].influencer = i
     THEN payments[p].amount ELSE 0]

LEMMA PaymentShareType ==
  ASSUME payments \in [PaymentIds -> Payment], NEW i
  PROVE  /\ PaymentShare(i) \in [1..PaymentCount -> Int]
         /\ PaymentCount \in Nat
         /\ PaymentIds = 1..PaymentCount
         /\ PaymentTotal(i) = Total(PaymentShare(i), PaymentCount)
<1>1. PaymentShare(i) \in [1..PaymentCount -> Int]
  BY DEF PaymentShare, PaymentIds, Payment
<1>2. PaymentTotal(i) = Total(PaymentShare(i), PaymentCount)
  BY DEF PaymentTotal, PaymentShare
<1>3. QED
  BY <1>1, <1>2, LedgerConstants DEF LedgerConstants, PaymentIds

\* While nothing is paid and paid requests keep their influencer, what was paid to
\* each stays the same.
LEMMA PaymentTotalKept ==
  ASSUME TypeOK, PaymentsSettleRequests, payments' = payments,
         \A w \in WithdrawalIds : withdrawals[w].status = "paid" =>
           withdrawals'[w].influencer = withdrawals[w].influencer,
         NEW i
  PROVE  PaymentTotal(i)' = PaymentTotal(i)
<1>1. ASSUME NEW p \in PaymentIds
      PROVE  PaymentShare(i)'[p] = PaymentShare(i)[p]
  BY <1>1 DEF PaymentShare, PaymentsSettleRequests
<1>2. PaymentShare(i)' = PaymentShare(i)
  BY <1>1 DEF PaymentShare
<1>3. PaymentTotal(i)' = Total(PaymentShare(i)', PaymentCount)
  BY DEF PaymentTotal, PaymentShare
<1>4. PaymentTotal(i) = Total(PaymentShare(i), PaymentCount)
  BY DEF PaymentTotal, PaymentShare
<1>5. QED
  BY <1>2, <1>3, <1>4

\* A payment adds its amount to what the payee was paid.
LEMMA PaymentAdds ==
  ASSUME TypeOK, TypeOK', PaymentsSettleRequests,
         NEW p \in PaymentIds, NEW w \in WithdrawalIds, NEW amount \in PaymentAmounts,
         NEW ids \in SUBSET AdjustmentIds, RecordPayment(p, w, amount, ids), NEW i
  PROVE  PaymentTotal(i)' =
           PaymentTotal(i) + (IF i = withdrawals[w].influencer THEN amount ELSE 0)
<1> DEFINE f == PaymentShare(i)
<1> DEFINE g == PaymentShare(i)'
<1>1. /\ payments[p].status = "none"
      /\ withdrawals' = [withdrawals EXCEPT ![w].status = "paid"]
      /\ payments' = [payments EXCEPT ![p] =
           [status |-> "recorded", withdrawal |-> w, amount |-> amount, applied |-> ids]]
  BY DEF RecordPayment, IsNextFree
<1>2. /\ payments \in [PaymentIds -> Payment]
      /\ payments' \in [PaymentIds -> Payment]
      /\ withdrawals \in [WithdrawalIds -> Withdrawal]
  BY DEF TypeOK
<1>3. \A v \in WithdrawalIds : withdrawals'[v].influencer = withdrawals[v].influencer
  BY <1>1, <1>2 DEF Withdrawal
<1>4. /\ f \in [1..PaymentCount -> Int] /\ PaymentCount \in Nat
      /\ PaymentIds = 1..PaymentCount /\ p \in 1..PaymentCount
      /\ PaymentTotal(i) = Total(f, PaymentCount)
  BY <1>2, PaymentShareType
<1>5. PaymentTotal(i)' = Total(g, PaymentCount)
  BY DEF PaymentTotal, PaymentShare
<1>6. g \in [1..PaymentCount -> Int]
  BY <1>2 DEF PaymentShare, PaymentIds, Payment
<1>7. ASSUME NEW q \in PaymentIds, q # p PROVE g[q] = f[q]
  <2>1. payments'[q] = payments[q]
    BY <1>1, <1>7
  <2>2. QED
    BY <1>3, <2>1 DEF PaymentShare, PaymentsSettleRequests
<1>8. f[p] = 0
  BY <1>1 DEF PaymentShare
<1>9. g[p] = IF i = withdrawals[w].influencer THEN amount ELSE 0
  <2>1. payments'[p] =
          [status |-> "recorded", withdrawal |-> w, amount |-> amount, applied |-> ids]
    BY <1>1, <1>2
  <2>2. QED
    BY <1>3, <2>1 DEF PaymentShare
<1> HIDE DEF f, g
<1>10. Total(g, PaymentCount) = Total(f, PaymentCount) + g[p] - f[p]
  BY <1>4, <1>6, <1>7, TotalOfChange
<1>11. QED
  BY <1>4, <1>5, <1>6, <1>8, <1>9, <1>10, TotalType

----------------------------------------------------------------------------
(* The arithmetic of a release and of a payment.  P is what the balance    *)
(* reserves, O what open requests ask for, A what the request asks for.    *)

LEMMA ReleaseStaysClose ==
  ASSUME NEW P \in Int, NEW O \in Int, NEW C \in Int, NEW A \in Int,
         A > 0, O >= A, Distance(P, O) <= C
  PROVE  Distance(Larger(P - A, 0), O - A) <= C
BY DEF Distance, Larger

\* A payment X a cent off its request adds one cent to the drift, also when less was
\* reserved than is paid.
LEMMA PaymentStaysClose ==
  ASSUME NEW P \in Int, NEW O \in Int, NEW C \in Int, NEW A \in Int, NEW X \in Int,
         O >= A, Distance(P, O) <= C, Distance(X, A) <= 1
  PROVE  Distance(Larger(P - X, 0), O - A) <= C + 1
BY DEF Distance, Larger

----------------------------------------------------------------------------
(* Each operation keeps the invariant. *)

LEMMA InitWithdrawalInv == Init => WithdrawalInv
<1>1. SUFFICES ASSUME Init PROVE WithdrawalInv
  OBVIOUS
<1>2. TypeOK
  BY <1>1, InitTypeOK
<1>3. /\ \A w \in WithdrawalIds : withdrawals[w].status = "none"
      /\ \A p \in PaymentIds : payments[p].status = "none"
      /\ \A i \in Influencers : balances[i].pending = 0 /\ balances[i].withdrawn = 0
  BY <1>1 DEF Init, EmptyBalance
<1>4. RequestsAreMade /\ PaymentsSettleRequests /\ ReservationsAreNotNegative
  BY <1>3 DEF RequestsAreMade, PaymentsSettleRequests, ReservationsAreNotNegative
<1>5. ASSUME NEW i \in Influencers PROVE PaymentTotal(i) = 0
  <2>1. \A p \in 1..PaymentCount : PaymentShare(i)[p] = 0
    BY <1>3 DEF PaymentShare, PaymentIds
  <2>2. QED
    BY <1>2, <2>1, PaymentShareType, TotalOfZeros DEF TypeOK
<1>6. ASSUME NEW i \in Influencers PROVE OpenTotal(i) = 0 /\ PaidCount(i) >= 0
  <2> DEFINE open == [w \in WithdrawalIds |-> OpenShare(withdrawals[w], i)]
  <2>1. open \in [1..WithdrawalCount -> Int] /\ WithdrawalCount \in Nat
        /\ WithdrawalIds = 1..WithdrawalCount
    BY <1>2, ShareTypes DEF TypeOK
  <2>2. \A w \in WithdrawalIds : open[w] = 0
    BY <1>3 DEF OpenShare
  <2>3. OpenTotal(i) = Total(open, WithdrawalCount)
    BY TotalsOfShares
  <2> HIDE DEF open
  <2>4. QED
    BY <1>2, <2>1, <2>2, <2>3, TotalOfZeros, TotalTypes
<1>7. WithdrawnMatchesPayments /\ ReservationsMatchOpenRequests
  BY <1>2, <1>3, <1>5, <1>6, TotalTypes
  DEF WithdrawnMatchesPayments, ReservationsMatchOpenRequests, Distance
<1>8. QED
  BY <1>4, <1>7 DEF WithdrawalInv

LEMMA OtherStepsKeepWithdrawalInv ==
  ASSUME TypeInv, WithdrawalInv,
         withdrawals' = withdrawals, payments' = payments,
         \A i \in Influencers : /\ balances'[i].pending = balances[i].pending
                                /\ balances'[i].withdrawn = balances[i].withdrawn
  PROVE  WithdrawalInv'
<1>1. RequestsAreMade' /\ PaymentsSettleRequests' /\ ReservationsAreNotNegative'
  BY DEF WithdrawalInv, RequestsAreMade, PaymentsSettleRequests, ReservationsAreNotNegative
<1>2. ASSUME NEW i \in Influencers
      PROVE  /\ PaymentTotal(i)' = PaymentTotal(i)
             /\ OpenTotal(i)' = OpenTotal(i)
             /\ PaidCount(i)' = PaidCount(i)
  BY DEF PaymentTotal, OpenTotal, PaidCount
<1>3. WithdrawnMatchesPayments' /\ ReservationsMatchOpenRequests'
  BY <1>2 DEF WithdrawalInv, WithdrawnMatchesPayments, ReservationsMatchOpenRequests
<1>4. QED
  BY <1>1, <1>3 DEF WithdrawalInv

\* A new request reserves what it asks for.
LEMMA RequestKeepsWithdrawalInv ==
  ASSUME TypeInv, TypeOK', WithdrawalInv,
         NEW w \in WithdrawalIds, NEW i \in Influencers, NEW brand \in Brands,
         NEW amount \in RequestAmounts, RequestWithdrawal(w, i, brand, amount)
  PROVE  WithdrawalInv'
<1>1. /\ withdrawals[w].status = "none"
      /\ amount > 0 /\ amount \in Int
      /\ withdrawals' = [withdrawals EXCEPT ![w] =
           [status |-> "pending", influencer |-> i, amount |-> amount]]
      /\ balances' = [balances EXCEPT ![i] = Reserved(balances[i], amount)]
      /\ payments' = payments
  BY WithdrawalConstants DEF RequestWithdrawal, IsNextFree, CanRequest, WithdrawalConstants
<1>2. /\ withdrawals \in [WithdrawalIds -> Withdrawal]
      /\ balances \in [Influencers -> Balance]
      /\ TypeOK
  BY DEF TypeInv, TypeOK
<1>3. /\ withdrawals'[w] = [status |-> "pending", influencer |-> i, amount |-> amount]
      /\ \A v \in WithdrawalIds : v # w => withdrawals'[v] = withdrawals[v]
  BY <1>1, <1>2
<1>4. ASSUME NEW j \in Influencers
      PROVE  /\ balances'[j].pending = balances[j].pending + (IF j = i THEN amount ELSE 0)
             /\ balances'[j].withdrawn = balances[j].withdrawn
             /\ balances[j].pending \in Int
  BY <1>1, <1>2 DEF Reserved, Recalculate, Balance
<1>5. RequestsAreMade'
  BY <1>1, <1>3 DEF WithdrawalInv, RequestsAreMade
<1>6. PaymentsSettleRequests'
  BY <1>1, <1>3 DEF WithdrawalInv, PaymentsSettleRequests
<1>7. ReservationsAreNotNegative'
  BY <1>1, <1>4 DEF WithdrawalInv, ReservationsAreNotNegative
<1>8. WithdrawnMatchesPayments'
  <2>1. ASSUME NEW j \in Influencers PROVE PaymentTotal(j)' = PaymentTotal(j)
    BY <1>1, <1>2, <1>3, PaymentTotalKept DEF WithdrawalInv
  <2>2. QED
    BY <1>4, <2>1 DEF WithdrawalInv, WithdrawnMatchesPayments
<1>9. ReservationsMatchOpenRequests'
  <2>1. ASSUME NEW j \in Influencers
        PROVE  /\ OpenTotal(j)' = OpenTotal(j) + (IF j = i THEN amount ELSE 0)
               /\ PaidCount(j)' = PaidCount(j)
    <3>1. /\ OpenShare(withdrawals'[w], j) = IF j = i THEN amount ELSE 0
          /\ PaidShare(withdrawals'[w], j) = 0
          /\ OpenShare(withdrawals[w], j) = 0
          /\ PaidShare(withdrawals[w], j) = 0
      BY <1>1, <1>3 DEF OpenShare, PaidShare
    <3>2. OpenTotal(j) \in Int /\ PaidCount(j) \in Int
      BY <1>2, TotalTypes
    <3>3. QED
      BY <1>1, <1>2, <1>3, <3>1, <3>2, OneRequestChanges
  <2>2. ASSUME NEW j \in Influencers
        PROVE  Distance(balances'[j].pending, OpenTotal(j)') <= PaidCount(j)'
    <3>1. /\ OpenTotal(j) \in Int /\ PaidCount(j) \in Int
          /\ Distance(balances[j].pending, OpenTotal(j)) <= PaidCount(j)
      BY <1>2, TotalTypes DEF WithdrawalInv, ReservationsMatchOpenRequests
    <3>2. QED
      BY <1>1, <1>4, <2>1, <3>1 DEF Distance
  <2>3. QED
    BY <2>2 DEF ReservationsMatchOpenRequests
<1>10. QED
  BY <1>5, <1>6, <1>7, <1>8, <1>9 DEF WithdrawalInv

\* An approval, by a decision or by a payment that is then refused, moves no money.
LEMMA ApprovalKeepsWithdrawalInv ==
  ASSUME TypeInv, TypeOK', WithdrawalInv, NEW w \in WithdrawalIds,
         withdrawals[w].status = "pending",
         withdrawals' = [withdrawals EXCEPT ![w].status = "approved"],
         balances' = balances, payments' = payments
  PROVE  WithdrawalInv'
<1>1. /\ withdrawals \in [WithdrawalIds -> Withdrawal]
      /\ TypeOK
  BY DEF TypeInv, TypeOK
<1>2. /\ withdrawals'[w].status = "approved"
      /\ withdrawals'[w].influencer = withdrawals[w].influencer
      /\ withdrawals'[w].amount = withdrawals[w].amount
      /\ \A v \in WithdrawalIds : v # w => withdrawals'[v] = withdrawals[v]
  BY <1>1 DEF Withdrawal
<1>3. RequestsAreMade'
  BY <1>2 DEF WithdrawalInv, RequestsAreMade
<1>4. PaymentsSettleRequests'
  BY <1>2 DEF WithdrawalInv, PaymentsSettleRequests
<1>5. ASSUME NEW j \in Influencers
      PROVE  /\ PaymentTotal(j)' = PaymentTotal(j)
             /\ OpenTotal(j)' = OpenTotal(j)
             /\ PaidCount(j)' = PaidCount(j)
  <2>1. PaymentTotal(j)' = PaymentTotal(j)
    BY <1>1, <1>2, PaymentTotalKept DEF WithdrawalInv
  <2>2. /\ OpenShare(withdrawals'[w], j) = OpenShare(withdrawals[w], j)
        /\ OpenShare(withdrawals[w], j) \in Int
        /\ PaidShare(withdrawals'[w], j) = 0
        /\ PaidShare(withdrawals[w], j) = 0
    BY <1>1, <1>2 DEF OpenShare, PaidShare, Withdrawal
  <2>3. OpenTotal(j) \in Int /\ PaidCount(j) \in Int
    BY <1>1, TotalTypes
  <2>4. QED
    BY <1>1, <1>2, <2>1, <2>2, <2>3, OneRequestChanges
<1>6. /\ ReservationsAreNotNegative'
      /\ WithdrawnMatchesPayments'
      /\ ReservationsMatchOpenRequests'
  BY <1>5 DEF WithdrawalInv, ReservationsAreNotNegative, WithdrawnMatchesPayments,
     ReservationsMatchOpenRequests
<1>7. QED
  BY <1>3, <1>4, <1>6 DEF WithdrawalInv

\* A rejected request gives back what it had reserved, or what is left of it.
LEMMA RejectionKeepsWithdrawalInv ==
  ASSUME TypeInv, TypeOK', WithdrawalInv, NEW w \in WithdrawalIds,
         DecideWithdrawal(w, "rejected")
  PROVE  WithdrawalInv'
<1> DEFINE owner == withdrawals[w].influencer
<1> DEFINE A == withdrawals[w].amount
<1>1. /\ withdrawals[w].status = "pending"
      /\ withdrawals' = [withdrawals EXCEPT ![w].status = "rejected"]
      /\ balances' = [balances EXCEPT ![owner] = Released(balances[owner], A)]
      /\ payments' = payments
  BY DEF DecideWithdrawal, IsDecidable
<1>2. /\ withdrawals \in [WithdrawalIds -> Withdrawal]
      /\ balances \in [Influencers -> Balance]
      /\ TypeOK
  BY DEF TypeInv, TypeOK
<1>3. /\ withdrawals'[w].status = "rejected"
      /\ withdrawals'[w].influencer = owner
      /\ withdrawals'[w].amount = A
      /\ \A v \in WithdrawalIds : v # w => withdrawals'[v] = withdrawals[v]
  BY <1>1, <1>2 DEF Withdrawal
<1>4. owner \in Influencers /\ A > 0 /\ A \in Int
  BY <1>1, <1>2 DEF WithdrawalInv, RequestsAreMade, Withdrawal
<1>5. ASSUME NEW j \in Influencers
      PROVE  /\ balances'[j].pending =
                  IF j = owner THEN Larger(balances[j].pending - A, 0) ELSE balances[j].pending
             /\ balances'[j].withdrawn = balances[j].withdrawn
             /\ balances[j].pending \in Int
  BY <1>1, <1>2, <1>4 DEF Released, Recalculate, Balance
<1>6. RequestsAreMade'
  BY <1>1, <1>3 DEF WithdrawalInv, RequestsAreMade
<1>7. PaymentsSettleRequests'
  BY <1>1, <1>3 DEF WithdrawalInv, PaymentsSettleRequests
<1>8. ReservationsAreNotNegative'
  BY <1>5 DEF WithdrawalInv, ReservationsAreNotNegative, Larger
<1>9. WithdrawnMatchesPayments'
  <2>1. ASSUME NEW j \in Influencers PROVE PaymentTotal(j)' = PaymentTotal(j)
    BY <1>1, <1>2, <1>3, PaymentTotalKept DEF WithdrawalInv
  <2>2. QED
    BY <1>5, <2>1 DEF WithdrawalInv, WithdrawnMatchesPayments
<1>10. ReservationsMatchOpenRequests'
  <2>1. ASSUME NEW j \in Influencers
        PROVE  Distance(balances'[j].pending, OpenTotal(j)') <= PaidCount(j)'
    <3>1. /\ OpenShare(withdrawals'[w], j) = 0
          /\ PaidShare(withdrawals'[w], j) = 0
          /\ OpenShare(withdrawals[w], j) = IF j = owner THEN A ELSE 0
          /\ PaidShare(withdrawals[w], j) = 0
      BY <1>1, <1>3 DEF OpenShare, PaidShare
    <3>2. /\ OpenTotal(j) \in Int /\ PaidCount(j) \in Int
          /\ OpenTotal(j) >= OpenShare(withdrawals[w], j)
      BY <1>2, TotalTypes, OpenTotalCovers DEF WithdrawalInv
    <3>3. /\ OpenTotal(j)' = OpenTotal(j) - (IF j = owner THEN A ELSE 0)
          /\ PaidCount(j)' = PaidCount(j)
      BY <1>2, <1>3, <1>4, <3>1, <3>2, OneRequestChanges
    <3>4. Distance(balances[j].pending, OpenTotal(j)) <= PaidCount(j)
      BY DEF WithdrawalInv, ReservationsMatchOpenRequests
    <3>5. CASE j = owner
      BY <1>4, <1>5, <3>1, <3>2, <3>3, <3>4, <3>5, ReleaseStaysClose
    <3>6. CASE j # owner
      BY <1>5, <3>2, <3>3, <3>4, <3>6
    <3>7. QED
      BY <3>5, <3>6
  <2>2. QED
    BY <2>1 DEF ReservationsMatchOpenRequests
<1>11. QED
  BY <1>6, <1>7, <1>8, <1>9, <1>10 DEF WithdrawalInv

\* What a payment does to the balance of an influencer.
LEMMA PaymentMovesBuckets ==
  ASSUME TypeInv, WithdrawalInv, NEW p \in PaymentIds, NEW w \in WithdrawalIds,
         NEW amount \in PaymentAmounts, NEW ids \in SUBSET AdjustmentIds,
         RecordPayment(p, w, amount, ids), NEW j \in Influencers
  PROVE  /\ withdrawals[w].influencer \in Influencers
         /\ amount \in Int
         /\ balances'[j].pending =
              IF j = withdrawals[w].influencer
              THEN Larger(balances[j].pending - amount, 0) ELSE balances[j].pending
         /\ balances'[j].withdrawn =
              balances[j].withdrawn + (IF j = withdrawals[w].influencer THEN amount ELSE 0)
<1> DEFINE payee == withdrawals[w].influencer
<1> DEFINE paid == [balances EXCEPT ![payee] = PaidOut(balances[payee], amount)]
<1>1. /\ IsPayable(w)
      /\ balances' = [i \in Influencers |->
           IF i \in OwnersOf(ids)
           THEN RefreshBalanceAdjustments(paid[i], Resolved(ids, p), i) ELSE paid[i]]
  BY DEF RecordPayment
<1>2. payee \in Influencers
  BY <1>1 DEF WithdrawalInv, RequestsAreMade, IsPayable
<1>3. amount \in Int
  BY WithdrawalConstants DEF WithdrawalConstants
<1>4. balances \in [Influencers -> Balance]
  BY DEF TypeInv, TypeOK
<1>5. paid[j] \in Balance
  BY <1>3, <1>4, ReservedType DEF DerivedBalance
<1>6. /\ paid[j].pending =
           IF j = payee THEN Larger(balances[j].pending - amount, 0) ELSE balances[j].pending
      /\ paid[j].withdrawn = balances[j].withdrawn + (IF j = payee THEN amount ELSE 0)
  <2>1. CASE j = payee
    BY <1>2, <1>3, <1>4, <2>1 DEF PaidOut, Recalculate, Balance
  <2>2. CASE j # payee
    BY <1>2, <1>3, <1>4, <2>2 DEF Balance
  <2>3. QED
    BY <2>1, <2>2
<1> HIDE DEF paid
<1>7. balances'[j].pending = paid[j].pending /\ balances'[j].withdrawn = paid[j].withdrawn
  BY <1>1, <1>5, UpdatesKeepReservations
<1>8. QED
  BY <1>2, <1>3, <1>6, <1>7

LEMMA PaymentKeepsWithdrawalInv ==
  ASSUME TypeInv, TypeOK', WithdrawalInv, NEW p \in PaymentIds, NEW w \in WithdrawalIds,
         NEW amount \in PaymentAmounts, NEW ids \in SUBSET AdjustmentIds,
         RecordPayment(p, w, amount, ids)
  PROVE  WithdrawalInv'
<1> DEFINE payee == withdrawals[w].influencer
<1> DEFINE A == withdrawals[w].amount
<1>1. /\ withdrawals[w].status \in {"pending", "approved"}
      /\ Distance(amount, A) <= 1
      /\ withdrawals' = [withdrawals EXCEPT ![w].status = "paid"]
      /\ payments' = [payments EXCEPT ![p] =
           [status |-> "recorded", withdrawal |-> w, amount |-> amount, applied |-> ids]]
  BY DEF RecordPayment, IsPayable, MayMatch
<1>2. /\ withdrawals \in [WithdrawalIds -> Withdrawal]
      /\ payments \in [PaymentIds -> Payment]
      /\ balances \in [Influencers -> Balance]
      /\ TypeOK
  BY DEF TypeInv, TypeOK
<1>3. /\ withdrawals'[w].status = "paid"
      /\ withdrawals'[w].influencer = payee
      /\ withdrawals'[w].amount = A
      /\ \A v \in WithdrawalIds : v # w => withdrawals'[v] = withdrawals[v]
  BY <1>1, <1>2 DEF Withdrawal
<1>4. ASSUME NEW j \in Influencers
      PROVE  /\ payee \in Influencers
             /\ amount \in Int /\ A \in Int
             /\ balances[j].pending \in Int /\ balances[j].withdrawn \in Int
             /\ balances'[j].pending =
                  IF j = payee THEN Larger(balances[j].pending - amount, 0)
                  ELSE balances[j].pending
             /\ balances'[j].withdrawn = balances[j].withdrawn + (IF j = payee THEN amount ELSE 0)
  BY <1>2, PaymentMovesBuckets DEF Balance, Withdrawal
<1>5. RequestsAreMade'
  BY <1>1, <1>3 DEF WithdrawalInv, RequestsAreMade
<1>6. PaymentsSettleRequests'
  <2>1. ASSUME NEW q \in PaymentIds, payments'[q].status = "recorded"
        PROVE  /\ payments'[q].withdrawal \in WithdrawalIds
               /\ withdrawals'[payments'[q].withdrawal].status = "paid"
    <3>1. CASE q = p
      BY <1>1, <1>2, <1>3, <3>1
    <3>2. CASE q # p
      BY <1>1, <1>2, <1>3, <2>1, <3>2 DEF WithdrawalInv, PaymentsSettleRequests
    <3>3. QED
      BY <3>1, <3>2
  <2>2. QED
    BY <2>1 DEF PaymentsSettleRequests
<1>7. ReservationsAreNotNegative'
  BY <1>4 DEF WithdrawalInv, ReservationsAreNotNegative, Larger
<1>8. WithdrawnMatchesPayments'
  <2>1. ASSUME NEW j \in Influencers
        PROVE  PaymentTotal(j)' = PaymentTotal(j) + (IF j = payee THEN amount ELSE 0)
    BY <1>2, PaymentAdds DEF WithdrawalInv
  <2>2. QED
    BY <1>4, <2>1 DEF WithdrawalInv, WithdrawnMatchesPayments
<1>9. ReservationsMatchOpenRequests'
  <2>1. ASSUME NEW j \in Influencers
        PROVE  Distance(balances'[j].pending, OpenTotal(j)') <= PaidCount(j)'
    <3>1. /\ OpenShare(withdrawals'[w], j) = 0
          /\ PaidShare(withdrawals'[w], j) = IF j = payee THEN 1 ELSE 0
          /\ OpenShare(withdrawals[w], j) = IF j = payee THEN A ELSE 0
          /\ PaidShare(withdrawals[w], j) = 0
      BY <1>1, <1>3 DEF OpenShare, PaidShare
    <3>2. /\ OpenTotal(j) \in Int /\ PaidCount(j) \in Int
          /\ OpenTotal(j) >= OpenShare(withdrawals[w], j)
      BY <1>2, TotalTypes, OpenTotalCovers DEF WithdrawalInv
    <3>3. /\ OpenTotal(j)' = OpenTotal(j) - (IF j = payee THEN A ELSE 0)
          /\ PaidCount(j)' = PaidCount(j) + (IF j = payee THEN 1 ELSE 0)
      BY <1>2, <1>3, <1>4, <3>1, <3>2, OneRequestChanges
    <3>4. Distance(balances[j].pending, OpenTotal(j)) <= PaidCount(j)
      BY DEF WithdrawalInv, ReservationsMatchOpenRequests
    <3>5. CASE j = payee
      BY <1>1, <1>4, <3>1, <3>2, <3>3, <3>4, <3>5, PaymentStaysClose
    <3>6. CASE j # payee
      BY <1>4, <3>2, <3>3, <3>4, <3>6
    <3>7. QED
      BY <3>5, <3>6
  <2>2. QED
    BY <2>1 DEF ReservationsMatchOpenRequests
<1>10. QED
  BY <1>5, <1>6, <1>7, <1>8, <1>9 DEF WithdrawalInv

LEMMA NextWithdrawalInv ==
  ASSUME TypeInv, TypeOK', WithdrawalInv, Next
  PROVE  WithdrawalInv'
<1>1. CASE Tick \/ PartnerStep \/ TierStep \/ OrderStep \/ SettlementStep \/ AdjustmentStep
  BY <1>1, OtherStepsKeepReservations, OtherStepsKeepWithdrawalInv
<1>2. CASE WithdrawalStep
  <2>1. ASSUME NEW w \in WithdrawalIds, NEW i \in Influencers, NEW brand \in Brands,
               NEW amount \in RequestAmounts, RequestWithdrawal(w, i, brand, amount)
        PROVE  WithdrawalInv'
    BY <2>1, RequestKeepsWithdrawalInv
  <2>2. ASSUME NEW w \in WithdrawalIds, DecideWithdrawal(w, "approved")
        PROVE  WithdrawalInv'
    BY <2>2, ApprovalKeepsWithdrawalInv DEF DecideWithdrawal, IsDecidable
  <2>3. ASSUME NEW w \in WithdrawalIds, DecideWithdrawal(w, "rejected")
        PROVE  WithdrawalInv'
    BY <2>3, RejectionKeepsWithdrawalInv
  <2>4. QED
    BY <1>2, <2>1, <2>2, <2>3 DEF WithdrawalStep
<1>3. CASE PaymentStep
  <2>1. ASSUME NEW w \in WithdrawalIds, NEW amount \in PaymentAmounts, RefusePayment(w, amount)
        PROVE  WithdrawalInv'
    BY <2>1, ApprovalKeepsWithdrawalInv DEF RefusePayment
  <2>2. QED
    BY <1>3, <2>1, PaymentKeepsWithdrawalInv DEF PaymentStep
<1>4. QED
  BY <1>1, <1>2, <1>3 DEF Next

\* The invariant holds in every reachable state.
THEOREM WithdrawalInvariance == Spec => []WithdrawalInv
<1>1. Init => WithdrawalInv
  BY InitWithdrawalInv
<1>2. TypeInv /\ TypeInv' /\ WithdrawalInv /\ [Next]_vars => WithdrawalInv'
  <2>1. SUFFICES ASSUME TypeInv, TypeInv', WithdrawalInv, [Next]_vars PROVE WithdrawalInv'
    OBVIOUS
  <2>2. CASE Next
    BY <2>1, <2>2, NextWithdrawalInv DEF TypeInv
  <2>3. CASE UNCHANGED vars
    BY <2>1, <2>3, OtherStepsKeepWithdrawalInv DEF vars, withdrawalVars
  <2>4. QED
    BY <2>1, <2>2, <2>3
<1>3. QED
  BY <1>1, <1>2, TypeInvariance, PTL DEF Spec

\* What a balance says was withdrawn is what its payments add up to: no payment is
\* booked twice, to somebody else, or not at all (recordPayment).
THEOREM WithdrawnCorrectness == Spec => []WithdrawnMatchesPayments
<1>1. WithdrawalInv => WithdrawnMatchesPayments
  BY DEF WithdrawalInv
<1>2. QED
  BY <1>1, WithdrawalInvariance, PTL

\* What a balance says is reserved is what its open requests ask for, up to one cent
\* for each payment made, although releases and payments never go below nothing
\* (decideWithdrawal, recordPayment).
THEOREM ReservationCorrectness == Spec => []ReservationsMatchOpenRequests
<1>1. WithdrawalInv => ReservationsMatchOpenRequests
  BY DEF WithdrawalInv
<1>2. QED
  BY <1>1, WithdrawalInvariance, PTL

----------------------------------------------------------------------------
(* The available amount. *)

\* While commissions stay as they are, so does what is confirmed.
LEMMA ConfirmedKept ==
  ASSUME TypeInv, [Next]_vars, BalancesMatchCommissions, BalancesMatchCommissions',
         UNCHANGED commissions, NEW i \in Influencers
  PROVE  balances'[i].confirmed = balances[i].confirmed
<1>1. ASSUME NEW o \in OrderIds
      PROVE  Share(i, "CONFIRMED")'[o] = Share(i, "CONFIRMED")[o]
  BY CommissionsKeepOwners DEF Share
<1>2. Share(i, "CONFIRMED")' = Share(i, "CONFIRMED")
  BY <1>1 DEF Share
<1>3. /\ CommissionTotal(i, "CONFIRMED") = Total(Share(i, "CONFIRMED"), OrderCount)
      /\ CommissionTotal(i, "CONFIRMED")' = Total(Share(i, "CONFIRMED")', OrderCount)
  BY DEF CommissionTotal, Share
<1>4. QED
  BY <1>2, <1>3 DEF BalancesMatchCommissions

\* Requests and decisions leave an available amount that is not negative so; a
\* payment takes no more than the cent its request fell short of and the cents
\* earlier payments released too much.
LEMMA RequestsDoNotOverdraw ==
  ASSUME TypeInv, TypeOK', WithdrawalInv, WithdrawalInv',
         AvailableIsDerived, AvailableIsDerived', Next, NEW i \in Influencers,
         balances'[i].confirmed = balances[i].confirmed
  PROVE  balances'[i].available >= Smaller(balances[i].available, 0) - PaidCount(i)'
<1> DEFINE b == balances[i]
<1> DEFINE c == balances'[i]
<1>1. /\ b.available \in Int /\ b.confirmed \in Int /\ b.withdrawn \in Int /\ b.pending \in Int
      /\ c.available \in Int /\ c.confirmed \in Int /\ c.withdrawn \in Int /\ c.pending \in Int
  BY DEF TypeInv, TypeOK, Balance
<1>2. /\ b.available = b.confirmed - b.withdrawn - b.pending
      /\ c.available = c.confirmed - c.withdrawn - c.pending
      /\ c.confirmed = b.confirmed
  BY DEF AvailableIsDerived
<1>3. /\ TypeOK
      /\ PaidCount(i) \in Int /\ PaidCount(i) >= 0 /\ OpenTotal(i) \in Int
      /\ PaidCount(i)' \in Int /\ PaidCount(i)' >= 0
  BY TotalTypes, PaidCountStaysType DEF TypeInv
<1>4. CASE c.pending = b.pending /\ c.withdrawn = b.withdrawn
  BY <1>1, <1>2, <1>3, <1>4 DEF Smaller
<1>5. CASE WithdrawalStep
  <2>1. ASSUME NEW w \in WithdrawalIds, NEW j \in Influencers, NEW brand \in Brands,
               NEW amount \in RequestAmounts, RequestWithdrawal(w, j, brand, amount), j = i
        PROVE  c.available >= 0
    <3>1. /\ amount \in Int /\ amount <= b.available
          /\ balances' = [balances EXCEPT ![i] = Reserved(balances[i], amount)]
      BY <2>1, WithdrawalConstants DEF RequestWithdrawal, CanRequest, WithdrawalConstants
    <3>2. c.pending = b.pending + amount /\ c.withdrawn = b.withdrawn
      BY <3>1 DEF Reserved, Recalculate, TypeInv, TypeOK, Balance
    <3>3. QED
      BY <1>1, <1>2, <3>1, <3>2
  <2>2. ASSUME NEW w \in WithdrawalIds, NEW j \in Influencers, NEW brand \in Brands,
               NEW amount \in RequestAmounts, RequestWithdrawal(w, j, brand, amount), j # i
        PROVE  c = b
    BY <2>2 DEF RequestWithdrawal, TypeInv, TypeOK
  <2>3. ASSUME NEW w \in WithdrawalIds, NEW decision \in {"approved", "rejected"},
               DecideWithdrawal(w, decision)
        PROVE  c.available >= b.available
    <3> DEFINE A == withdrawals[w].amount
    <3>1. A \in Int /\ A > 0 /\ b.pending >= 0
      BY <2>3 DEF DecideWithdrawal, IsDecidable, WithdrawalInv, RequestsAreMade,
         ReservationsAreNotNegative, TypeInv, TypeOK, Withdrawal
    <3>2. c = b \/ c = Released(b, A)
      BY <2>3 DEF DecideWithdrawal, TypeInv, TypeOK
    <3>3. CASE c = b
      BY <1>1, <3>3
    <3>4. CASE c = Released(b, A)
      <4>1. c.pending = Larger(b.pending - A, 0) /\ c.withdrawn = b.withdrawn
        BY <3>4 DEF Released, Recalculate, TypeInv, TypeOK, Balance
      <4>2. c.pending <= b.pending
        BY <1>1, <3>1, <4>1 DEF Larger
      <4>3. QED
        BY <1>1, <1>2, <4>1, <4>2
    <3>5. QED
      BY <3>2, <3>3, <3>4
  <2>4. c.available >= 0 \/ c.available >= b.available
    BY <1>1, <1>5, <2>1, <2>2, <2>3 DEF WithdrawalStep
  <2>5. QED
    BY <1>1, <1>3, <2>4 DEF Smaller
<1>6. CASE PaymentStep
  <2>1. ASSUME NEW p \in PaymentIds, NEW w \in WithdrawalIds, NEW amount \in PaymentAmounts,
               NEW ids \in SUBSET AdjustmentIds, RecordPayment(p, w, amount, ids)
        PROVE  c.available >= b.available - PaidCount(i)'
    <3> DEFINE payee == withdrawals[w].influencer
    <3> DEFINE A == withdrawals[w].amount
    <3>1. /\ amount \in Int /\ A \in Int
          /\ c.pending = IF i = payee THEN Larger(b.pending - amount, 0) ELSE b.pending
          /\ c.withdrawn = b.withdrawn + (IF i = payee THEN amount ELSE 0)
      BY <2>1, PaymentMovesBuckets DEF TypeInv, TypeOK, Withdrawal
    <3>2. CASE i # payee
      BY <1>1, <1>2, <1>3, <3>1, <3>2
    <3>3. CASE i = payee
      <4>1. /\ withdrawals[w].status \in {"pending", "approved"}
            /\ Distance(amount, A) <= 1
            /\ withdrawals' = [withdrawals EXCEPT ![w].status = "paid"]
        BY <2>1 DEF RecordPayment, IsPayable, MayMatch
      <4>2. OpenTotal(i) >= A
        <5>1. OpenShare(withdrawals[w], i) = A
          BY <3>3, <4>1 DEF OpenShare
        <5>2. QED
          BY <1>3, <5>1, OpenTotalCovers DEF WithdrawalInv
      <4>3. PaidCount(i)' = PaidCount(i) + 1
        <5>1. /\ \A v \in WithdrawalIds : v # w => withdrawals'[v] = withdrawals[v]
              /\ PaidShare(withdrawals'[w], i) = 1
              /\ PaidShare(withdrawals[w], i) = 0
          BY <3>3, <4>1 DEF PaidShare, TypeInv, TypeOK, Withdrawal
        <5>2. QED
          BY <1>3, <5>1, OneRequestChanges
      <4>4. Distance(b.pending, OpenTotal(i)) <= PaidCount(i)
        BY DEF WithdrawalInv, ReservationsMatchOpenRequests
      <4>5. amount - b.pending <= PaidCount(i) + 1
        BY <1>1, <1>3, <3>1, <4>1, <4>2, <4>4 DEF Distance
      <4>6. QED
        BY <1>1, <1>2, <1>3, <3>1, <3>3, <4>3, <4>5 DEF Larger
    <3>4. QED
      BY <3>2, <3>3
  <2>2. ASSUME NEW w \in WithdrawalIds, NEW amount \in PaymentAmounts, RefusePayment(w, amount)
        PROVE  c.available >= b.available - PaidCount(i)'
    BY <1>1, <1>3, <2>2 DEF RefusePayment
  <2>3. c.available >= b.available - PaidCount(i)'
    BY <1>6, <2>1, <2>2 DEF PaymentStep
  <2>4. QED
    BY <1>1, <1>3, <2>3 DEF Smaller
<1>7. QED
  BY <1>4, <1>5, <1>6, OtherStepsKeepReservations DEF Next

\* Only commissions that are reverted or repriced take an available amount below zero,
\* up to one cent for each payment made, whatever requests, decisions and payments
\* come in which order (requestWithdrawal, decideWithdrawal, recordPayment).
THEOREM OnlyCommissionsOverdrawSteps == Spec => OnlyCommissionsOverdraw
<1> DEFINE Inv == TypeInv /\ WithdrawalInv /\ BalancesMatchCommissions /\ AvailableIsDerived
<1> DEFINE Step == UNCHANGED commissions =>
       \A i \in Influencers :
         balances'[i].available >= Smaller(balances[i].available, 0) - PaidCount(i)'
<1>1. Inv /\ Inv' /\ [Next]_vars => [Step]_vars
  <2>1. SUFFICES ASSUME Inv, Inv', Next, UNCHANGED commissions, NEW i \in Influencers
                 PROVE  balances'[i].available
                          >= Smaller(balances[i].available, 0) - PaidCount(i)'
    OBVIOUS
  <2>2. balances'[i].confirmed = balances[i].confirmed
    BY <2>1, ConfirmedKept
  <2>3. QED
    BY <2>1, <2>2, RequestsDoNotOverdraw DEF TypeInv
<1>2. Spec => []Inv
  BY TypeInvariance, WithdrawalInvariance, BalanceCorrectness, AvailableCorrectness, PTL
<1>3. QED
  BY <1>1, <1>2, PTL DEF Spec, OnlyCommissionsOverdraw

----------------------------------------------------------------------------
(***************************************************************************)
(* Adjustments: the amount a balance shows is what the pending ones add up *)
(* to, an order has one of them at most, none claims more than is owed,    *)
(* and one that is resolved stays resolved.                                *)
(*                                                                         *)
(* A balance is refreshed only when an adjustment is opened or resolved,   *)
(* for the owners a handler computes from the orders: the invariant rests  *)
(* on those orders keeping their owners through everything else.           *)
(***************************************************************************)

\* An adjustment that exists is about an order that has a commission, so that its
\* influencer is known and stays the same.
AdjustmentsHaveOwners ==
  \A a \in AdjustmentIds :
    adjustments[a].status # "none" =>
      /\ adjustments[a].order \in OrderIds
      /\ commissions[adjustments[a].order].state # "NONE"

\* The inductive invariant.
AdjustmentInv ==
  /\ AdjustmentsHaveOwners
  /\ OnePendingAdjustmentPerOrder
  /\ AdjustmentAmountMatches

----------------------------------------------------------------------------
(* Pending adjustments, added up. *)

AdjustmentShare(rows, i) ==
  [a \in AdjustmentIds |->
     IF rows[a].status = "pending" /\ OwnerOf(rows[a].order) = i
     THEN rows[a].amount ELSE 0]

LEMMA AdjustmentShareType ==
  ASSUME NEW rows \in [AdjustmentIds -> Adjustment], NEW i
  PROVE  /\ AdjustmentShare(rows, i) \in [1..AdjustmentCount -> Int]
         /\ AdjustmentCount \in Nat
         /\ AdjustmentIds = 1..AdjustmentCount
<1>1. AdjustmentShare(rows, i) \in [1..AdjustmentCount -> Int]
  BY DEF AdjustmentShare, AdjustmentIds, Adjustment
<1>2. QED
  BY <1>1, LedgerConstants DEF LedgerConstants, AdjustmentIds

LEMMA PendingAdjustmentTotalIsTotal ==
  ASSUME NEW rows, NEW i
  PROVE  PendingAdjustmentTotal(rows, i) = Total(AdjustmentShare(rows, i), AdjustmentCount)
BY DEF PendingAdjustmentTotal, AdjustmentShare

\* While no adjustment changes, what is pending against an influencer stays the same,
\* whatever happens to the orders.
LEMMA PendingTotalKept ==
  ASSUME TypeInv, AdjustmentsHaveOwners, [Next]_vars, adjustments' = adjustments, NEW i
  PROVE  PendingAdjustmentTotal(adjustments, i)' = PendingAdjustmentTotal(adjustments, i)
<1>1. ASSUME NEW a \in AdjustmentIds
      PROVE  AdjustmentShare(adjustments, i)'[a] = AdjustmentShare(adjustments, i)[a]
  <2>1. adjustments[a].status = "pending" =>
          OwnerOf(adjustments[a].order)' = OwnerOf(adjustments[a].order)
    <3>1. SUFFICES ASSUME adjustments[a].status = "pending"
                   PROVE  OwnerOf(adjustments[a].order)' = OwnerOf(adjustments[a].order)
      OBVIOUS
    <3>2. PICK o \in OrderIds : o = adjustments[a].order /\ commissions[o].state # "NONE"
      BY <3>1 DEF AdjustmentsHaveOwners
    <3>3. OwnerOf(o)' = OwnerOf(o)
      BY <3>2, CommissionsKeepOwners
    <3>4. QED
      BY <3>2, <3>3 DEF OwnerOf
  <2>2. QED
    BY <2>1 DEF AdjustmentShare
<1>2. AdjustmentShare(adjustments, i)' = AdjustmentShare(adjustments, i)
  BY <1>1 DEF AdjustmentShare
<1>3. PendingAdjustmentTotal(adjustments, i)' =
        Total(AdjustmentShare(adjustments, i)', AdjustmentCount)
  BY DEF PendingAdjustmentTotal, AdjustmentShare
<1>4. QED
  BY <1>2, <1>3, PendingAdjustmentTotalIsTotal

\* While orders stay as they are, what is pending is the total over the new rows.
LEMMA PendingTotalOfNewRows ==
  ASSUME orders' = orders, NEW i
  PROVE  PendingAdjustmentTotal(adjustments, i)' = PendingAdjustmentTotal(adjustments', i)
BY DEF PendingAdjustmentTotal, OwnerOf

\* Resolving adjustments leaves the total of everybody else alone: refreshing the
\* balances of their owners is enough.
LEMMA ResolvingKeepsOthers ==
  ASSUME adjustments \in [AdjustmentIds -> Adjustment],
         NEW ids \in SUBSET AdjustmentIds, NEW payment, NEW i, i \notin OwnersOf(ids)
  PROVE  PendingAdjustmentTotal(Resolved(ids, payment), i) = PendingAdjustmentTotal(adjustments, i)
<1> DEFINE rows == Resolved(ids, payment)
<1>1. ASSUME NEW a \in AdjustmentIds
      PROVE  AdjustmentShare(rows, i)[a] = AdjustmentShare(adjustments, i)[a]
  <2>1. CASE a \in ids /\ adjustments[a].status = "pending"
    <3>1. OwnerOf(adjustments[a].order) # i
      BY <2>1 DEF OwnersOf
    <3>2. rows[a] = [adjustments[a] EXCEPT !.status = "resolved", !.payment = payment]
      BY <2>1 DEF Resolved
    <3>3. rows[a].status # "pending"
      BY <2>1, <3>2 DEF Adjustment
    <3>4. QED
      BY <3>1, <3>3 DEF AdjustmentShare
  <2>2. CASE ~ (a \in ids /\ adjustments[a].status = "pending")
    <3>1. rows[a] = adjustments[a]
      BY <2>2 DEF Resolved
    <3>2. QED
      BY <3>1 DEF AdjustmentShare
  <2>3. QED
    BY <2>1, <2>2
<1> HIDE DEF rows
<1>2. AdjustmentShare(rows, i) = AdjustmentShare(adjustments, i)
  BY <1>1 DEF AdjustmentShare
<1>3. QED
  BY <1>2, PendingAdjustmentTotalIsTotal DEF rows

----------------------------------------------------------------------------
(* Balance updates that are not about adjustments. *)

LEMMA UpdatesKeepAdjustment ==
  ASSUME NEW b \in Balance
  PROVE  /\ \A previous \in Commission, current \in Commission :
              SyncInfluencerBalance(b, previous, current).adjustment = b.adjustment
         /\ \A amount \in Int :
              /\ Reserved(b, amount).adjustment = b.adjustment
              /\ Released(b, amount).adjustment = b.adjustment
              /\ PaidOut(b, amount).adjustment = b.adjustment
<1>1. ASSUME NEW state, NEW delta, NEW d \in Balance
      PROVE  ApplyBalanceDelta(d, state, delta).adjustment = d.adjustment
  BY DEF ApplyBalanceDelta, Balance
<1>2. ASSUME NEW previous \in Commission, NEW current \in Commission
      PROVE  SyncInfluencerBalance(b, previous, current).adjustment = b.adjustment
  <2> DEFINE p == ApplyBalanceDelta(b, previous.state, -previous.amount)
  <2> DEFINE q == ApplyBalanceDelta(p, current.state, current.amount)
  <2>1. -previous.amount \in Int /\ current.amount \in Int
    BY DEF Commission
  <2>2. p \in Balance /\ q \in Balance
    BY <2>1, ApplyBalanceDeltaType
  <2>3. p.adjustment = b.adjustment
    BY <1>1
  <2>4. q.adjustment = p.adjustment
    BY <1>1, <2>2
  <2>5. SyncInfluencerBalance(b, previous, current) = Recalculate(q)
    BY DEF SyncInfluencerBalance
  <2> HIDE DEF p, q
  <2>6. Recalculate(q).adjustment = q.adjustment
    BY <2>2 DEF Recalculate, Balance
  <2>7. QED
    BY <2>3, <2>4, <2>5, <2>6
<1>3. ASSUME NEW amount \in Int
      PROVE  /\ Reserved(b, amount).adjustment = b.adjustment
             /\ Released(b, amount).adjustment = b.adjustment
             /\ PaidOut(b, amount).adjustment = b.adjustment
  BY DEF Reserved, Released, PaidOut, Recalculate, Balance
<1>4. QED
  BY <1>2, <1>3

LEMMA OrderStepKeepsAdjustments ==
  ASSUME TypeInv, OrderStep, NEW i \in Influencers
  PROVE  /\ balances'[i].adjustment = balances[i].adjustment
         /\ UNCHANGED withdrawalVars
<1>1. PICK o \in OrderIds, coupon \in Codes \cup {None}, status \in OrderStatuses,
           event \in EventTypes, eligible \in EligibleAmounts :
             RegisterOrderEvent(o, coupon, status, event, eligible)
  BY DEF OrderStep
<1> DEFINE order == UpdatedOrder(o, coupon, status)
<1> DEFINE owner == InfluencerOf[order.code]
<1> DEFINE assignment == EnsureTierAssignment(PricingCampaign(o, coupon), owner)
<1> DEFINE commission == UpdatedCommission(o, event, eligible, assignment.percent)
<1>2. UNCHANGED withdrawalVars
  BY <1>1 DEF RegisterOrderEvent
<1>3. CASE order.code = None
  BY <1>1, <1>2, <1>3 DEF RegisterOrderEvent
<1>4. CASE order.code # None
  <2>1. balances' = [balances EXCEPT ![owner] =
           SyncInfluencerBalance(balances[owner], commissions[o], commission)]
    BY <1>1, <1>4 DEF RegisterOrderEvent
  <2>2. /\ commission \in Commission /\ commissions[o] \in Commission
        /\ balances \in [Influencers -> Balance]
    BY <1>4, OrderEventRows DEF TypeInv, TypeOK
  <2> HIDE DEF order, owner, assignment, commission
  <2>3. QED
    BY <1>2, <2>1, <2>2, UpdatesKeepAdjustment
<1>5. QED
  BY <1>3, <1>4

LEMMA SettlementStepKeepsAdjustments ==
  ASSUME TypeInv, SettlementStep, NEW i \in Influencers
  PROVE  /\ balances'[i].adjustment = balances[i].adjustment
         /\ UNCHANGED withdrawalVars
<1>1. PICK date \in Time, waiting \in WaitingPeriods : RunSettlement(date, waiting)
  BY DEF SettlementStep
<1>2. balances[i] \in Balance
  BY DEF TypeInv, TypeOK
<1>3. balances'[i] = SettledBalance(i, date - waiting) /\ UNCHANGED withdrawalVars
  BY <1>1 DEF RunSettlement
<1>4. QED
  BY <1>2, <1>3 DEF SettledBalance, Recalculate, Balance

LEMMA WithdrawalStepKeepsAdjustments ==
  ASSUME TypeInv, WithdrawalStep, NEW i \in Influencers
  PROVE  /\ balances'[i].adjustment = balances[i].adjustment
         /\ UNCHANGED <<adjustments, adjustmentByOrder>>
<1>1. balances \in [Influencers -> Balance] /\ withdrawals \in [WithdrawalIds -> Withdrawal]
  BY DEF TypeInv, TypeOK
<1>2. ASSUME NEW w \in WithdrawalIds, NEW j \in Influencers, NEW brand \in Brands,
             NEW amount \in RequestAmounts, RequestWithdrawal(w, j, brand, amount)
      PROVE  /\ balances'[i].adjustment = balances[i].adjustment
             /\ UNCHANGED <<adjustments, adjustmentByOrder>>
  BY <1>1, <1>2, UpdatesKeepAdjustment, WithdrawalConstants
  DEF RequestWithdrawal, WithdrawalConstants
<1>3. ASSUME NEW w \in WithdrawalIds, NEW decision \in {"approved", "rejected"},
             DecideWithdrawal(w, decision)
      PROVE  /\ balances'[i].adjustment = balances[i].adjustment
             /\ UNCHANGED <<adjustments, adjustmentByOrder>>
  <2>1. withdrawals[w].amount \in Int
    BY <1>1 DEF Withdrawal
  <2>2. QED
    BY <1>1, <1>3, <2>1, UpdatesKeepAdjustment DEF DecideWithdrawal
<1>4. QED
  BY <1>2, <1>3 DEF WithdrawalStep

----------------------------------------------------------------------------
(* Each operation keeps the invariant. *)

LEMMA InitAdjustmentInv == Init => AdjustmentInv
<1>1. SUFFICES ASSUME Init PROVE AdjustmentInv
  OBVIOUS
<1>2. /\ \A a \in AdjustmentIds : adjustments[a].status = "none"
      /\ \A i \in Influencers : balances[i].adjustment = 0
  BY <1>1 DEF Init, EmptyBalance
<1>3. adjustments \in [AdjustmentIds -> Adjustment]
  BY <1>1, InitTypeOK DEF TypeOK
<1>4. ASSUME NEW i \in Influencers PROVE PendingAdjustmentTotal(adjustments, i) = 0
  <2>1. \A a \in AdjustmentIds : AdjustmentShare(adjustments, i)[a] = 0
    BY <1>2 DEF AdjustmentShare
  <2>2. QED
    BY <1>3, <2>1, AdjustmentShareType, PendingAdjustmentTotalIsTotal, TotalOfZeros
<1>5. QED
  BY <1>2, <1>4 DEF AdjustmentInv, AdjustmentsHaveOwners, OnePendingAdjustmentPerOrder,
     AdjustmentAmountMatches

LEMMA UntouchedAdjustmentsKeepInv ==
  ASSUME TypeInv, [Next]_vars, AdjustmentInv,
         UNCHANGED <<adjustments, adjustmentByOrder>>,
         \A i \in Influencers : balances'[i].adjustment = balances[i].adjustment
  PROVE  AdjustmentInv'
<1>1. AdjustmentsHaveOwners'
  BY CommissionsKeepOwners DEF AdjustmentInv, AdjustmentsHaveOwners
<1>2. OnePendingAdjustmentPerOrder'
  BY DEF AdjustmentInv, OnePendingAdjustmentPerOrder
<1>3. AdjustmentAmountMatches'
  BY PendingTotalKept DEF AdjustmentInv, AdjustmentAmountMatches
<1>4. QED
  BY <1>1, <1>2, <1>3 DEF AdjustmentInv

\* A resolution, by a payment or by an administrator, keeps orders linked to their
\* adjustments.
LEMMA ResolvingKeepsLinks ==
  ASSUME TypeInv, AdjustmentInv, NEW ids, NEW payment,
         adjustments' = Resolved(ids, payment),
         UNCHANGED <<orderVars, adjustmentByOrder>>
  PROVE  AdjustmentsHaveOwners' /\ OnePendingAdjustmentPerOrder'
<1>1. ASSUME NEW a \in AdjustmentIds
      PROVE  /\ adjustments'[a].order = adjustments[a].order
             /\ adjustments'[a].status # "none" => adjustments[a].status # "none"
             /\ adjustments'[a].status = "pending" => adjustments[a].status = "pending"
  BY DEF Resolved, TypeInv, TypeOK, Adjustment
<1>2. QED
  BY <1>1 DEF orderVars, AdjustmentInv, AdjustmentsHaveOwners, OnePendingAdjustmentPerOrder

LEMMA PaymentKeepsAdjustmentInv ==
  ASSUME TypeInv, AdjustmentInv, NEW p \in PaymentIds, NEW w \in WithdrawalIds,
         NEW amount \in PaymentAmounts, NEW ids \in SUBSET AdjustmentIds,
         RecordPayment(p, w, amount, ids)
  PROVE  AdjustmentInv'
<1> DEFINE payee == withdrawals[w].influencer
<1> DEFINE paid == [balances EXCEPT ![payee] = PaidOut(balances[payee], amount)]
<1> DEFINE rows == Resolved(ids, p)
<1>1. /\ adjustments' = rows
      /\ balances' = [i \in Influencers |->
           IF i \in OwnersOf(ids) THEN RefreshBalanceAdjustments(paid[i], rows, i) ELSE paid[i]]
      /\ UNCHANGED <<orderVars, adjustmentByOrder>>
  BY DEF RecordPayment
<1>2. AdjustmentsHaveOwners' /\ OnePendingAdjustmentPerOrder'
  BY <1>1, ResolvingKeepsLinks
<1>3. ASSUME NEW i \in Influencers
      PROVE  balances'[i].adjustment = PendingAdjustmentTotal(rows, i)
  <2>1. amount \in Int /\ balances \in [Influencers -> Balance]
    BY WithdrawalConstants DEF WithdrawalConstants, TypeInv, TypeOK
  <2>2. paid[i] \in Balance /\ paid[i].adjustment = balances[i].adjustment
    BY <2>1, ReservedType, UpdatesKeepAdjustment DEF DerivedBalance
  <2> HIDE DEF paid
  <2>3. CASE i \in OwnersOf(ids)
    <3>1. balances'[i] = RefreshBalanceAdjustments(paid[i], rows, i)
      BY <1>1, <2>3
    <3>2. QED
      BY <2>2, <3>1 DEF RefreshBalanceAdjustments, Recalculate, Balance
  <2>4. CASE i \notin OwnersOf(ids)
    <3>1. balances'[i].adjustment = balances[i].adjustment
      BY <1>1, <2>2, <2>4
    <3>2. PendingAdjustmentTotal(rows, i) = PendingAdjustmentTotal(adjustments, i)
      BY <2>4, ResolvingKeepsOthers DEF TypeInv, TypeOK
    <3>3. QED
      BY <3>1, <3>2 DEF AdjustmentInv, AdjustmentAmountMatches
  <2>5. QED
    BY <2>3, <2>4
<1>4. AdjustmentAmountMatches'
  BY <1>1, <1>3, PendingTotalOfNewRows DEF AdjustmentAmountMatches, orderVars
<1>5. QED
  BY <1>2, <1>4 DEF AdjustmentInv

LEMMA ResolutionKeepsAdjustmentInv ==
  ASSUME TypeInv, AdjustmentInv, NEW a \in AdjustmentIds, ResolveWithdrawalAdjustment(a)
  PROVE  AdjustmentInv'
<1> DEFINE owner == OwnerOf(adjustments[a].order)
<1> DEFINE rows == Resolved({a}, 0)
<1>1. /\ adjustments[a].status = "pending"
      /\ adjustments' = rows
      /\ balances' = [balances EXCEPT ![owner] =
                        RefreshBalanceAdjustments(balances[owner], rows, owner)]
      /\ UNCHANGED <<orderVars, adjustmentByOrder>>
  BY DEF ResolveWithdrawalAdjustment
<1>2. AdjustmentsHaveOwners' /\ OnePendingAdjustmentPerOrder'
  BY <1>1, ResolvingKeepsLinks
<1>3. OwnersOf({a}) = {owner}
  BY <1>1 DEF OwnersOf
<1>4. balances \in [Influencers -> Balance]
  BY DEF TypeInv, TypeOK
<1>5. ASSUME NEW i \in Influencers
      PROVE  balances'[i].adjustment = PendingAdjustmentTotal(rows, i)
  <2> HIDE DEF owner
  <2>1. CASE i = owner
    <3>1. balances'[i] = RefreshBalanceAdjustments(balances[i], rows, i)
      BY <1>1, <1>4, <2>1
    <3>2. QED
      BY <1>4, <3>1 DEF RefreshBalanceAdjustments, Recalculate, Balance
  <2>2. CASE i # owner
    <3>1. balances'[i] = balances[i]
      BY <1>1, <1>4, <2>2
    <3>2. PendingAdjustmentTotal(rows, i) = PendingAdjustmentTotal(adjustments, i)
      BY <1>3, <2>2, ResolvingKeepsOthers DEF TypeInv, TypeOK
    <3>3. QED
      BY <3>1, <3>2 DEF AdjustmentInv, AdjustmentAmountMatches
  <2>3. QED
    BY <2>1, <2>2
<1>6. AdjustmentAmountMatches'
  BY <1>1, <1>5, PendingTotalOfNewRows DEF AdjustmentAmountMatches, orderVars
<1>7. QED
  BY <1>2, <1>6 DEF AdjustmentInv

\* What a reconciliation that opens an adjustment changes: the one row, the index of
\* the order, and the owner's total, by the amount of the adjustment.
LEMMA ReconciliationAdds ==
  ASSUME TypeInv, NEW a \in AdjustmentIds, NEW o \in OrderIds, RecordReconciliation(a, o)
  PROVE  LET owner  == OwnerOf(o)
             amount == Smaller(Deficit(owner), commissions[o].amount)
         IN  /\ adjustments[a].status = "none"
             /\ adjustments'[a] =
                  [status |-> "pending", order |-> o, amount |-> amount, payment |-> 0]
             /\ \A b \in AdjustmentIds : b # a => adjustments'[b] = adjustments[b]
             /\ owner \in Influencers /\ amount \in Int /\ Deficit(owner) \in Int
             /\ \A i : PendingAdjustmentTotal(adjustments', i) =
                         PendingAdjustmentTotal(adjustments, i)
                           + (IF i = owner THEN amount ELSE 0)
<1> DEFINE owner == OwnerOf(o)
<1> DEFINE amount == Smaller(Deficit(owner), commissions[o].amount)
<1> DEFINE row == [status |-> "pending", order |-> o, amount |-> amount, payment |-> 0]
<1>1. /\ adjustments[a].status = "none"
      /\ adjustments' = [adjustments EXCEPT ![a] = row]
      /\ commissions[o].state # "NONE"
  BY DEF RecordReconciliation, IsNextFree
<1>2. adjustments \in [AdjustmentIds -> Adjustment] /\ TypeOK
  BY DEF TypeInv, TypeOK
<1>3. owner \in Influencers
  BY <1>1, <1>2, OwnerType DEF TypeInv
<1>4. Deficit(owner) \in Int /\ amount \in Int
  <2> HIDE DEF owner
  <2>1. balances[owner].available \in Int
    BY <1>2, <1>3 DEF TypeOK, Balance
  <2>2. PendingAdjustmentTotal(adjustments, owner) \in Int
    BY <1>2, PendingAdjustmentTotalType
  <2>3. Deficit(owner) \in Int
    BY <2>1, <2>2 DEF Deficit, Larger
  <2>4. commissions[o].amount \in Int
    BY <1>2 DEF TypeOK, Commission
  <2>5. QED
    BY <2>3, <2>4 DEF Smaller
<1>5. /\ adjustments'[a] = row
      /\ \A b \in AdjustmentIds : b # a => adjustments'[b] = adjustments[b]
  BY <1>1, <1>2
<1>6. ASSUME NEW i
      PROVE  PendingAdjustmentTotal(adjustments', i) =
               PendingAdjustmentTotal(adjustments, i) + (IF i = owner THEN amount ELSE 0)
  <2> DEFINE f == AdjustmentShare(adjustments, i)
  <2> DEFINE g == AdjustmentShare(adjustments', i)
  <2>1. /\ f \in [1..AdjustmentCount -> Int] /\ AdjustmentCount \in Nat
        /\ AdjustmentIds = 1..AdjustmentCount
    BY <1>2, AdjustmentShareType
  <2>2. g \in [1..AdjustmentCount -> Int]
    <3>1. \A b \in AdjustmentIds : adjustments'[b].amount \in Int
      BY <1>2, <1>4, <1>5 DEF Adjustment
    <3>2. QED
      BY <2>1, <3>1 DEF AdjustmentShare
  <2>3. \A b \in 1..AdjustmentCount : b # a => g[b] = f[b]
    BY <1>5, <2>1 DEF AdjustmentShare
  <2>4. f[a] = 0
    BY <1>1 DEF AdjustmentShare
  <2>5. g[a] = IF i = owner THEN amount ELSE 0
    BY <1>5 DEF AdjustmentShare
  <2> HIDE DEF f, g
  <2>6. Total(g, AdjustmentCount) = Total(f, AdjustmentCount) + g[a] - f[a]
    BY <2>1, <2>2, <2>3, TotalOfChange
  <2>7. Total(f, AdjustmentCount) \in Int
    BY <2>1, TotalType
  <2> HIDE DEF owner, amount
  <2>8. Total(g, AdjustmentCount) =
          Total(f, AdjustmentCount) + (IF i = owner THEN amount ELSE 0)
    BY <1>4, <2>4, <2>5, <2>6, <2>7
  <2>9. QED
    BY <2>8, PendingAdjustmentTotalIsTotal DEF f, g
<1>7. QED
  BY <1>1, <1>3, <1>4, <1>5, <1>6

LEMMA ReconciliationKeepsAdjustmentInv ==
  ASSUME TypeInv, AdjustmentInv, NEW a \in AdjustmentIds, NEW o \in OrderIds,
         RecordReconciliation(a, o)
  PROVE  AdjustmentInv'
<1> DEFINE owner == OwnerOf(o)
<1> DEFINE amount == Smaller(Deficit(owner), commissions[o].amount)
<1>1. /\ ~HasPendingAdjustment(o)
      /\ commissions[o].state # "NONE"
      /\ adjustmentByOrder' = [adjustmentByOrder EXCEPT ![o] = a]
      /\ balances' = [balances EXCEPT ![owner] =
                        RefreshBalanceAdjustments(balances[owner], adjustments', owner)]
      /\ UNCHANGED orderVars
  BY DEF RecordReconciliation
<1>2. /\ adjustments[a].status = "none"
      /\ adjustments'[a] =
           [status |-> "pending", order |-> o, amount |-> amount, payment |-> 0]
      /\ \A b \in AdjustmentIds : b # a => adjustments'[b] = adjustments[b]
      /\ owner \in Influencers /\ amount \in Int
      /\ \A i : PendingAdjustmentTotal(adjustments', i) =
                  PendingAdjustmentTotal(adjustments, i) + (IF i = owner THEN amount ELSE 0)
  BY ReconciliationAdds
<1>3. /\ balances \in [Influencers -> Balance]
      /\ adjustments \in [AdjustmentIds -> Adjustment]
      /\ adjustmentByOrder \in [OrderIds -> 0..AdjustmentCount]
  BY DEF TypeInv, TypeOK
<1> HIDE DEF owner, amount
<1>4. AdjustmentsHaveOwners'
  <2>1. \A b \in AdjustmentIds : b # a /\ adjustments'[b].status # "none" =>
          /\ adjustments'[b].order \in OrderIds
          /\ commissions'[adjustments'[b].order].state # "NONE"
    BY <1>1, <1>2 DEF orderVars, AdjustmentInv, AdjustmentsHaveOwners
  <2>2. adjustments'[a].order = o /\ commissions'[o].state # "NONE"
    BY <1>1, <1>2 DEF orderVars
  <2>3. QED
    BY <2>1, <2>2 DEF AdjustmentsHaveOwners
<1>5. OnePendingAdjustmentPerOrder'
  <2>1. ASSUME NEW b \in AdjustmentIds, adjustments'[b].status = "pending"
        PROVE  adjustmentByOrder'[adjustments'[b].order] = b
    <3>1. CASE b = a
      BY <1>1, <1>2, <1>3, <3>1
    <3>2. CASE b # a
      <4>1. adjustments'[b] = adjustments[b] /\ adjustments[b].status = "pending"
        BY <1>2, <2>1, <3>2
      <4>2. /\ adjustments[b].order \in OrderIds
            /\ adjustmentByOrder[adjustments[b].order] = b
        BY <4>1 DEF AdjustmentInv, OnePendingAdjustmentPerOrder, AdjustmentsHaveOwners
      <4>3. adjustments[b].order # o
        <5>1. b # 0
          BY LedgerConstants DEF AdjustmentIds, LedgerConstants
        <5>2. QED
          BY <1>1, <4>1, <4>2, <5>1 DEF HasPendingAdjustment
      <4>4. QED
        BY <1>1, <1>3, <4>1, <4>2, <4>3
    <3>3. QED
      BY <3>1, <3>2
  <2>2. QED
    BY <2>1 DEF OnePendingAdjustmentPerOrder
<1>6. ASSUME NEW i \in Influencers
      PROVE  balances'[i].adjustment = PendingAdjustmentTotal(adjustments', i)
  <2>1. balances[i].adjustment = PendingAdjustmentTotal(adjustments, i)
        /\ balances[i].adjustment \in Int
    BY <1>3 DEF AdjustmentInv, AdjustmentAmountMatches, Balance
  <2>2. CASE i = owner
    <3>1. balances'[i] = RefreshBalanceAdjustments(balances[i], adjustments', i)
      BY <1>1, <1>3, <2>2
    <3>2. QED
      BY <1>3, <3>1 DEF RefreshBalanceAdjustments, Recalculate, Balance
  <2>3. CASE i # owner
    <3>1. balances'[i] = balances[i]
      BY <1>1, <1>3, <2>3
    <3>2. QED
      BY <1>2, <2>1, <2>3, <3>1
  <2>4. QED
    BY <2>2, <2>3
<1>7. AdjustmentAmountMatches'
  BY <1>1, <1>6, PendingTotalOfNewRows DEF AdjustmentAmountMatches, orderVars
<1>8. QED
  BY <1>4, <1>5, <1>7 DEF AdjustmentInv

\* Steps that are neither payments nor about adjustments do not touch them.
LEMMA OtherStepsKeepAdjustments ==
  ASSUME TypeInv,
         \/ Tick \/ PartnerStep \/ TierStep \/ OrderStep \/ SettlementStep \/ WithdrawalStep
         \/ \E w \in WithdrawalIds, amount \in PaymentAmounts : RefusePayment(w, amount)
  PROVE  /\ UNCHANGED <<adjustments, adjustmentByOrder>>
         /\ \A i \in Influencers : balances'[i].adjustment = balances[i].adjustment
<1>1. Tick \/ PartnerStep \/ TierStep => balances' = balances /\ UNCHANGED withdrawalVars
  BY DEF Tick, PartnerStep, TierStep, UpdateInfluencerStatus,
     AssignInfluencerToCampaign, UpdateCampaignTiers, EvaluateTiers
<1>2. \A w, amount : RefusePayment(w, amount) =>
        balances' = balances /\ UNCHANGED <<adjustments, adjustmentByOrder>>
  BY DEF RefusePayment
<1>3. OrderStep => UNCHANGED withdrawalVars
  <2>1. \A o, coupon, status, event, eligible :
          RegisterOrderEvent(o, coupon, status, event, eligible) => UNCHANGED withdrawalVars
    BY DEF RegisterOrderEvent
  <2>2. QED
    BY <2>1 DEF OrderStep
<1>4. SettlementStep => UNCHANGED withdrawalVars
  BY DEF SettlementStep, RunSettlement
<1>5. WithdrawalStep => UNCHANGED <<adjustments, adjustmentByOrder>>
  BY DEF WithdrawalStep, RequestWithdrawal, DecideWithdrawal
<1>6. UNCHANGED <<adjustments, adjustmentByOrder>>
  BY <1>1, <1>2, <1>3, <1>4, <1>5 DEF withdrawalVars
<1>7. QED
  BY <1>1, <1>2, <1>6, OrderStepKeepsAdjustments, SettlementStepKeepsAdjustments,
     WithdrawalStepKeepsAdjustments

LEMMA NextAdjustmentInv ==
  ASSUME TypeInv, AdjustmentInv, Next
  PROVE  AdjustmentInv'
<1>1. CASE \/ Tick \/ PartnerStep \/ TierStep \/ OrderStep \/ SettlementStep \/ WithdrawalStep
           \/ \E w \in WithdrawalIds, amount \in PaymentAmounts : RefusePayment(w, amount)
  BY <1>1, OtherStepsKeepAdjustments, UntouchedAdjustmentsKeepInv
<1>2. CASE \E p \in PaymentIds, w \in WithdrawalIds, amount \in PaymentAmounts,
             ids \in SUBSET AdjustmentIds : RecordPayment(p, w, amount, ids)
  BY <1>2, PaymentKeepsAdjustmentInv
<1>3. CASE AdjustmentStep
  BY <1>3, ReconciliationKeepsAdjustmentInv, ResolutionKeepsAdjustmentInv DEF AdjustmentStep
<1>4. QED
  BY <1>1, <1>2, <1>3 DEF Next, PaymentStep

----------------------------------------------------------------------------
(* The theorems. *)

\* The invariant holds in every reachable state.
THEOREM AdjustmentInvariance == Spec => []AdjustmentInv
<1>1. Init => AdjustmentInv
  BY InitAdjustmentInv
<1>2. TypeInv /\ AdjustmentInv /\ [Next]_vars => AdjustmentInv'
  <2>1. SUFFICES ASSUME TypeInv, AdjustmentInv, [Next]_vars PROVE AdjustmentInv'
    OBVIOUS
  <2>2. CASE Next
    BY <2>1, <2>2, NextAdjustmentInv
  <2>3. CASE UNCHANGED vars
    BY <2>1, <2>3, UntouchedAdjustmentsKeepInv DEF vars, withdrawalVars
  <2>4. QED
    BY <2>1, <2>2, <2>3
<1>3. QED
  BY <1>1, <1>2, TypeInvariance, PTL DEF Spec

\* The adjustment amount of a balance is what its pending adjustments add up to: the
\* balances a payment or a reconciliation refreshes are all that need it, whoever the
\* adjustments belong to (refreshBalanceAdjustments).
THEOREM AdjustmentAmountCorrectness == Spec => []AdjustmentAmountMatches
<1>1. AdjustmentInv => AdjustmentAmountMatches
  BY DEF AdjustmentInv
<1>2. QED
  BY <1>1, AdjustmentInvariance, PTL

\* An order has at most one pending adjustment, the one its index leads to, however
\* often reconciliations report the order (createAdjustmentForOrder).
THEOREM AdjustmentUniqueness == Spec => []OnePendingAdjustmentPerOrder
<1>1. AdjustmentInv => OnePendingAdjustmentPerOrder
  BY DEF AdjustmentInv
<1>2. QED
  BY <1>1, AdjustmentInvariance, PTL

\* What any step may do to an adjustment that exists: resolve it while it is pending,
\* and nothing else; and one that is opened comes from a reconciliation.
LEMMA StepsOnAdjustments ==
  ASSUME TypeInv, Next, NEW a \in AdjustmentIds
  PROVE  \/ adjustments'[a] = adjustments[a]
         \/ adjustments[a].status = "pending" /\ adjustments'[a].status # "none"
         \/ \E o \in OrderIds : RecordReconciliation(a, o)
<1>1. CASE \/ Tick \/ PartnerStep \/ TierStep \/ OrderStep \/ SettlementStep \/ WithdrawalStep
           \/ \E w \in WithdrawalIds, amount \in PaymentAmounts : RefusePayment(w, amount)
  BY <1>1, OtherStepsKeepAdjustments
<1>2. ASSUME NEW ids, NEW payment, adjustments' = Resolved(ids, payment)
      PROVE  \/ adjustments'[a] = adjustments[a]
             \/ adjustments[a].status = "pending" /\ adjustments'[a].status # "none"
  BY <1>2 DEF Resolved, TypeInv, TypeOK, Adjustment
<1>3. CASE PaymentStep
  BY <1>1, <1>2, <1>3 DEF PaymentStep, RecordPayment
<1>4. ASSUME NEW b \in AdjustmentIds, ResolveWithdrawalAdjustment(b)
      PROVE  \/ adjustments'[a] = adjustments[a]
             \/ adjustments[a].status = "pending" /\ adjustments'[a].status # "none"
  BY <1>2, <1>4 DEF ResolveWithdrawalAdjustment
<1>5. ASSUME NEW b \in AdjustmentIds, NEW o \in OrderIds, RecordReconciliation(b, o), b # a
      PROVE  adjustments'[a] = adjustments[a]
  BY <1>5, ReconciliationAdds
<1>6. QED
  BY <1>1, <1>3, <1>4, <1>5 DEF Next, AdjustmentStep

\* An adjustment is resolved once: no later payment that lists it, and no administrator,
\* changes what resolved it (recordPayment, resolveWithdrawalAdjustment).
THEOREM ResolutionFinality == Spec => ResolutionIsFinal
<1> DEFINE Step == \A a \in AdjustmentIds :
       adjustments[a].status = "resolved" => adjustments'[a] = adjustments[a]
<1>1. TypeInv /\ [Next]_vars => [Step]_vars
  <2>1. SUFFICES ASSUME TypeInv, Next, NEW a \in AdjustmentIds,
                        adjustments[a].status = "resolved"
                 PROVE  adjustments'[a] = adjustments[a]
    OBVIOUS
  <2>2. \A o : ~ RecordReconciliation(a, o)
    BY <2>1 DEF RecordReconciliation, IsNextFree
  <2>3. QED
    BY <2>1, <2>2, StepsOnAdjustments
<1>2. QED
  BY <1>1, TypeInvariance, PTL DEF Spec, ResolutionIsFinal

\* An adjustment that is opened claims no more than the influencer owes together with
\* all other pending ones (createAdjustmentForOrder).
THEOREM AdjustmentsClaimOnlyDebtSteps == Spec => AdjustmentsClaimOnlyDebt
<1> DEFINE Step == \A a \in AdjustmentIds :
       adjustments[a].status = "none" /\ adjustments'[a].status = "pending" =>
         LET i == OwnerOf(adjustments'[a].order) IN
         balances'[i].adjustment <= -balances'[i].available
<1>1. TypeInv /\ AdjustmentInv /\ AvailableIsDerived /\ [Next]_vars => [Step]_vars
  <2>1. SUFFICES ASSUME TypeInv, AdjustmentInv, AvailableIsDerived, Next,
                        NEW a \in AdjustmentIds,
                        adjustments[a].status = "none", adjustments'[a].status = "pending"
                 PROVE  LET i == OwnerOf(adjustments'[a].order) IN
                        balances'[i].adjustment <= -balances'[i].available
    OBVIOUS
  <2>2. PICK o \in OrderIds : RecordReconciliation(a, o)
    BY <2>1, StepsOnAdjustments
  <2> DEFINE owner == OwnerOf(o)
  <2> DEFINE amount == Smaller(Deficit(owner), commissions[o].amount)
  <2>3. /\ adjustments'[a].order = o
        /\ owner \in Influencers /\ amount \in Int /\ Deficit(owner) \in Int
        /\ PendingAdjustmentTotal(adjustments', owner) =
             PendingAdjustmentTotal(adjustments, owner) + amount
    <3>1. /\ adjustments'[a] =
               [status |-> "pending", order |-> o, amount |-> amount, payment |-> 0]
          /\ owner \in Influencers /\ amount \in Int /\ Deficit(owner) \in Int
          /\ \A i : PendingAdjustmentTotal(adjustments', i) =
               PendingAdjustmentTotal(adjustments, i) + (IF i = owner THEN amount ELSE 0)
      BY <2>1, <2>2, ReconciliationAdds
    <3> HIDE DEF owner, amount
    <3>2. QED
      BY <3>1
  <2>4. /\ Deficit(owner) > 0
        /\ balances' = [balances EXCEPT ![owner] =
                          RefreshBalanceAdjustments(balances[owner], adjustments', owner)]
    BY <2>2 DEF RecordReconciliation
  <2>5. /\ balances \in [Influencers -> Balance]
        /\ PendingAdjustmentTotal(adjustments, owner) \in Int
    BY <2>1, PendingAdjustmentTotalType DEF TypeInv, TypeOK
  <2>6. commissions[o].amount \in Int
    BY <2>1 DEF TypeInv, TypeOK, Commission
  <2>7. amount <= Deficit(owner)
    <3> HIDE DEF owner
    <3>1. QED
      BY <2>3, <2>6 DEF Smaller
  <2> HIDE DEF owner, amount
  <2>8. balances[owner].available \in Int
    BY <2>3, <2>5 DEF Balance
  <2>9. Deficit(owner) = -balances[owner].available - PendingAdjustmentTotal(adjustments, owner)
    BY <2>4, <2>5, <2>8 DEF Deficit, Larger
  <2>10. /\ balances'[owner].adjustment = PendingAdjustmentTotal(adjustments', owner)
         /\ balances'[owner].available =
              balances[owner].confirmed - balances[owner].withdrawn - balances[owner].pending
    BY <2>3, <2>4, <2>5 DEF RefreshBalanceAdjustments, Recalculate, Balance
  <2>11. balances'[owner].available = balances[owner].available
    BY <2>1, <2>3, <2>10 DEF AvailableIsDerived
  <2>12. balances'[owner].adjustment <= -balances'[owner].available
    BY <2>3, <2>5, <2>7, <2>8, <2>9, <2>10, <2>11
  <2>13. QED
    BY <2>3, <2>12 DEF owner
<1>2. QED
  BY <1>1, TypeInvariance, AdjustmentInvariance, AvailableCorrectness, PTL
  DEF Spec, AdjustmentsClaimOnlyDebt

=============================================================================
