--------------------------- MODULE PaymentsProofs ---------------------------
(***************************************************************************)
(* The payments service keeps the ledger's invariants, tells the status of *)
(* every request, and implements the promise of module Account.            *)
(***************************************************************************)
EXTENDS Payments, BalanceProofs

----------------------------------------------------------------------------
(* The service takes the ledger's steps. *)

LEMMA PaymentsStepsAreSteps ==
  ASSUME [PaymentsNext]_allVars
  PROVE  [Next]_vars
<1>1. CASE ElsewhereStep
  BY <1>1 DEF ElsewhereStep, Next
<1>2. ASSUME NEW w \in WithdrawalIds, NEW i \in Influencers, NEW brand \in Brands,
             NEW amount \in RequestAmounts, CreateWithdrawal(w, i, brand, amount)
      PROVE  [Next]_vars
  BY <1>2 DEF CreateWithdrawal, Next, WithdrawalStep
<1>3. ASSUME NEW w \in WithdrawalIds, NEW decision \in {"approved", "rejected"},
             DecideAndTell(w, decision)
      PROVE  [Next]_vars
  BY <1>3 DEF DecideAndTell, Next, WithdrawalStep
<1>4. ASSUME NEW p \in PaymentIds, NEW w \in WithdrawalIds, NEW amount \in PaymentAmounts,
             NEW ids \in SUBSET AdjustmentIds, PayAndTell(p, w, amount, ids)
      PROVE  [Next]_vars
  BY <1>4 DEF PayAndTell, Next, PaymentStep
<1>5. ASSUME NEW w \in WithdrawalIds, NEW amount \in PaymentAmounts, RefuseQuietly(w, amount)
      PROVE  [Next]_vars
  BY <1>5 DEF RefuseQuietly, Next, PaymentStep
<1>6. CASE UNCHANGED allVars
  BY <1>6 DEF allVars
<1>7. QED
  BY <1>1, <1>2, <1>3, <1>4, <1>5, <1>6 DEF PaymentsNext

\* Whatever holds of the ledger holds of it in the service.
THEOREM PaymentsImplementLedger == PaymentsSpec => Spec
<1>1. PaymentsInit => Init
  BY DEF PaymentsInit
<1>2. [PaymentsNext]_allVars => [Next]_vars
  BY PaymentsStepsAreSteps
<1>3. QED
  BY <1>1, <1>2, PTL DEF PaymentsSpec, Spec

----------------------------------------------------------------------------
(* What is told. *)

\* The inductive invariant.
ToldInv ==
  /\ told \in [WithdrawalIds -> WithdrawalStatuses \cup {"none"}]
  /\ StatusesAreTold

\* A step that tells the status a request has by then.
LEMMA TellingTheStatus ==
  ASSUME ToldInv, TypeOK, TypeOK', NEW w \in WithdrawalIds,
         \A v \in WithdrawalIds : v # w => withdrawals'[v] = withdrawals[v],
         told' = [told EXCEPT ![w] = withdrawals'[w].status]
  PROVE  ToldInv'
<1>1. withdrawals'[w].status \in WithdrawalStatuses \cup {"none"}
  BY DEF TypeOK, Withdrawal
<1>2. told' \in [WithdrawalIds -> WithdrawalStatuses \cup {"none"}]
  BY <1>1 DEF ToldInv
<1>3. ASSUME NEW v \in WithdrawalIds
      PROVE  \/ told'[v] = withdrawals'[v].status
             \/ told'[v] = "pending" /\ withdrawals'[v].status = "approved"
  <2>1. CASE v = w
    BY <2>1 DEF ToldInv
  <2>2. CASE v # w
    BY <2>2 DEF ToldInv, StatusesAreTold
  <2>3. QED
    BY <2>1, <2>2
<1>4. QED
  BY <1>2, <1>3 DEF ToldInv, StatusesAreTold

LEMMA NextToldInv ==
  ASSUME TypeInv, TypeInv', ToldInv, [PaymentsNext]_allVars
  PROVE  ToldInv'
<1>1. TypeOK /\ TypeOK' /\ withdrawals \in [WithdrawalIds -> Withdrawal]
  BY DEF TypeInv, TypeOK
<1>2. CASE withdrawals' = withdrawals /\ told' = told
  BY <1>2 DEF ToldInv, StatusesAreTold
<1>3. CASE ElsewhereStep
  BY <1>2, <1>3, OtherStepsKeepReservations DEF ElsewhereStep
<1>4. ASSUME NEW w \in WithdrawalIds, NEW i \in Influencers, NEW brand \in Brands,
             NEW amount \in RequestAmounts, CreateWithdrawal(w, i, brand, amount)
      PROVE  ToldInv'
  <2>1. /\ withdrawals' = [withdrawals EXCEPT ![w] =
             [status |-> "pending", influencer |-> i, amount |-> amount]]
        /\ told' = [told EXCEPT ![w] = "pending"]
    BY <1>4 DEF CreateWithdrawal, RequestWithdrawal, Tell
  <2>2. QED
    BY <1>1, <2>1, TellingTheStatus
<1>5. ASSUME NEW w \in WithdrawalIds, NEW decision \in {"approved", "rejected"},
             DecideAndTell(w, decision)
      PROVE  ToldInv'
  <2>1. \A v \in WithdrawalIds : v # w => withdrawals'[v] = withdrawals[v]
    BY <1>1, <1>5 DEF DecideAndTell, DecideWithdrawal, vars, withdrawalVars
  <2>2. told' = [told EXCEPT ![w] = withdrawals'[w].status]
    BY <1>5 DEF DecideAndTell, AnnouncedStatus, Tell
  <2>3. QED
    BY <1>1, <2>1, <2>2, TellingTheStatus
<1>6. ASSUME NEW p \in PaymentIds, NEW w \in WithdrawalIds, NEW amount \in PaymentAmounts,
             NEW ids \in SUBSET AdjustmentIds, PayAndTell(p, w, amount, ids)
      PROVE  ToldInv'
  <2>1. \A v \in WithdrawalIds : v # w => withdrawals'[v] = withdrawals[v]
    BY <1>1, <1>6 DEF PayAndTell, RecordPayment
  <2>2. told' = [told EXCEPT ![w] = withdrawals'[w].status]
    BY <1>6 DEF PayAndTell, Tell
  <2>3. QED
    BY <1>1, <2>1, <2>2, TellingTheStatus
<1>7. ASSUME NEW w \in WithdrawalIds, NEW amount \in PaymentAmounts, RefuseQuietly(w, amount)
      PROVE  ToldInv'
  <2>1. /\ withdrawals[w].status = "pending"
        /\ withdrawals' = [withdrawals EXCEPT ![w].status = "approved"]
        /\ told' = told
    BY <1>7 DEF RefuseQuietly, RefusePayment
  <2>2. told[w] = "pending" /\ withdrawals'[w].status = "approved"
    BY <1>1, <2>1 DEF ToldInv, StatusesAreTold, Withdrawal
  <2>3. QED
    BY <1>1, <2>1, <2>2 DEF ToldInv, StatusesAreTold
<1>8. CASE UNCHANGED allVars
  BY <1>2, <1>8 DEF allVars, vars, withdrawalVars
<1>9. QED
  BY <1>3, <1>4, <1>5, <1>6, <1>7, <1>8 DEF PaymentsNext

\* What was last told about a request is its status, but for the approval of a payment
\* that was then refused: no order of decisions and payments leaves anything else
\* unannounced.
THEOREM ToldCorrectness == PaymentsSpec => []StatusesAreTold
<1>1. PaymentsInit => ToldInv
  BY DEF PaymentsInit, Init, ToldInv, StatusesAreTold
<1>2. TypeInv /\ TypeInv' /\ ToldInv /\ [PaymentsNext]_allVars => ToldInv'
  BY NextToldInv
<1>3. ToldInv => StatusesAreTold
  BY DEF ToldInv
<1>4. QED
  BY <1>1, <1>2, <1>3, PaymentsImplementLedger, TypeInvariance, PTL DEF PaymentsSpec

----------------------------------------------------------------------------
(* Claims: what was paid for each request, and for all of an influencer's. *)

\* What the recorded payments of a request contribute.
SettledShare(w) ==
  [p \in PaymentIds |->
     IF payments[p].status = "recorded" /\ payments[p].withdrawal = w
     THEN payments[p].amount ELSE 0]

Settled(w) == Total(SettledShare(w), PaymentCount)

PaidOutShare(i) ==
  [w \in WithdrawalIds |->
     IF withdrawals[w].status = "paid" /\ withdrawals[w].influencer = i
     THEN Settled(w) ELSE 0]

SettledTotal(i) == Total(PaidOutShare(i), WithdrawalCount)

UnmadeRequestsAreBlank ==
  \A w \in WithdrawalIds :
    withdrawals[w].status = "none" =>
      withdrawals[w].influencer = None /\ withdrawals[w].amount = 0

\* The payments of an influencer, added up request by request or one by one, come to
\* the same.
ClaimsMatchPayments == \A i \in Influencers : SettledTotal(i) = PaymentTotal(i)

\* What the refinement needs beyond the ledger's own invariants.
ClaimInv == UnmadeRequestsAreBlank /\ ClaimsMatchPayments

LEMMA SettledShareType ==
  ASSUME payments \in [PaymentIds -> Payment], NEW w
  PROVE  /\ SettledShare(w) \in [1..PaymentCount -> Int]
         /\ PaymentCount \in Nat
         /\ PaymentIds = 1..PaymentCount
         /\ Settled(w) \in Int
<1>1. SettledShare(w) \in [1..PaymentCount -> Int]
  BY DEF SettledShare, PaymentIds, Payment
<1>2. PaymentCount \in Nat
  BY LedgerConstants DEF LedgerConstants
<1>3. QED
  BY <1>1, <1>2, TotalType DEF Settled, PaymentIds

LEMMA PaidOutShareType ==
  ASSUME TypeOK, NEW i
  PROVE  /\ PaidOutShare(i) \in [1..WithdrawalCount -> Int]
         /\ WithdrawalCount \in Nat
         /\ WithdrawalIds = 1..WithdrawalCount
         /\ SettledTotal(i) \in Int
<1>1. \A w \in WithdrawalIds : Settled(w) \in Int
  BY SettledShareType DEF TypeOK
<1>2. PaidOutShare(i) \in [1..WithdrawalCount -> Int]
  BY <1>1 DEF PaidOutShare, WithdrawalIds
<1>3. WithdrawalCount \in Nat
  BY LedgerConstants DEF LedgerConstants
<1>4. QED
  BY <1>2, <1>3, TotalType DEF SettledTotal, WithdrawalIds

\* Nothing was paid for a request that is not paid.
LEMMA NothingSettled ==
  ASSUME TypeOK, PaymentsSettleRequests, NEW w \in WithdrawalIds,
         withdrawals[w].status # "paid"
  PROVE  Settled(w) = 0
<1>1. /\ SettledShare(w) \in [1..PaymentCount -> Int]
      /\ PaymentCount \in Nat /\ PaymentIds = 1..PaymentCount
  BY SettledShareType DEF TypeOK
<1>2. \A p \in PaymentIds : SettledShare(w)[p] = 0
  BY DEF SettledShare, PaymentsSettleRequests
<1>3. QED
  BY <1>1, <1>2, TotalOfZeros DEF Settled

LEMMA SettledKept ==
  ASSUME payments' = payments, NEW w
  PROVE  Settled(w)' = Settled(w)
BY DEF Settled, SettledShare

\* A payment settles its request for its amount, and no other one.
LEMMA PaymentSettles ==
  ASSUME TypeOK, TypeOK', PaymentsSettleRequests,
         NEW p \in PaymentIds, NEW w \in WithdrawalIds, NEW amount \in PaymentAmounts,
         NEW ids \in SUBSET AdjustmentIds, RecordPayment(p, w, amount, ids),
         NEW v \in WithdrawalIds
  PROVE  Settled(v)' = IF v = w THEN amount ELSE Settled(v)
<1> DEFINE f == SettledShare(v)
<1> DEFINE g == SettledShare(v)'
<1>1. /\ payments[p].status = "none"
      /\ withdrawals[w].status # "paid"
      /\ payments' = [payments EXCEPT ![p] =
           [status |-> "recorded", withdrawal |-> w, amount |-> amount, applied |-> ids]]
      /\ amount \in Int
  BY WithdrawalConstants DEF RecordPayment, IsNextFree, IsPayable, WithdrawalConstants
<1>2. payments \in [PaymentIds -> Payment] /\ payments' \in [PaymentIds -> Payment]
  BY DEF TypeOK
<1>3. /\ f \in [1..PaymentCount -> Int] /\ p \in 1..PaymentCount
      /\ PaymentCount \in Nat /\ PaymentIds = 1..PaymentCount
  BY <1>2, SettledShareType
<1>4. g \in [1..PaymentCount -> Int]
  BY <1>2 DEF SettledShare, PaymentIds, Payment
<1>5. f[p] = 0 /\ g[p] = IF v = w THEN amount ELSE 0
  BY <1>1, <1>2 DEF SettledShare
<1>6. \A q \in PaymentIds : q # p => g[q] = f[q]
  BY <1>1, <1>2 DEF SettledShare
<1>7. Settled(v) = Total(f, PaymentCount) /\ Settled(v)' = Total(g, PaymentCount)
  BY DEF Settled
<1> HIDE DEF f, g
<1>8. Settled(v)' = Settled(v) + g[p] - f[p]
  BY <1>3, <1>4, <1>6, <1>7, TotalOfChange
<1>9. Settled(v) \in Int /\ (v = w => Settled(v) = 0)
  BY <1>1, <1>3, <1>7, TotalType, NothingSettled
<1>10. QED
  BY <1>1, <1>5, <1>8, <1>9

----------------------------------------------------------------------------
(* The invariant of the claims. *)

LEMMA InitClaimInv ==
  ASSUME Init, TypeOK
  PROVE  ClaimInv
<1>1. UnmadeRequestsAreBlank
  BY DEF Init, UnmadeRequestsAreBlank
<1>2. ASSUME NEW i \in Influencers
      PROVE  SettledTotal(i) = PaymentTotal(i)
  <2>1. /\ PaidOutShare(i) \in [1..WithdrawalCount -> Int]
        /\ WithdrawalCount \in Nat /\ WithdrawalIds = 1..WithdrawalCount
    BY PaidOutShareType
  <2>2. \A w \in WithdrawalIds : PaidOutShare(i)[w] = 0
    BY DEF PaidOutShare, Init
  <2>3. SettledTotal(i) = 0
    BY <2>1, <2>2, TotalOfZeros DEF SettledTotal
  <2>4. /\ PaymentShare(i) \in [1..PaymentCount -> Int]
        /\ PaymentCount \in Nat /\ PaymentIds = 1..PaymentCount
        /\ PaymentTotal(i) = Total(PaymentShare(i), PaymentCount)
    BY PaymentShareType DEF TypeOK
  <2>5. \A p \in PaymentIds : PaymentShare(i)[p] = 0
    BY DEF PaymentShare, Init
  <2>6. PaymentTotal(i) = 0
    BY <2>4, <2>5, TotalOfZeros
  <2>7. QED
    BY <2>3, <2>6
<1>3. QED
  BY <1>1, <1>2 DEF ClaimInv, ClaimsMatchPayments

\* A step that pays nothing and leaves paid requests, and no other ones, paid.
LEMMA UnpaidStepsKeepClaims ==
  ASSUME TypeOK, PaymentsSettleRequests, ClaimsMatchPayments, payments' = payments,
         \A w \in WithdrawalIds :
           \/ withdrawals'[w] = withdrawals[w]
           \/ withdrawals[w].status # "paid" /\ withdrawals'[w].status # "paid"
  PROVE  ClaimsMatchPayments'
<1>1. ASSUME NEW i \in Influencers
      PROVE  SettledTotal(i)' = PaymentTotal(i)'
  <2>1. \A w \in WithdrawalIds : PaidOutShare(i)'[w] = PaidOutShare(i)[w]
    BY SettledKept DEF PaidOutShare
  <2>2. PaidOutShare(i)' = PaidOutShare(i)
    BY <2>1 DEF PaidOutShare
  <2>3. SettledTotal(i)' = SettledTotal(i)
    BY <2>2 DEF SettledTotal
  <2>4. PaymentTotal(i)' = PaymentTotal(i)
    BY PaymentTotalKept
  <2>5. QED
    BY <2>3, <2>4 DEF ClaimsMatchPayments
<1>2. QED
  BY <1>1 DEF ClaimsMatchPayments

LEMMA PaymentKeepsClaims ==
  ASSUME TypeOK, TypeOK', PaymentsSettleRequests, ClaimInv,
         NEW p \in PaymentIds, NEW w \in WithdrawalIds, NEW amount \in PaymentAmounts,
         NEW ids \in SUBSET AdjustmentIds, RecordPayment(p, w, amount, ids)
  PROVE  ClaimInv'
<1>1. /\ withdrawals[w].status \in {"pending", "approved"}
      /\ withdrawals' = [withdrawals EXCEPT ![w].status = "paid"]
      /\ withdrawals \in [WithdrawalIds -> Withdrawal]
  BY DEF RecordPayment, IsPayable, TypeOK
<1>2. /\ withdrawals'[w].status = "paid"
      /\ withdrawals'[w].influencer = withdrawals[w].influencer
      /\ \A v \in WithdrawalIds : v # w => withdrawals'[v] = withdrawals[v]
  BY <1>1 DEF Withdrawal
<1>3. UnmadeRequestsAreBlank'
  BY <1>2 DEF ClaimInv, UnmadeRequestsAreBlank
<1>4. ASSUME NEW i \in Influencers
      PROVE  SettledTotal(i)' = PaymentTotal(i)'
  <2> DEFINE f == PaidOutShare(i)
  <2> DEFINE g == PaidOutShare(i)'
  <2> DEFINE part == IF i = withdrawals[w].influencer THEN amount ELSE 0
  <2>1. /\ f \in [1..WithdrawalCount -> Int] /\ w \in 1..WithdrawalCount
        /\ WithdrawalCount \in Nat /\ WithdrawalIds = 1..WithdrawalCount
    BY PaidOutShareType
  <2>2. \A v \in WithdrawalIds : Settled(v)' = IF v = w THEN amount ELSE Settled(v)
    BY PaymentSettles
  <2>3. amount \in Int /\ part \in Int
    BY WithdrawalConstants DEF WithdrawalConstants
  <2>4. \A v \in WithdrawalIds : v # w => g[v] = f[v]
    BY <1>2, <2>2 DEF PaidOutShare
  <2>5. f[w] = 0 /\ g[w] = part
    BY <1>1, <1>2, <2>2 DEF PaidOutShare
  <2>6. DOMAIN g = WithdrawalIds /\ g = [v \in WithdrawalIds |-> g[v]]
    BY DEF PaidOutShare
  <2>7. SettledTotal(i) = Total(f, WithdrawalCount) /\ SettledTotal(i)' = Total(g, WithdrawalCount)
    BY DEF SettledTotal
  <2> HIDE DEF f, g, part
  <2>8. g \in [1..WithdrawalCount -> Int]
    <3>1. \A v \in WithdrawalIds : g[v] \in Int
      BY <2>1, <2>3, <2>4, <2>5
    <3>2. QED
      BY <2>1, <2>6, <3>1
  <2>9. SettledTotal(i)' = SettledTotal(i) + g[w] - f[w]
    BY <2>1, <2>4, <2>7, <2>8, TotalOfChange
  <2>10. PaymentTotal(i)' = PaymentTotal(i) + part
    BY PaymentAdds DEF part
  <2>11. SettledTotal(i) = PaymentTotal(i) /\ SettledTotal(i) \in Int
    BY PaidOutShareType DEF ClaimInv, ClaimsMatchPayments
  <2>12. QED
    BY <2>3, <2>5, <2>9, <2>10, <2>11
<1>5. QED
  BY <1>3, <1>4 DEF ClaimInv, ClaimsMatchPayments

LEMMA NextClaimInv ==
  ASSUME TypeInv, TypeInv', WithdrawalInv, ClaimInv, [Next]_vars
  PROVE  ClaimInv'
<1>1. /\ TypeOK /\ TypeOK' /\ PaymentsSettleRequests
      /\ withdrawals \in [WithdrawalIds -> Withdrawal]
  BY DEF TypeInv, TypeOK, WithdrawalInv
<1>2. CASE withdrawals' = withdrawals /\ payments' = payments
  <2>1. UnmadeRequestsAreBlank'
    BY <1>2 DEF ClaimInv, UnmadeRequestsAreBlank
  <2>2. QED
    BY <1>1, <1>2, <2>1, UnpaidStepsKeepClaims DEF ClaimInv
<1>3. ASSUME NEW w \in WithdrawalIds, payments' = payments,
             withdrawals[w].status # "paid",
             withdrawals'[w].status \notin {"none", "paid"},
             \A v \in WithdrawalIds : v # w => withdrawals'[v] = withdrawals[v]
      PROVE  ClaimInv'
  <2>1. UnmadeRequestsAreBlank'
    BY <1>3 DEF ClaimInv, UnmadeRequestsAreBlank
  <2>2. QED
    BY <1>1, <1>3, <2>1, UnpaidStepsKeepClaims DEF ClaimInv
<1>4. CASE Tick \/ PartnerStep \/ TierStep \/ OrderStep \/ SettlementStep \/ AdjustmentStep
  BY <1>2, <1>4, OtherStepsKeepReservations
<1>5. ASSUME NEW w \in WithdrawalIds, NEW i \in Influencers, NEW brand \in Brands,
             NEW amount \in RequestAmounts, RequestWithdrawal(w, i, brand, amount)
      PROVE  ClaimInv'
  BY <1>1, <1>3, <1>5 DEF RequestWithdrawal, IsNextFree
<1>6. ASSUME NEW w \in WithdrawalIds, NEW decision \in {"approved", "rejected"},
             DecideWithdrawal(w, decision)
      PROVE  ClaimInv'
  BY <1>1, <1>3, <1>6 DEF DecideWithdrawal, IsDecidable, Withdrawal
<1>7. ASSUME NEW p \in PaymentIds, NEW w \in WithdrawalIds, NEW amount \in PaymentAmounts,
             NEW ids \in SUBSET AdjustmentIds, RecordPayment(p, w, amount, ids)
      PROVE  ClaimInv'
  BY <1>1, <1>7, PaymentKeepsClaims
<1>8. ASSUME NEW w \in WithdrawalIds, NEW amount \in PaymentAmounts, RefusePayment(w, amount)
      PROVE  ClaimInv'
  BY <1>1, <1>3, <1>8 DEF RefusePayment, Withdrawal
<1>9. CASE UNCHANGED vars
  BY <1>2, <1>9 DEF vars, withdrawalVars
<1>10. QED
  BY <1>4, <1>5, <1>6, <1>7, <1>8, <1>9 DEF Next, WithdrawalStep, PaymentStep

THEOREM ClaimInvariance == Spec => []ClaimInv
<1>1. Init => ClaimInv
  BY InitClaimInv, InitTypeInv DEF TypeInv
<1>2. TypeInv /\ TypeInv' /\ WithdrawalInv /\ ClaimInv /\ [Next]_vars => ClaimInv'
  BY NextClaimInv
<1>3. QED
  BY <1>1, <1>2, TypeInvariance, WithdrawalInvariance, PTL DEF Spec

----------------------------------------------------------------------------
(* The promise: what may still be claimed. *)

LEMMA PromisedTotal ==
  ASSUME NEW f, NEW n
  PROVE  Promised!Total(f, n) = Total(f, n)
BY DEF Promised!Total, Total

LEMMA ClaimRow ==
  ASSUME NEW w
  PROVE  /\ Claim(w) = [status  |-> ClaimStatus[withdrawals[w].status],
                        owner   |-> withdrawals[w].influencer,
                        asked   |-> withdrawals[w].amount,
                        settled |-> Settled(w)]
         /\ Claim(w)' = [status  |-> ClaimStatus[withdrawals'[w].status],
                         owner   |-> withdrawals'[w].influencer,
                         asked   |-> withdrawals'[w].amount,
                         settled |-> Settled(w)']
BY DEF Claim, Settled, SettledShare

\* Claims are in the statuses their requests are in.
LEMMA ClaimStatuses ==
  ASSUME TypeOK, NEW w \in WithdrawalIds
  PROVE  /\ Claim(w).status \in {"asked", "granted"}
              <=> withdrawals[w].status \in {"pending", "approved"}
         /\ Claim(w).status \in {"settled"} <=> withdrawals[w].status = "paid"
<1>1. withdrawals[w].status \in {"none", "pending", "approved", "rejected", "paid"}
  BY DEF TypeOK, Withdrawal, WithdrawalStatuses
<1>2. Claim(w).status = ClaimStatus[withdrawals[w].status]
  BY ClaimRow
<1>3. QED
  BY <1>1, <1>2 DEF ClaimStatus

\* What an influencer may claim is what is earned, less open requests and payments,
\* plus the cent each paid request may have been off.
LEMMA ClaimableAmount ==
  ASSUME TypeOK, ClaimInv, NEW i \in Influencers
  PROVE  Promised!Claimable(i) =
           CommissionTotal(i, "CONFIRMED") - OpenTotal(i) - (PaymentTotal(i) - PaidCount(i))
<1> DEFINE asked == [w \in Promised!Claims |->
             IF Claim(w).owner = i /\ Claim(w).status \in {"asked", "granted"}
             THEN Claim(w).asked ELSE 0]
<1> DEFINE settled == [w \in Promised!Claims |->
             IF Claim(w).owner = i /\ Claim(w).status \in {"settled"}
             THEN Claim(w).settled - 1 ELSE 0]
<1> DEFINE open == [w \in WithdrawalIds |-> OpenShare(withdrawals[w], i)]
<1> DEFINE paid == [w \in WithdrawalIds |-> PaidShare(withdrawals[w], i)]
<1>1. Promised!Claims = WithdrawalIds
  BY DEF Promised!Claims, WithdrawalIds
<1>2. Promised!Claimable(i) =
        CommissionTotal(i, "CONFIRMED")
          - Promised!Total(asked, WithdrawalCount) - Promised!Total(settled, WithdrawalCount)
  <2> HIDE DEF Claim
  <2>1. [w \in WithdrawalIds |-> Claim(w)] = [w \in Promised!Claims |-> Claim(w)]
    BY <1>1
  <2>2. QED
    BY <2>1 DEF Promised!Claimable, Promised!ClaimTotal
<1>3. ASSUME NEW w \in WithdrawalIds
      PROVE  /\ asked[w] = open[w]
             /\ settled[w] = PaidOutShare(i)[w] - paid[w]
             /\ paid[w] \in Int /\ settled[w] \in Int
  <2>1. /\ Claim(w).owner = withdrawals[w].influencer
        /\ Claim(w).asked = withdrawals[w].amount
        /\ Claim(w).settled = Settled(w)
    BY ClaimRow
  <2>2. Settled(w) \in Int
    BY SettledShareType DEF TypeOK
  <2>3. asked[w] = open[w]
    BY <1>1, <2>1, ClaimStatuses DEF OpenShare
  <2>4. settled[w] = IF withdrawals[w].influencer = i /\ withdrawals[w].status = "paid"
                     THEN Settled(w) - 1 ELSE 0
    BY <1>1, <2>1, ClaimStatuses
  <2>5. paid[w] = IF withdrawals[w].influencer = i /\ withdrawals[w].status = "paid"
                  THEN 1 ELSE 0
    BY DEF PaidShare
  <2>6. PaidOutShare(i)[w] = IF withdrawals[w].influencer = i /\ withdrawals[w].status = "paid"
                             THEN Settled(w) ELSE 0
    BY DEF PaidOutShare
  <2> HIDE DEF settled, paid
  <2>7. QED
    BY <2>2, <2>3, <2>4, <2>5, <2>6
<1>4. asked = open
  <2>1. \A w \in WithdrawalIds : asked[w] = open[w]
    BY <1>3
  <2>2. asked = [w \in WithdrawalIds |-> asked[w]] /\ open = [w \in WithdrawalIds |-> open[w]]
    BY <1>1
  <2> HIDE DEF asked, open
  <2>3. QED
    BY <2>1, <2>2
<1>5. withdrawals \in [WithdrawalIds -> Withdrawal]
  BY DEF TypeOK
<1>6. /\ paid \in [1..WithdrawalCount -> Int]
      /\ PaidOutShare(i) \in [1..WithdrawalCount -> Int]
      /\ WithdrawalCount \in Nat /\ WithdrawalIds = 1..WithdrawalCount
  BY <1>5, ShareTypes, PaidOutShareType
<1>7. settled \in [1..WithdrawalCount -> Int]
  <2>1. settled = [w \in WithdrawalIds |-> settled[w]]
    BY <1>1
  <2> HIDE DEF settled
  <2>2. QED
    BY <1>3, <1>6, <2>1
<1>8. OpenTotal(i) = Total(open, WithdrawalCount) /\ PaidCount(i) = Total(paid, WithdrawalCount)
  BY TotalsOfShares
<1> HIDE DEF settled, paid, asked, open
<1>9. ASSUME NEW w \in WithdrawalIds
      PROVE  PaidOutShare(i)[w] = settled[w] + paid[w]
  <2>1. PaidOutShare(i)[w] \in Int
    BY <1>6
  <2>2. settled[w] = PaidOutShare(i)[w] - paid[w] /\ paid[w] \in Int /\ settled[w] \in Int
    BY <1>3
  <2>3. QED
    BY <2>1, <2>2
<1>10. SettledTotal(i) = Total(settled, WithdrawalCount) + Total(paid, WithdrawalCount)
  BY <1>6, <1>7, <1>9, TotalOfSum DEF SettledTotal
<1>11. SettledTotal(i) = PaymentTotal(i)
  BY DEF ClaimInv, ClaimsMatchPayments
<1>12. Total(settled, WithdrawalCount) \in Int /\ Total(paid, WithdrawalCount) \in Int
  BY <1>6, <1>7, TotalType
<1>13. Promised!Claimable(i) =
         CommissionTotal(i, "CONFIRMED") - OpenTotal(i) - Total(settled, WithdrawalCount)
  BY <1>2, <1>4, <1>8, PromisedTotal
<1>14. Total(settled, WithdrawalCount) = PaymentTotal(i) - PaidCount(i)
  BY <1>8, <1>10, <1>11, <1>12
<1>15. QED
  BY <1>13, <1>14

\* What a balance has available can be claimed.
LEMMA AvailableCanBeClaimed ==
  ASSUME TypeOK, WithdrawalInv, ClaimInv, BalancesMatchCommissions, AvailableIsDerived,
         NEW i \in Influencers
  PROVE  /\ Promised!Claimable(i) \in Int
         /\ balances[i].available <= Promised!Claimable(i)
<1> DEFINE b == balances[i]
<1>1. /\ b.available \in Int /\ b.confirmed \in Int /\ b.withdrawn \in Int /\ b.pending \in Int
      /\ OpenTotal(i) \in Int /\ PaidCount(i) \in Int
  BY TotalTypes DEF TypeOK, Balance
<1>2. /\ b.available = b.confirmed - b.withdrawn - b.pending
      /\ b.confirmed = CommissionTotal(i, "CONFIRMED")
      /\ b.withdrawn = PaymentTotal(i)
      /\ Distance(b.pending, OpenTotal(i)) <= PaidCount(i)
  BY DEF AvailableIsDerived, BalancesMatchCommissions, WithdrawalInv,
     WithdrawnMatchesPayments, ReservationsMatchOpenRequests
<1>3. Promised!Claimable(i) = b.confirmed - OpenTotal(i) - (b.withdrawn - PaidCount(i))
  BY <1>2, ClaimableAmount
<1>4. b.pending >= OpenTotal(i) - PaidCount(i)
  BY <1>1, <1>2 DEF Distance
<1> HIDE DEF b
<1>5. QED
  BY <1>1, <1>2, <1>3, <1>4 DEF b

----------------------------------------------------------------------------
(* The promise, step by step. *)

\* Claims whose request and payments stay as they are stay as they are.
LEMMA ClaimKept ==
  ASSUME NEW w \in WithdrawalIds,
         withdrawals'[w] = withdrawals[w], Settled(w)' = Settled(w)
  PROVE  Claim(w)' = Claim(w)
BY ClaimRow

\* When the claims but one stay as they are, that one is all that changes.
LEMMA OneClaimChanges ==
  ASSUME NEW w \in WithdrawalIds,
         \A v \in WithdrawalIds :
           v # w => withdrawals'[v] = withdrawals[v] /\ Settled(v)' = Settled(v)
  PROVE  [v \in WithdrawalIds |-> Claim(v)]' =
           [[v \in WithdrawalIds |-> Claim(v)] EXCEPT ![w] = Claim(w)']
<1>1. \A v \in WithdrawalIds : v # w => Claim(v)' = Claim(v)
  BY ClaimKept
<1> HIDE DEF Claim
<1>2. QED
  BY <1>1

\* No step but an order event or a settlement changes what is earned.
LEMMA EarnedKept ==
  ASSUME UNCHANGED orderVars
  PROVE  [i \in Influencers |-> CommissionTotal(i, "CONFIRMED")]' =
           [i \in Influencers |-> CommissionTotal(i, "CONFIRMED")]
BY DEF CommissionTotal, OwnerOf, orderVars

\* A step that is not about requests is one of earning.
LEMMA ElsewhereEarns ==
  ASSUME TypeInv', BalancesMatchCommissions', withdrawals' = withdrawals, payments' = payments
  PROVE  Promised!Earn
<1>1. \A w \in WithdrawalIds : Claim(w)' = Claim(w)
  BY ClaimKept, SettledKept
<1>2. [w \in WithdrawalIds |-> Claim(w)]' = [w \in WithdrawalIds |-> Claim(w)]
  BY <1>1
<1>3. \A i \in Influencers : CommissionTotal(i, "CONFIRMED")' \in Int
  <2>1. \A i \in Influencers : balances'[i].confirmed \in Int
    BY DEF TypeInv, TypeOK, Balance
  <2>2. QED
    BY <2>1 DEF BalancesMatchCommissions
<1>4. [i \in Influencers |-> CommissionTotal(i, "CONFIRMED")]' \in [Influencers -> Int]
  BY <1>3
<1>5. QED
  BY <1>2, <1>4 DEF Promised!Earn

LEMMA RequestAsks ==
  ASSUME TypeInv, WithdrawalInv, ClaimInv, BalancesMatchCommissions, AvailableIsDerived,
         NEW w \in WithdrawalIds, NEW i \in Influencers, NEW brand \in Brands,
         NEW amount \in RequestAmounts, RequestWithdrawal(w, i, brand, amount)
  PROVE  Promised!Ask(w, i, amount)
<1> DEFINE row == [status |-> "pending", influencer |-> i, amount |-> amount]
<1>1. /\ withdrawals[w].status = "none"
      /\ amount > 0 /\ amount <= balances[i].available
      /\ withdrawals' = [withdrawals EXCEPT ![w] = row]
      /\ payments' = payments /\ UNCHANGED orderVars
  BY DEF RequestWithdrawal, IsNextFree, CanRequest
<1>2. TypeOK /\ withdrawals \in [WithdrawalIds -> Withdrawal] /\ amount \in Int
      /\ balances[i].available \in Int
  BY WithdrawalConstants DEF TypeInv, TypeOK, WithdrawalConstants, Balance
<1>3. Settled(w) = 0
  BY <1>1, <1>2, NothingSettled DEF WithdrawalInv
<1>4. withdrawals[w].influencer = None /\ withdrawals[w].amount = 0
  BY <1>1 DEF ClaimInv, UnmadeRequestsAreBlank
<1>5. Claim(w) = Promised!Unmade
  BY <1>1, <1>3, <1>4, ClaimRow DEF Promised!Unmade, ClaimStatus
<1>6. Claim(w)' = [status |-> "asked", owner |-> i, asked |-> amount, settled |-> 0]
  <2>1. withdrawals'[w] = row /\ Settled(w)' = 0
    BY <1>1, <1>2, <1>3, SettledKept
  <2>2. QED
    BY <2>1, ClaimRow DEF ClaimStatus
<1>7. amount <= Promised!Claimable(i)
  BY <1>1, <1>2, AvailableCanBeClaimed
<1>8. [v \in WithdrawalIds |-> Claim(v)]' =
        [[v \in WithdrawalIds |-> Claim(v)] EXCEPT ![w] = Claim(w)']
  BY <1>1, <1>2, SettledKept, OneClaimChanges
<1> HIDE DEF Claim
<1>9. QED
  BY <1>1, <1>5, <1>6, <1>7, <1>8, EarnedKept DEF Promised!Ask

\* A pending request that is decided, without a payment.
LEMMA DecisionGrantsOrRefuses ==
  ASSUME TypeOK, NEW w \in WithdrawalIds, withdrawals[w].status = "pending",
         NEW decision \in {"approved", "rejected"},
         withdrawals' = [withdrawals EXCEPT ![w].status = decision],
         payments' = payments, UNCHANGED orderVars
  PROVE  Promised!Grant(w) \/ Promised!Refuse(w)
<1> DEFINE outcome == IF decision = "approved" THEN "granted" ELSE "refused"
<1>1. withdrawals \in [WithdrawalIds -> Withdrawal]
  BY DEF TypeOK
<1>2. /\ withdrawals'[w].status = decision
      /\ withdrawals'[w].influencer = withdrawals[w].influencer
      /\ withdrawals'[w].amount = withdrawals[w].amount
      /\ \A v \in WithdrawalIds : v # w => withdrawals'[v] = withdrawals[v]
  BY <1>1 DEF Withdrawal
<1>3. Claim(w).status = "asked"
  BY ClaimRow DEF ClaimStatus
<1>4. Claim(w)' = [Claim(w) EXCEPT !.status = outcome]
  <2> DEFINE request == withdrawals[w]
  <2>1. Claim(w) = [status |-> "asked", owner |-> request.influencer,
                    asked |-> request.amount, settled |-> Settled(w)]
    BY ClaimRow DEF ClaimStatus
  <2>2. ClaimStatus[decision] = outcome
    BY DEF ClaimStatus
  <2>3. Claim(w)' = [status |-> outcome, owner |-> request.influencer,
                     asked |-> request.amount, settled |-> Settled(w)]
    BY <1>2, <2>2, ClaimRow, SettledKept
  <2> HIDE DEF Claim, request, outcome
  <2>4. QED
    BY <2>1, <2>3
<1>5. [v \in WithdrawalIds |-> Claim(v)]' =
        [[v \in WithdrawalIds |-> Claim(v)] EXCEPT ![w] = Claim(w)']
  BY <1>2, SettledKept, OneClaimChanges
<1> HIDE DEF Claim
<1>6. [v \in WithdrawalIds |-> Claim(v)]' =
        [[v \in WithdrawalIds |-> Claim(v)] EXCEPT ![w].status = outcome]
  BY <1>4, <1>5
<1>7. CASE decision = "approved"
  BY <1>3, <1>6, <1>7, EarnedKept DEF Promised!Grant
<1>8. CASE decision = "rejected"
  BY <1>3, <1>6, <1>8, EarnedKept DEF Promised!Refuse
<1>9. QED
  BY <1>7, <1>8

LEMMA PaymentSettlesClaim ==
  ASSUME TypeInv, TypeInv', WithdrawalInv,
         NEW p \in PaymentIds, NEW w \in WithdrawalIds, NEW amount \in PaymentAmounts,
         NEW ids \in SUBSET AdjustmentIds, RecordPayment(p, w, amount, ids)
  PROVE  Promised!Settle(w, amount)
<1>1. /\ withdrawals[w].status \in {"pending", "approved"}
      /\ Distance(amount, withdrawals[w].amount) <= 1
      /\ withdrawals' = [withdrawals EXCEPT ![w].status = "paid"]
      /\ UNCHANGED orderVars
  BY DEF RecordPayment, IsPayable, MayMatch
<1>2. TypeOK /\ TypeOK' /\ withdrawals \in [WithdrawalIds -> Withdrawal]
      /\ PaymentsSettleRequests
  BY DEF TypeInv, TypeOK, WithdrawalInv
<1>3. /\ withdrawals'[w].status = "paid"
      /\ withdrawals'[w].influencer = withdrawals[w].influencer
      /\ withdrawals'[w].amount = withdrawals[w].amount
      /\ \A v \in WithdrawalIds : v # w => withdrawals'[v] = withdrawals[v]
  BY <1>1, <1>2 DEF Withdrawal
<1>4. \A v \in WithdrawalIds : Settled(v)' = IF v = w THEN amount ELSE Settled(v)
  BY <1>2, PaymentSettles
<1>5. Claim(w).status \in {"asked", "granted"} /\ Claim(w).asked = withdrawals[w].amount
  BY <1>1, ClaimRow DEF ClaimStatus
<1>6. Claim(w)' = [Claim(w) EXCEPT !.status = "settled", !.settled = amount]
  <2> DEFINE request == withdrawals[w]
  <2>1. Claim(w) = [status |-> ClaimStatus[request.status], owner |-> request.influencer,
                    asked |-> request.amount, settled |-> Settled(w)]
    BY ClaimRow
  <2>2. Claim(w)' = [status |-> "settled", owner |-> request.influencer,
                     asked |-> request.amount, settled |-> amount]
    BY <1>3, <1>4, ClaimRow DEF ClaimStatus
  <2> DEFINE reached == [Claim(w) EXCEPT !.status = "settled"]
  <2> HIDE DEF Claim, request, ClaimStatus
  <2>3. reached = [status |-> "settled", owner |-> request.influencer,
                   asked |-> request.amount, settled |-> Settled(w)]
    BY <2>1
  <2>4. [Claim(w) EXCEPT !.status = "settled", !.settled = amount]
          = [reached EXCEPT !.settled = amount]
    OBVIOUS
  <2> HIDE DEF reached
  <2>5. QED
    BY <2>2, <2>3, <2>4
<1>7. [v \in WithdrawalIds |-> Claim(v)]' =
        [[v \in WithdrawalIds |-> Claim(v)] EXCEPT ![w] = Claim(w)']
  BY <1>3, <1>4, OneClaimChanges
<1>8. Promised!Distance(amount, Claim(w).asked) <= 1
  BY <1>1, <1>5 DEF Promised!Distance, Distance
<1> HIDE DEF Claim
<1>9. [v \in WithdrawalIds |-> Claim(v)]' =
        [[v \in WithdrawalIds |-> Claim(v)] EXCEPT ![w].status = "settled", ![w].settled = amount]
  BY <1>6, <1>7
<1>10. QED
  BY <1>1, <1>5, <1>8, <1>9, EarnedKept DEF Promised!Settle

\* The initial states map to the account's.
LEMMA InitPromised ==
  ASSUME PaymentsInit
  PROVE  Promised!Init
<1>1. Init
  BY DEF PaymentsInit
<1>2. TypeOK /\ ClaimInv
  BY <1>1, InitTypeInv, InitClaimInv DEF TypeInv
<1>3. ASSUME NEW i \in Influencers PROVE CommissionTotal(i, "CONFIRMED") = 0
  <2> DEFINE f == [o \in OrderIds |->
             IF commissions[o].state = "CONFIRMED" /\ OwnerOf(o) = i
             THEN commissions[o].amount ELSE 0]
  <2>1. f \in [1..OrderCount -> Int] /\ \A o \in 1..OrderCount : f[o] = 0
    BY <1>1 DEF Init, OrderIds
  <2>2. CommissionTotal(i, "CONFIRMED") = Total(f, OrderCount)
    BY DEF CommissionTotal
  <2>3. OrderCount \in Nat
    BY LedgerConstants DEF LedgerConstants
  <2> HIDE DEF f
  <2>4. QED
    BY <2>1, <2>2, <2>3, TotalOfZeros
<1>4. ASSUME NEW w \in WithdrawalIds PROVE Claim(w) = Promised!Unmade
  <2>1. /\ withdrawals[w].status = "none"
        /\ withdrawals[w].influencer = None /\ withdrawals[w].amount = 0
    BY <1>1 DEF Init
  <2>2. Settled(w) = 0
    <3>1. PaymentsSettleRequests
      BY <1>1 DEF Init, PaymentsSettleRequests
    <3>2. QED
      BY <1>2, <2>1, <3>1, NothingSettled
  <2>3. QED
    BY <2>1, <2>2, ClaimRow DEF ClaimStatus, Promised!Unmade
<1> HIDE DEF Claim
<1>5. QED
  BY <1>3, <1>4 DEF Promised!Init, Promised!Claims, WithdrawalIds

\* Every step maps to a step of the account, or to none.
PromiseInv ==
  /\ TypeInv /\ WithdrawalInv /\ ClaimInv
  /\ BalancesMatchCommissions /\ AvailableIsDerived

LEMMA StepsKeepPromise ==
  ASSUME PromiseInv, PromiseInv', [PaymentsNext]_allVars
  PROVE  [Promised!Next]_(Promised!vars)
<1>1. TypeOK /\ Promised!Claims = WithdrawalIds
  BY DEF PromiseInv, TypeInv, Promised!Claims, WithdrawalIds
<1>2. CASE UNCHANGED vars
  <2>1. withdrawals' = withdrawals /\ payments' = payments /\ UNCHANGED orderVars
    BY <1>2 DEF vars, withdrawalVars
  <2>2. \A w \in WithdrawalIds : Claim(w)' = Claim(w)
    BY <2>1, ClaimKept, SettledKept
  <2>3. [w \in WithdrawalIds |-> Claim(w)]' = [w \in WithdrawalIds |-> Claim(w)]
    BY <2>2
  <2>4. QED
    BY <2>1, <2>3, EarnedKept DEF Promised!vars
<1>3. CASE ElsewhereStep
  <2>1. Promised!Earn
    BY <1>3, OtherStepsKeepReservations, ElsewhereEarns DEF ElsewhereStep, PromiseInv
  <2>2. QED
    BY <2>1 DEF Promised!Next
<1>4. ASSUME NEW w \in WithdrawalIds, NEW i \in Influencers, NEW brand \in Brands,
             NEW amount \in RequestAmounts, CreateWithdrawal(w, i, brand, amount)
      PROVE  Promised!Next
  <2>1. Promised!Ask(w, i, amount)
    BY <1>4, RequestAsks DEF CreateWithdrawal, PromiseInv
  <2>2. QED
    BY <1>1, <2>1 DEF Promised!Next
<1>5. ASSUME NEW w \in WithdrawalIds, NEW decision \in {"approved", "rejected"},
             DecideWithdrawal(w, decision)
      PROVE  Promised!Next
  <2>1. Promised!Grant(w) \/ Promised!Refuse(w)
    BY <1>1, <1>5, DecisionGrantsOrRefuses DEF DecideWithdrawal, IsDecidable
  <2>2. QED
    BY <1>1, <2>1 DEF Promised!Next
<1>6. ASSUME NEW p \in PaymentIds, NEW w \in WithdrawalIds, NEW amount \in PaymentAmounts,
             NEW ids \in SUBSET AdjustmentIds, PayAndTell(p, w, amount, ids)
      PROVE  Promised!Next
  <2>1. Promised!Settle(w, amount)
    BY <1>6, PaymentSettlesClaim DEF PayAndTell, PromiseInv
  <2>2. QED
    BY <1>1, <2>1 DEF Promised!Next
<1>7. ASSUME NEW w \in WithdrawalIds, NEW amount \in PaymentAmounts, RefuseQuietly(w, amount)
      PROVE  Promised!Next
  <2>1. Promised!Grant(w) \/ Promised!Refuse(w)
    BY <1>1, <1>7, DecisionGrantsOrRefuses DEF RefuseQuietly, RefusePayment
  <2>2. QED
    BY <1>1, <2>1 DEF Promised!Next
<1>8. CASE UNCHANGED allVars
  BY <1>2, <1>8 DEF allVars
<1>9. QED
  BY <1>2, <1>3, <1>4, <1>5, <1>6, <1>7, <1>8 DEF PaymentsNext, DecideAndTell

\* The service keeps the promise of Account: whatever sales, decisions, payments and
\* adjustments come in which order, a request is for no more than is earned and not yet
\* claimed, keeps its owner and amount, and is settled at most once, for what it asked
\* for to the cent (requestWithdrawal, decideWithdrawal, recordPayment).
THEOREM PaymentsImplementAccount == PaymentsSpec => ImplementsAccount
<1>1. PaymentsInit => Promised!Init
  BY InitPromised
<1>2. PromiseInv /\ PromiseInv' /\ [PaymentsNext]_allVars => [Promised!Next]_(Promised!vars)
  BY StepsKeepPromise
<1>3. Spec => []PromiseInv
  BY TypeInvariance, WithdrawalInvariance, ClaimInvariance, BalanceCorrectness,
     AvailableCorrectness, PTL DEF PromiseInv
<1>4. QED
  BY <1>1, <1>2, <1>3, PaymentsImplementLedger, PTL
     DEF PaymentsSpec, ImplementsAccount, Promised!Spec

=============================================================================
