---------------------------- MODULE CouponProofs ----------------------------
(***************************************************************************)
(* What is left of a coupon when the last sync of its code has succeeded,  *)
(* proved for any number of codes, syncs and retries.                      *)
(***************************************************************************)
EXTENDS CouponSync, FiniteSetTheorems, TLAPS

----------------------------------------------------------------------------
(* Types. *)

\* A sync is a pair of a code and a number.
LEMMA SyncIsAPair ==
  ASSUME NEW s \in Syncs
  PROVE  s[1] \in Discounts /\ s[2] \in 1..SyncCount /\ s = <<s[1], s[2]>>
BY DEF Syncs

\* What a failed attempt leaves of a sync.
LEMMA RetriedIsASync ==
  ASSUME NEW sync \in Sync
  PROVE  /\ Retried(sync) \in Sync
         /\ Retried(sync).answer = "none"
         /\ Retried(sync).reading = FALSE
         /\ Retried(sync).phase \in {sync.phase, "failed"}
<1>1. MaxRetries \in Nat
  BY CouponConstants
<1>2. CASE sync.attempt < MaxRetries
  <2>1. sync.attempt + 1 \in 0..MaxRetries
    BY <1>1, <1>2 DEF Sync
  <2>2. QED
    BY <1>2, <2>1 DEF Retried, Sync
<1>3. CASE ~(sync.attempt < MaxRetries)
  BY <1>3 DEF Retried, Ended, Sync
<1>4. QED
  BY <1>2, <1>3

LEMMA AwaitedIsASync ==
  ASSUME NEW sync \in Sync, NEW operation \in Operations
  PROVE  /\ Await(sync, operation) \in Sync
         /\ Await(sync, operation).answer = "none"
         /\ Await(sync, operation).reading = FALSE
         /\ Await(sync, operation).phase = operation
<1>1. 0 \in 0..MaxRetries
  BY CouponConstants
<1>2. QED
  BY <1>1 DEF Await, Sync

LEMMA DoneIsASync ==
  ASSUME NEW sync \in Sync
  PROVE  /\ Ended(sync, "done") \in Sync
         /\ Ended(sync, "done").answer = "none"
         /\ Ended(sync, "done").reading = FALSE
         /\ Ended(sync, "done").phase = "done"
BY DEF Ended, Sync

LEMMA AppliedIsARow ==
  ASSUME NEW row \in Row, NEW activated \in BOOLEAN, NEW answer
  PROVE  Applied(row, activated, answer) \in Row
BY DEF Applied, Row, CouponStatuses

LEMMA ContinueTypes ==
  ASSUME TypeOK, NEW s \in Syncs, NEW sync \in Sync, Continue(s, sync)
  PROVE  syncs' \in [Syncs -> Sync] /\ requests' \subseteq Request
<1>1. syncs' \in [Syncs -> Sync]
  BY DEF Continue, TypeOK
<1>2. sync.phase \in Operations => RequestOf(s, sync) \in Request
  BY DEF RequestOf, Request, Sync
<1>3. QED
  BY <1>1, <1>2 DEF Continue, TypeOK

LEMMA StartSyncsTypes ==
  ASSUME TypeOK, NEW ds \in SUBSET Discounts, NEW force \in BOOLEAN, StartSyncs(ds, force)
  PROVE  /\ syncs' \in [Syncs -> Sync]
         /\ requests' \subseteq Request
         /\ disturbed' \subseteq Discounts
<1> DEFINE started == {<<d, NextSync(d)>> : d \in ds}
           begun   == [phase |-> "upsert", force |-> force, attempt |-> 0, answer |-> "none",
                       reading |-> FALSE]
<1>1. /\ started \subseteq Syncs
      /\ syncs' = [s \in Syncs |-> IF s \in started THEN begun ELSE syncs[s]]
      /\ requests' = requests \cup {RequestOf(s, begun) : s \in started}
      /\ disturbed' = disturbed \cup {d \in ds : IsBusy(d)}
  BY DEF StartSyncs
<1>2. begun \in Sync
  BY CouponConstants DEF Sync, Operations
<1>3. ASSUME NEW s \in Syncs
      PROVE  RequestOf(s, begun) \in Request
  BY <1>2 DEF RequestOf, Request, Sync, Operations
<1> HIDE DEF started, begun
<1>4. syncs' \in [Syncs -> Sync]
  BY <1>1, <1>2 DEF TypeOK
<1>5. requests' \subseteq Request
  BY <1>1, <1>3 DEF TypeOK
<1>6. QED
  BY <1>1, <1>4, <1>5 DEF TypeOK

LEMMA AnsweredTypes ==
  ASSUME TypeOK, NEW r \in Request,
         NEW answer \in {"refused"} \cup CouponStatuses
  PROVE  Answered(r, answer) \in [Syncs -> Sync]
<1>1. r.sync \in Syncs /\ syncs[r.sync] \in Sync
  BY DEF TypeOK, Request
<1>2. [syncs[r.sync] EXCEPT !.answer = answer] \in Sync
  BY <1>1 DEF Sync
<1>3. QED
  BY <1>1, <1>2 DEF Answered, TypeOK

LEMMA OutcomesAreStatuses ==
  ASSUME NEW operation \in Operations
  PROVE  Outcomes(operation) \subseteq CouponStatuses
BY DEF Outcomes, Operations, CouponStatuses

LEMMA InitTypeOK == Init => TypeOK
<1> SUFFICES ASSUME Init PROVE TypeOK
  OBVIOUS
<1>1. [phase |-> "idle", force |-> FALSE, attempt |-> 0, answer |-> "none",
       reading |-> FALSE] \in Sync
  BY CouponConstants DEF Sync
<1>2. [status |-> "none", linked |-> FALSE] \in Row
  BY DEF Row
<1>3. QED
  BY <1>1, <1>2 DEF Init, TypeOK

LEMMA NextTypeOK ==
  ASSUME TypeOK, [Next]_vars
  PROVE  TypeOK'
<1> USE DEF platform
<1>1. ASSUME NEW s \in Syncs, ClientStep(s)
      PROVE  TypeOK'
  <2>1. s[1] \in Discounts /\ syncs[s] \in Sync /\ rows[s[1]] \in Row
    BY SyncIsAPair DEF TypeOK
  <2>2. CASE TimesOut(s)
    BY <2>1, <2>2, RetriedIsASync, ContinueTypes DEF TimesOut, TypeOK
  <2>3. CASE ReceivesError(s)
    BY <2>1, <2>3, RetriedIsASync, ContinueTypes DEF ReceivesError, TypeOK
  <2>4. CASE ReceivesUpsert(s)
    <3>1. ShouldActivateCoupon(s[1], syncs[s].force) \in BOOLEAN
      BY <2>1 DEF ShouldActivateCoupon, Sync
    <3>2. Applied(rows[s[1]], ShouldActivateCoupon(s[1], syncs[s].force), syncs[s].answer)
            \in Row
      BY <2>1, <3>1, AppliedIsARow
    <3>3. CASE /\ Continue(s, Ended(syncs[s], "done"))
               /\ rows' = [rows EXCEPT ![s[1]] =
                    Applied(@, ShouldActivateCoupon(s[1], syncs[s].force), syncs[s].answer)]
      BY <2>1, <2>4, <3>2, <3>3, DoneIsASync, ContinueTypes DEF ReceivesUpsert, TypeOK
    <3>4. ASSUME NEW operation \in Operations, Continue(s, Await(syncs[s], operation)),
                 rows' = rows
          PROVE  TypeOK'
      BY <2>1, <2>4, <3>4, AwaitedIsASync, ContinueTypes DEF ReceivesUpsert, TypeOK
    <3>5. QED
      BY <2>4, <3>3, <3>4 DEF ReceivesUpsert, Operations
  <2>5. CASE ReceivesStatus(s)
    <3>1. Applied(rows[s[1]], syncs[s].phase = "activate", syncs[s].answer) \in Row
      BY <2>1, AppliedIsARow
    <3>2. QED
      BY <2>1, <2>5, <3>1, DoneIsASync, ContinueTypes DEF ReceivesStatus, TypeOK
  <2>6. CASE HeadersArrive(s)
    <3>1. [syncs[s] EXCEPT !.reading = TRUE] \in Sync
      BY <2>1 DEF Sync
    <3>2. QED
      BY <2>6, <3>1 DEF HeadersArrive, TypeOK
  <2>7. QED
    BY <1>1, <2>2, <2>3, <2>4, <2>5, <2>6 DEF ClientStep
<1>2. ASSUME NEW d \in Discounts, Generate(d)
      PROVE  TypeOK'
  <2>1. rows' \in [Discounts -> Row]
    BY <1>2 DEF Generate, TypeOK, Row, CouponStatuses
  <2>2. QED
    BY <1>2, <2>1, StartSyncsTypes DEF Generate, TypeOK
<1>3. ASSUME NEW d \in Discounts, SyncDiscountCode(d)
      PROVE  TypeOK'
  BY <1>3, StartSyncsTypes DEF SyncDiscountCode, TypeOK
<1>4. ASSUME NEW i \in Influencers, NEW approve \in BOOLEAN, UpdateStatus(i, approve)
      PROVE  TypeOK'
  <2>1. CodesToSync(i) \in SUBSET Discounts
    BY DEF CodesToSync
  <2>2. approved' \subseteq Influencers
    BY <1>4 DEF UpdateStatus, TypeOK
  <2>3. QED
    BY <1>4, <2>1, <2>2, StartSyncsTypes DEF UpdateStatus, TypeOK
<1>5. ASSUME NEW c \in Campaigns, NEW activate \in BOOLEAN, UpdateCampaign(c, activate)
      PROVE  TypeOK'
  BY <1>5 DEF UpdateCampaign, TypeOK
<1>6. ASSUME NEW r \in requests, Applies(r) \/ Refuses(r)
      PROVE  TypeOK'
  <2>1. r \in Request /\ r.sync[1] \in Discounts
    BY SyncIsAPair DEF TypeOK, Request
  <2>2. CASE Applies(r)
    <3>1. PICK status \in Outcomes(r.operation) :
            /\ coupons' = [coupons EXCEPT ![r.sync[1]] = status]
            /\ syncs' = Answered(r, status)
            /\ requests' = requests \ {r}
            /\ UNCHANGED <<platform, rows, disturbed>>
      BY <2>2 DEF Applies
    <3>2. status \in CouponStatuses
      BY <2>1, <3>1, OutcomesAreStatuses DEF Request
    <3>3. QED
      BY <2>1, <3>1, <3>2, AnsweredTypes DEF TypeOK
  <2>3. CASE Refuses(r)
    BY <2>1, <2>3, AnsweredTypes DEF Refuses, TypeOK
  <2>4. QED
    BY <1>6, <2>2, <2>3
<1>7. CASE UNCHANGED vars
  BY <1>7 DEF vars, TypeOK
<1>8. QED
  BY <1>1, <1>2, <1>3, <1>4, <1>5, <1>6, <1>7 DEF Next

\* The state of coupons, codes and syncs has its type: no sync is begun beyond
\* its bound, and no attempt made beyond MaxRetries.
THEOREM CouponTypeCorrectness == Spec => []TypeOK
<1>1. TypeOK /\ [Next]_vars => TypeOK'
  BY NextTypeOK
<1>2. QED
  BY <1>1, InitTypeOK, PTL DEF Spec

----------------------------------------------------------------------------
(* The inductive invariant. *)

\* The syncs of a code are begun in the order of their numbers.
UsedInOrder == \A d \in Discounts : UsedSyncs(d) = 1..Cardinality(UsedSyncs(d))

\* A code is generated before it is synchronised, so that no status change
\* overlooks it.
GeneratedFirst == \A d \in Discounts : UsedSyncs(d) # {} => rows[d].status # "none"

LastSync(d) == <<d, Cardinality(UsedSyncs(d))>>

\* Of a code whose syncs were not disturbed: no sync waits but the last,
OnlyTheLastWaits(d) == \A s \in Syncs : s[1] = d /\ IsWaiting(s) => s = LastSync(d)

\* no request is on its way but the one the last sync waits for,
RequestsAreAwaited(d) == \A r \in requests : r.sync[1] = d =>
  /\ IsWaiting(r.sync)
  /\ r = RequestOf(r.sync, syncs[r.sync])
  /\ syncs[r.sync].answer = "none"

\* what VTEX answered is what the coupon is, and what was decided still stands,
AnswersAreCurrent(d) == \A s \in Syncs : s[1] = d /\ IsWaiting(s) =>
  /\ syncs[s].answer \in CouponStatuses =>
       syncs[s].answer = coupons[d] /\ coupons[d] \in Outcomes(syncs[s].phase)
  /\ syncs[s].phase = "activate" => InfluencerOf[d] \in approved

\* and a success left coupon and code as the properties say.
Holds(d) ==
  /\ coupons[d] = "active" => InfluencerOf[d] \in approved
  /\ \/ rows[d].status = coupons[d]
     \/ rows[d].status = "active" /\ coupons[d] = "pending"

OutcomeStands(d) ==
  UsedSyncs(d) # {} /\ syncs[LastSync(d)].phase = "done" => Holds(d)

Calm(d) ==
  OnlyTheLastWaits(d) /\ RequestsAreAwaited(d) /\ AnswersAreCurrent(d) /\ OutcomeStands(d)

\* Headers are read of an answer.
AnswersAreRead == \A s \in Syncs : syncs[s].reading => syncs[s].answer # "none"

CouponInv ==
  /\ UsedInOrder
  /\ GeneratedFirst
  /\ AnswersAreRead
  /\ \A d \in Discounts : d \notin disturbed => Calm(d)

LEMMA LastSyncIsASync ==
  ASSUME NEW d \in Discounts, UsedSyncs(d) # {}
  PROVE  LastSync(d) \in Syncs
<1>1. Cardinality(UsedSyncs(d)) \in 1..SyncCount
  <2>1. SyncCount \in Nat /\ IsFiniteSet(1..SyncCount) /\ UsedSyncs(d) \subseteq 1..SyncCount
    BY CouponConstants, FS_Interval DEF UsedSyncs
  <2>2. IsFiniteSet(UsedSyncs(d)) /\ Cardinality(UsedSyncs(d)) <= Cardinality(1..SyncCount)
    BY <2>1, FS_Subset
  <2>3. Cardinality(1..SyncCount) = SyncCount
    BY <2>1, FS_Interval
  <2>4. Cardinality(UsedSyncs(d)) \in Nat /\ Cardinality(UsedSyncs(d)) # 0
    BY <2>2, FS_CardinalityType, FS_EmptySet
  <2>5. QED
    BY <2>1, <2>2, <2>3, <2>4
<1>2. QED
  BY <1>1 DEF LastSync, Syncs

\* What is done about other codes does not disturb the calm of a code.
LEMMA CalmElsewhere ==
  ASSUME TypeOK, TypeOK', NEW d \in Discounts, Calm(d),
         \A s \in Syncs : s[1] = d => syncs'[s] = syncs[s],
         \A r \in requests' : r.sync[1] = d => r \in requests,
         UsedSyncs(d) # {} =>
           /\ rows'[d] = rows[d]
           /\ coupons'[d] = coupons[d]
           /\ InfluencerOf[d] \in approved => InfluencerOf[d] \in approved'
  PROVE  UsedSyncs(d)' = UsedSyncs(d) /\ Calm(d)'
<1>1. \A n \in 1..SyncCount : <<d, n>> \in Syncs /\ syncs'[<<d, n>>] = syncs[<<d, n>>]
  BY DEF Syncs
<1>2. UsedSyncs(d)' = UsedSyncs(d)
  BY <1>1 DEF UsedSyncs
<1>3. LastSync(d)' = LastSync(d)
  BY <1>2 DEF LastSync
<1>4. ASSUME NEW s \in Syncs, s[1] = d, IsWaiting(s)' PROVE IsWaiting(s) /\ s[2] \in UsedSyncs(d)
  <2>1. IsWaiting(s) /\ syncs[s].phase # "idle"
    BY <1>4 DEF IsWaiting, Operations
  <2>2. QED
    BY <2>1, <1>4, SyncIsAPair DEF UsedSyncs
<1>5. OnlyTheLastWaits(d)'
  BY <1>3, <1>4 DEF Calm, OnlyTheLastWaits
<1>6. RequestsAreAwaited(d)'
  <2>1. ASSUME NEW r \in requests', r.sync[1] = d
        PROVE  r \in requests /\ r.sync \in Syncs /\ syncs'[r.sync] = syncs[r.sync]
    <3>1. r \in Request
      BY <2>1 DEF TypeOK
    <3>2. QED
      BY <2>1, <3>1 DEF Request
  <2>2. QED
    BY <2>1 DEF Calm, RequestsAreAwaited, IsWaiting, RequestOf
<1>7. AnswersAreCurrent(d)'
  BY <1>4 DEF Calm, AnswersAreCurrent
<1>8. OutcomeStands(d)'
  <2>1. SUFFICES ASSUME UsedSyncs(d) # {}, (syncs[LastSync(d)].phase)' = "done"
                 PROVE  Holds(d)'
    BY <1>2 DEF OutcomeStands
  <2>2. LastSync(d) \in Syncs
    BY <2>1, LastSyncIsASync
  <2>3. syncs[LastSync(d)].phase = "done"
    BY <1>3, <2>1, <2>2 DEF LastSync
  <2>4. Holds(d)
    BY <2>1, <2>3 DEF Calm, OutcomeStands
  <2>5. QED
    BY <2>1, <2>4 DEF Holds
<1>9. QED
  BY <1>2, <1>5, <1>6, <1>7, <1>8 DEF Calm

----------------------------------------------------------------------------
(* The steps of a sync. *)

\* Of an undisturbed code nothing is on its way but what its waiting sync sent.
LEMMA RequestIsOfTheWaiting ==
  ASSUME TypeOK, NEW d \in Discounts, Calm(d), NEW s \in Syncs, s[1] = d, IsWaiting(s),
         NEW r \in requests, r.sync[1] = d
  PROVE  r.sync = s /\ r = RequestOf(s, syncs[s]) /\ syncs[s].answer = "none"
<1>1. r.sync \in Syncs
  BY DEF TypeOK, Request
<1>2. IsWaiting(r.sync)
  BY DEF Calm, RequestsAreAwaited
<1>3. r.sync = LastSync(d) /\ s = LastSync(d)
  BY <1>1, <1>2 DEF Calm, OnlyTheLastWaits
<1>4. QED
  BY <1>3 DEF Calm, RequestsAreAwaited

\* A sync that moves on, with nothing of its code on the way, keeps the invariant.
LEMMA SyncMovesOn ==
  ASSUME TypeOK, TypeOK', CouponInv, NEW s \in Syncs, IsWaiting(s), NEW new \in Sync,
         new.phase # "idle", new.answer = "none", ~new.reading, Continue(s, new),
         coupons' = coupons, approved' = approved, disturbed \subseteq disturbed',
         \A d \in Discounts : d # s[1] => rows'[d] = rows[d],
         rows'[s[1]].status # "none",
         s[1] \notin disturbed' =>
           /\ \A r \in requests : r.sync[1] # s[1]
           /\ new.phase = "activate" => InfluencerOf[s[1]] \in approved
           /\ new.phase = "done" => Holds(s[1])'
  PROVE  CouponInv'
<1> DEFINE c == s[1]
<1>1. c \in Discounts /\ s = <<c, s[2]>> /\ s[2] \in 1..SyncCount
  BY SyncIsAPair
<1>2. /\ syncs' = [syncs EXCEPT ![s] = new]
      /\ \A r \in requests' : r \in requests \/ (r = RequestOf(s, new) /\ IsWaiting(s)')
  BY DEF Continue, IsWaiting, TypeOK
<1>3. syncs'[s] = new /\ \A t \in Syncs : t # s => syncs'[t] = syncs[t]
  BY <1>2 DEF TypeOK
<1>4. syncs[s].phase # "idle"
  BY DEF IsWaiting, Operations
<1>5. ASSUME NEW d \in Discounts PROVE UsedSyncs(d)' = UsedSyncs(d)
  <2>1. \A n \in 1..SyncCount : <<d, n>> \in Syncs
    BY DEF Syncs
  <2>2. \A n \in 1..SyncCount :
          syncs'[<<d, n>>].phase # "idle" <=> syncs[<<d, n>>].phase # "idle"
    BY <1>3, <1>4, <2>1
  <2>3. QED
    BY <2>2 DEF UsedSyncs
<1>6. UsedInOrder'
  BY <1>5 DEF CouponInv, UsedInOrder
<1>7. GeneratedFirst'
  <2>1. ASSUME NEW d \in Discounts, UsedSyncs(d)' # {} PROVE rows'[d].status # "none"
    BY <1>5, <2>1 DEF CouponInv, GeneratedFirst
  <2>2. QED
    BY <2>1 DEF GeneratedFirst
<1>8. ASSUME NEW d \in Discounts, d \notin disturbed', d # c PROVE Calm(d)'
  <2>1. Calm(d) /\ rows'[d] = rows[d] /\ coupons'[d] = coupons[d]
    BY <1>8 DEF CouponInv
  <2>2. \A t \in Syncs : t[1] = d => syncs'[t] = syncs[t]
    BY <1>3, <1>8
  <2>3. \A r \in requests' : r.sync[1] = d => r \in requests
    BY <1>2, <1>8 DEF RequestOf
  <2>4. QED
    BY <2>1, <2>2, <2>3, CalmElsewhere
<1>9. ASSUME c \notin disturbed' PROVE Calm(c)'
  <2>1. Calm(c)
    BY <1>1, <1>9 DEF CouponInv
  <2>2. LastSync(c)' = LastSync(c) /\ LastSync(c) = s
    BY <1>1, <1>5, <2>1 DEF LastSync, Calm, OnlyTheLastWaits
  <2>3. ASSUME NEW t \in Syncs, t[1] = c, IsWaiting(t)' PROVE t = s
    <3>1. CASE t # s
      <4>1. IsWaiting(t)
        BY <1>3, <2>3, <3>1 DEF IsWaiting
      <4>2. QED
        BY <2>1, <2>2, <2>3, <4>1 DEF Calm, OnlyTheLastWaits
    <3>2. QED
      BY <3>1
  <2>4. OnlyTheLastWaits(c)'
    BY <2>2, <2>3 DEF OnlyTheLastWaits
  <2>5. RequestsAreAwaited(c)'
    <3>1. ASSUME NEW r \in requests', r.sync[1] = c
          PROVE  r = RequestOf(s, new) /\ IsWaiting(s)' /\ r.sync = s
      BY <1>2, <1>9, <3>1 DEF RequestOf
    <3>2. QED
      BY <1>3, <3>1 DEF RequestsAreAwaited, IsWaiting
  <2>6. AnswersAreCurrent(c)'
    BY <1>3, <1>9, <2>3 DEF AnswersAreCurrent, CouponStatuses
  <2>7. OutcomeStands(c)'
    <3>1. (syncs[LastSync(c)].phase)' = new.phase
      BY <1>3, <2>2
    <3>2. QED
      BY <1>9, <3>1 DEF OutcomeStands
  <2>8. QED
    BY <2>4, <2>5, <2>6, <2>7 DEF Calm
<1>10. AnswersAreRead'
  BY <1>3 DEF CouponInv, AnswersAreRead
<1>11. QED
  BY <1>6, <1>7, <1>8, <1>9, <1>10 DEF CouponInv

\* The headers of an answer change nothing the invariant compares.
LEMMA HeadersArriveKeepsInv ==
  ASSUME TypeOK, TypeOK', CouponInv, NEW s \in Syncs, HeadersArrive(s)
  PROVE  CouponInv'
<1>1. /\ IsWaiting(s) /\ syncs[s].answer # "none"
      /\ syncs' = [syncs EXCEPT ![s].reading = TRUE]
      /\ rows' = rows /\ coupons' = coupons /\ approved' = approved
      /\ requests' = requests /\ disturbed' = disturbed
  BY DEF HeadersArrive, platform
<1>2. /\ \A t \in Syncs : t # s => syncs'[t] = syncs[t]
      /\ \A t \in Syncs : syncs'[t].phase = syncs[t].phase
      /\ \A t \in Syncs : syncs'[t].attempt = syncs[t].attempt
      /\ \A t \in Syncs : syncs'[t].answer = syncs[t].answer
  BY <1>1 DEF TypeOK, Sync
<1>3. ASSUME NEW d \in Discounts
      PROVE  UsedSyncs(d)' = UsedSyncs(d) /\ LastSync(d)' = LastSync(d)
  <2>1. \A n \in 1..SyncCount : <<d, n>> \in Syncs
    BY DEF Syncs
  <2>2. UsedSyncs(d)' = UsedSyncs(d)
    BY <1>2, <2>1 DEF UsedSyncs
  <2>3. QED
    BY <2>2 DEF LastSync
<1>4. UsedInOrder' /\ GeneratedFirst'
  BY <1>1, <1>3 DEF CouponInv, UsedInOrder, GeneratedFirst
<1>5. AnswersAreRead'
  BY <1>1, <1>2 DEF CouponInv, AnswersAreRead
<1>6. ASSUME NEW d \in Discounts, d \notin disturbed' PROVE Calm(d)'
  <2>1. Calm(d)
    BY <1>1, <1>6 DEF CouponInv
  <2>2. OnlyTheLastWaits(d)'
    BY <1>2, <1>3, <2>1 DEF Calm, OnlyTheLastWaits, IsWaiting
  <2>3. RequestsAreAwaited(d)'
    <3>1. ASSUME NEW r \in requests, r.sync[1] = d
          PROVE  /\ IsWaiting(r.sync)'
                 /\ r = RequestOf(r.sync, syncs'[r.sync])
                 /\ syncs'[r.sync].answer = "none"
      <4>1. r.sync \in Syncs
        BY DEF TypeOK, Request
      <4>2. IsWaiting(r.sync) /\ r = RequestOf(r.sync, syncs[r.sync])
            /\ syncs[r.sync].answer = "none"
        BY <2>1, <3>1 DEF Calm, RequestsAreAwaited
      <4>3. QED
        BY <1>2, <4>1, <4>2 DEF IsWaiting, RequestOf
    <3>2. QED
      BY <1>1, <3>1 DEF RequestsAreAwaited
  <2>4. AnswersAreCurrent(d)'
    BY <1>1, <1>2, <2>1 DEF Calm, AnswersAreCurrent, IsWaiting
  <2>5. OutcomeStands(d)'
    <3>1. SUFFICES ASSUME UsedSyncs(d) # {}, (syncs[LastSync(d)].phase)' = "done"
                   PROVE  Holds(d)'
      BY <1>3 DEF OutcomeStands
    <3>2. LastSync(d) \in Syncs
      BY <3>1, LastSyncIsASync
    <3>3. syncs[LastSync(d)].phase = "done"
      BY <1>2, <1>3, <3>1, <3>2
    <3>4. QED
      BY <1>1, <2>1, <3>1, <3>3 DEF Calm, OutcomeStands, Holds
  <2>6. QED
    BY <2>2, <2>3, <2>4, <2>5 DEF Calm
<1>7. QED
  BY <1>4, <1>5, <1>6 DEF CouponInv

LEMMA TimesOutKeepsInv ==
  ASSUME TypeOK, TypeOK', CouponInv, NEW s \in Syncs, TimesOut(s)
  PROVE  CouponInv'
<1>1. s[1] \in Discounts /\ s[2] \in 1..SyncCount /\ s = <<s[1], s[2]>> /\ syncs[s] \in Sync
  BY SyncIsAPair DEF TypeOK
<1>2. /\ IsWaiting(s) /\ Continue(s, Retried(syncs[s]))
      /\ rows' = rows /\ coupons' = coupons /\ approved' = approved
      /\ disturbed' = IF RequestOf(s, syncs[s]) \in requests THEN disturbed \cup {s[1]}
                      ELSE disturbed
  BY DEF TimesOut, platform
<1>3. /\ Retried(syncs[s]) \in Sync
      /\ Retried(syncs[s]).answer = "none"
      /\ ~Retried(syncs[s]).reading
      /\ Retried(syncs[s]).phase \in {syncs[s].phase, "failed"}
  BY <1>1, RetriedIsASync
<1>4. syncs[s].phase \in Operations
  BY <1>2 DEF IsWaiting
<1>5. rows[s[1]].status # "none"
  <2>1. s[2] \in UsedSyncs(s[1])
    BY <1>1, <1>4 DEF UsedSyncs, Operations
  <2>2. QED
    BY <1>1, <2>1 DEF CouponInv, GeneratedFirst
<1>6. ASSUME s[1] \notin disturbed'
      PROVE  /\ \A r \in requests : r.sync[1] # s[1]
             /\ Retried(syncs[s]).phase = "activate" => InfluencerOf[s[1]] \in approved
  <2>1. Calm(s[1]) /\ RequestOf(s, syncs[s]) \notin requests
    BY <1>1, <1>2, <1>6 DEF CouponInv
  <2>2. \A r \in requests : r.sync[1] # s[1]
    BY <1>1, <1>2, <2>1, RequestIsOfTheWaiting
  <2>3. Retried(syncs[s]).phase = "activate" => InfluencerOf[s[1]] \in approved
    BY <1>2, <1>3, <2>1 DEF Calm, AnswersAreCurrent
  <2>4. QED
    BY <2>2, <2>3
<1>7. Retried(syncs[s]).phase \notin {"idle", "done"}
  BY <1>3, <1>4 DEF Operations
<1>8. disturbed \subseteq disturbed'
  BY <1>2
<1>9. QED
  BY <1>2, <1>3, <1>5, <1>6, <1>7, <1>8, SyncMovesOn

\* What the receipt of an answer finds of an undisturbed code.
LEMMA AnAnswerMeans ==
  ASSUME TypeOK, CouponInv, NEW s \in Syncs, IsWaiting(s), syncs[s].answer # "none"
  PROVE  /\ s[1] \in Discounts /\ syncs[s] \in Sync /\ rows[s[1]] \in Row
         /\ syncs[s].phase \in Operations
         /\ rows[s[1]].status # "none"
         /\ s[1] \notin disturbed =>
              /\ \A r \in requests : r.sync[1] # s[1]
              /\ syncs[s].answer \in CouponStatuses =>
                   /\ syncs[s].answer = coupons[s[1]]
                   /\ coupons[s[1]] \in Outcomes(syncs[s].phase)
              /\ syncs[s].phase = "activate" => InfluencerOf[s[1]] \in approved
<1>1. s[1] \in Discounts /\ s[2] \in 1..SyncCount /\ s = <<s[1], s[2]>>
  BY SyncIsAPair
<1>2. syncs[s].phase \in Operations /\ syncs[s] \in Sync /\ rows[s[1]] \in Row
  BY <1>1 DEF IsWaiting, TypeOK
<1>3. rows[s[1]].status # "none"
  <2>1. s[2] \in UsedSyncs(s[1])
    BY <1>1, <1>2 DEF UsedSyncs, Operations
  <2>2. QED
    BY <1>1, <2>1 DEF CouponInv, GeneratedFirst
<1>4. ASSUME s[1] \notin disturbed
      PROVE  /\ \A r \in requests : r.sync[1] # s[1]
             /\ syncs[s].answer \in CouponStatuses =>
                  /\ syncs[s].answer = coupons[s[1]]
                  /\ coupons[s[1]] \in Outcomes(syncs[s].phase)
             /\ syncs[s].phase = "activate" => InfluencerOf[s[1]] \in approved
  <2>1. Calm(s[1])
    BY <1>1, <1>4 DEF CouponInv
  <2>2. \A r \in requests : r.sync[1] # s[1]
    BY <1>1, <2>1, RequestIsOfTheWaiting
  <2>3. QED
    BY <2>1, <2>2 DEF Calm, AnswersAreCurrent
<1>5. QED
  BY <1>1, <1>2, <1>3, <1>4

LEMMA ReceivesErrorKeepsInv ==
  ASSUME TypeOK, TypeOK', CouponInv, NEW s \in Syncs, ReceivesError(s)
  PROVE  CouponInv'
<1>1. /\ IsWaiting(s) /\ syncs[s].answer # "none" /\ Continue(s, Retried(syncs[s]))
      /\ rows' = rows /\ coupons' = coupons /\ approved' = approved /\ disturbed' = disturbed
  BY DEF ReceivesError, IsReading, CouponInv, AnswersAreRead, platform
<1>2. /\ syncs[s] \in Sync
      /\ syncs[s].phase \in Operations
      /\ rows[s[1]].status # "none"
      /\ s[1] \notin disturbed =>
           /\ \A r \in requests : r.sync[1] # s[1]
           /\ syncs[s].phase = "activate" => InfluencerOf[s[1]] \in approved
  BY <1>1, AnAnswerMeans
<1>3. /\ Retried(syncs[s]) \in Sync
      /\ Retried(syncs[s]).answer = "none"
      /\ ~Retried(syncs[s]).reading
      /\ Retried(syncs[s]).phase \in {syncs[s].phase, "failed"}
  BY <1>2, RetriedIsASync
<1>4. Retried(syncs[s]).phase \notin {"idle", "done"}
  BY <1>2, <1>3 DEF Operations
<1>5. QED
  BY <1>1, <1>2, <1>3, <1>4, SyncMovesOn

LEMMA ReceivesUpsertKeepsInv ==
  ASSUME TypeOK, TypeOK', CouponInv, NEW s \in Syncs, ReceivesUpsert(s)
  PROVE  CouponInv'
<1> DEFINE c       == s[1]
           answer  == syncs[s].answer
           desired == ShouldActivateCoupon(c, syncs[s].force)
           done    == Ended(syncs[s], "done")
<1>1. /\ syncs[s].phase = "upsert" /\ answer \in CouponStatuses
      /\ coupons' = coupons /\ approved' = approved /\ disturbed' = disturbed
      /\ IF answer = IF desired THEN "active" ELSE "inactive"
         THEN Continue(s, done) /\ rows' = [rows EXCEPT ![c] = Applied(@, desired, answer)]
         ELSE /\ Continue(s, Await(syncs[s], IF desired THEN "activate" ELSE "deactivate"))
              /\ rows' = rows
  BY DEF ReceivesUpsert, platform
<1>2. IsWaiting(s) /\ answer # "none"
  BY <1>1 DEF IsWaiting, Operations, CouponStatuses
<1>3. /\ c \in Discounts /\ syncs[s] \in Sync /\ rows[c] \in Row
      /\ rows[c].status # "none"
      /\ c \notin disturbed =>
           /\ \A r \in requests : r.sync[1] # c
           /\ answer = coupons[c]
           /\ coupons[c] \in {"active", "pending"}
  <2>1. Outcomes("upsert") = {"active", "pending"}
    BY DEF Outcomes
  <2>2. QED
    BY <1>1, <1>2, <2>1, AnAnswerMeans
<1>4. desired => InfluencerOf[c] \in approved
  BY DEF ShouldActivateCoupon
<1>5. CASE answer = IF desired THEN "active" ELSE "inactive"
  <2>1. Continue(s, done) /\ rows' = [rows EXCEPT ![c] = Applied(@, desired, answer)]
    BY <1>1, <1>5
  <2>2. rows'[c] = Applied(rows[c], desired, answer) /\ rows[c] \in Row
    BY <1>3, <2>1 DEF TypeOK
  <2>3. rows'[c].status = IF desired THEN "active" ELSE "inactive"
    BY <1>5, <2>2 DEF Applied, Row
  <2>4. \A d \in Discounts : d # c => rows'[d] = rows[d]
    BY <2>1 DEF TypeOK
  <2>5. c \notin disturbed' => Holds(c)'
    BY <1>1, <1>3, <1>4, <1>5, <2>3 DEF Holds
  <2>6. done \in Sync /\ done.phase = "done" /\ done.answer = "none" /\ ~done.reading
    BY <1>3, DoneIsASync
  <2> HIDE DEF done, desired, answer
  <2>7. QED
    BY <1>1, <1>2, <1>3, <2>1, <2>3, <2>4, <2>5, <2>6, SyncMovesOn
<1>6. CASE ~(answer = IF desired THEN "active" ELSE "inactive")
  <2> DEFINE operation == IF desired THEN "activate" ELSE "deactivate"
             next      == Await(syncs[s], operation)
  <2>1. Continue(s, next) /\ rows' = rows
    BY <1>1, <1>6
  <2>2. next \in Sync /\ next.phase = operation /\ next.answer = "none" /\ ~next.reading
    BY <1>3, AwaitedIsASync DEF Operations
  <2>3. next.phase \notin {"idle", "done"}
    BY <2>2
  <2>4. next.phase = "activate" => InfluencerOf[c] \in approved
    BY <1>4, <2>2
  <2> HIDE DEF next, desired, answer
  <2>5. QED
    BY <1>1, <1>2, <1>3, <2>1, <2>2, <2>3, <2>4, SyncMovesOn
<1>7. QED
  BY <1>5, <1>6

LEMMA ReceivesStatusKeepsInv ==
  ASSUME TypeOK, TypeOK', CouponInv, NEW s \in Syncs, ReceivesStatus(s)
  PROVE  CouponInv'
<1> DEFINE c      == s[1]
           answer == syncs[s].answer
           done   == Ended(syncs[s], "done")
<1>1. /\ syncs[s].phase \in {"activate", "deactivate"} /\ answer \in CouponStatuses
      /\ coupons' = coupons /\ approved' = approved /\ disturbed' = disturbed
      /\ Continue(s, done)
      /\ rows' = [rows EXCEPT ![c] = Applied(@, syncs[s].phase = "activate", answer)]
  BY DEF ReceivesStatus, platform
<1>2. IsWaiting(s) /\ answer # "none"
  BY <1>1 DEF IsWaiting, Operations, CouponStatuses
<1>3. /\ c \in Discounts /\ syncs[s] \in Sync /\ rows[c] \in Row
      /\ c \notin disturbed =>
           /\ \A r \in requests : r.sync[1] # c
           /\ answer = coupons[c]
           /\ coupons[c] \in Outcomes(syncs[s].phase)
           /\ syncs[s].phase = "activate" => InfluencerOf[c] \in approved
  BY <1>1, <1>2, AnAnswerMeans
<1>4. rows'[c] = Applied(rows[c], syncs[s].phase = "activate", answer)
  BY <1>1, <1>3 DEF TypeOK
<1>5. rows'[c].status = IF syncs[s].phase = "activate" THEN "active"
                        ELSE IF answer = "inactive" THEN "inactive" ELSE "pending"
  BY <1>3, <1>4 DEF Applied, Row
<1>6. c \notin disturbed' => Holds(c)'
  <2>1. Outcomes("activate") = {"active", "pending"} /\ Outcomes("deactivate") = {"inactive"}
    BY DEF Outcomes
  <2>2. QED
    BY <1>1, <1>3, <1>5, <2>1 DEF Holds
<1>7. \A d \in Discounts : d # c => rows'[d] = rows[d]
  BY <1>1 DEF TypeOK
<1>8. done \in Sync /\ done.phase = "done" /\ done.answer = "none" /\ ~done.reading
  BY <1>3, DoneIsASync
<1> HIDE DEF done, answer
<1>9. QED
  BY <1>1, <1>2, <1>3, <1>5, <1>6, <1>7, <1>8, SyncMovesOn

----------------------------------------------------------------------------
(* The calls of the API. *)

\* The number of used syncs, and the one that is used next.
LEMMA UsedSyncsAreCounted ==
  ASSUME NEW d \in Discounts
  PROVE  IsFiniteSet(UsedSyncs(d)) /\ Cardinality(UsedSyncs(d)) \in Nat
<1>1. IsFiniteSet(1..SyncCount) /\ UsedSyncs(d) \subseteq 1..SyncCount
  BY CouponConstants, FS_Interval DEF UsedSyncs
<1>2. IsFiniteSet(UsedSyncs(d))
  BY <1>1, FS_Subset
<1>3. QED
  BY <1>2, FS_CardinalityType

\* Beginning syncs keeps the invariant: one that finds its code busy disturbs it.
\* What becomes of rows and of influencers matters to codes with syncs only, if
\* no sync of theirs is begun.
LEMMA StartSyncsKeepsInv ==
  ASSUME TypeOK, TypeOK', CouponInv, NEW ds \in SUBSET Discounts, NEW force,
         StartSyncs(ds, force), coupons' = coupons,
         \A d \in ds : rows'[d].status # "none",
         \A d \in Discounts \ ds : rows'[d] = rows[d],
         \A d \in Discounts \ ds : UsedSyncs(d) # {} =>
           (InfluencerOf[d] \in approved => InfluencerOf[d] \in approved')
  PROVE  CouponInv'
<1> DEFINE started == {<<d, NextSync(d)>> : d \in ds}
           begun   == [phase |-> "upsert", force |-> force, attempt |-> 0, answer |-> "none",
                       reading |-> FALSE]
<1>1. /\ started \subseteq Syncs
      /\ syncs' = [s \in Syncs |-> IF s \in started THEN begun ELSE syncs[s]]
      /\ requests' = requests \cup {RequestOf(s, begun) : s \in started}
      /\ disturbed' = disturbed \cup {d \in ds : IsBusy(d)}
  BY DEF StartSyncs
<1>2. ASSUME NEW s \in started PROVE s[1] \in ds /\ s = <<s[1], NextSync(s[1])>>
  OBVIOUS
<1>3. \A d \in ds : <<d, NextSync(d)>> \in started
  OBVIOUS
<1>4. begun.phase = "upsert" /\ begun.answer = "none" /\ ~begun.reading
  OBVIOUS
<1> HIDE DEF started, begun
<1>5. /\ \A s \in started : syncs'[s] = begun
      /\ \A s \in Syncs : s \notin started => syncs'[s] = syncs[s]
      /\ \A r \in requests' : \/ r \in requests
                              \/ \E s \in started : r = RequestOf(s, begun)
  BY <1>1
<1>6. ASSUME NEW d \in ds
      PROVE  /\ UsedSyncs(d)' = 1..Cardinality(UsedSyncs(d)')
             /\ LastSync(d)' = <<d, NextSync(d)>>
             /\ UsedSyncs(d)' # {}
  <2> DEFINE k == Cardinality(UsedSyncs(d))
  <2>1. UsedSyncs(d) = 1..k /\ k \in Nat
    BY UsedSyncsAreCounted DEF CouponInv, UsedInOrder
  <2>2. NextSync(d) = k + 1 /\ <<d, k + 1>> \in started /\ k + 1 \in 1..SyncCount
    <3>1. NextSync(d) = k + 1
      BY DEF NextSync
    <3>2. <<d, k + 1>> \in Syncs
      BY <1>1, <1>3, <3>1
    <3>3. QED
      BY <1>3, <3>1, <3>2 DEF Syncs
  <2> HIDE DEF k
  <2>3. ASSUME NEW n \in 1..SyncCount
        PROVE  n \in UsedSyncs(d)' <=> n \in UsedSyncs(d) \/ n = k + 1
    <3>1. <<d, n>> \in Syncs
      BY DEF Syncs
    <3>2. CASE n = k + 1
      BY <1>4, <1>5, <2>2, <3>2 DEF UsedSyncs
    <3>3. CASE n # k + 1
      <4>1. <<d, n>> \notin started
        BY <1>2, <2>2, <3>3
      <4>2. QED
        BY <1>5, <3>1, <3>3, <4>1 DEF UsedSyncs
    <3>4. QED
      BY <3>2, <3>3
  <2>4. UsedSyncs(d)' \subseteq 1..SyncCount
    BY DEF UsedSyncs
  <2>5. SyncCount \in Nat /\ k + 1 <= SyncCount
    BY <2>1, <2>2, CouponConstants
  <2>6. UsedSyncs(d)' = 1..(k + 1)
    <3>1. ASSUME NEW n \in 1..(k + 1) PROVE n \in UsedSyncs(d)'
      <4>1. n \in 1..SyncCount /\ (n \in 1..k \/ n = k + 1)
        BY <2>1, <2>5
      <4>2. QED
        BY <2>1, <2>3, <4>1
    <3>2. ASSUME NEW n \in UsedSyncs(d)' PROVE n \in 1..(k + 1)
      <4>1. n \in 1..k \/ n = k + 1
        BY <2>1, <2>3, <2>4
      <4>2. QED
        BY <2>1, <4>1
    <3>3. QED
      BY <3>1, <3>2
  <2>7. Cardinality(1..(k + 1)) = k + 1
    <3>1. k + 1 \in Int /\ ~(1 > k + 1) /\ k + 1 - 1 + 1 = k + 1
      BY <2>1
    <3>2. QED
      BY <3>1, FS_Interval
  <2>8. Cardinality(UsedSyncs(d)') = k + 1
    BY <2>6, <2>7
  <2>9. LastSync(d)' = <<d, k + 1>>
    BY <2>8 DEF LastSync
  <2>10. 1 \in 1..(k + 1)
    BY <2>1
  <2>11. QED
    BY <2>2, <2>6, <2>8, <2>9, <2>10
<1>7. ASSUME NEW d \in Discounts \ ds PROVE \A s \in Syncs : s[1] = d => syncs'[s] = syncs[s]
  BY <1>2, <1>5, <1>7
<1>8. ASSUME NEW d \in Discounts \ ds PROVE UsedSyncs(d)' = UsedSyncs(d)
  <2>1. \A n \in 1..SyncCount : <<d, n>> \in Syncs /\ <<d, n>>[1] = d
    BY DEF Syncs
  <2>2. \A n \in 1..SyncCount : syncs'[<<d, n>>] = syncs[<<d, n>>]
    BY <1>7, <2>1
  <2>3. QED
    BY <2>2 DEF UsedSyncs
<1>9. UsedInOrder'
  BY <1>6, <1>8 DEF CouponInv, UsedInOrder
<1>10. GeneratedFirst'
  BY <1>8 DEF CouponInv, GeneratedFirst
<1>11. ASSUME NEW d \in Discounts \ ds, d \notin disturbed' PROVE Calm(d)'
  <2>1. Calm(d)
    BY <1>1, <1>11 DEF CouponInv
  <2>2. \A r \in requests' : r.sync[1] = d => r \in requests
    BY <1>2, <1>5 DEF RequestOf
  <2>3. QED
    BY <1>7, <2>1, <2>2, CalmElsewhere
<1>12. ASSUME NEW d \in ds, d \notin disturbed' PROVE Calm(d)'
  <2>1. ~IsBusy(d)
    BY <1>1, <1>12
  <2>2. <<d, NextSync(d)>> \in started /\ <<d, NextSync(d)>> \in Syncs
    BY <1>1, <1>3
  <2>3. ASSUME NEW s \in Syncs, s[1] = d, IsWaiting(s)' PROVE s = <<d, NextSync(d)>>
    <3>1. s \in started
      BY <1>5, <2>1, <2>3 DEF IsBusy, IsWaiting
    <3>2. QED
      BY <1>2, <2>3, <3>1
  <2>4. ASSUME NEW r \in requests', r.sync[1] = d
        PROVE  r.sync = <<d, NextSync(d)>> /\ r = RequestOf(r.sync, begun)
    <3>1. PICK s \in started : r = RequestOf(s, begun)
      BY <1>5, <2>1, <2>4 DEF IsBusy
    <3>2. r.sync = s
      BY <3>1 DEF RequestOf
    <3>3. QED
      BY <1>2, <2>4, <3>1, <3>2
  <2>5. syncs'[<<d, NextSync(d)>>] = begun
    BY <1>5, <2>2
  <2>6. OnlyTheLastWaits(d)'
    BY <1>6, <2>3 DEF OnlyTheLastWaits
  <2>7. RequestsAreAwaited(d)'
    BY <1>4, <2>4, <2>5 DEF RequestsAreAwaited, IsWaiting, Operations
  <2>8. AnswersAreCurrent(d)'
    BY <1>4, <2>3, <2>5 DEF AnswersAreCurrent, CouponStatuses
  <2>9. OutcomeStands(d)'
    BY <1>4, <1>6, <2>5 DEF OutcomeStands
  <2>10. QED
    BY <2>6, <2>7, <2>8, <2>9 DEF Calm
<1>13. AnswersAreRead'
  BY <1>4, <1>5 DEF CouponInv, AnswersAreRead
<1>14. QED
  BY <1>9, <1>10, <1>11, <1>12, <1>13 DEF CouponInv

LEMMA GenerateKeepsInv ==
  ASSUME TypeOK, TypeOK', CouponInv, NEW d \in Discounts, Generate(d)
  PROVE  CouponInv'
<1>1. rows'[d].status # "none" /\ \A e \in Discounts \ {d} : rows'[e] = rows[e]
  BY DEF Generate, TypeOK, Row
<1>2. StartSyncs({d}, FALSE) /\ coupons' = coupons /\ approved' = approved
  BY DEF Generate, platform
<1>3. {d} \in SUBSET Discounts /\ \A e \in {d} : rows'[e].status # "none"
  BY <1>1
<1>4. QED
  BY <1>1, <1>2, <1>3, StartSyncsKeepsInv

LEMMA SyncDiscountCodeKeepsInv ==
  ASSUME TypeOK, TypeOK', CouponInv, NEW d \in Discounts, SyncDiscountCode(d)
  PROVE  CouponInv'
<1>1. /\ StartSyncs({d}, FALSE) /\ rows[d].status # "none"
      /\ coupons' = coupons /\ approved' = approved /\ rows' = rows
  BY DEF SyncDiscountCode, platform
<1>2. {d} \in SUBSET Discounts /\ \A e \in {d} : rows'[e].status # "none"
  BY <1>1
<1>3. QED
  BY <1>1, <1>2, StartSyncsKeepsInv

\* A status change begins a sync of every code that has ever had one.
LEMMA UpdateStatusKeepsInv ==
  ASSUME TypeOK, TypeOK', CouponInv, NEW i \in Influencers, NEW approve \in BOOLEAN,
         UpdateStatus(i, approve)
  PROVE  CouponInv'
<1>1. /\ StartSyncs(CodesToSync(i), ~approve) /\ rows' = rows /\ coupons' = coupons
      /\ approved' = IF approve THEN approved \cup {i} ELSE approved \ {i}
  BY DEF UpdateStatus
<1>2. CodesToSync(i) \in SUBSET Discounts
  BY DEF CodesToSync
<1>3. \A d \in CodesToSync(i) : rows[d].status # "none"
  BY DEF CodesToSync
<1>4. ASSUME NEW d \in Discounts \ CodesToSync(i), UsedSyncs(d) # {},
             InfluencerOf[d] \in approved
      PROVE  InfluencerOf[d] \in approved'
  <2>1. rows[d].status # "none"
    BY <1>4 DEF CouponInv, GeneratedFirst
  <2>2. InfluencerOf[d] # i
    BY <1>4, <2>1 DEF CodesToSync
  <2>3. QED
    BY <1>1, <1>4, <2>2
<1>5. QED
  BY <1>1, <1>2, <1>3, <1>4, StartSyncsKeepsInv

\* No sync, no request and nothing of what the invariant compares changes.
LEMMA SyncsUnchangedKeepsInv ==
  ASSUME TypeOK, TypeOK', CouponInv,
         syncs' = syncs, requests' = requests, rows' = rows, coupons' = coupons,
         approved' = approved, disturbed' = disturbed
  PROVE  CouponInv'
<1>1. ASSUME NEW d \in Discounts PROVE UsedSyncs(d)' = UsedSyncs(d)
  BY DEF UsedSyncs
<1>2. ASSUME NEW d \in Discounts, d \notin disturbed' PROVE Calm(d)'
  BY <1>2, CalmElsewhere DEF CouponInv
<1>3. QED
  BY <1>1, <1>2 DEF CouponInv, UsedInOrder, GeneratedFirst, AnswersAreRead

----------------------------------------------------------------------------
(* VTEX. *)

\* VTEX takes a request from the way and answers it.
LEMMA AnswerKeepsInv ==
  ASSUME TypeOK, TypeOK', CouponInv, NEW r \in requests,
         NEW answer \in {"refused"} \cup CouponStatuses,
         syncs' = Answered(r, answer), requests' = requests \ {r},
         rows' = rows, approved' = approved, disturbed' = disturbed,
         \A d \in Discounts : d # r.sync[1] => coupons'[d] = coupons[d],
         answer \in CouponStatuses =>
           coupons'[r.sync[1]] = answer /\ answer \in Outcomes(r.operation)
  PROVE  CouponInv'
<1> DEFINE s == r.sync
           c == s[1]
<1>1. /\ s \in Syncs /\ c \in Discounts /\ syncs[s] \in Sync
      /\ r.operation \in Operations
  BY SyncIsAPair DEF TypeOK, Request
<1>2. /\ \A t \in Syncs : t # s => syncs'[t] = syncs[t]
      /\ \A t \in Syncs : syncs'[t].phase = syncs[t].phase
      /\ \A t \in Syncs : syncs'[t].answer \in {syncs[t].answer, answer}
      /\ \A t \in Syncs : syncs'[t].reading = syncs[t].reading
  BY <1>1 DEF Answered, TypeOK, Sync
<1>3. ASSUME NEW d \in Discounts PROVE UsedSyncs(d)' = UsedSyncs(d)
  <2>1. \A n \in 1..SyncCount : <<d, n>> \in Syncs
    BY DEF Syncs
  <2>2. QED
    BY <1>2, <2>1 DEF UsedSyncs
<1>4. UsedInOrder'
  BY <1>3 DEF CouponInv, UsedInOrder
<1>5. GeneratedFirst'
  BY <1>3 DEF CouponInv, GeneratedFirst
<1>6. ASSUME NEW d \in Discounts, d \notin disturbed', d # c PROVE Calm(d)'
  <2>1. Calm(d) /\ coupons'[d] = coupons[d]
    BY <1>6 DEF CouponInv
  <2>2. \A t \in Syncs : t[1] = d => syncs'[t] = syncs[t]
    BY <1>2, <1>6
  <2>3. QED
    BY <2>1, <2>2, CalmElsewhere
<1>7. ASSUME c \notin disturbed' PROVE Calm(c)'
  <2>1. Calm(c)
    BY <1>1, <1>7 DEF CouponInv
  <2>2. /\ IsWaiting(s) /\ r.operation = syncs[s].phase
        /\ s = LastSync(c)
    BY <1>1, <2>1 DEF Calm, RequestsAreAwaited, OnlyTheLastWaits, RequestOf
  <2>3. LastSync(c)' = LastSync(c)
    BY <1>1, <1>3 DEF LastSync
  <2>4. ASSUME NEW t \in Syncs, t[1] = c, IsWaiting(t)' PROVE t = s
    BY <1>2, <2>1, <2>2, <2>4 DEF Calm, OnlyTheLastWaits, IsWaiting
  <2>5. OnlyTheLastWaits(c)'
    BY <2>2, <2>3, <2>4 DEF OnlyTheLastWaits
  <2>6. RequestsAreAwaited(c)'
    <3>1. ASSUME NEW q \in requests', q.sync[1] = c PROVE FALSE
      <4>1. q \in requests /\ q # r
        BY <3>1
      <4>2. q = RequestOf(s, syncs[s]) /\ r = RequestOf(s, syncs[s])
        BY <1>1, <2>1, <2>2, <3>1, <4>1, RequestIsOfTheWaiting
      <4>3. QED
        BY <4>1, <4>2
    <3>2. QED
      BY <3>1 DEF RequestsAreAwaited
  <2>7. AnswersAreCurrent(c)'
    <3>1. syncs[s].answer = "none"
      BY <1>1, <2>1 DEF Calm, RequestsAreAwaited
    <3>2. syncs[s].phase = "activate" => InfluencerOf[c] \in approved
      BY <1>1, <2>1, <2>2 DEF Calm, AnswersAreCurrent
    <3>3. syncs'[s].answer \in CouponStatuses =>
            syncs'[s].answer = coupons'[c] /\ coupons'[c] \in Outcomes(syncs'[s].phase)
      BY <1>1, <1>2, <2>2, <3>1 DEF CouponStatuses
    <3>4. QED
      BY <1>1, <1>2, <2>4, <3>2, <3>3 DEF AnswersAreCurrent
  <2>8. OutcomeStands(c)'
    <3>1. syncs'[s].phase \in Operations
      BY <1>1, <1>2, <2>2
    <3>2. QED
      BY <2>2, <2>3, <3>1 DEF OutcomeStands, Operations
  <2>9. QED
    BY <2>5, <2>6, <2>7, <2>8 DEF Calm
<1>8. AnswersAreRead'
  BY <1>2 DEF CouponInv, AnswersAreRead, CouponStatuses
<1>9. QED
  BY <1>4, <1>5, <1>6, <1>7, <1>8 DEF CouponInv

LEMMA NextCouponInv ==
  ASSUME TypeOK, TypeOK', CouponInv, [Next]_vars
  PROVE  CouponInv'
<1>1. ASSUME NEW s \in Syncs, ClientStep(s)
      PROVE  CouponInv'
  BY <1>1, TimesOutKeepsInv, HeadersArriveKeepsInv, ReceivesErrorKeepsInv, ReceivesUpsertKeepsInv,
     ReceivesStatusKeepsInv DEF ClientStep
<1>2. ASSUME NEW d \in Discounts, Generate(d) \/ SyncDiscountCode(d)
      PROVE  CouponInv'
  BY <1>2, GenerateKeepsInv, SyncDiscountCodeKeepsInv
<1>3. ASSUME NEW i \in Influencers, NEW approve \in BOOLEAN, UpdateStatus(i, approve)
      PROVE  CouponInv'
  BY <1>3, UpdateStatusKeepsInv
<1>4. ASSUME NEW c \in Campaigns, NEW activate \in BOOLEAN, UpdateCampaign(c, activate)
      PROVE  CouponInv'
  BY <1>4, SyncsUnchangedKeepsInv DEF UpdateCampaign
<1>5. ASSUME NEW r \in requests, Applies(r)
      PROVE  CouponInv'
  <2>1. r \in Request /\ r.sync[1] \in Discounts
    BY SyncIsAPair DEF TypeOK, Request
  <2>2. PICK status \in Outcomes(r.operation) :
          /\ coupons' = [coupons EXCEPT ![r.sync[1]] = status]
          /\ syncs' = Answered(r, status)
          /\ requests' = requests \ {r}
          /\ rows' = rows /\ approved' = approved /\ disturbed' = disturbed
    BY <1>5 DEF Applies, platform
  <2>3. status \in CouponStatuses
    BY <2>1, <2>2, OutcomesAreStatuses DEF Request
  <2>4. /\ coupons'[r.sync[1]] = status
        /\ \A d \in Discounts : d # r.sync[1] => coupons'[d] = coupons[d]
    BY <2>1, <2>2 DEF TypeOK
  <2>5. QED
    BY <2>2, <2>3, <2>4, AnswerKeepsInv
<1>6. ASSUME NEW r \in requests, Refuses(r)
      PROVE  CouponInv'
  <2>1. "refused" \notin CouponStatuses
    BY DEF CouponStatuses
  <2>2. /\ syncs' = Answered(r, "refused") /\ requests' = requests \ {r}
        /\ rows' = rows /\ approved' = approved /\ disturbed' = disturbed
        /\ coupons' = coupons
    BY <1>6 DEF Refuses, platform
  <2>3. QED
    BY <2>1, <2>2, AnswerKeepsInv
<1>7. CASE UNCHANGED vars
  BY <1>7, SyncsUnchangedKeepsInv DEF vars
<1>8. QED
  BY <1>1, <1>2, <1>3, <1>4, <1>5, <1>6, <1>7 DEF Next

LEMMA InitCouponInv ==
  ASSUME Init
  PROVE  CouponInv
<1>1. ASSUME NEW d \in Discounts PROVE UsedSyncs(d) = {}
  <2>1. \A n \in 1..SyncCount : <<d, n>> \in Syncs
    BY DEF Syncs
  <2>2. QED
    BY <2>1 DEF Init, UsedSyncs
<1>2. Cardinality({}) = 0 /\ 1..0 = {}
  BY FS_EmptySet
<1>3. UsedInOrder /\ GeneratedFirst /\ AnswersAreRead
  BY <1>1, <1>2 DEF Init, UsedInOrder, GeneratedFirst, AnswersAreRead
<1>4. ASSUME NEW d \in Discounts PROVE Calm(d)
  BY <1>1 DEF Init, Calm, OnlyTheLastWaits, RequestsAreAwaited, AnswersAreCurrent,
              OutcomeStands, IsWaiting, Operations
<1>5. QED
  BY <1>3, <1>4 DEF CouponInv

----------------------------------------------------------------------------
(* The theorems. *)

\* The inductive invariant: of a code whose syncs were not disturbed only the last
\* sync waits, for the one request on its way, and what a success left stands.
THEOREM CouponInvariance == Spec => [](TypeOK /\ CouponInv)
<1>1. Init => TypeOK /\ CouponInv
  BY InitTypeOK, InitCouponInv
<1>2. TypeOK /\ CouponInv /\ [Next]_vars => (TypeOK /\ CouponInv)'
  BY NextTypeOK, NextCouponInv
<1>3. QED
  BY <1>1, <1>2, PTL DEF Spec

\* What a settled, undisturbed code is left with.
LEMMA SettledHolds ==
  ASSUME CouponInv, NEW d \in Discounts, IsSettled(d), d \notin disturbed
  PROVE  Holds(d)
BY DEF CouponInv, Calm, OutcomeStands, LastSync, IsSettled

\* After the last sync of a code has succeeded (syncDiscountCode), its coupon is
\* active only if its influencer is approved, unless syncs overlapped or a request
\* was abandoned.
THEOREM CouponsFollowCorrectness == Spec => []CouponsFollowInfluencers
<1>1. CouponInv => CouponsFollowInfluencers
  BY SettledHolds DEF CouponsFollowInfluencers, Holds
<1>2. QED
  BY <1>1, CouponInvariance, PTL

\* Under the same conditions the code says what its coupon is, but for an
\* activation VTEX keeps back (applyCouponResponse).
THEOREM RowsFollowCorrectness == Spec => []RowsFollowCoupons
<1>1. CouponInv => RowsFollowCoupons
  BY SettledHolds DEF RowsFollowCoupons, Holds
<1>2. QED
  BY <1>1, CouponInvariance, PTL

=============================================================================
