----------------------------- MODULE CouponSync -----------------------------
(***************************************************************************)
(* Synchronisation of discount codes with VTEX coupons: VtexService over   *)
(* the request loop of VtexClient, in remote mode.                         *)
(*                                                                         *)
(* A sync awaits one or two HTTP requests, and between them other handlers *)
(* run: other syncs of the same coupon among them.  A request that timed   *)
(* out is not aborted and may reach VTEX at any later time, or never.      *)
(* Codes have different texts here, so that each has a coupon of its own.  *)
(***************************************************************************)
EXTENDS Integers, FiniteSets

CONSTANTS
  Discounts,        \* discount codes that may be generated
  Influencers, Campaigns,
  InfluencerOf,     \* the influencer a code is generated for
  CampaignOf,       \* the campaign it is generated for
  SyncCount,        \* bound: syncs of each code
  MaxRetries        \* VTEX_MAX_RETRIES

ASSUME CouponConstants ==
  /\ InfluencerOf \in [Discounts -> Influencers]
  /\ CampaignOf \in [Discounts -> Campaigns]
  /\ SyncCount \in Nat
  /\ MaxRetries \in Nat

VARIABLES
  approved,         \* influencers whose status is approved
  active,           \* campaigns whose status is active
  rows,             \* discountCodes
  syncs,            \* the calls of syncDiscountCode, by <<code, number>>
  requests,         \* requests on their way to VTEX
  coupons,          \* VTEX's coupons, by the code they are made for
  disturbed         \* history, in no table of the program: codes of which two
                    \* syncs overlapped, or an abandoned request was still out

vars == <<approved, active, rows, syncs, requests, coupons, disturbed>>
platform == <<approved, active>>

Syncs == Discounts \X (1..SyncCount)
Operations == {"upsert", "activate", "deactivate"}
CouponStatuses == {"pending", "active", "inactive"}

\* A row "none" has not been generated; linked is that it has a vtexCouponId.
Row == [status : {"none"} \cup CouponStatuses, linked : BOOLEAN]

\* A sync awaits an operation, in its attempt-th retry; answer is the response to that
\* attempt, on its way or arrived, and reading is that its headers have arrived and its
\* body is awaited.
Sync == [phase : {"idle", "done", "failed"} \cup Operations, force : BOOLEAN,
         attempt : 0..MaxRetries, answer : {"none", "refused"} \cup CouponStatuses,
         reading : BOOLEAN]

Request == [sync : Syncs, operation : Operations, attempt : 0..MaxRetries]

TypeOK ==
  /\ approved \subseteq Influencers
  /\ active \subseteq Campaigns
  /\ rows \in [Discounts -> Row]
  /\ syncs \in [Syncs -> Sync]
  /\ requests \subseteq Request
  /\ coupons \in [Discounts -> {"absent"} \cup CouponStatuses]
  /\ disturbed \subseteq Discounts

Init ==
  /\ approved = {}
  /\ active \in SUBSET Campaigns
  /\ rows = [d \in Discounts |-> [status |-> "none", linked |-> FALSE]]
  /\ syncs = [s \in Syncs |->
       [phase |-> "idle", force |-> FALSE, attempt |-> 0, answer |-> "none",
        reading |-> FALSE]]
  /\ requests = {}
  /\ coupons = [d \in Discounts |-> "absent"]
  /\ disturbed = {}

IsWaiting(s) == syncs[s].phase \in Operations
IsReading(s) == IsWaiting(s) /\ syncs[s].reading

\* A sync of the code runs, or a request for it is on its way.
IsBusy(d) ==
  \/ \E s \in Syncs : s[1] = d /\ IsWaiting(s)
  \/ \E r \in requests : r.sync[1] = d

----------------------------------------------------------------------------
(* The client. *)

RequestOf(s, sync) ==
  [sync |-> s, operation |-> sync.phase, attempt |-> sync.attempt]

\* The first attempt of an operation.
Await(sync, operation) ==
  [sync EXCEPT !.phase = operation, !.attempt = 0, !.answer = "none", !.reading = FALSE]

\* A sync that awaits nothing any more.
Ended(sync, phase) ==
  [sync EXCEPT !.phase = phase, !.answer = "none", !.reading = FALSE]

\* Mutants of Retried: attempts are not counted; one attempt too many is made.
Retried_Forever(sync) == [sync EXCEPT !.answer = "none", !.reading = FALSE]

Retried_OnceMore(sync) ==
  IF sync.attempt <= MaxRetries
  THEN [sync EXCEPT !.attempt = @ + 1, !.answer = "none", !.reading = FALSE]
  ELSE Ended(sync, "failed")

\* An attempt failed: the next one is made, or the last error is thrown.  Every
\* error is retried, whatever its status.
Retried(sync) ==
  IF sync.attempt < MaxRetries
  THEN [sync EXCEPT !.attempt = @ + 1, !.answer = "none", !.reading = FALSE]
  ELSE Ended(sync, "failed")

\* A sync moves on; what it awaits next is sent.
Continue(s, sync) ==
  /\ syncs' = [syncs EXCEPT ![s] = sync]
  /\ requests' = IF sync.phase \in Operations
                 THEN requests \cup {RequestOf(s, sync)}
                 ELSE requests

\* resolveWithTimeout: the time limit passes, before or after VTEX has acted.
TimesOut(s) ==
  /\ IsWaiting(s)
  /\ ~syncs[s].reading
  /\ Continue(s, Retried(syncs[s]))
  /\ disturbed' = IF RequestOf(s, syncs[s]) \in requests
                  THEN disturbed \cup {s[1]}
                  ELSE disturbed
  /\ UNCHANGED <<platform, rows, coupons>>

\* The headers arrive in time.  From now on nothing limits the wait.
HeadersArrive(s) ==
  /\ IsWaiting(s)
  /\ syncs[s].answer # "none"
  /\ ~syncs[s].reading
  /\ syncs' = [syncs EXCEPT ![s].reading = TRUE]
  /\ UNCHANGED <<platform, rows, requests, coupons, disturbed>>

\* VTEX answered with an error, whose body was read or could not be (buildHttpError); or
\* the body of its answer broke off (parseResponse).
ReceivesError(s) ==
  /\ IsReading(s)
  /\ Continue(s, Retried(syncs[s]))
  /\ UNCHANGED <<platform, rows, coupons, disturbed>>

----------------------------------------------------------------------------
(* VtexService. *)

\* Mutant of ShouldActivateCoupon: the influencer is not looked at.
ShouldActivateCoupon_Anybody(d, force) == ~force /\ CampaignOf[d] \in active

\* shouldActivateCoupon, read when the first request has been answered: the
\* service keeps the rows themselves, which status changes write in place.
ShouldActivateCoupon(d, force) ==
  /\ ~force
  /\ InfluencerOf[d] \in approved
  /\ CampaignOf[d] \in active

\* Mutant of Applied: the status stays what it was until VTEX says active.
Applied_Kept(row, activated, answer) ==
  [row EXCEPT !.linked = TRUE, !.status = IF activated THEN "active" ELSE @]

\* applyCouponResponse: a code that was activated is active whatever VTEX says.
Applied(row, activated, answer) ==
  [row EXCEPT !.linked = TRUE,
              !.status = IF activated THEN "active"
                         ELSE IF answer = "inactive" THEN "inactive" ELSE "pending"]

\* The coupon has been written: it is left as VTEX reports it if that is what is
\* wanted, and activated or deactivated by a second request if not.
ReceivesUpsert(s) ==
  LET d       == s[1]
      answer  == syncs[s].answer
      desired == ShouldActivateCoupon(d, syncs[s].force)
      wanted  == IF desired THEN "active" ELSE "inactive" IN
  /\ syncs[s].phase = "upsert" /\ syncs[s].reading
  /\ answer \in CouponStatuses
  /\ IF answer = wanted
     THEN /\ Continue(s, Ended(syncs[s], "done"))
          /\ rows' = [rows EXCEPT ![d] = Applied(@, desired, answer)]
     ELSE /\ Continue(s, Await(syncs[s], IF desired THEN "activate" ELSE "deactivate"))
          /\ UNCHANGED rows
  /\ UNCHANGED <<platform, coupons, disturbed>>

\* The second request has been answered: what was decided before it is written.
ReceivesStatus(s) ==
  /\ syncs[s].phase \in {"activate", "deactivate"} /\ syncs[s].reading
  /\ syncs[s].answer \in CouponStatuses
  /\ Continue(s, Ended(syncs[s], "done"))
  /\ rows' = [rows EXCEPT ![s[1]] =
                Applied(@, syncs[s].phase = "activate", syncs[s].answer)]
  /\ UNCHANGED <<platform, coupons, disturbed>>

----------------------------------------------------------------------------
(* Calls of the API. *)

UsedSyncs(d) == {n \in 1..SyncCount : syncs[<<d, n>>].phase # "idle"}
NextSync(d) == Cardinality(UsedSyncs(d)) + 1

\* syncDiscountCode up to its first await, for each of some codes.
StartSyncs(ds, force) ==
  LET started == {<<d, NextSync(d)>> : d \in ds}
      begun   == [phase |-> "upsert", force |-> force, attempt |-> 0, answer |-> "none",
                  reading |-> FALSE] IN
  /\ started \subseteq Syncs
  /\ syncs' = [s \in Syncs |-> IF s \in started THEN begun ELSE syncs[s]]
  /\ requests' = requests \cup {RequestOf(s, begun) : s \in started}
  /\ disturbed' = disturbed \cup {d \in ds : IsBusy(d)}

\* CodesService.generate: the code is stored, active if its campaign is, and then
\* synchronised.
Generate(d) ==
  /\ rows[d].status = "none"
  /\ rows' = [rows EXCEPT ![d].status =
                IF CampaignOf[d] \in active THEN "active" ELSE "pending"]
  /\ StartSyncs({d}, FALSE)
  /\ UNCHANGED <<platform, coupons>>

\* POST codes/:id/sync
SyncDiscountCode(d) ==
  /\ rows[d].status # "none"
  /\ StartSyncs({d}, FALSE)
  /\ UNCHANGED <<platform, rows, coupons>>

CodesToSync(i) == {d \in Discounts : rows[d].status # "none" /\ InfluencerOf[d] = i}

\* InfluencersService.updateStatus and handleInfluencerStatusChange: every code of
\* the influencer is synchronised, none waiting for another.
UpdateStatus(i, approve) ==
  /\ approved' = IF approve THEN approved \cup {i} ELSE approved \ {i}
  /\ StartSyncs(CodesToSync(i), ~approve)
  /\ UNCHANGED <<active, rows, coupons>>

\* CampaignsService.update: no code is synchronised.
UpdateCampaign(c, activate) ==
  /\ active' = IF activate THEN active \cup {c} ELSE active \ {c}
  /\ UNCHANGED <<approved, rows, syncs, requests, coupons, disturbed>>

----------------------------------------------------------------------------
(* VTEX. *)

\* What an operation makes of a coupon: a coupon is written as active, which VTEX
\* may keep back, and it may keep back an activation.
Outcomes(operation) ==
  CASE operation \in {"upsert", "activate"} -> {"active", "pending"}
    [] operation = "deactivate"             -> {"inactive"}

\* The answer reaches the client while it still waits for this attempt.
Answered(r, answer) ==
  IF /\ syncs[r.sync].phase = r.operation
     /\ syncs[r.sync].attempt = r.attempt
  THEN [syncs EXCEPT ![r.sync].answer = answer]
  ELSE syncs

Applies(r) ==
  \E status \in Outcomes(r.operation) :
    /\ coupons' = [coupons EXCEPT ![r.sync[1]] = status]
    /\ syncs' = Answered(r, status)
    /\ requests' = requests \ {r}
    /\ UNCHANGED <<platform, rows, disturbed>>

Refuses(r) ==
  /\ syncs' = Answered(r, "refused")
  /\ requests' = requests \ {r}
  /\ UNCHANGED <<platform, rows, coupons, disturbed>>

----------------------------------------------------------------------------

\* A step of the process that runs a sync.
ClientStep(s) ==
  \/ TimesOut(s)
  \/ HeadersArrive(s)
  \/ ReceivesError(s)
  \/ ReceivesUpsert(s)
  \/ ReceivesStatus(s)

Next ==
  \/ \E s \in Syncs : ClientStep(s)
  \/ \E d \in Discounts : Generate(d) \/ SyncDiscountCode(d)
  \/ \E i \in Influencers, approve \in BOOLEAN : UpdateStatus(i, approve)
  \/ \E c \in Campaigns, activate \in BOOLEAN : UpdateCampaign(c, activate)
  \/ \E r \in requests : Applies(r) \/ Refuses(r)

\* The time limit is a timer of the process itself.  Nothing is assumed of VTEX, which
\* need not answer nor end a body it has begun, nor of those who call the API.
Spec == Init /\ [][Next]_vars /\ \A s \in Syncs : WF_vars(TimesOut(s))

----------------------------------------------------------------------------

\* Nothing is going on, and what was done last succeeded.
IsSettled(d) ==
  /\ ~IsBusy(d)
  /\ UsedSyncs(d) # {}
  /\ syncs[<<d, Cardinality(UsedSyncs(d))>>].phase = "done"

\* A coupon that is active belongs to an approved influencer, once the last sync
\* of its code has succeeded: only overlapping syncs and abandoned requests can
\* make it otherwise.  It rests on every status change starting a sync
\* (InfluencersService.updateStatus) and on the decision being made after the
\* first request (syncDiscountCode).
CouponsFollowInfluencers == \A d \in Discounts :
  IsSettled(d) /\ d \notin disturbed =>
    (coupons[d] = "active" => InfluencerOf[d] \in approved)

\* Under the same conditions a code says what its coupon is, but for an
\* activation VTEX keeps back, which applyCouponResponse takes for granted.
RowsFollowCoupons == \A d \in Discounts :
  IsSettled(d) /\ d \notin disturbed =>
    \/ rows[d].status = coupons[d]
    \/ rows[d].status = "active" /\ coupons[d] = "pending"

\* A sync ends, with a result or an error, however often VTEX refuses it or leaves it
\* without an answer, so that a status change is answered; unless VTEX begins an answer
\* that it never ends.  Retries are counted, and the time limit is that of the headers
\* (VtexClient.request, resolveWithTimeout): the body is awaited without one.
SyncsEnd == \A s \in Syncs :
  IsWaiting(s) ~> (syncs[s].phase \in {"done", "failed"} \/ [](IsReading(s)))

\* README.md:110: when an influencer is suspended the coupons are deactivated.
\* Here after every sync has succeeded and every request has arrived.
SuspendedCouponsAreInactive ==
  (/\ requests = {}
   /\ \A s \in Syncs : syncs[s].phase \in {"idle", "done"}) =>
     \A d \in Discounts :
       coupons[d] = "active" => InfluencerOf[d] \in approved

=============================================================================
