# Verification of the affiliate platform

TLA+ modules that model the Medipiel affiliate platform, its API (`apps/api`) above all, the TLC
configurations that check them on small instances, and theorems about them checked by TLAPS.
The modelled program is a NestJS API over one in-memory database
(`apps/api/src/database/database.service.ts`, called *DB* below), with a VTEX client
(`packages/vtex-client`), a Next.js front end (`apps/web`) and a backup worker (`apps/worker`).

## 1. Inventory

| Component | State it keeps | Operations | What is hard, and what makes it correct |
|---|---|---|---|
| **Commission engine** (DB 933-1061, 1211-1393) | `orders`, `commissions`, `balances` | an order event from a VTEX webhook; a settlement run | Events arrive twice, late and out of order; an order may meet several coupons; balances are never recomputed but posted to. *Balances equal the commissions they stand for; a settlement may be repeated.* |
| **Tier programs** (DB 910-931, 1119-1209, 1433-1570, 2317-2333) | `tierAssignments`, `CampaignEntity.tiers` | enrolment, evaluation at any date, a new program | Evaluations dated in the past, programs switched under enrolled influencers, sales reverted after they counted. *Tiers are earned; the history is one line; prices come from it.* |
| **Withdrawals, payments, adjustments** (DB 1626-1801, 1859-2189; `modules/payments`) | `withdrawalRequests`, `payments`, `withdrawalAdjustments` and its index by order; the other half of `balances`; notifications | request, decide, pay (which may approve on the way, and may then be refused), report a reconciliation, resolve an adjustment | Several requests on one balance; payments a cent off; commissions reverted after they were paid; the same order reported again. *No request is paid twice, nothing is reserved twice, debts are claimed once, and people are told what is.* |
| **Dashboard, CommissionsService** (`modules/dashboard`, `modules/commissions`, the Finance page) | none | a panel for each role | The same figure is added up from rows, by influencer, by campaign and by brand, beside balances kept by increments. *No two panels contradict each other.* |
| **Influencers, campaigns** (`modules/influencers`, `modules/campaigns`, DB 2255-2333) | rows of DB, the vault of bank accounts, policies of brands | registration, updates, status, assignment, program and status of a campaign | Updates that leave fields out; account and row are written apart. Their fields gate withdrawals and coupons. |
| **Discount codes** (`modules/codes`, DB 2336-2417) | codes and their index by text | generate, synchronise | The text of a code keeps four characters of campaign and influencer: two codes may collide, and the index follows the last one written. |
| **VtexService** (`modules/vtex`) | none of its own | coupon sync, order webhook, reconciliation run | Awaits between reading, deciding and writing; syncs of one coupon overlap; a failed deactivation is swallowed; a report is compared with orders that have moved on; an eligible amount depends on how the payload is written. |
| **VTEX client** (`packages/vtex-client`) | credential index, offline coupons | the request loop; normalisation of orders and reports | Time limits that do not abort and end with the headers, retries, a credential index shared by concurrent requests. |
| **Policies and consents** (`modules/policies`, `RegisterPage.tsx`) | versions, consents; the registration page | publish, fetch, register, certify | A page that keeps the terms it fetched while others are published and the API restarts; answers that are lost, and registrations sent again. *Consents can be certified; nobody is registered twice (the documentation says so, the program does not).* |
| **Authentication** (`modules/auth`) | users | sign-in, refresh, change of a password | A password is compared before an await and replaced after another. *Nobody changes a password without proving it.* |
| **Web session** (`AuthProvider.tsx`) | tokens in memory and in local storage | login, refresh, logout, requests, in several tabs | A refresh in flight while the user logs out, an effect that restores the stored session again and again. *A tab uses its own user's tokens; a logout ends the session everywhere.* |
| **Notifications, e-mail, alerts** | outboxes | send | Mails the transport does not take; nobody configured for a group. *No alert is lost without a record.* |
| **Audit, observability, worker** | the audit list, counters, snapshots | reading, counting | Append-only or read-only. |

How they interact: the webhook controller normalises a payload and calls the commission engine, which
enrols the influencer in the campaign's tiers, prices the commission and posts it to a balance. The
settlement posts to the same balance. Withdrawals reserve from it and payments move the reservation to
what was withdrawn. A reconciliation fetches VTEX's report through the VTEX client, compares it with the
platform's orders, looks at the balance (not at the order) to decide whether an order leaves a debt, and
mails an alert. Status changes of influencers start coupon syncs against VTEX. Panels add up what is
there. Everything shares the Maps of one `InMemoryDatabaseService`; its methods are synchronous, so in
the single Node process each handler of the ledger is atomic, and concurrency inside the ledger is the
order of whole handlers. Real interleaving within a handler begins where the code awaits: VtexService,
the VTEX client, authentication, the registration page and the web session. Nothing is persisted: a
restarted API begins from what it is seeded with. For the ledger that is `Init` again, so there is no
crash recovery to model; where somebody outside survives the restart, a page with the terms it fetched,
the restart is an action (`RestartApi`).

## 2. What is modelled

### The ledger

| Module | Models | Correspondence |
|---|---|---|
| `Amounts` | rounding, sums | amounts are whole cents, as `roundCurrency` keeps them; `RoundedShare` is `calculateCommissionAmount`; `Total` is a loop that adds up the rows of a Map |
| `LedgerState` | the shared Maps and the balance arithmetic | one variable per Map; `Recalculate`, `ApplyBalanceDelta`, `SyncInfluencerBalance` are the private helpers of the same names |
| `Tiers` | tier programs | `AssignInfluencerToCampaign`, `UpdateInfluencerStatus`, `UpdateCampaignTiers`, `EvaluateTiers` |
| `Commissions` | the commission engine | `RegisterOrderEvent`, `RunSettlement` |
| `Withdrawals` | withdrawals, payments, adjustments | `RequestWithdrawal`, `DecideWithdrawal`, `RecordPayment`, `RefusePayment` (the same method throwing on the amount after it has approved), `RecordReconciliation`, `ResolveWithdrawalAdjustment` |
| `Ledger` | the composition | `Init`, `Next`, `Spec`, the properties |
| `Account` | nothing in the code: the promise | an abstract specification of an influencer's money: earnings that rise and fall, claims that are asked for, granted or refused once, settled at most once |
| `Payments` | `PaymentsService` | the withdrawal operations of `Ledger` with the notifications the service sends, and the refinement `ImplementsAccount` |
| `Dashboard` | `DashboardService`, `CommissionsService.summary`, the totals of the Finance page | operators over the state of `Ledger`, one per panel and figure |
| `MCLedger`, `MCPayments` | instances | values for the constants |
| `SumProofs`, `LedgerProofs`, `BalanceProofs`, `DashboardProofs`, `PaymentsProofs` | theorems and the lemmas on sums they share | section 5 |

How the state corresponds to the code:

- A table is a function from `1..n`, rows being inserted in the order of their index; a row that does
  not exist yet has status `"none"` (a commission: state `"NONE"`). A balance that does not exist yet
  is one of zeroes, which is what `ensureInfluencerBalance` creates.
- `order.code` stands for `discountCodeId`, `influencerId` and `campaignId`, which are set together,
  by the first event, and never again. `OwnerOf(o)` is the influencer. A code text nobody knows is
  `None`. A commission's owner and campaign are its order's.
- Status and event type of an order event are chosen independently, since the webhook's DTO validates
  them independently. The eligible amount is an input: the DTO may carry it, or
  `calculateEligibleAmount` computes one.
- A settlement and an evaluation take the date their caller gives, before or after the clock, as the
  controllers do. `now` is the clock that stamps events.
- In `SettledBalance` the postings of one run are added up per influencer. A settlement visits a
  commission once and posts only additions, so their order does not matter; rounding between them does
  nothing to whole cents.
- A reconciliation with several entries is processed entry by entry, so it is the same as several
  reconciliations of one entry: `RecordReconciliation` is one entry. An entry that finds a pending
  adjustment only rewords it.
- Operations that find nothing to do (a decision on a decided request, a payment of a rejected one,
  a resolution of a resolved adjustment) return without a change of state and are the stuttering steps
  of `Spec`. In `Payments` such a decision is a step (`DecideAndTell`), because it is announced.
- `told` in `Payments` is the status the last notification about each request carried. The list of
  notifications only grows; of those about one request the last is what people go by.
- In `Dashboard` a panel is a record of its figures. `TierProgress` finds the tier by its name among the
  program's tiers sorted by level, as the panel does (an evaluation tells tiers apart by level). The
  percentage of the way to the next tier, the cut of the influencer table at eight rows and the names and lists a
  panel shows beside its figures are left out.
- The comparison with 0.01 in `recordPayment` is one of doubles, and a difference of exactly one cent
  falls on either side of it depending on the two amounts (0.30 - 0.29 is more than 0.01 and
  0.02 - 0.01 is not): `MayMatch` and `MayMismatch` both hold there.

Left out: identifiers, names, currencies, documents, notes, reasons, audit trails, `revertedAt` and
metadata (written, and read by no operation of the ledger); the brand of a request (read only when it is
made). There is one tenant, as in the code, where the tenant is the constant
`'medipiel'`.

### Coupons

`CouponSync` models `syncDiscountCode` over the request loop of the VTEX client (remote mode), and what
starts it: `Generate`, `SyncDiscountCode`, `UpdateStatus`. `MCCouponSync` is its instance, `CouponProofs`
holds its theorems.

| State | Code |
|---|---|
| `approved`, `active` | the influencers and campaigns whose status is `approved`, `active`: the code treats all other statuses alike |
| `rows` | `status` and the presence of `vtexCouponId` of the discount codes |
| `syncs` | the calls of `syncDiscountCode`: which request a call awaits (`phase`), in which attempt, the answer to it, and whether its headers have come and its body is awaited (`reading`) |
| `requests` | HTTP requests on their way to VTEX |
| `coupons` | VTEX's coupons (external) |
| `disturbed` | a history variable: codes of which two syncs overlapped, or an abandoned request was still out |

- An action is the code between two awaits. `ReceivesUpsert` is the part of `syncDiscountCode` that
  decides: it reads influencer and campaign then, not at the start, because the rows fetched at the
  start are the stored objects, which `updateInfluencerStatus` and `updateCampaign` change in place.
- `handleInfluencerStatusChange` starts the syncs of all codes in one step: `map` runs each of them to
  its first await.
- A request that times out stays in `requests`: `Promise.race` abandons it without aborting it. The
  answer to an earlier attempt is ignored. All errors are retried, whatever their status; the delay
  before a retry is left out, the retry being a message that may be delayed anyway.
- The time limit is that of the headers: `resolveWithTimeout` clears its timer when they are in
  (`HeadersArrive`), and the body of an answer or of an error is awaited without a limit. It may come,
  break off (`ReceivesError`) or never end.
- VTEX applies the requests of a code in any order, or answers with an error, or never. It writes a
  coupon as active or keeps it pending. Its answer is what it did: a status it reports wrongly, and
  the idempotency header, about which nothing is known, are left out.
- Codes are told apart by their rows. That two of them may have one text is `Directory`'s matter.

### The web session

`AuthSession` models `AuthProvider` in each tab of one browser, `localStorage`, and the API that issues
and checks tokens; `MCAuthSession` is its instance, `SessionProofs` holds its theorems.

| State | Code |
|---|---|
| `storage` | the session in `localStorage` |
| `state` | the `AuthState` of each tab |
| `due` | tabs whose restoring effect is to run: it depends on `refreshTokens`, which depends on the state the effect sets |
| `refreshes` | `refreshPromise` of each tab: whose tokens it sends, which user it will store, and the answer |
| `logins`, `requests` | calls of `login` and of `request`, at the await they have come to |
| `removals` | storage events under way |
| `overtaken`, `loggedOut` | history: a login or logout overtook a call in flight, or a refresh was begun for another user than the stored one; a logout was the last thing a user did |

- Tokens are what they say of themselves, since the API keeps none: owner, time of issue, and the expiry
  the tab assigns them on arrival.
- Roles come from four places that list them separately: the menu (`NavRoles`), the landing page
  (`DefaultPanel`), the hooks that fetch (`HookRoles`) and the guard of the controller (`EndpointRoles`).
  `AppLayout` calls three of the hooks on every page, and that of the influencers' panel looks at no role,
  so a panel is requested (`StartRequest`) by whoever the hook fetches for, offered or not: users of
  finance and auditors always send a request that is refused.
- A reload loses what the tab had in flight; the API may answer a refresh or fail it.

### The parts around the ledger

| Module | Models | Correspondence |
|---|---|---|
| `VtexClient` | the request loop and `pickCredential`/`rotateCredential` | `calls` holds each call of `request`: its attempt and the credential it was sent with; `credentialIndex` and `expired` are shared |
| `Alerts` | `AlertingService`, `EmailService` | `mailConfig` is fixed when the service starts; a record joins `outbox` when the transport has answered |
| `Reconciliation` | `handleOrderWebhook`, `runDailyReconciliation`, `buildDiscrepancyReport`, over the two modules above | `store`, `webhooks` are VTEX's side (external); `orders` the platform's; `runs` the calls, with the report each is given and the record it leaves |
| `OrderPayload` | `normalizeItems`, the controller's merge of payload and normalised order, `calculateEligibleAmount`, the order's row | `PayloadOf` enumerates how an order may be written down (external); `orderRow` is what the events make of it |
| `Registration` | `RegisterPage`, `useActivePolicies`, `publishPolicyVersion`, `registerPublicInfluencer`, consents | `page` is the terms the page has fetched, `sent` its request; `RestartApi` puts the API back to its seed |
| `Directory` | influencer updates and the vault, campaigns and policies of brands, codes and the index by text | one function per Map; `syncing` are codes whose sync is awaited |
| `Accounts` | `login` with its second factor, the login page, `updatePassword` | `changes` and `signin` are calls, with the hash each has read; comparing hashes is comparing passwords |
| `Platform` | the composition | below |
| `MCPlatform` | instances | values for the constants |
| `PlatformProofs` | theorems | section 5 |

`Platform` composes them. The parts share no variable: what one does is invisible to the others, so an
interleaving of two shows nothing that each alone does not. `acting` says which part acts in a behaviour;
the others stay as they start, which turns a product of state spaces into a sum. Where components do
interact they are in one part: a reconciliation makes requests of `VtexClient`, raises alerts of `Alerts`
and is compared with orders that webhooks change; two requests share the pool of credentials
(`RequestsNext`).

- In `VtexClient` a request is `ready`, `sent` (the headers are awaited), `reading` (the body), `failing`
  (the body of an error), `done` or `failed`. Only a request that is `sent` can time out. The delay before a retry is left
  out, other calls being able to come in between anyway. `disturbed` is a history variable. Credentials
  expire under the two requests of `RequestsNext`, not under a reconciliation, which is one more such
  request.
- A webhook of `Reconciliation` may be lost, repeated and overtaken. An order is its status and its
  amount; its coupon matters only as known to the platform or not (`Foreign`).
- In `OrderPayload`, `Admitted` is `validateDto` with its whitelist: a payload with totals or price
  definitions, which `normalizeItems` and `resolveAmountFromTotals` understand, is refused by the
  controller before they see it. An event without tax and shipping is admitted, and computed without.
- In `Registration`, what the form sends is a person's data and the terms the page has. Its documents are
  left out: the upload says `beforeUpload={() => false}` (RegisterPage.tsx:330), so that its files come
  without `originFileObj`, are listed without being read, and `prepareDocuments` finds nothing to send.
- In `Directory` an update names every field, as the service does, so that one a request omits is
  overwritten with `undefined`; the vault is told of accounts that are given only.

## 3. Properties

Commissions and balances

- `BalancesMatchCommissions`: the buckets of a balance are the influencer's commissions in each state.
- `SettlementIsIdempotent`: a settlement repeated at once with the same date changes nothing.
- `AvailableIsDerived`: the available amount was recalculated by whatever changed the balance.
- `PanelsAgree`: what any panel adds up, by influencer, campaign or brand, is what the others show and
  what the balances beside it say.

Tiers

- `HistoryIsContiguous`: a tier history is one unbroken line ending in the tier in force.
- `PricedByHistory`: a commission's amount is the share some period of its influencer's history gives.
- `TiersAreEarned`: an evaluation lifts nobody above confirmed sales (those above zero: the webhook
  takes negative amounts too, and one outside the window of an evaluation takes nothing away).
- `ProgressLeadsAhead`: where thresholds rise with levels, whoever moves up does so past the tier the
  panel announced: with the sales the announced tier asks for, confirmed in that campaign, and to its
  level at least. It excepts influencers whose tier the program no longer lists by both name and level: a
  level that was renamed leaves the panel, which looks for the name, with nothing ahead, while the
  evaluation, which looks at the level, may still lift them.

Withdrawals, payments, adjustments

- `ImplementsAccount`: requests and payments are the claims of `Account`. That a request is decided once
  and paid once, that a rejected one stays rejected, that owner and amount of a request stay, that a
  payment is what was requested up to a cent and that nobody asks for what is already asked for follow.
- `StatusesAreTold`: the last notification about a request carried its status, except that nobody hears
  of the approval a refused payment leaves behind.
- `WithdrawnMatchesPayments`: what a balance says was withdrawn is what was paid.
- `ReservationsMatchOpenRequests`: what is reserved is what open requests ask for, up to one cent for
  each payment made (a payment may be a cent off and releases what it pays).
- `OnlyCommissionsOverdraw`: nobody's available amount falls below zero but by a commission that was
  reverted or repriced, up to the same cents.
- `AdjustmentAmountMatches`, `OnePendingAdjustmentPerOrder`, `AdjustmentsClaimOnlyDebt`,
  `ResolutionIsFinal`.

Coupons

- `CouponsFollowInfluencers`, `RowsFollowCoupons`: once the last sync of a code has succeeded, its
  coupon is active only if the influencer is approved, and the code says what its coupon is; only
  overlapping syncs and abandoned requests can make it otherwise.
- `SyncsEnd`: every sync ends, or waits for the rest of a body that VTEX never ends.

The web session

- `UserOwnsTokens`, `RequestsRunAsTheirUser`: a tab shows the user its tokens are of, the stored session
  likewise, and a panel's request runs as the user who opened the panel, whatever refresh it waited for.
- `PanelsAreAllowed`: no refusal of the API (403) meets a request for a panel the menu or the landing page
  lead its user to; the only ones refused are those of `AppLayout` for the influencers' panel.
- `LogoutEndsTheSession`: once the tabs have settled, a logout holds in all of them.

All four except what happens after a login or logout overtook a call in flight (`overtaken`), because
nothing in `AuthProvider` guards against that: see the hazards in `PROJECT.json`.

The parts around the ledger

- `UndisturbedCallsSucceed`: with a good credential in the pool and as many attempts as credentials, a
  call that no other call, expiry or other failure disturbed is answered.
- `RecordsAreExact`: of the day asked for, a run over a complete and current report records exactly the
  differences.
- `AlertsReachTheOutbox`: an alarming run leaves its record in the outbox, addressed to somebody.
- `RunsEnd`: every run ends, whatever becomes of its mail, or waits for the rest of a body that VTEX never
  ends.
- `EligibleAmountsAreNet`: commissions are computed on what the customer pays for the lines in scope, for
  every way of writing the order that is complete.
- `ConsentsCanBeCertified`: one version of the terms is active, and a consent to terms fetched since the
  API started can be certified, also when others were published before it was sent. A consent to the terms
  of an earlier start is accepted as well; it is of a version nobody knows.
- `CodesLeadToTheirRows`: every text leads to a code with that text, as it is now.
- `AccountsSurviveUpdates`: the vault keeps the account given last, and a row shows no other.
- `PasswordsAreProven`: no password is replaced without proof of the one it replaces, and sign-ins are
  judged by the password as it is.

Five more say what the documentation says and the program does not do (section 4, the runs that end
in a violation): `AdjustmentsReduceCapacity`,
`SettlementsRevertCanceledOrders`, `SuspendedCouponsAreInactive`, `MissingOrdersAreAbsent`,
`DuplicatesAreRefused`.

## 4. Runs

`coupons` and `suspended` run `MCCouponSync`, `session` `MCAuthSession`, `parts`, `missing` and
`duplicates` `MCPlatform`, `payouts` `MCPayments`; the others run `MCLedger`. In the ledger amounts are cents and
codes `k1`, `k2` belong to influencers `i1`, `i2`.

| Run | Specification | Instance | Distinct states | Shows |
|---|---|---|---|---|
| `commissions` | `CommissionSpec` | 2 orders, 2 influencers in 2 campaigns that pay 10 and 20 per cent, clock 0..1, waiting period 0 or 1, an amount whose share is rounded | 38 706 | balances and settlements under duplicate, reordered and re-attributed events |
| `tiers` | `TierSpec` | 2 orders, 1 influencer, two programs (one listed out of order, the other with another name for the first level), histories of up to 3 periods, clock 0..1 | 47 362 | tiers, prices and the announced progress while programs are switched and evaluations are dated anyhow |
| `payouts` | `PaymentsSpec` | 1 order worth 100 or 200, 1 influencer, requests of 10 and 12, payments of 10 and 11, 2 of each, 2 adjustments | 22 766 | two requests on one balance, decisions in vain, refused payments, payments a cent off, commissions repriced and reverted at any point: they keep the promise of `Account`, and people are told |
| `adjustments` | `Spec` | 2 orders, 2 influencers of one campaign, 2 requests of 10, 2 payments of 10 (one of 20 is refused), 2 adjustments | 127 276 | orders reported again, adjustments shared out among orders and resolved by anybody's payment, and panels that agree meanwhile |
| `capacity`, `canceled` | as `payouts`, `commissions` | | violation | the disagreements with README.md:129 and :118 |
| `coupons` | `Spec` | 1 code, 2 syncs of it, 1 retry | 240 560 | two syncs of one coupon with all orders of their requests, status changes in between, late and lost answers, bodies that break or never end; each of them ends, but for the last |
| `suspended` | `Spec` | as `coupons`, no retries | violation | the disagreement with README.md:110 |
| `session` | `Spec` | 2 tabs, 2 users (one of finance, a brand administrator), a session left in the browser or none, 1 login, 1 request, tokens that live 1 and 2 units, clock 0..1 | 1 538 376 | refreshes, restores, logouts, reloads and a login in any order, and a panel that is refused |
| `parts` | `Spec` | below | 382 972 | the parts around the ledger, one at a time; each run of a reconciliation ends, unless a body never does |
| `missing` | `Spec` | the reconciliation of `parts` | violation | the disagreement with README.md:127 |
| `duplicates` | `Spec` | the registration of `parts` | violation | the disagreement with docs/qa_manual_checklist.md:8 |

Bounds (`OrderCount`, `WithdrawalCount`, `PaymentCount`, `AdjustmentCount`, `HistoryBound`, `MaxTime`)
limit tables, histories and the clock. They are chosen so that each hazard fits: two orders of two
influencers are enough for an order to change hands and for two orders to share one debt; two requests
for one to take what the other reserved; two payments for a request to be paid twice and for an
adjustment to be resolved twice; a clock of two values for an event to come after the date of a
settlement and a settlement before an event; three periods for a tier to be left and regained.
`CommissionSpec` and `TierSpec` leave out withdrawals, which change neither orders, commissions nor
tiers, so that TLC can afford two orders with all event types. Deadlock is checked in these runs: an
order event is always possible, as it is in the program.

In `CouponSync`, `SyncCount` bounds the syncs of a code and `MaxRetries` is a parameter of the program.
Codes do not share anything but the statuses they read, so one code shows all that can happen to a
coupon; two syncs are what an overlap takes, and one retry what it takes to abandon a request and make
it again. Deadlock is checked there as well: a campaign can always be edited.

In `session`, two tabs are what a storage event takes, two users what it takes to see whose token is
used; the access token expires, within the clock's two values, while a refresh token is still good. In
`parts`: one run of a reconciliation over two orders on two days with pages of one order, so that the
page hides one of two (`PageSize`), one webhook at a time on its way; two requests and a pool of two
credentials, one of which VTEX refuses, with one retry; every order of two lines over the scopes, bases
and forms of `MCPlatform`; two people at the registration page, two registrations, two versions of the
terms and one restart; two influencers whose identifiers begin alike, two
codes; two users of whom one has a second factor, two changes of passwords. Both runs say
`CHECK_DEADLOCK FALSE`: logins, requests, runs, codes and changes are bounded, and when they are used up
a part may have nothing left to do.

No liveness is stated about the ledger: nothing in it is promised to happen, every step is somebody's
request. The fairness of `CouponSync` is weak fairness of each sync's time limit (`TimesOut`), which is
possible only while the headers are awaited: it is a timer of the Node process, which fires as long as
the process runs. That of `Platform` (`ReconciliationFairness`) is the same for each run of a
reconciliation, with the steps the process takes by itself: the loop makes its next attempt, a promise
that is settled is taken up, and the transport of mails answers (nodemailer has time limits of its own).
Nothing is assumed of VTEX, which need not answer nor end a body it has begun (limits the HTTP client may
have between the parts of a body are not this code's, and none is assumed), nor of those who call the
API. So `SyncsEnd` and `RunsEnd` leave one way out: the wait for the rest of a body.

`ImplementsAccount` is checked by TLC as the property `Promised!Spec`. A claim is a request with the
payments made of it, a paid request being a settled claim; an influencer has earned the confirmed
commissions, which may rise and fall at any time; the tolerance is one cent. Balances, reservations and
adjustments are how the ledger keeps the promise and do not appear in it, so that an operation that is
wrong about them shows as a claim that should not have been possible.

Every checked property has a mutant in `PROJECT.json`: an operator beside the one it changes, the way
a plausible bug in that code would, under which TLC finds the property violated in the same run.

### Where the program and its documentation disagree

1. *README.md:129, pending adjustments reduce what may be withdrawn.* `recalculateAvailableBalance`
   does not subtract them (`capacity`).
2. *README.md:118, a settlement reverts canceled orders.* It reverts confirmed commissions of
   canceled orders; an estimated one stays (`canceled`).
3. *README.md:110, a suspension deactivates the coupons.* The suspension may overtake a sync that has
   decided to activate: both succeed, and the coupon and the code stay active (`suspended`).
4. *README.md:127 and vtex.service.ts:421, missing orders are missing in VTEX.* The report of one day is
   compared with the orders of all days (`missing`).
5. *docs/qa_manual_checklist.md:8 (REG-02), a registration with duplicate data is refused.* Neither the
   page nor `createInfluencer` looks for an influencer with the same e-mail or document: who registers
   again, or sends a form again whose answer was lost, is two influencers (`duplicates`).

Two more are plain to see and have no run of their own:

6. *README.md:129, payments match the approved amount exactly.* `recordPayment` accepts one cent of
   difference (DB 2035) and books the amount typed in; `payouts` makes such payments.
7. *README.md:134, "adjuntos opcionales"; docs/qa_manual_checklist.md:7 (REG-01), "con adjuntos";
   docs/qa_plan.md:42, "con documentos adjuntos".* Documents chosen on the registration page are never
   sent: see `Registration` in section 2.

## 5. Proofs

All safety invariants and action properties of section 3 are proved with TLAPS, for every value of the
constants. What is assumed of constants is named in the module that declares them: `LedgerConstants`,
`CommissionConstants`, `WithdrawalConstants`, `DashboardConstants`, `CouponConstants`, `SessionConstants`,
`ClientConstants`, `AlertConstants`, `ReconciliationConstants`, `PayloadConstants`,
`RegistrationConstants`, `DirectoryConstants`, `AccountConstants` and `PlatformConstants`. They give the
constants their types and say what the program's configuration and seeds guarantee (there is a
credential, one version of the terms is seeded); TLC evaluates each of
them in the runs.

Each theorem rests on an inductive invariant, with one lemma per action. What the invariants add to the
properties is what a handler takes for granted of states it did not make:

| Module | Theorems | Inductive invariant, and why the properties alone are not |
|---|---|---|
| `LedgerProofs` | `TypeCorrectness`, `AvailableCorrectness` | `TypeInv`: a settlement and an adjustment look up the owner of a commission's order, which is defined only for an attributed order. `CommissionsAreAttributed` is what order events establish and nothing breaks, since an order keeps its code. |
| | `HistoryCorrectness`, `PricingCorrectness`, `TierCorrectness` | `TierInv`: who is not enrolled has no history, which enrolling would erase. Histories only grow, so that the period a commission was priced in stays. `TiersAreEarned` compares the sales of a window, which is a part of the confirmed ones (`TotalMonotonic`). |
| `BalanceProofs` | `BalanceCorrectness`, `SettlementIdempotence` | `BalancesMatchCommissions` with `TypeInv`. A bucket is compared with a sum over a table of any length. An order event changes one row: a sum moves by what that row moves (`TotalOfChange`), which is what `SyncInfluencerBalance` posts. A settlement changes any number of rows: the sums of those it confirms and reverts are the difference (`SettlementMovesTotals`), which is what `SettledBalance` posts. |
| | `WithdrawnCorrectness`, `ReservationCorrectness`, `OnlyCommissionsOverdrawSteps` | `WithdrawalInv`: a recorded payment's request stays paid (or a later request could take its row), and reservations are not negative (or the clamp at zero would hide one). The cent a payment may be off adds up to `PaidCount`. |
| | `AdjustmentAmountCorrectness`, `AdjustmentUniqueness`, `ResolutionFinality`, `AdjustmentsClaimOnlyDebtSteps` | `AdjustmentInv`: an adjustment's order has a commission, so that its influencer is known and stays; a balance is refreshed only when an adjustment is opened or resolved. |
| `DashboardProofs` | `PanelsCorrectness`, `ProgressCorrectness` | The invariants above; see below |
| `PaymentsProofs` | `PaymentsImplementLedger`, `ToldCorrectness`, `PaymentsImplementAccount` | `PromiseInv`, below |
| `CouponProofs` | `CouponTypeCorrectness`, `CouponsFollowCorrectness`, `RowsFollowCorrectness` | `CouponInv`: of an undisturbed code only the last sync waits, for the one request that is out, and what was decided or answered still stands. A body is read of an answer only (`AnswersAreRead`). Syncs are used in order and codes generated first, so that a status change overlooks none. |
| `SessionProofs` | `SessionTypeCorrectness`, `OwnershipCorrectness`, `RequestCorrectness`, `PanelCorrectness`, `LogoutCorrectness` | `SessionInv`: until a login or logout overtakes a call, each refresh in flight is of the user its tab shows and the stored session names, and where no session is stored every tab has lost its tokens or is about to. `PanelCorrectness` compares the lists of roles: a hook fetches for nobody else than its endpoint admits, but for the influencers' panel, whose endpoint admits everybody the menu and the landing page lead there. That a logout ends the session follows from more than the property says: the storage stays empty from the logout to the end of the next login, settled or not. |
| `PlatformProofs` | the nine below | `Inv`, one conjunct for each part; a step of one part leaves the variables of the others alone |

`PlatformProofs`:

- *Requests* (`RotationFindsTheGoodOne`, the property `UndisturbedCallsSucceed`). `ClientInv`: an
  undisturbed call is the only one that is out, was sent with the credential at the index, and none of the
  credentials that lie at most `attempt` places behind the index is any good. `pickCredential` jumps over
  expired ones only (`PickedIsFirst`) and a refusal rotates past one that is not accepted, so that each
  attempt leaves one more behind (`PassedAhead`); after as many as the pool holds all have been tried
  (`AllPassed`). A refused call moves the index before its error is read: until then it counts as one
  attempt further (`Refused`).
- *Reconciliation* (`AlertDelivery`, `RecordsExactness`). `MailsFollowRecords`: a run has no record before
  its comparison and does not end with alarms before its mail is in the outbox. Records are exact by what
  `CompareReport`, the only step that ends the wait for a report that came, does to any two lists of orders,
  the tolerance included (`ToleranceIsOnePercent`).
- *Orders* (`NetAmounts`, the property `EligibleAmountsAreNet`). The row and the payload it was made of
  change together, so the property is its own invariant. A payload that is admitted has no totals and no
  price definitions, so that tax, shipping and discounts are where `OrderWebhookDto` names them; the sum
  over the lines that are eligible is the sum over all lines with the others counted as nothing
  (`SumOfSome`).
- *Registration* (`ConsentCertificates`). `TermsInv` speaks of every place a version of the terms passes
  through: the page, the form that is out, the rows.
- *Master data* (`CodeIndex`, `AccountSurvival`). `DirectoryInv`: a code's place in the table is what its
  identifier names, and codes that are being synchronised are in it.
- *Accounts* (`PasswordProof`). `AccountsInv`: of two changes of one password that are out together both
  know of the overlap; one without overlap has read the hash as it is, and so has a sign-in.
- `TypeCorrectness`, of all parts.

The refinement (`PaymentsImplementAccount : PaymentsSpec => ImplementsAccount`). Initial states map to
initial states. A step of the service is one of the ledger, which `PaymentsImplementLedger` says, so
that the ledger's invariants hold of it; a request maps to `Ask`, a decision to `Grant` or `Refuse`, a payment
to `Settle`, a refused one to the grant it leaves behind, whatever changes confirmed commissions to a
change of what was earned, and the rest to stuttering. `Ask` is guarded by what was earned less what is
claimed: the guard follows from the code's check of the available amount because that is derived
(`AvailableIsDerived`), from buckets that are sums of commissions (`BalancesMatchCommissions`), a withdrawn
amount and reservations that are sums of payments and requests (`WithdrawalInv`), added up request by
request as a claim is (`ClaimsMatchPayments`, of `ClaimInv`).

What panels show (`DashboardProofs`). `PanelsAgree` compares sums that were formed in three ways: by a
loop over the rows of a Map (`Total`, in the balances), over a set of rows, and over the groups of an
influencer, a campaign or a brand. `SumOfRows` ties the first to the second, `SumOfGroups` the second to
the third: an order's owner and campaign are those of its code, so that the groups partition the rows. The
balances a panel stands beside are then those `BalancesMatchCommissions`, `WithdrawnMatchesPayments` and
`TypeInv` speak of. `ProgressLeadsAhead` needs that of the levels the panel finds ahead one is the next
(`NextTierExists`), that a tier reached by an evaluation is not below it (`NextTierIsOnTheWay`), and that
what the evaluation counted is a part of the confirmed sales (`ConfirmedSalesAddUp`).

Sums (`SumProofs`). `Total` is a recursive function, and `SumFunctionOnSet` of the community modules one
over sets that takes the elements in the order `CHOOSE` gives them. The induction theorems of the library
take an operator as their parameter, which the provers here cannot instantiate. Instead, what would fail
has a least counter-example (`Least`, from the well-ordering of the naturals): a first prefix of a table,
or a set of the fewest elements (`FiniteSetInduction`, over a set of sets in place of a predicate). In this
way prefix sums exist, are integers and behave as sums; the fold over sets exists (`FoldExists`) and does
not depend on the order of its elements (`SumTakesAny`), and from that the lemmas above follow.
`PickedIsFirst` finds the first credential that has not expired by `Least` as well.

What failed proofs showed of the model:

- `TiersAreEarned` compared thresholds with the sum of all confirmed sales. The webhook takes negative
  amounts; one outside the window of an evaluation lowers that sum but not the window's. The property is
  about sales above zero (TLC finds the counter-example to the old form with amounts of -100 and 100).
- `ProgressLeadsAhead` counted the sales of all campaigns, and negative ones against the rest, where an
  evaluation looks at one campaign in one window. It also holds only where thresholds rise with levels: of
  two levels that share a threshold the higher one may be the tier everybody begins in, as the lowest
  threshold decides, and somebody moves up who has sold nothing. Nothing in the code keeps a program from
  being written so; the property now says which programs it is about (`ThresholdsRise`).
- `EligibleAmountsAreNet` took an item to be in scope if its category or its SKU was named, whatever the
  scope is by. The code looks at one of them (`isItemEligible`), and nothing keeps a SKU from being
  written like a category.
- In `AuthSession.RefreshFails` the quantifier over the other tabs took in the disjuncts after it, so that
  with a single tab a login that a failing refresh overtook was not recorded as `overtaken`.
- `ClientConstants` allowed a pool of no credentials, in which the index has no value; the client is
  offline then. `RegistrationConstants` allowed no version of the terms, and `SessionConstants` no tabs.

Only model-checked: `SyncsEnd` and `RunsEnd`. Liveness under fairness is out of the prover's reach, as is
`ENABLED`.

## 6. Not modelled

- The VTEX client's offline mode, which answers from a local Map without awaiting; signature checks; the
  parsing of text (dates, amounts, lists of recipients); SMTP.
- Failures inside `registerOrderEvent`, and a reconciliation posted by hand, which is
  `RecordReconciliation` of the ledger with entries of the caller's choice.
- Documents attached to requests and payments, and the type of an adjustment's resolution: lists and
  labels no operation reads.
- The uploads of the registration page, and documents of influencers: see sections 2 and 4.
- The gestor panel, which lists rows of influencers, campaigns and codes, and the percentage of tier
  progress.
- Guards and validation beyond the above: they are stateless, and the models take the inputs they let
  through. Encryption of documents and accounts.
- Audit and observability (nothing reads them), the worker (it writes a constant text to files named after
  their time), the rendering of web pages, seeds, containers and end-to-end tests.
