---------------------------- MODULE LedgerState ----------------------------
(***************************************************************************)
(* The part of InMemoryDatabaseService that commissions, tiers, balances,  *)
(* withdrawals, payments and adjustments share: its Maps as functions, and *)
(* the balance arithmetic every operation goes through.                    *)
(*                                                                         *)
(* Rows are records.  A row that has not been created yet has the status   *)
(* "none" (a commission: the state "NONE"), and a table is a function from *)
(* 1..n, the order in which the program inserts into the Map: n bounds the *)
(* table.  A balance row that does not exist yet is one with every amount  *)
(* 0, which is what ensureInfluencerBalance creates on first use.          *)
(***************************************************************************)
EXTENDS Amounts, Sequences

CONSTANTS
  Influencers,      \* influencers that have signed up
  Campaigns,        \* campaigns
  Brands,           \* brands
  Codes,            \* discount codes
  None,             \* no discount code
  InfluencerOf,     \* the influencer a code belongs to
  CampaignOf,       \* the campaign a code belongs to
  BrandOf,          \* the brand of a campaign
  MinimumAmount,    \* the brand's withdrawal policy
  CommissionBase,   \* a campaign's percent when it has no tiers
  TierNames,        \* names of tiers
  TierPrograms,     \* tier programs an administrator may give a campaign
  InitialProgram,   \* the tier program a campaign is created with
  InfluencerStatuses,  \* the statuses an administrator gives an influencer
  OrderStatuses     \* the statuses an order event carries

CONSTANTS           \* bounds of the model
  OrderCount, WithdrawalCount, PaymentCount, AdjustmentCount, HistoryBound,
  MaxTime

OrderIds      == 1..OrderCount
WithdrawalIds == 1..WithdrawalCount
PaymentIds    == 1..PaymentCount
AdjustmentIds == 1..AdjustmentCount
Time          == 0..MaxTime
Open          == -1              \* the end of a period that has not ended

CommissionStates == {"ESTIMATED", "CONFIRMED", "REVERTED"}
WithdrawalStatuses == {"pending", "approved", "rejected", "paid"}

Base == "Base"   \* the name of the tier everybody has in a campaign without tiers

Tier == [name : TierNames, level : Nat, threshold : Nat, percent : Nat]

ASSUME LedgerConstants ==
  /\ None \notin Codes
  /\ InfluencerStatuses \subseteq {"pending", "approved", "rejected", "suspended"}
  /\ OrderStatuses \subseteq
       {"created", "paid", "invoiced", "shipped", "canceled", "returned"}
  /\ InfluencerOf \in [Codes -> Influencers]
  /\ CampaignOf \in [Codes -> Campaigns]
  /\ BrandOf \in [Campaigns -> Brands]
  /\ MinimumAmount \in [Brands -> Nat]
  /\ CommissionBase \in [Campaigns -> Nat]
  /\ Base \in TierNames
  /\ TierPrograms \subseteq Seq(Tier)
  /\ InitialProgram \in [Campaigns -> TierPrograms]
  /\ {OrderCount, WithdrawalCount, PaymentCount, AdjustmentCount} \subseteq Nat
  /\ {HistoryBound, MaxTime} \subseteq Nat

VARIABLES
  now,                \* the clock of the API process
  influencerStatus,   \* InfluencerEntity.status
  assigned,           \* pairs <<campaign, influencer>> of assignedCampaignIds
  programs,           \* CampaignEntity.tiers
  tiers,              \* tierAssignments, by <<campaign, influencer>>
  orders,             \* orders
  commissions,        \* commissions, by order
  balances,           \* balances, by influencer
  withdrawals,        \* withdrawalRequests
  payments,           \* payments
  adjustments,        \* withdrawalAdjustments
  adjustmentByOrder   \* withdrawalAdjustmentsByOrder, 0 when absent

partnerVars    == <<influencerStatus, assigned>>
tierVars       == <<programs, tiers>>
orderVars      == <<orders, commissions>>
withdrawalVars == <<withdrawals, payments, adjustments, adjustmentByOrder>>
vars == <<now, partnerVars, tierVars, orderVars, balances, withdrawalVars>>

----------------------------------------------------------------------------
(* Row types. *)

\* A tier assignment: the tier in force, the start of the window the next
\* evaluation looks at, and the periods each tier was in force, an open period
\* having no end.  The name of the tier in force is that of the last period.
TierPeriod == [name : TierNames, level : Nat, percent : Nat,
               from : Time, to : Time \cup {Open}]

TierAssignment == [enrolled : BOOLEAN, level : Nat, percent : Nat,
                   windowStart : Time, history : Seq(TierPeriod)]

Order == [status : OrderStatuses \cup {"none"}, code : Codes \cup {None},
          updatedAt : Time]

Commission == [state : CommissionStates \cup {"NONE"}, amount : Int,
               eligible : Int, confirmedAt : Time]

Balance == [estimated : Int, confirmed : Int, reverted : Int, pending : Int,
            withdrawn : Int, adjustment : Int, available : Int]

Withdrawal == [status : WithdrawalStatuses \cup {"none"},
               influencer : Influencers \cup {None}, amount : Int]

Payment == [status : {"none", "recorded"}, withdrawal : 0..WithdrawalCount,
            amount : Int, applied : SUBSET AdjustmentIds]

Adjustment == [status : {"none", "pending", "resolved"}, order : 0..OrderCount,
               amount : Int, payment : 0..PaymentCount]

----------------------------------------------------------------------------
(* Balances. *)

\* recalculateAvailableBalance: pending adjustments are not subtracted.
Recalculate(b) ==
  [b EXCEPT !.available = b.confirmed - b.withdrawn - b.pending]

\* applyBalanceDelta: an amount enters (or, negated, leaves) a state's bucket.
ApplyBalanceDelta(b, state, delta) ==
  [b EXCEPT !.estimated = @ + (IF state = "ESTIMATED" THEN delta ELSE 0),
            !.confirmed = @ + (IF state = "CONFIRMED" THEN delta ELSE 0),
            !.reverted  = @ + (IF state = "REVERTED"  THEN delta ELSE 0)]

\* syncInfluencerBalance: the previous commission leaves its bucket, the
\* current one enters its own, and the available amount is recalculated.
SyncInfluencerBalance(b, previous, current) ==
  Recalculate(ApplyBalanceDelta(
    ApplyBalanceDelta(b, previous.state, -previous.amount),
    current.state, current.amount))

\* The influencer an attributed order, and so its commission, belongs to.
OwnerOf(o) == InfluencerOf[orders[o].code]

\* Rows are inserted in the order of their index.
IsNextFree(rows, id) ==
  /\ rows[id].status = "none"
  /\ \A before \in 1..(id - 1) : rows[before].status # "none"

=============================================================================
