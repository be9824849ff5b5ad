\* Two orders, two influencers, orders that change hands between coupons, duplicate
\* and reordered events, settlements at any date: the commission engine alone.
SPECIFICATION CommissionSpec
CONSTANTS
  i1 = i1
  i2 = i2
  c1 = c1
  c2 = c2
  brand = brand
  k1 = k1
  k2 = k2
  None = None
  Influencers = {i1, i2}
  Campaigns = {c1, c2}
  Brands = {brand}
  Codes = {k1, k2}
  InfluencerOf <- MCInfluencerOf
  CampaignOf <- MCCampaignOf
  BrandOf <- MCBrandOf
  MinimumAmount <- MCMinimumAmount
  CommissionBase <- MCCommissionBase
  TierNames <- MCTierNames
  TierPrograms <- MCNoPrograms
  InitialProgram <- MCInitialNoTiers
  InfluencerStatuses = {"approved"}
  OrderStatuses = {"paid", "canceled"}
  OrderCount = 2
  WithdrawalCount = 0
  PaymentCount = 0
  AdjustmentCount = 0
  HistoryBound = 2
  MaxTime = 1
  EligibleAmounts = {105}
  WaitingPeriods = {0, 1}
  RequestAmounts = {}
  PaymentAmounts = {}
INVARIANTS
  BalancesMatchCommissions
PROPERTIES
  SettlementIsIdempotent
