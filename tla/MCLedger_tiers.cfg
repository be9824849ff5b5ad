\* One influencer and tiers that change: programs an administrator switches,
\* evaluations and settlements dated at any time, duplicate and reordered events.
SPECIFICATION TierSpec
CONSTANTS
  i1 = i1
  i2 = i2
  c1 = c1
  c2 = c2
  brand = brand
  k1 = k1
  k2 = k2
  None = None
  Influencers = {i1}
  Campaigns = {c1}
  Brands = {brand}
  Codes = {k1}
  InfluencerOf <- MCSoleInfluencerOf
  CampaignOf <- MCSoleCampaignOf
  BrandOf <- MCBrandOf
  MinimumAmount <- MCMinimumAmount
  CommissionBase <- MCCommissionBase
  TierNames <- MCTierNames
  TierPrograms <- MCPrograms
  InitialProgram <- MCInitialTwoTiers
  InfluencerStatuses = {"approved"}
  OrderStatuses = {"paid"}
  OrderCount = 2
  WithdrawalCount = 0
  PaymentCount = 0
  AdjustmentCount = 0
  HistoryBound = 3
  MaxTime = 1
  EligibleAmounts = {100}
  WaitingPeriods = {0}
  RequestAmounts = {}
  PaymentAmounts = {}
INVARIANTS
  HistoryIsContiguous
  PricedByHistory
PROPERTIES
  TiersAreEarned
  ProgressLeadsAhead
