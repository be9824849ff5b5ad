\* Two influencers who share a campaign: orders reverted after they were paid for,
\* reconciliations reported again and again, payments that list adjustments of
\* their own and of others, old and new.
SPECIFICATION Spec
CONSTANTS
  i1 = i1
  i2 = i2
  c1 = c1
  c2 = c2
  brand = brand
  k1 = k1
  k2 = k2
  None = None
  Influencers = {i1, i2}
  Campaigns = {c1}
  Brands = {brand}
  Codes = {k1, k2}
  InfluencerOf <- MCInfluencerOf
  CampaignOf <- MCOneCampaignOf
  BrandOf <- MCBrandOf
  MinimumAmount <- MCMinimumAmount
  CommissionBase <- MCCommissionBase
  TierNames <- MCTierNames
  TierPrograms <- MCNoPrograms
  InitialProgram <- MCInitialNoTiers
  InfluencerStatuses = {"approved"}
  OrderStatuses = {"paid"}
  OrderCount = 2
  WithdrawalCount = 2
  PaymentCount = 2
  AdjustmentCount = 2
  HistoryBound = 2
  MaxTime = 0
  EligibleAmounts = {100}
  WaitingPeriods = {0}
  RequestAmounts = {10}
  PaymentAmounts = {10, 20}
INVARIANTS
  AdjustmentAmountMatches
  OnePendingAdjustmentPerOrder
  PanelsAgree
PROPERTIES
  AdjustmentsClaimOnlyDebt
  ResolutionIsFinal
