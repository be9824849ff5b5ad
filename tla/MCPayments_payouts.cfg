\* One influencer with two requests and two payments: decisions, refused payments,
\* payments a cent off, while the commission is repriced, reverted and restored.
SPECIFICATION PaymentsSpec
CONSTANTS
  i1 = i1
  i2 = i2
  c1 = c1
  c2 = c2
  brand = brand
  k1 = k1
  k2 = k2
  None = None
  Influencers = {i1}
  Campaigns = {c1}
  Brands = {brand}
  Codes = {k1}
  InfluencerOf <- MCSoleInfluencerOf
  CampaignOf <- MCSoleCampaignOf
  BrandOf <- MCBrandOf
  MinimumAmount <- MCMinimumAmount
  CommissionBase <- MCCommissionBase
  TierNames <- MCTierNames
  TierPrograms <- MCNoPrograms
  InitialProgram <- MCInitialNoTiers
  InfluencerStatuses = {"approved"}
  OrderStatuses = {"paid"}
  OrderCount = 1
  WithdrawalCount = 2
  PaymentCount = 2
  AdjustmentCount = 2
  HistoryBound = 2
  MaxTime = 0
  EligibleAmounts = {100, 200}
  WaitingPeriods = {0}
  RequestAmounts = {10, 12}
  PaymentAmounts = {10, 11}
INVARIANTS
  TypeOK
  AvailableIsDerived
  WithdrawnMatchesPayments
  ReservationsMatchOpenRequests
  StatusesAreTold
PROPERTIES
  ImplementsAccount
  OnlyCommissionsOverdraw
