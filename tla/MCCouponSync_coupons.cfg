SPECIFICATION Spec
CONSTANTS
  i1 = i1
  c1 = c1
  d1 = d1
  Discounts = {d1}
  Influencers = {i1}
  Campaigns = {c1}
  InfluencerOf <- MCInfluencerOf
  CampaignOf <- MCCampaignOf
  SyncCount = 2
  MaxRetries = 1
INVARIANTS
  TypeOK
  CouponsFollowInfluencers
  RowsFollowCoupons
PROPERTY
  SyncsEnd
