SPECIFICATION Spec
CONSTANTS
  run1 = run1
  call1 = call1
  call2 = call2
  ops = ops
  finance = finance
  o1 = o1
  o2 = o2
  s1 = s1
  s2 = s2
  hair = hair
  skin = skin
  i1 = i1
  i2 = i2
  c1 = c1
  c2 = c2
  account1 = account1
  account2 = account2
  phone = phone
  b1 = b1
  b2 = b2
  u1 = u1
  u2 = u2
  change1 = change1
  change2 = change2
  Parts = {"requests", "reconciliation", "orders", "registration", "profiles", "catalogue", "accounts"}
  Calls = {run1, call1, call2}
  Runs = {run1}
  InFlight = 1
  PoolSize = 2
  Accepted = {1}
  MaxRetries = 1
  Addresses = {ops, finance}
  DefaultAddress = ops
  MailConfigs <- MCMailConfigs
  Orders = {o1, o2}
  Foreign = {o2}
  OrderTotals = {99, 100}
  PageSize = 1
  LastDay = 1
  CampaignForms <- MCCampaignForms
  OrderForms <- MCOrderForms
  PayloadForms <- MCPayloadForms
  People = 2
  VersionCount = 2
  RegistrationCount = 2
  FaultCount = 1
  Influencers = {i1, i2}
  BankAccounts = {account1, account2}
  Contacts = {phone}
  Campaigns = {c1, c2}
  Brands = {b1, b2}
  BrandOf <- MCBrandOf
  SeededBrands = {b1}
  ShortOf <- MCShortOf
  CodeCount = 2
  Users = {u1, u2}
  TwoFactorUsers = {u1}
  Passwords = {"seeded", "weak", "strong"}
  StrongPasswords = {"seeded", "strong"}
  SeededPassword = "seeded"
  Changes = {change1, change2}
INVARIANTS
  TypeOK
  UndisturbedCallsSucceed
  AlertsReachTheOutbox
  EligibleAmountsAreNet
  ConsentsCanBeCertified
  CodesLeadToTheirRows
  AccountsSurviveUpdates
PROPERTIES
  RecordsAreExact
  RunsEnd
  PasswordsAreProven
CHECK_DEADLOCK FALSE
