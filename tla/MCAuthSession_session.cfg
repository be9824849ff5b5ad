SPECIFICATION Spec
CONSTANTS
  t1 = t1
  t2 = t2
  fina = fina
  marca = marca
  Tabs = {t1, t2}
  Users = {fina, marca}
  RoleOf <- MCRoleOf
  AccessLife = 1
  RefreshLife = 2
  Margin = 1
  LoginCount = 1
  UserOf <- MCUserOf
  RequestCount = 1
  MaxTime = 1
CHECK_DEADLOCK FALSE
INVARIANTS
  TypeOK
  UserOwnsTokens
  RequestsRunAsTheirUser
  LogoutEndsTheSession
PROPERTIES
  PanelsAreAllowed
