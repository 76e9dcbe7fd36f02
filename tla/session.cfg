SPECIFICATION FairSpec
CONSTANTS
  t1 = t1
  t2 = t2
  f1 = f1
  f2 = f2
  None = None
  Tabs <- TwoTabs
  Calls <- TwoCalls
  Roles <- TwoRoles
  Home = "admin"
  MaxSessions = 3
INVARIANTS
  TypeOK
  OwnSessionShown
  NobodyLoggedOut
  SessionOrLogin
PROPERTIES
  StuckTabsStay
  LoginsEnd
CHECK_DEADLOCK FALSE
