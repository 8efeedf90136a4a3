\* Logins, logouts and expiry under each complication.
CONSTANTS
  t1 = t1
  t2 = t2
  Tabs <- TwoTabs
  FirstTab = t1
  MaxLogins = 2
  TicksPerSecond = 2
  Lifetime = 2
  MaxNow = 3
  Conditions <- CalmAndHasty
SPECIFICATION Spec
INVARIANTS TypeOK CookieIsAccepted LoggedOutIsOut
PROPERTIES CookieOfLastLogin LoginEnds LogoutEnds
