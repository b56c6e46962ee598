CONSTANTS
  Tenants = {t1, t2}
  Numbers = {n1}
  Requests = {q1, q2}
  Threshold = 0
  Price = 1
  Start = 1
  Allowance = 0
  MaxNumbers = 1
  MaxRows = 2
  MaxCrashes = 1

  Server = {s1}
  NAccounts = 2
  CacheTtl = 2
  QuoteTtl = 1
  Slow = 1

  NRequests = 2
  NLinks = 2
  MaxSessions = 1
  MaxVer = 1

  NDays = 3
  NTimes = 3
  Calls <- SampleCalls

  Portal = {acme, zeta}
  Main = main
  Domain = {d1}
  UnknownIsMain = TRUE
  Datum = {e1}
  Visit = {v1}
  Errand = {k1}

SPECIFICATION PlatformSpec
INVARIANTS
  OneOwner FailedIffRefunded HeldIsLive
  TurnedOffIsUnused
  LinksWorkOnce SessionsEnd
  RoutesAsConfigured
  TenantsApart
PROPERTY PendingSettles
CHECK_DEADLOCK FALSE
