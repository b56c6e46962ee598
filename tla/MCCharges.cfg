CONSTANTS
  Tenants = {t1}
  Servers = {s1, s2}
  Clients = {c1}
  Threshold = 2
  Fee = 2
  TopUp = 2
  CallCost = 1
  Start = 2
  MaxTopUps = 1
  MaxCalls = 1
  MaxChanges = 1
  MaxCrashes = 1
  MaxUpsets = 1
  Months = 1

  NCalls = 3
  NOwners = 2
  DupWindow = 1
  RateLimit = 2
  RateWindow = 1
  ShortMax = 2
  MaxTime = 2

  Buyer = {b1, b2}
  Target = {g1}
  Agent = {g1}
  NRoutes = 2
  NEditors = 2
  PhoneCall = {p1}

  Cdr = {k1, k2}
  Now = 8

  Viewers <- User
  Page = {g1, g2}
  LiveTtl = 2
  LiveSlow = 1

  DayStarts <- SampleDays
  Stride = 2
  MaxSpan = 16
  ShortSpan = 4
  MaxMoves = 1

  Deliverer = {d1, d2}
  MaxTries = 3
  MaxRetries = 1
  MaxStalled = 1
  MaxStops = 2

SPECIFICATION ChargesSpec
INVARIANTS
  MoneyAccounted ChargedWhenDue AlertedOnce
  WithinCallerRate PublisherPaidOnce SequentialCallsSellOnce ShortCallersBlocked
  PartnersSeeTheirs LiveIsTheirs ReportsAddUp
PROPERTIES DueIsHandled PublisherIsTold
CHECK_DEADLOCK FALSE
