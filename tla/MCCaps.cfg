CONSTANTS
  Calls = {c1, c2}
  r1 = r1
  b = b
  Account = Account
  NoAgent = NoAgent
  Agents = {}
  Scopes <- McScopes
  Cap <- McCap
  PeriodCap <- McPeriodCap
  LastPeriod = 2
  MaxCands = 1
  Plans <- McPlans
  Impatient = {c2}
  Redelivery = {c1}
SPECIFICATION FairSpec

INVARIANTS CountersExact PeriodCapsKept AccountWithinLimit BilledOnce
PROPERTIES CallerGoneIsBilled
CHECK_DEADLOCK FALSE
