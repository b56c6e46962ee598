CONSTANTS
  c1 = c1
  c2 = c2
  r1 = r1
  r2 = r2
  b = b
  a1 = a1
  Calls <- McCalls
  Account = Account
  NoAgent = NoAgent
  Agents = {a1}
  Scopes <- McScopes
  Cap <- McCap
  PeriodCap <- McPeriodCap
  LastPeriod = 1
  MaxCands = 2
  Plans <- McPlans
  Impatient = {}
  Redelivery = {}
SPECIFICATION McSpec
INVARIANTS TypeOK TalkingWithinCap NoStrayBuyerLeg SoftphoneExact
PROPERTY ImplementsSwitchboard
CHECK_DEADLOCK FALSE
