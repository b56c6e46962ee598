CONSTANTS
  Calls = {c1, c2}
  r1 = r1
  b = b
  Account = Account
  NoAgent = NoAgent
  Agents = {}
  Scopes <- McScopes
  Cap <- McCap
  PeriodCap <- McPeriodCap
  LastPeriod = 2
  MaxCands = 1
  Plans <- McPlans
  Impatient = {c1}
  Redelivery = {}
SPECIFICATION Spec

CHECK_DEADLOCK FALSE
INVARIANT DeadCallHoldsNoLine
