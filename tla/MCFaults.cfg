CONSTANTS
  Calls = {c1, c2, c3}
  b = b
  Account = Account
  NoAgent = NoAgent
  Agents = {}
  Scopes <- McScopes
  Cap <- McCap
  PeriodCap <- McPeriodCap
  LastPeriod = 1
  MaxCands = 1
  Plans <- McPlans
  Impatient = {}
  Redelivery = {}
  MaxFailures = 1
SPECIFICATION FaultSpec
SYMMETRY Symmetry
INVARIANT ConversationsWithinCap
CHECK_DEADLOCK FALSE
