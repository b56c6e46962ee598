CONSTANTS
  Tenants = {t1}
  Servers = {s1}
  Clients = {c1, c2}
  Threshold = 2
  Fee = 2
  TopUp = 2
  CallCost = 1
  Start = 0
  MaxTopUps = 1
  MaxCalls = 0
  MaxChanges = 0
  MaxCrashes = 0
  MaxUpsets = 0
  Months = 1
SPECIFICATION Spec
INVARIANT PayerIsReactivated
CHECK_DEADLOCK FALSE
