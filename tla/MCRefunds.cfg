CONSTANTS
  Tenants = {t1, t2}
  Numbers = {n1}
  Requests = {q1, q2}
  Threshold = 0
  Price = 1
  Start = 1
  Allowance = 0
  MaxNumbers = 1
  MaxRows = 2
  MaxCrashes = 1
SPECIFICATION Spec
INVARIANT RefundedOnce
CHECK_DEADLOCK FALSE
