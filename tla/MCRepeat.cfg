CONSTANTS
  NCalls = 2
  NOwners = 1
  DupWindow = 1
  RateLimit = 0
  RateWindow = 1
  ShortMax = 0
  MaxTime = 1

SPECIFICATION CallersSpec
INVARIANT BuyerPaysOnce
CHECK_DEADLOCK FALSE
