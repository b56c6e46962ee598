CONSTANTS
  Handler = {h1, h2, h3}
  LockTtl = 3
  LockWait = 2

  NBuyers = 2
  Whispers = {1}
  MaxRepeats = 1

  Node = {n1, n2}
  First = n1
  Retries = 1
  IVR_MAX_STEPS = 4

  Tab = {t1, t2}
  PresenceTtl = 9
  BeatEvery = 4

  Tape = {v1, v2}
  Worker = {w1, w2}
  Batch = 1
  MaxFailures = 1

  MaxVerbs = 3

SPECIFICATION ServicesSpec
INVARIANTS LockExclusive LostOnlyWhenBusy DeletedIsGone CarriersAgree
PROPERTIES LockComesBack NobodyLeftAlone MenuEnds PresenceFollowsTabs RetentionIsKept
CHECK_DEADLOCK FALSE
