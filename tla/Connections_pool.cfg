SPECIFICATION FairSpec
CONSTANTS
  Call = {c1, c2}
  Conn = {k1, k2}
  MaxConnections = 1
  PoolMax = 1
INVARIANTS RepliesMatch IdleIsHarmless
PROPERTIES DrainIsClean AbandonedAreFreed
CHECK_DEADLOCK TRUE
