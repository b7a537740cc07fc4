SPECIFICATION ClusterSpec
CONSTANTS
  n1 = n1  t1 = t1  op1 = op1  c1 = c1  cpu = cpu
  NoNode = NoNode  AtCoordinator = AtCoordinator  NoCodec = NoCodec
  NodeId = {n1}
  TaskId = {t1}
  PutId = {}
  Operation = {op1}
  Codec = {c1}
  WorkerEpoch = {1, 2, 3}
  ResourceKind = {cpu}
  Offer <- OneSlots
  WorkerOffer <- EachOneSlot
  Job <- Twice
  MaxArgs = 0
  MaxTasks = 2
  MaxObjects = 2
  MaxSessions = 3
  LeaseMs = 2
  TtlMs = 3
  BackoffBase = 1
  BackoffCap = 2
  Lookahead = 1
  MaxLosses = 1
  MaxStarts = 0
CHECK_DEADLOCK FALSE
INVARIANT ReconnectSurvives
