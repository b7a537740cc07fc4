SPECIFICATION FairSpec
CONSTANTS
  n1 = n1  n2 = n2  t1 = t1  t2 = t2  t3 = t3  p1 = p1
  op1 = op1  op2 = op2  c1 = c1  c2 = c2  cpu = cpu
  NoNode = NoNode  AtCoordinator = AtCoordinator  NoCodec = NoCodec
  NodeId <- TwoNodes
  TaskId = {t1}
  PutId = {p1}
  Operation = {op1}
  Codec = {c1, c2}
  WorkerEpoch = {1}
  ResourceKind = {cpu}
  Offer <- Disagreeing
  Job <- TwoTries
  MaxArgs = 1
  MaxTasks = 1
  MaxObjects = 2
  MaxSessions = 2
  LeaseMs = 1
  TtlMs = 1
  BackoffBase = 1
  BackoffCap = 2
  Lookahead = 2
CHECK_DEADLOCK FALSE
INVARIANTS
  CatalogueAgrees
PROPERTIES
  PublishedIsImmutable
  SilentWorkerLosesTasks
