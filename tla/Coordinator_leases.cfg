SPECIFICATION Spec
CONSTANTS
  n1 = n1  n2 = n2  t1 = t1  t2 = t2  t3 = t3  p1 = p1
  op1 = op1  op2 = op2  c1 = c1  c2 = c2  cpu = cpu
  NoNode = NoNode  AtCoordinator = AtCoordinator  NoCodec = NoCodec
  NodeId <- TwoNodes
  TaskId <- TwoTasks
  PutId = {}
  Operation = {op1}
  Codec = {c1}
  WorkerEpoch = {1}
  ResourceKind = {cpu}
  Offer <- LargeWorkers
  Job <- TwoTries
  MaxArgs = 1
  MaxTasks = 2
  MaxObjects = 2
  MaxSessions = 2
  LeaseMs = 1
  TtlMs = 1
  BackoffBase = 1
  BackoffCap = 2
  Lookahead = 2
SYMMETRY Symmetry
CHECK_DEADLOCK FALSE
INVARIANTS
  LeasesAreCurrent
  AttemptsBounded
  SlotsAccounted
  OutputMatchesTask
PROPERTIES
  ImplementsLifecycle
