SPECIFICATION ReadSpec
CONSTANTS
  n1 = n1  t1 = t1  t2 = t2  op1 = op1  c1 = c1  cpu = cpu  w1 = w1
  NoNode = NoNode  AtCoordinator = AtCoordinator  NoCodec = NoCodec
  NodeId = {n1}
  TaskId = {t1, t2}
  PutId = {}
  Operation = {op1}
  Codec = {c1}
  WorkerEpoch = {1}
  ResourceKind = {cpu}
  Offer <- OneSlot
  Job <- TwoTries
  MaxArgs = 0
  MaxTasks = 2
  MaxObjects = 2
  MaxSessions = 1
  LeaseMs = 1
  TtlMs = 0
  BackoffBase = 0
  BackoffCap = 0
  Lookahead = 1
  Caller = {w1}
  Handles <- HandleLists
  Wanted = {1, 3}
  MaxTimeout = 2
  LongPollMs = 1
  Frame = 8
  BaseSize = 1
  InlineSize = 5
  RedirectSize = 4
  ErrorSize = 2
  OverflowSize = 3
  MaxRestarts = 1
CHECK_DEADLOCK FALSE
INVARIANTS ResultsAreTrue EnoughEnded BatchFits LoopEnds
