---------------------------- MODULE Coordinator ----------------------------
(***************************************************************************)
(* The coordinator's state machine (coordinator.rs, CoordinatorState):     *)
(* worker sessions under leases, task scheduling with fenced attempts,     *)
(* object records, dependency reconciliation, cancellation and reclaim.    *)
(*                                                                         *)
(* Every operation runs under one mutex (cluster.rs, `state.lock()`), so   *)
(* one operation is one action.  An operation that returns an error, and   *)
(* the branches that accept a duplicate without effect, change nothing:    *)
(* they are stuttering steps and appear only as the guards of the actions. *)
(* Requests reach the coordinator delayed, reordered, repeated or not at   *)
(* all: a report may be made at any time with any identity and fence that  *)
(* was ever handed out.                                                    *)
(*                                                                         *)
(* Time is kept as the timers the code compares with `now`: what is left   *)
(* of a worker's lease, what is left until a retried task is due, and the  *)
(* age of a stamped terminal task.  Tick moves all of them.                *)
(*                                                                         *)
(* A definition named X_... stands before X and is X with a bug: no module *)
(* uses it, it is what the properties are tried against.                   *)
(***************************************************************************)
EXTENDS Resources, Sequences, FiniteSets, SequencesExt

CONSTANTS
  NodeId, TaskId,   \* node ids; task ids (a UUID is minted once)
  PutId,            \* content-derived ids of client-put objects
  Operation, Codec,
  WorkerEpoch,      \* incarnations of a worker process
  Offer,            \* what a worker may register with: slots, total, ops
  Job,              \* what a client may submit: op, resources, max
  MaxArgs,          \* object arguments of one task
  MaxTasks, MaxObjects,            \* MAX_TASKS, MAX_OBJECTS
  MaxSessions,                     \* bound on registrations
  LeaseMs, TtlMs, BackoffBase, BackoffCap,
  Lookahead,                       \* LOCALITY_LOOKAHEAD
  NoNode, AtCoordinator, NoCodec

\* The coordinator mints an output id together with each task id.
Output(t) == <<"output", t>>
ObjectId == PutId \cup {Output(t) : t \in TaskId}
Descriptor == [in : Codec, out : Codec]
OpTable == [Operation -> Descriptor \cup {NoCodec}]  \* NoCodec: not registered
Nodes == NodeId \cup {NoNode}
Places == Nodes \cup {AtCoordinator}

ASSUME ConstantsDiffer ==
  /\ NoNode \notin NodeId /\ AtCoordinator \notin Nodes
  /\ NoCodec \notin Descriptor /\ NoCodec \notin Codec
  /\ \A t \in TaskId : Output(t) \notin PutId
ASSUME FiniteIds == IsFiniteSet(TaskId) /\ IsFiniteSet(NodeId)
ASSUME OffersAndJobs ==
  /\ Offer \subseteq [slots : Nat \ {0}, total : ResourceSet, ops : OpTable]
  /\ Job \subseteq [op : Operation, resources : ResourceSet, max : Nat \ {0}]
ASSUME Bounds ==
  /\ {MaxArgs, MaxTasks, MaxObjects, MaxSessions, TtlMs, BackoffBase,
      BackoffCap} \subseteq Nat
  /\ {LeaseMs, Lookahead} \subseteq Nat \ {0}

VARIABLES
  workers,          \* [NodeId -> Worker or NoWorker]
  tasks,            \* [TaskId -> Task or NoTask]
  objects,          \* [ObjectId -> Object or NoObject]
  operations,       \* the catalogue: [Operation -> Descriptor or NoCodec]
  pendingDeletes,   \* [NodeId -> set of ids the node is still to delete]
  runnable,         \* FIFO of task ids; may hold stale ones
  waiting,          \* index of the tasks in Waiting
  cancelRequested,  \* index of the tasks in CancelRequested
  \* History: what the outside world holds.
  minted,           \* task ids that were ever created
  sessions,         \* sessions[s] is the node session id s was given to
  grants            \* every identity and fence ever handed out

vars == <<workers, tasks, objects, operations, pendingDeletes, runnable,
          waiting, cancelRequested, minted, sessions, grants>>

----------------------------------------------------------------------------
(* Records.                                                                *)

LiveStates == {"Waiting", "Runnable", "Assigned", "Running",
               "CancelRequested"}
LeasedStates == {"Assigned", "Running", "CancelRequested"}
TerminalStates == {"Succeeded", "Failed", "Cancelled"}
Unstamped == -1      \* terminal_since_ms = 0

NoWorker == [state |-> "Absent"]
NoTask   == [state |-> "Absent"]
NoObject == [state |-> "Absent"]
Unassigned == [node |-> NoNode, session |-> 0]

Worker == [state : {"Alive", "Draining"}, session : Nat \ {0},
           workerEpoch : WorkerEpoch, offer : Offer, available : ResourceSet,
           free : Nat, lease : 0..LeaseMs]
Task == [state : LiveStates \cup TerminalStates, op : Operation,
         args : SUBSET ObjectId, resources : ResourceSet, max : Nat \ {0},
         attempt : Nat, assigned : [node : Nodes, session : Nat],
         wait : Nat, age : {Unstamped} \cup Nat]
\* `version` stands for the checksum: the attempt whose bytes these are.
Object == [state : {"Reserved", "Available", "Failed", "Cancelled", "Lost"},
           codec : Codec, inline : BOOLEAN, version : Nat,
           owner : Nodes, location : Places]
\* A lease id is minted per assignment and an attempt is assigned once, so
\* the attempt number stands for the lease id as well.
Grant == [task : TaskId, attempt : Nat, node : NodeId, session : Nat]

Registered(n) == workers[n].state # "Absent"
Live(t) == tasks[t].state \in LiveStates
Terminal(t) == tasks[t].state \in TerminalStates
Present(f) == {x \in DOMAIN f : f[x].state # "Absent"}
AssignedTo(n) ==
  {t \in TaskId : tasks[t].state # "Absent" /\ tasks[t].assigned.node = n}

----------------------------------------------------------------------------
(* Checks and helpers shared by the operations.                            *)

CheckIdentity(n, s) == Registered(n) /\ workers[n].session = s

CheckFence_NoAttempt(g) ==
  /\ CheckIdentity(g.node, g.session)
  /\ tasks[g.task].state # "Absent"
  /\ tasks[g.task].assigned = [node |-> g.node, session |-> g.session]

CheckFence(g) ==
  /\ CheckIdentity(g.node, g.session)
  /\ tasks[g.task].state # "Absent"
  /\ tasks[g.task].assigned = [node |-> g.node, session |-> g.session]
  /\ tasks[g.task].attempt = g.attempt

\* `release` refuses to hand back more than the worker has.
CanRelease(n, t) ==
  /\ Registered(n)
  /\ workers[n].free < workers[n].offer.slots
  /\ CanAdd(workers[n].available, tasks[t].resources, workers[n].offer.total)

Release_SlotKept(n, t) ==
  [workers EXCEPT ![n].available = Add(@, tasks[t].resources)]
Release_ResourcesKept(n, t) == [workers EXCEPT ![n].free = @ + 1]

Release(n, t) ==
  [workers EXCEPT ![n].free = @ + 1,
                  ![n].available = Add(@, tasks[t].resources)]

MinOf(a, b) == IF a < b THEN a ELSE b
Shift == [k \in 0..20 |-> 2^k]      \* 1u64 << k
ASSUME ShiftAssumption == Shift \in [0..20 -> Nat]

RetryBackoff(attempt) ==
  MinOf(BackoffBase * Shift[MinOf(IF attempt > 0 THEN attempt - 1 ELSE 0, 20)],
        BackoffCap)

\* A leased task goes back to the queue's tail, due after its backoff.
Retried(task) == [task EXCEPT !.state = "Runnable", !.assigned = Unassigned,
                              !.wait = RetryBackoff(task.attempt)]
Ended(task, s) == [task EXCEPT !.state = s, !.assigned = Unassigned]

ObjectInUse_WaitingOnly(o) ==
  \E t \in TaskId : tasks[t].state = "Waiting" /\ o \in tasks[t].args

ObjectInUse(o) == \E t \in TaskId : Live(t) /\ o \in tasks[t].args

(***************************************************************************)
(* reconcile_dependencies, applied to the tables the operation has already *)
(* changed.  The loop runs to a fixed point: it fails every waiting task   *)
(* with a broken argument, whose output then breaks the tasks that wait    *)
(* for it, and queues the tasks whose arguments are all available in the   *)
(* order the hash set yields them.                                         *)
(***************************************************************************)
Broken_NotLost(O, o) == O[o].state \notin {"Reserved", "Available", "Lost"}
Broken(O, o) == O[o].state \notin {"Reserved", "Available"}

ClosedUnderFailure(T, O, W, X) ==
  \A t \in W : (\E o \in T[t].args :
                  Broken(O, o) \/ \E u \in X : o = Output(u)) => t \in X

FailedWaiters(T, O, W) ==
  {t \in W : \A X \in SUBSET W : ClosedUnderFailure(T, O, W, X) => t \in X}


ReadyWaiters(T, O, W) ==
  {t \in W : \A o \in T[t].args : O[o].state = "Available"}
    \ FailedWaiters(T, O, W)

TasksReconciled(T, O, W) ==
  [t \in TaskId |->
     IF t \in FailedWaiters(T, O, W) THEN [T[t] EXCEPT !.state = "Failed"]
     ELSE IF t \in ReadyWaiters(T, O, W) THEN [T[t] EXCEPT !.state = "Runnable"]
     ELSE T[t]]

ObjectsReconciled(T, O, W) ==
  [o \in ObjectId |->
     IF \E t \in FailedWaiters(T, O, W) : o = Output(t)
     THEN [O[o] EXCEPT !.state = "Failed"] ELSE O[o]]

StillWaiting(T, O, W) ==
  W \ (FailedWaiters(T, O, W) \cup ReadyWaiters(T, O, W))

Reconcile(T, O, W, Q) ==
  /\ tasks' = TasksReconciled(T, O, W)
  /\ objects' = ObjectsReconciled(T, O, W)
  /\ waiting' = StillWaiting(T, O, W)
  /\ \E order \in SetToSeqs(ReadyWaiters(T, O, W)) : runnable' = Q \o order

----------------------------------------------------------------------------
(* Workers.                                                                *)

\* No other descriptor is known for an operation the worker brings.
NoConflict_Unchecked(ops) == TRUE

NoConflict(ops) ==
  \A p \in Operation : \/ ops[p] = NoCodec \/ operations[p] = NoCodec
                       \/ ops[p] = operations[p]

\* A draining worker is still active.
MayRegister_OverDraining(n) == workers[n].state # "Alive"
MayRegister(n) == ~Registered(n)

\* A repeated registration of the same process renews its lease; any other
\* registration of a node that is still registered is refused.
RegisterAgain(n, epoch, offer) ==
  /\ Registered(n)
  /\ workers[n].workerEpoch = epoch /\ workers[n].offer = offer
  /\ NoConflict(offer.ops)
  /\ workers' = [workers EXCEPT ![n].lease = LeaseMs]
  /\ UNCHANGED <<tasks, objects, operations, pendingDeletes, runnable,
                 waiting, cancelRequested, minted, sessions, grants>>

RegisterWorker(n, epoch, offer) ==
  /\ Len(sessions) < MaxSessions
  /\ MayRegister(n)
  /\ NoConflict(offer.ops)
  /\ workers' = [workers EXCEPT ![n] =
       [state |-> "Alive", session |-> Len(sessions) + 1,
        workerEpoch |-> epoch, offer |-> offer,
        available |-> offer.total, free |-> offer.slots, lease |-> LeaseMs]]
  /\ operations' = [p \in Operation |->
       IF offer.ops[p] = NoCodec THEN operations[p] ELSE offer.ops[p]]
  /\ sessions' = Append(sessions, n)
  /\ UNCHANGED <<tasks, objects, pendingDeletes, runnable, waiting,
                 cancelRequested, minted, grants>>

Heartbeat(s) ==
  LET n == sessions[s]
  IN /\ CheckIdentity(n, s)
     /\ workers' = [workers EXCEPT ![n].lease = LeaseMs]
     /\ UNCHANGED <<tasks, objects, operations, pendingDeletes, runnable,
                    waiting, cancelRequested, minted, sessions, grants>>

Drain(s) ==
  LET n == sessions[s]
  IN /\ CheckIdentity(n, s)
     /\ workers' = [workers EXCEPT ![n].state = "Draining"]
     /\ UNCHANGED <<tasks, objects, operations, pendingDeletes, runnable,
                    waiting, cancelRequested, minted, sessions, grants>>

----------------------------------------------------------------------------
(* Client operations.                                                      *)

\* `put` keeps the bytes (inline); `put_meta` records bytes that are in the
\* shared-memory arena.  An object that is already there is left alone.
MayPut_Overwrite(o) == objects[o].state \in {"Absent", "Available"}
MayPut(o) == objects[o].state = "Absent"

Put(o, codec, inline) ==
  /\ MayPut(o)
  /\ Cardinality(Present(objects)) < MaxObjects
  /\ objects' = [objects EXCEPT ![o] =
       [state |-> "Available", codec |-> codec, inline |-> inline,
        version |-> 0, owner |-> NoNode, location |-> AtCoordinator]]
  /\ UNCHANGED <<workers, tasks, operations, pendingDeletes, runnable,
                 waiting, cancelRequested, minted, sessions, grants>>

Satisfiable(job) ==
  \E n \in NodeId : /\ workers[n].state = "Alive"
                    /\ workers[n].offer.ops[job.op] # NoCodec
                    /\ CanFit(workers[n].offer.total, job.resources)

Usable(o, job) ==
  /\ objects[o].state \in {"Available", "Reserved"}
  /\ objects[o].codec = operations[job.op].in

Submit(t, job, args) ==
  LET waits == \E o \in args : objects[o].state = "Reserved"
  IN /\ t \notin minted
     /\ Cardinality(Present(tasks)) < MaxTasks
     /\ Cardinality(Present(objects)) < MaxObjects
     /\ operations[job.op] # NoCodec
     /\ Satisfiable(job)
     /\ \A o \in args : Usable(o, job)
     /\ minted' = minted \cup {t}
     /\ objects' = [objects EXCEPT ![Output(t)] =
          [state |-> "Reserved", codec |-> operations[job.op].out,
           inline |-> FALSE, version |-> 0, owner |-> NoNode,
           location |-> NoNode]]
     /\ tasks' = [tasks EXCEPT ![t] =
          [state |-> IF waits THEN "Waiting" ELSE "Runnable",
           op |-> job.op, args |-> args, resources |-> job.resources,
           max |-> job.max, attempt |-> 0, assigned |-> Unassigned,
           wait |-> 0, age |-> Unstamped]]
     /\ waiting' = IF waits THEN waiting \cup {t} ELSE waiting
     /\ runnable' = IF waits THEN runnable ELSE Append(runnable, t)
     /\ UNCHANGED <<workers, operations, pendingDeletes, cancelRequested,
                    sessions, grants>>

\* A leased task is only asked to stop; any other live task ends here, and
\* its id stays behind in the queue.
CancelLeased(t) ==
  /\ Live(t) /\ tasks[t].state # "CancelRequested"
  /\ tasks[t].assigned # Unassigned
  /\ tasks' = [tasks EXCEPT ![t].state = "CancelRequested"]
  /\ cancelRequested' = cancelRequested \cup {t}
  /\ UNCHANGED <<workers, objects, operations, pendingDeletes, runnable,
                 waiting, minted, sessions, grants>>

CancelUnleased(t) ==
  /\ Live(t) /\ tasks[t].state # "CancelRequested"
  /\ tasks[t].assigned = Unassigned
  /\ Reconcile([tasks EXCEPT ![t] = Ended(@, "Cancelled")],
               [objects EXCEPT ![Output(t)].state = "Cancelled"],
               waiting \ {t}, runnable)
  /\ UNCHANGED <<workers, operations, pendingDeletes, cancelRequested,
                 minted, sessions, grants>>

Releasable(o) ==
  /\ objects[o].state \notin {"Absent", "Reserved"}
  /\ ~ObjectInUse(o)

\* Reclaiming the objects S takes their producing tasks along and tells the
\* owners that are still registered to drop their copies.
Reclaim(S, T) ==
  /\ objects' = [o \in ObjectId |-> IF o \in S THEN NoObject ELSE objects[o]]
  /\ tasks' = [t \in TaskId |-> IF Output(t) \in S THEN NoTask ELSE T[t]]
  /\ pendingDeletes' = [n \in NodeId |->
       IF Registered(n)
       THEN pendingDeletes[n] \cup {o \in S : objects[o].owner = n}
       ELSE pendingDeletes[n]]

ReleaseObject(o) ==
  /\ Releasable(o)
  /\ Reclaim({o}, tasks)
  /\ UNCHANGED <<workers, operations, runnable, waiting, cancelRequested,
                 minted, sessions, grants>>

----------------------------------------------------------------------------
(* Poll: the reply is a delete, else a cancellation, else an assignment    *)
(* that was handed out but not started, else the next task.  The second    *)
(* and third kind of reply repeat what the coordinator already recorded.   *)

\* The delete is taken before the identity is checked.
PollDelete(n) ==
  \E o \in pendingDeletes[n] :
    /\ pendingDeletes' = [pendingDeletes EXCEPT ![n] = @ \ {o}]
    /\ UNCHANGED <<workers, tasks, objects, operations, runnable, waiting,
                   cancelRequested, minted, sessions, grants>>

NothingOutstanding(n, s) ==
  /\ pendingDeletes[n] = {}
  /\ \A t \in TaskId : tasks[t].state \in {"Assigned", "CancelRequested"}
                         => tasks[t].assigned # [node |-> n, session |-> s]

Fits(n, t) ==
  /\ workers[n].offer.ops[tasks[t].op] # NoCodec
  /\ CanFit(workers[n].available, tasks[t].resources)

Runs(t) == tasks[t].state = "Runnable"
Serves(n, t) == Runs(t) /\ tasks[t].wait = 0 /\ Fits(n, t)
HasLocalInput(n, t) ==
  \E o \in tasks[t].args : objects[o].state # "Absent" /\ objects[o].owner = n

\* The queue positions node n could serve, and where the scan of the queue
\* stops: at the first position with a local input or at the Lookahead-th
\* servable one, else at the end.
Servable(n) == {i \in DOMAIN runnable : Serves(n, runnable[i])}
Local(n) == {i \in Servable(n) : HasLocalInput(n, runnable[i])}
Stops(n) ==
  Local(n) \cup
  {i \in Servable(n) : Cardinality({j \in Servable(n) : j <= i}) = Lookahead}
ScanEnds(n, end) ==
  IF Stops(n) = {} THEN end = Len(runnable)
  ELSE end \in Stops(n) /\ \A i \in Stops(n) : end <= i
Picks(n, end, i) ==
  /\ i \in Servable(n)
  /\ IF end \in Local(n) THEN i = end ELSE \A j \in Servable(n) : i <= j

\* What stays queued when the scan stopped at `end` and took position i: all
\* but i and the stale ids that were scanned.
Kept_Served(n, end, i) ==
  {j \in DOMAIN runnable : j # i /\ (j <= end => Serves(n, runnable[j]))}
Kept(n, end, i) ==
  {j \in DOMAIN runnable : j # i /\ (j <= end => Runs(runnable[j]))}

\* Servable tasks that were passed over return to the front, the unscanned
\* rest follows, tasks this node cannot serve now go to the back.
Rank(n, end, j) ==
  IF j > end THEN 2 ELSE IF Serves(n, runnable[j]) THEN 1 ELSE 3
Before(n, end, j, k) ==
  \/ Rank(n, end, j) < Rank(n, end, k)
  \/ Rank(n, end, j) = Rank(n, end, k) /\ j < k
Requeue(n, end, i) ==
  LET K == Kept(n, end, i)
  IN \E f \in [1..Cardinality(K) -> K] :
       /\ \A a, b \in DOMAIN f : a < b => Before(n, end, f[a], f[b])
       /\ runnable' = [k \in DOMAIN f |-> runnable[f[k]]]

CanTake(s) ==
  LET n == sessions[s]
  IN /\ CheckIdentity(n, s)
     /\ NothingOutstanding(n, s)
     /\ workers[n].state = "Alive" /\ workers[n].free > 0

Assign(n, t) ==
  /\ workers' = [workers EXCEPT
       ![n].free = @ - 1, ![n].available = Subtract(@, tasks[t].resources)]
  /\ tasks' = [tasks EXCEPT
       ![t].state = "Assigned", ![t].attempt = @ + 1,
       ![t].assigned = [node |-> n, session |-> workers[n].session]]
  /\ grants' = grants \cup
       {[task |-> t, attempt |-> tasks[t].attempt + 1, node |-> n,
         session |-> workers[n].session]}

PollAssign(s) ==
  /\ CanTake(s)
  /\ \E end \in 0..Len(runnable), i \in DOMAIN runnable :
       /\ ScanEnds(sessions[s], end)
       /\ Picks(sessions[s], end, i)
       /\ Assign(sessions[s], runnable[i])
       /\ Requeue(sessions[s], end, i)
  /\ UNCHANGED <<objects, operations, pendingDeletes, waiting,
                 cancelRequested, minted, sessions>>

\* Nothing to serve: the whole queue was scanned, and its stale ids are gone.
PollEmpty(s) ==
  /\ CanTake(s)
  /\ Servable(sessions[s]) = {}
  /\ Requeue(sessions[s], Len(runnable), 0)
  /\ UNCHANGED <<workers, tasks, objects, operations, pendingDeletes,
                 waiting, cancelRequested, minted, sessions, grants>>

----------------------------------------------------------------------------
(* Reports on a leased task.                                               *)

Started(g) ==
  /\ CheckFence(g)
  /\ tasks[g.task].state = "Assigned"
  /\ tasks' = [tasks EXCEPT ![g.task].state = "Running"]
  /\ UNCHANGED <<workers, objects, operations, pendingDeletes, runnable,
                 waiting, cancelRequested, minted, sessions, grants>>

Accepts(g) ==
  /\ CheckFence(g)
  /\ tasks[g.task].state \in {"Assigned", "Running"}
  /\ CanRelease(g.node, g.task)

Complete(g, codec, inline) ==
  /\ Accepts(g)
  /\ objects[Output(g.task)].state = "Reserved"
  /\ codec = operations[tasks[g.task].op].out
  /\ workers' = Release(g.node, g.task)
  /\ Reconcile([tasks EXCEPT ![g.task] = Ended(@, "Succeeded")],
               [objects EXCEPT ![Output(g.task)] =
                  [state |-> "Available", codec |-> codec,
                   inline |-> inline, version |-> g.attempt,
                   owner |-> g.node, location |-> g.node]],
               waiting, runnable)
  /\ UNCHANGED <<operations, pendingDeletes, cancelRequested, minted,
                 sessions, grants>>

FailRetry(g) ==
  /\ Accepts(g)
  /\ tasks[g.task].attempt < tasks[g.task].max
  /\ workers' = Release(g.node, g.task)
  /\ tasks' = [tasks EXCEPT ![g.task] = Retried(@)]
  /\ waiting' = waiting \ {g.task}
  /\ runnable' = Append(runnable, g.task)
  /\ UNCHANGED <<objects, operations, pendingDeletes, cancelRequested,
                 minted, sessions, grants>>

FailFinally(g, transient) ==
  /\ Accepts(g)
  /\ transient => tasks[g.task].attempt >= tasks[g.task].max
  /\ workers' = Release(g.node, g.task)
  /\ Reconcile([tasks EXCEPT ![g.task] = Ended(@, "Failed")],
               [objects EXCEPT ![Output(g.task)].state = "Failed"],
               waiting, runnable)
  /\ UNCHANGED <<operations, pendingDeletes, cancelRequested, minted,
                 sessions, grants>>

AcknowledgeCancel(g) ==
  /\ CheckFence(g)
  /\ tasks[g.task].state = "CancelRequested"
  /\ CanRelease(g.node, g.task)
  /\ workers' = Release(g.node, g.task)
  /\ cancelRequested' = cancelRequested \ {g.task}
  /\ Reconcile([tasks EXCEPT ![g.task] = Ended(@, "Cancelled")],
               [objects EXCEPT ![Output(g.task)].state = "Cancelled"],
               waiting, runnable)
  /\ UNCHANGED <<operations, pendingDeletes, minted, sessions, grants>>

----------------------------------------------------------------------------
(* The reaper.                                                             *)

Expired_AliveOnly ==
  {n \in NodeId : workers[n].state = "Alive" /\ workers[n].lease = 0}
Expired == {n \in NodeId : Registered(n) /\ workers[n].lease = 0}
Orphans == UNION {AssignedTo(n) : n \in Expired}

AfterExpiry_OneMore(t) ==
  IF tasks[t].state = "CancelRequested" THEN "Cancelled"
  ELSE IF tasks[t].attempt <= tasks[t].max THEN "Runnable" ELSE "Failed"
AfterExpiry_CancelForgotten(t) ==
  IF tasks[t].attempt < tasks[t].max THEN "Runnable" ELSE "Failed"

AfterExpiry(t) ==
  IF tasks[t].state = "CancelRequested" THEN "Cancelled"
  ELSE IF tasks[t].attempt < tasks[t].max THEN "Runnable" ELSE "Failed"

ExpiredTask(t) ==
  IF AfterExpiry(t) = "Runnable" THEN Retried(tasks[t])
  ELSE Ended(tasks[t], AfterExpiry(t))

\* An expired worker's objects survive only if their bytes are inline.
Orphaned(o) ==
  objects[o].state = "Available" /\ objects[o].owner \in Expired
ExpiredObject_NotLost(o) ==
  [objects[o] EXCEPT !.owner = NoNode,
     !.location = IF objects[o].inline THEN AtCoordinator ELSE NoNode]
ExpiredObject(o) ==
  IF objects[o].inline
  THEN [objects[o] EXCEPT !.owner = NoNode, !.location = AtCoordinator]
  ELSE [objects[o] EXCEPT !.owner = NoNode, !.location = NoNode,
                          !.state = "Lost"]
OutputAfterExpiry(o) ==
  LET ended == {t \in Orphans : o = Output(t) /\ AfterExpiry(t) # "Runnable"}
  IN IF Orphaned(o) THEN ExpiredObject(o)
     ELSE IF ended # {}
     THEN [objects[o] EXCEPT !.state = AfterExpiry(CHOOSE t \in ended : TRUE)]
     ELSE objects[o]

DeletesAfterExpiry_Kept(n) == pendingDeletes[n]
DeletesAfterExpiry(n) == IF n \in Expired THEN {} ELSE pendingDeletes[n]

RequestsAfterExpiry_Kept == cancelRequested
RequestsAfterExpiry == cancelRequested \ Orphans

\* All workers whose lease has run out, in one sweep.  The retried tasks are
\* queued in the order the hash map yields them.
ExpireWorkers ==
  LET retried == {t \in Orphans : AfterExpiry(t) = "Runnable"}
  IN /\ Expired # {}
     /\ workers' = [n \in NodeId |->
                      IF n \in Expired THEN NoWorker ELSE workers[n]]
     /\ pendingDeletes' = [n \in NodeId |-> DeletesAfterExpiry(n)]
     /\ cancelRequested' = RequestsAfterExpiry
     /\ \E order \in SetToSeqs(retried) :
          Reconcile([t \in TaskId |->
                       IF t \in Orphans THEN ExpiredTask(t) ELSE tasks[t]],
                    [o \in ObjectId |-> OutputAfterExpiry(o)],
                    waiting \ retried, runnable \o order)
     /\ UNCHANGED <<operations, minted, sessions, grants>>

Stamped(t) ==
  IF Terminal(t) /\ tasks[t].age = Unstamped
  THEN [tasks[t] EXCEPT !.age = 0] ELSE tasks[t]

ReapTerminalTasks ==
  LET due == {t \in TaskId : /\ Terminal(t)
                             /\ Stamped(t).age >= TtlMs
                             /\ Releasable(Output(t))}
  IN /\ Reclaim({Output(t) : t \in due}, [t \in TaskId |-> Stamped(t)])
     /\ UNCHANGED <<workers, operations, runnable, waiting, cancelRequested,
                    minted, sessions, grants>>

Down_Wraps(x) == x - 1
Down(x) == IF x > 0 THEN x - 1 ELSE 0
Older(age) == IF age = Unstamped THEN age ELSE MinOf(age + 1, TtlMs)

Tick ==
  /\ workers' = [n \in NodeId |-> IF Registered(n)
       THEN [workers[n] EXCEPT !.lease = Down(@)] ELSE workers[n]]
  /\ tasks' = [t \in TaskId |-> IF Live(t) \/ Terminal(t)
       THEN [tasks[t] EXCEPT !.wait = Down(@), !.age = Older(@)]
       ELSE tasks[t]]
  /\ UNCHANGED <<objects, operations, pendingDeletes, runnable, waiting,
                 cancelRequested, minted, sessions, grants>>

----------------------------------------------------------------------------
Init ==
  /\ workers = [n \in NodeId |-> NoWorker]
  /\ tasks = [t \in TaskId |-> NoTask]
  /\ objects = [o \in ObjectId |-> NoObject]
  /\ operations = [p \in Operation |-> NoCodec]
  /\ pendingDeletes = [n \in NodeId |-> {}]
  /\ runnable = <<>> /\ waiting = {} /\ cancelRequested = {}
  /\ minted = {} /\ sessions = <<>> /\ grants = {}

\* A coordinator that is started again knows nothing (its state is in memory
\* only), and mints ids that no one has seen.  Not a step of Next.
Restart ==
  /\ workers' = [n \in NodeId |-> NoWorker]
  /\ tasks' = [t \in TaskId |-> NoTask]
  /\ objects' = [o \in ObjectId |-> NoObject]
  /\ operations' = [p \in Operation |-> NoCodec]
  /\ pendingDeletes' = [n \in NodeId |-> {}]
  /\ runnable' = <<>> /\ waiting' = {} /\ cancelRequested' = {}
  /\ UNCHANGED <<minted, sessions, grants>>

WorkerRequest ==
  \/ \E n \in NodeId, epoch \in WorkerEpoch, offer \in Offer :
       RegisterWorker(n, epoch, offer) \/ RegisterAgain(n, epoch, offer)
  \/ \E s \in DOMAIN sessions :
       Heartbeat(s) \/ Drain(s) \/ PollAssign(s) \/ PollEmpty(s)
  \/ \E n \in NodeId : PollDelete(n)

TaskReport ==
  \E g \in grants :
    \/ Started(g) \/ AcknowledgeCancel(g) \/ FailRetry(g)
    \/ \E transient \in BOOLEAN : FailFinally(g, transient)
    \/ \E codec \in Codec, inline \in BOOLEAN : Complete(g, codec, inline)

ClientRequest ==
  \/ \E o \in PutId, codec \in Codec, inline \in BOOLEAN :
       Put(o, codec, inline)
  \/ \E t \in TaskId, job \in Job, args \in SUBSET ObjectId :
       Cardinality(args) <= MaxArgs /\ Submit(t, job, args)
  \/ \E t \in TaskId : CancelLeased(t) \/ CancelUnleased(t)
  \/ \E o \in ObjectId : ReleaseObject(o)

Reaper == ExpireWorkers \/ ReapTerminalTasks \/ Tick

Next == WorkerRequest \/ TaskReport \/ ClientRequest \/ Reaper

Spec == Init /\ [][Next]_vars

\* The reaper is a timer task of its own and the clock runs: both keep going
\* whatever the workers and clients do.
FairSpec == Spec /\ WF_vars(Tick) /\ WF_vars(ExpireWorkers)

----------------------------------------------------------------------------
(* Properties.                                                             *)

\* The tables hold records of the declared types (the structs WorkerRecord,
\* TaskRecord and ObjectRecord); absent entries hold nothing.
TypeOK ==
  /\ workers \in [NodeId -> Worker \cup {NoWorker}]
  /\ tasks \in [TaskId -> Task \cup {NoTask}]
  /\ objects \in [ObjectId -> Object \cup {NoObject}]
  /\ operations \in OpTable
  /\ pendingDeletes \in [NodeId -> SUBSET ObjectId]
  /\ runnable \in Seq(TaskId)
  /\ waiting \subseteq TaskId /\ cancelRequested \subseteq TaskId
  /\ minted \subseteq TaskId
  /\ sessions \in Seq(NodeId)
  /\ grants \subseteq Grant

\* The indexes the operations use instead of scanning the task table are
\* exact: `waiting` (reconcile_dependencies) and `cancel_requested`
\* (cancellation_for) hold the tasks in those states and no others.
IndexesExact ==
  /\ waiting = {t \in TaskId : tasks[t].state = "Waiting"}
  /\ cancelRequested = {t \in TaskId : tasks[t].state = "CancelRequested"}

\* No runnable task is lost by assign_next's re-queueing or queued twice, and
\* what else the queue holds is stale for good: it can never be assigned.
QueueExact ==
  /\ \A t \in TaskId : Runs(t) => \E i \in DOMAIN runnable : runnable[i] = t
  /\ \A i, j \in DOMAIN runnable :
       i # j /\ Runs(runnable[i]) => runnable[i] # runnable[j]
  /\ \A i \in DOMAIN runnable : Runs(runnable[i]) \/ ~Live(runnable[i])

\* A task and its output agree.  In particular the output of a live task is
\* there and Reserved, so no terminal transition finds it missing (the
\* `unwrap`s on `objects.get_mut(&output)`), and the result of a succeeded
\* task is what its last attempt produced, never a stale one.
OutputMatchesTask ==
  \A t \in TaskId :
    LET task == tasks[t]
        out == objects[Output(t)]
    IN /\ task.state \in LiveStates => out.state = "Reserved"
       /\ task.state = "Succeeded" => /\ out.state \in {"Available", "Lost"}
                                      /\ out.version = task.attempt
       /\ task.state = "Failed" => out.state = "Failed"
       /\ task.state = "Cancelled" => out.state = "Cancelled"
       /\ task.state = "Absent" => out.state = "Absent"

\* A live task's arguments are still there, whatever was released, reaped or
\* lost since it was submitted, and have the codec its operation reads.
ArgumentsHeld ==
  \A t \in TaskId : Live(t) => \A o \in tasks[t].args :
    /\ objects[o].state # "Absent"
    /\ objects[o].codec = operations[tasks[t].op].in

\* reconcile_dependencies leaves no task stranded: a waiting task waits for
\* at least one output that is still to come, and none of its arguments can
\* no longer come.
WaitersArePending ==
  \A t \in TaskId : tasks[t].state = "Waiting" =>
    /\ \E o \in tasks[t].args : objects[o].state = "Reserved"
    /\ \A o \in tasks[t].args : ~Broken(objects, o)

\* A task is leased exactly while it is in a leased state, the lease belongs
\* to the session its node has now (a restarted worker never inherits one),
\* and it is the fence that was handed out for this attempt.
LeasesAreCurrent ==
  \A t \in TaskId : tasks[t].state # "Absent" =>
    IF tasks[t].state \in LeasedStates
    THEN LET n == tasks[t].assigned.node
             s == tasks[t].assigned.session
         IN /\ n \in NodeId /\ CheckIdentity(n, s)
            /\ [task |-> t, attempt |-> tasks[t].attempt, node |-> n,
                session |-> s] \in grants
    ELSE tasks[t].assigned = Unassigned

\* An attempt is handed to one session only, and no more attempts are made
\* than the client allowed, over retries, worker deaths and restarts.
AttemptsBounded ==
  /\ \A g, h \in grants : g.task = h.task /\ g.attempt = h.attempt => g = h
  /\ \A t \in TaskId : tasks[t].state # "Absent" =>
       /\ tasks[t].attempt <= tasks[t].max
       /\ \A g \in grants : g.task = t => g.attempt <= tasks[t].attempt

\* Slots are neither leaked nor created by assignment, report, cancellation
\* and expiry in any order.
SlotsAccounted ==
  \A n \in NodeId : Registered(n) =>
    workers[n].free + Cardinality(AssignedTo(n)) = workers[n].offer.slots

\* The units of resource k that are out on node n's leases.
UnitsHeld(n, k) ==
  UNION {{t} \X (1..tasks[t].resources[k]) : t \in AssignedTo(n)}

\* The same for each resource, unit by unit; so `release` never refuses a
\* report.
ResourcesConserved ==
  \A n \in NodeId : Registered(n) => \A k \in ResourceKind :
    workers[n].available[k] + Cardinality(UnitsHeld(n, k))
      = workers[n].offer.total[k]

\* Bytes that a reader is sent to a worker for belong to a worker that is
\* registered; bytes that are nowhere else are not called available.
AvailableHasHome ==
  \A o \in ObjectId : objects[o].state = "Available" =>
    /\ objects[o].location # NoNode
    /\ objects[o].location \in NodeId =>
         objects[o].owner = objects[o].location /\ Registered(objects[o].owner)
    /\ objects[o].location = AtCoordinator =>
         objects[o].owner = NoNode /\ (objects[o].inline \/ o \in PutId)

\* A worker is told to delete only what is no longer in the object table, so
\* it never deletes bytes that readers are still sent to it for, and nothing
\* is kept for a node that is gone.
DeletesAreDead ==
  \A n \in NodeId : \A o \in pendingDeletes[n] :
    Registered(n) /\ objects[o].state = "Absent"

\* Everyone means the same by an operation: what a registered worker runs is
\* what the catalogue says, although workers come and go.
CatalogueAgrees ==
  \A n \in NodeId : Registered(n) => \A p \in Operation :
    workers[n].offer.ops[p] \in {NoCodec, operations[p]}

\* Published bytes are immutable: an available object keeps its content and
\* codec until it is lost or released (admit_object, complete, expire).
PublishedIsImmutable ==
  [][\A o \in ObjectId : objects[o].state = "Available" =>
       \/ objects'[o].state \in {"Lost", "Absent"}
       \/ /\ objects'[o].state = "Available"
          /\ objects'[o].version = objects[o].version
          /\ objects'[o].codec = objects[o].codec]_vars

\* What clients see of the tasks is the life TaskLifecycle promises.
Phase(t) ==
  IF tasks[t].state \in {"Waiting", "Runnable"} THEN "Pending"
  ELSE IF tasks[t].state \in {"Assigned", "Running"} THEN "Leased"
  ELSE IF tasks[t].state = "CancelRequested" THEN "Stopping"
  ELSE IF tasks[t].state \in TerminalStates THEN tasks[t].state
  ELSE IF t \in minted THEN "Forgotten" ELSE "Unborn"

Known(t) == tasks[t].state # "Absent"

Lifecycle == INSTANCE TaskLifecycle WITH
  phase <- [t \in TaskId |-> Phase(t)],
  attempt <- [t \in TaskId |-> IF Known(t) THEN tasks[t].attempt ELSE 0],
  inputs <- [t \in TaskId |->
    IF Known(t) THEN {u \in TaskId : Output(u) \in tasks[t].args} ELSE {}],
  result <- [t \in TaskId |->
    IF tasks[t].state = "Succeeded" THEN objects[Output(t)].version ELSE 0]

\* The coordinator implements TaskLifecycle.
ImplementsLifecycle == Lifecycle!Spec

\* A worker that stops renewing its lease does not keep its tasks: each one
\* it holds is taken from it in the end (expire_workers).
Renews(n) ==
  /\ workers'[n].state # "Absent"
  /\ workers[n].state = "Absent" \/ workers'[n].lease > workers[n].lease

Holds(n, t) == tasks[t].state # "Absent" /\ tasks[t].assigned.node = n

SilentWorkerLosesTasks ==
  \A n \in NodeId :
    <>[][~Renews(n)]_vars => \A t \in TaskId : Holds(n, t) ~> ~Holds(n, t)
=============================================================================
