-------------------------- MODULE LifecycleProofs --------------------------
(***************************************************************************)
(* Proofs about what the coordinator does with tasks, objects, slots,      *)
(* resources and its queue over their whole life, for every number of      *)
(* nodes, tasks, objects and attempts.  First comes what one step may do   *)
(* to each entry of the tables, action by action; the invariants and the   *)
(* implementation of TaskLifecycle then follow from those moves without    *)
(* looking at the actions again.  The same is then done for the books: the *)
(* slots and resources of a worker are what its leases leave of its offer, *)
(* and the queue holds every runnable task exactly once.                   *)
(***************************************************************************)
EXTENDS CoordinatorProofs, SequenceTheorems

----------------------------------------------------------------------------
(* What a step may do to one task.                                         *)

\* x and y are the same job; they are the same job at the same attempt.
SameJob(x, y) == /\ x.op = y.op /\ x.args = y.args /\ x.max = y.max
                 /\ x.resources = y.resources
SameRun(x, y) == SameJob(x, y) /\ x.attempt = y.attempt

Untouched(t) ==
  /\ tasks'[t].state = tasks[t].state
  /\ tasks[t].state # "Absent" => /\ SameRun(tasks[t], tasks'[t])
                                  /\ tasks[t].assigned = tasks'[t].assigned

Submitted(t) ==
  /\ tasks[t].state = "Absent" /\ t \notin minted /\ t \in minted'
  /\ tasks'[t].attempt = 0
  /\ operations[tasks'[t].op] # NoCodec
  /\ objects'[Output(t)].codec = operations[tasks'[t].op].out
  /\ \A o \in tasks'[t].args :
       /\ objects[o].state \in {"Available", "Reserved"}
       /\ objects[o].codec = operations[tasks'[t].op].in
       /\ objects'[o] = objects[o]
  /\ tasks'[t].state = IF \E o \in tasks'[t].args : objects[o].state = "Reserved"
                       THEN "Waiting" ELSE "Runnable"

Leased(t) ==
  /\ tasks[t].state = "Runnable" /\ tasks'[t].state = "Assigned"
  /\ tasks'[t].attempt = tasks[t].attempt + 1
  /\ SameJob(tasks[t], tasks'[t])

Advanced(t) ==
  /\ tasks[t].state \in {"Assigned", "Running"}
  /\ tasks'[t].state \in {"Running", "CancelRequested"}
  /\ SameRun(tasks[t], tasks'[t]) /\ tasks'[t].assigned = tasks[t].assigned

Requeued(t) ==
  /\ tasks[t].state \in {"Assigned", "Running"} /\ tasks'[t].state = "Runnable"
  /\ tasks[t].attempt < tasks[t].max
  /\ SameRun(tasks[t], tasks'[t])

Readied(t) ==
  /\ tasks[t].state = "Waiting" /\ tasks'[t].state = "Runnable"
  /\ \A o \in tasks[t].args : objects'[o].state = "Available"
  /\ SameRun(tasks[t], tasks'[t])

Stopped(t) ==
  /\ \/ /\ tasks[t].state \in {"Assigned", "Running"}
        /\ tasks'[t].state \in {"Succeeded", "Failed"}
     \/ /\ tasks[t].state \in {"Waiting", "Runnable", "CancelRequested"}
        /\ tasks'[t].state = "Cancelled"
     \/ /\ tasks[t].state = "Waiting" /\ tasks'[t].state = "Failed"
        /\ \E o \in tasks[t].args : Broken(objects', o)
  /\ SameRun(tasks[t], tasks'[t])

Dropped(t) ==
  /\ Terminal(t) /\ tasks'[t].state = "Absent"
  /\ ~ObjectInUse(Output(t))

TaskMoves(t) ==
  \/ Untouched(t) \/ Submitted(t) \/ Leased(t) \/ Advanced(t) \/ Requeued(t)
  \/ Readied(t) \/ Stopped(t) \/ Dropped(t)

----------------------------------------------------------------------------
(* What a step may do to one object.                                       *)

\* It stays as it is, and then its owner stays registered.
Stays(o) ==
  /\ objects'[o] = objects[o]
  /\ objects[o].state = "Available" =>
       \A n \in NodeId : objects[o].owner = n /\ Registered(n) => Registered(n)'

PutAway(o) ==
  /\ objects[o].state = "Absent" /\ o \in PutId
  /\ objects'[o].state = "Available" /\ objects'[o].owner = NoNode
  /\ objects'[o].location = AtCoordinator

Promised(o) ==
  /\ objects[o].state = "Absent" /\ objects'[o].state = "Reserved"
  /\ \E t \in TaskId \ minted : o = Output(t)

Produced(o) ==
  /\ objects[o].state = "Reserved" /\ objects'[o].state = "Available"
  /\ objects'[o].location \in NodeId
  /\ objects'[o].owner = objects'[o].location
  /\ workers'[objects'[o].owner].state # "Absent"
  /\ \E t \in TaskId : /\ o = Output(t) /\ Live(t)
                       /\ objects'[o].owner = tasks[t].assigned.node
                       /\ objects'[o].codec = operations[tasks[t].op].out

GivenUp(o) ==
  /\ objects[o].state = "Reserved"
  /\ objects'[o].state \in {"Failed", "Cancelled"}
  /\ objects'[o].codec = objects[o].codec

Bereft(o) ==
  /\ objects[o].state = "Available" /\ objects[o].owner \in NodeId
  /\ \/ objects'[o].state = "Lost"
     \/ /\ objects'[o].state = "Available" /\ objects'[o].inline
        /\ objects'[o].location = AtCoordinator
  /\ objects'[o].owner = NoNode
  /\ objects'[o].version = objects[o].version
  /\ objects'[o].codec = objects[o].codec

Deleted(o) ==
  /\ objects[o].state \notin {"Absent", "Reserved"} /\ ~ObjectInUse(o)
  /\ objects'[o] = NoObject

ObjectMoves(o) ==
  \/ Stays(o) \/ PutAway(o) \/ Promised(o) \/ Produced(o) \/ GivenUp(o)
  \/ Bereft(o) \/ Deleted(o)

----------------------------------------------------------------------------
(* What a step may do to the rest.                                         *)

WorkerMoves(n) ==
  Registered(n)' =>
    \/ Registered(n) /\ workers'[n].offer = workers[n].offer
    \/ \A p \in Operation : workers'[n].offer.ops[p] \in {NoCodec, operations'[p]}

CatalogueGrows ==
  \A p \in Operation : operations[p] # NoCodec => operations'[p] = operations[p]

GrantsGrow ==
  \/ grants' = grants
  \/ \E g \in Grant :
       /\ Leased(g.task) /\ g.attempt = tasks[g.task].attempt + 1
       /\ grants' = grants \cup {g}

DeletesMove(n) ==
  \A o \in pendingDeletes'[n] :
    \/ o \in pendingDeletes[n] /\ (Registered(n) => Registered(n)')
    \/ objects[o].owner = n /\ Registered(n)' /\ Deleted(o)

\* Only objects that nobody uses, or new ones, change.
Calm == \A o \in ObjectId : \/ objects'[o] = objects[o]
                            \/ objects[o].state = "Absent" \/ ~ObjectInUse(o)

MintedGrows == minted \subseteq minted' /\ \A t \in minted' \ minted : Submitted(t)

AllTasksMove == \A t \in TaskId : TaskMoves(t)
AllObjectsMove == \A o \in ObjectId : ObjectMoves(o)
RestMoves ==
  /\ \A n \in NodeId : WorkerMoves(n) /\ DeletesMove(n)
  /\ CatalogueGrows /\ GrantsGrow /\ MintedGrows

StepEffect ==
  /\ AllTasksMove /\ AllObjectsMove /\ RestMoves
  /\ Calm \/ WaitersArePending'

----------------------------------------------------------------------------
(* Reconciliation.                                                         *)

\* FailedWaiters is the least set that is closed under failure: it is closed,
\* and each of its members has a reason to be there.
LEMMA FailureClosed ==
  ASSUME NEW T, NEW O, NEW W
  PROVE  ClosedUnderFailure(T, O, W, FailedWaiters(T, O, W))
  <1> DEFINE F == FailedWaiters(T, O, W)
  <1> SUFFICES ASSUME NEW t \in W, NEW o \in T[t].args,
                      Broken(O, o) \/ \E u \in F : o = Output(u),
                      NEW X \in SUBSET W, ClosedUnderFailure(T, O, W, X)
               PROVE  t \in X
    BY DEF ClosedUnderFailure, FailedWaiters
  <1>1. F \subseteq X
    BY DEF FailedWaiters
  <1> QED
    BY <1>1 DEF ClosedUnderFailure

LEMMA FailureJustified ==
  ASSUME NEW T, NEW O, NEW W, NEW t \in FailedWaiters(T, O, W)
  PROVE  \E o \in T[t].args :
           Broken(O, o) \/ \E u \in FailedWaiters(T, O, W) : o = Output(u)
  <1> DEFINE F == FailedWaiters(T, O, W)
             X == F \ {t}
  <1> SUFFICES ASSUME ~\E o \in T[t].args :
                         Broken(O, o) \/ \E u \in F : o = Output(u)
               PROVE  FALSE
    OBVIOUS
  <1>1. F \subseteq W
    BY DEF FailedWaiters
  <1>2. ClosedUnderFailure(T, O, W, F)
    BY FailureClosed
  <1>3. ClosedUnderFailure(T, O, W, X)
    <2> HIDE DEF F
    <2> SUFFICES ASSUME NEW s \in W, NEW o \in T[s].args,
                        Broken(O, o) \/ \E u \in X : o = Output(u)
                 PROVE  s \in X
      BY DEF ClosedUnderFailure
    <2>1. s \in F
      BY <1>2 DEF ClosedUnderFailure
    <2> QED
      BY <2>1
  <1>4. X \in SUBSET W
    BY <1>1
  <1>5. t \in X
    BY <1>3, <1>4 DEF FailedWaiters
  <1> QED
    BY <1>5

\* What reconciliation makes of the tables T and O, with its reasons.
WaiterPends(T, O, t) ==
  /\ \E o \in T[t].args : O[o].state = "Reserved"
  /\ \A o \in T[t].args : ~Broken(O, o)
WaiterFails(T, T2, O2, t) ==
  /\ T[t].state = "Waiting" /\ T2[t].state = "Failed" /\ SameRun(T[t], T2[t])
  /\ \E o \in T[t].args : Broken(O2, o)
WaiterReady(T, T2, O2, t) ==
  /\ T[t].state = "Waiting" /\ T2[t].state = "Runnable" /\ SameRun(T[t], T2[t])
  /\ \A o \in T[t].args : O2[o].state = "Available"
OutputFails(O, O2, o) ==
  /\ O[o].state = "Reserved" /\ O2[o].state = "Failed"
  /\ O2[o].codec = O[o].codec /\ O2[o].owner = O[o].owner
Outcome(T, O, T2, O2) ==
  /\ \A t \in TaskId : \/ T2[t] = T[t]
                        \/ WaiterFails(T, T2, O2, t) \/ WaiterReady(T, T2, O2, t)
  /\ \A o \in ObjectId : O2[o] = O[o] \/ OutputFails(O, O2, o)
  /\ \A t \in TaskId : T2[t].state = "Waiting" => WaiterPends(T2, O2, t)

LEMMA ReconcileOutcome ==
  ASSUME NEW T \in Tasks, NEW O \in Objects, NEW W,
         IsWaitingSet(T, W), OutputsMatch(T, O),
         NEW T2, T2 = TasksReconciled(T, O, W),
         NEW O2, O2 = ObjectsReconciled(T, O, W)
  PROVE  Outcome(T, O, T2, O2)
  <1> DEFINE F == FailedWaiters(T, O, W)
             R == ReadyWaiters(T, O, W)
  <1>1. /\ F \subseteq W /\ R \subseteq W /\ W \subseteq TaskId
        /\ F \cap R = {}
        /\ \A t \in W \ F :
             t \in R <=> \A o \in T[t].args : O[o].state = "Available"
    BY DEF FailedWaiters, ReadyWaiters, IsWaitingSet
  <1>2. T2 = [t \in TaskId |->
                IF t \in F THEN [T[t] EXCEPT !.state = "Failed"]
                ELSE IF t \in R THEN [T[t] EXCEPT !.state = "Runnable"]
                ELSE T[t]]
    BY DEF TasksReconciled
  <1>3. O2 = [o \in ObjectId |->
                IF \E t \in F : o = Output(t)
                THEN [O[o] EXCEPT !.state = "Failed"] ELSE O[o]]
    BY DEF ObjectsReconciled
  <1>4. /\ ClosedUnderFailure(T, O, W, F)
        /\ \A t \in F : \E o \in T[t].args :
             Broken(O, o) \/ \E u \in F : o = Output(u)
    BY FailureClosed, FailureJustified
  <1> HIDE DEF F, R
  <1>5. \A t \in W : /\ T[t].state = "Waiting" /\ T[t] \in Task
                     /\ T[t].args \subseteq ObjectId
    BY DEF IsWaitingSet, Tasks, NoTask, Task
  <1>6. \A t \in W : /\ O[Output(t)].state = "Reserved"
                     /\ O[Output(t)] \in Object /\ Output(t) \in ObjectId
    BY <1>1, <1>5, OutputInjective DEF OutputsMatch, Objects, NoObject,
       LiveStates
  <1>7. \A o \in ObjectId :
          \/ O2[o] = O[o] /\ \A t \in F : o # Output(t)
          \/ OutputFails(O, O2, o) /\ \E t \in F : o = Output(t)
    BY <1>1, <1>3, <1>6 DEF Object, OutputFails
  <1>8. \A t \in TaskId \ (F \cup R) : T2[t] = T[t]
    BY <1>2
  <1>9. \A t \in F : WaiterFails(T, T2, O2, t)
    <2> SUFFICES ASSUME NEW t \in F PROVE WaiterFails(T, T2, O2, t)
      OBVIOUS
    <2>1. T2[t] = [T[t] EXCEPT !.state = "Failed"] /\ T[t] \in Task
      BY <1>1, <1>2, <1>5
    <2>2. PICK o \in T[t].args : Broken(O, o) \/ \E u \in F : o = Output(u)
      BY <1>4
    <2>3. o \in ObjectId
      BY <1>1, <1>5
    <2>4. Broken(O2, o)
      BY <1>7, <2>2, <2>3 DEF Broken, OutputFails
    <2> QED
      BY <1>1, <1>5, <2>1, <2>4 DEF WaiterFails, SameRun, SameJob, Task
  <1>10. \A t \in W \ F : \A o \in T[t].args :
           /\ o \in ObjectId /\ ~Broken(O, o) /\ O2[o] = O[o]
    BY <1>4, <1>5, <1>7 DEF ClosedUnderFailure
  <1>11. \A t \in R : WaiterReady(T, T2, O2, t)
    <2> SUFFICES ASSUME NEW t \in R PROVE WaiterReady(T, T2, O2, t)
      OBVIOUS
    <2>1. T2[t] = [T[t] EXCEPT !.state = "Runnable"] /\ T[t] \in Task
      BY <1>1, <1>2, <1>5
    <2>2. \A o \in T[t].args : O2[o].state = "Available"
      BY <1>1, <1>10
    <2> QED
      BY <1>1, <1>5, <2>1, <2>2 DEF WaiterReady, SameRun, SameJob, Task
  <1>12. \A t \in TaskId : T2[t].state = "Waiting" => WaiterPends(T2, O2, t)
    <2> SUFFICES ASSUME NEW t \in TaskId, T2[t].state = "Waiting"
                 PROVE  WaiterPends(T2, O2, t)
      OBVIOUS
    <2>1. t \notin F /\ t \notin R
      BY <1>9, <1>11 DEF WaiterFails, WaiterReady
    <2>2. T2[t] = T[t] /\ t \in W
      BY <1>8, <2>1 DEF IsWaitingSet
    <2>3. PICK o \in T[t].args : O[o].state # "Available"
      BY <1>1, <2>1, <2>2
    <2>4. O[o].state = "Reserved"
      BY <1>10, <2>1, <2>2, <2>3 DEF Broken
    <2> QED
      BY <1>10, <2>1, <2>2, <2>3, <2>4 DEF WaiterPends, Broken
  <1> QED
    BY <1>7, <1>8, <1>9, <1>11, <1>12 DEF Outcome

----------------------------------------------------------------------------
(* The moves of each action.                                               *)

\* No worker comes or goes, and none changes what it offers.
SessionsStay ==
  \A n \in NodeId : /\ Registered(n) <=> workers'[n].state # "Absent"
                    /\ Registered(n) => workers'[n].offer = workers[n].offer

LEMMA SameWorkers ==
  ASSUME UNCHANGED workers
  PROVE  SessionsStay
  BY DEF SessionsStay, Registered

LEMMA OneWorker ==
  ASSUME CoreInv, NEW n \in NodeId, Registered(n), NEW w,
         workers' = [workers EXCEPT ![n] = w],
         w.state # "Absent", w.offer = workers[n].offer
  PROVE  SessionsStay
  <1>1. workers'[n] = w /\ \A m \in NodeId \ {n} : workers'[m] = workers[m]
    BY DEF CoreInv, TypeOK
  <1> QED
    BY <1>1 DEF SessionsStay, Registered

LEMMA ReleasedWorker ==
  ASSUME CoreInv, NEW g \in grants, CheckFence(g),
         workers' = Release(g.node, g.task)
  PROVE  SessionsStay
  <1> DEFINE n == g.node
             w == [workers[n] EXCEPT !.free = @ + 1,
                     !.available = Add(@, tasks[g.task].resources)]
  <1>1. n \in NodeId /\ Registered(n)
    BY DEF CheckFence, CheckIdentity, CoreInv, TypeOK, Grant
  <1>2. workers[n] \in Worker
    BY <1>1 DEF CoreInv, TypeOK, Registered, NoWorker
  <1>3. workers' = [workers EXCEPT ![n] = w]
    BY DEF Release
  <1>4. w.state # "Absent" /\ w.offer = workers[n].offer
    BY <1>2 DEF Worker
  <1> HIDE DEF w, n
  <1> QED
    BY <1>1, <1>3, <1>4, OneWorker

LEMMA RestSame ==
  ASSUME SessionsStay, UNCHANGED <<operations, pendingDeletes, minted, grants>>
  PROVE  RestMoves
  BY DEF SessionsStay, RestMoves, WorkerMoves, DeletesMove, CatalogueGrows,
     GrantsGrow, MintedGrows, Registered

\* Objects that stay as they are with their owners.
LEMMA SameObjects ==
  ASSUME SessionsStay, objects' = objects
  PROVE  AllObjectsMove /\ Calm
  BY DEF SessionsStay, AllObjectsMove, ObjectMoves, Stays, Calm, Registered

LEMMA SameTasks ==
  ASSUME tasks' = tasks
  PROVE  AllTasksMove
  BY DEF AllTasksMove, TaskMoves, Untouched, SameRun, SameJob

\* A step that moves one task and leaves the objects alone.
LEMMA OneTaskMoves ==
  ASSUME CoreInv, NEW t \in TaskId, NEW x, tasks' = [tasks EXCEPT ![t] = x],
         TaskMoves(t)
  PROVE  AllTasksMove
  <1>1. \A u \in TaskId \ {t} : tasks'[u] = tasks[u]
    BY DEF CoreInv, TypeOK
  <1> QED
    BY <1>1 DEF AllTasksMove, TaskMoves, Untouched, SameRun, SameJob

\* The end of task t in state s, with the output it leaves.
EndsWith(t, s, out) ==
  /\ \/ /\ s = "Succeeded" /\ tasks[t].state \in {"Assigned", "Running"}
        /\ out.state = "Available" /\ out.version = tasks[t].attempt
        /\ out.location \in NodeId /\ out.owner = out.location
        /\ out.owner = tasks[t].assigned.node
        /\ workers'[out.owner].state # "Absent"
        /\ out.codec = operations[tasks[t].op].out
     \/ /\ s = "Failed" /\ tasks[t].state \in {"Assigned", "Running"}
        /\ out.state = s /\ out.codec = objects[Output(t)].codec
     \/ /\ s = "Cancelled"
        /\ tasks[t].state \in {"Waiting", "Runnable", "CancelRequested"}
        /\ out.state = s /\ out.codec = objects[Output(t)].codec

LEMMA EndMoves ==
  ASSUME CoreInv, NEW t \in TaskId, NEW s, NEW out \in Object,
         EndsWith(t, s, out), SessionsStay,
         Reconcile(EndedTasks(t, s), WithOutput(t, out),
                   waiting \ {t}, runnable)
  PROVE  AllTasksMove /\ AllObjectsMove /\ WaitersArePending'
  <1> DEFINE T == EndedTasks(t, s)
             O == WithOutput(t, out)
  <1>1. Live(t) /\ s \in TerminalStates /\ tasks[t] \in Task
    BY DEF EndsWith, Live, LiveStates, TerminalStates, CoreInv, TypeOK, NoTask
  <1>2. objects[Output(t)].state = "Reserved" /\ Output(t) \in ObjectId
    BY <1>1, OutputInjective DEF CoreInv, OutputMatchesTask, Live
  <1>3. TablesAtEnd(t, s, out, T, O)
    BY <1>1, EndTables DEF EndsWith
  <1>4. /\ tasks' = TasksReconciled(T, O, waiting \ {t})
        /\ objects' = ObjectsReconciled(T, O, waiting \ {t})
    BY DEF Reconcile
  <1> HIDE DEF T, O
  <1>5. Outcome(T, O, tasks', objects')
    BY <1>3, <1>4, ReconcileOutcome DEF TablesAtEnd
  <1>6. AllTasksMove
    <2> SUFFICES ASSUME NEW u \in TaskId PROVE TaskMoves(u)
      BY DEF AllTasksMove
    <2>1. CASE u = t
      <3>1. tasks'[t] = Ended(tasks[t], s)
        BY <1>1, <1>3, <1>5 DEF TablesAtEnd, Outcome, WaiterFails,
           WaiterReady, TerminalStates
      <3>2. tasks'[t].state = s /\ SameRun(tasks[t], tasks'[t])
        BY <1>1, <3>1 DEF Ended, Task, SameRun, SameJob
      <3>3. Stopped(t)
        BY <3>2 DEF Stopped, EndsWith
      <3> QED
        BY <2>1, <3>3 DEF TaskMoves
    <2>2. CASE u # t
      <3>1. T[u] = tasks[u]
        BY <1>3, <2>2 DEF TablesAtEnd
      <3>2. CASE tasks'[u] = tasks[u]
        BY <3>2 DEF TaskMoves, Untouched, SameRun, SameJob
      <3>3. CASE WaiterFails(T, tasks', objects', u)
        BY <3>1, <3>3 DEF TaskMoves, Stopped, WaiterFails
      <3>4. CASE WaiterReady(T, tasks', objects', u)
        BY <3>1, <3>4 DEF TaskMoves, Readied, WaiterReady
      <3> QED
        BY <1>5, <3>1, <3>2, <3>3, <3>4 DEF Outcome
    <2> QED
      BY <2>1, <2>2
  <1>7. AllObjectsMove
    <2> SUFFICES ASSUME NEW o \in ObjectId PROVE ObjectMoves(o)
      BY DEF AllObjectsMove
    <2>1. CASE o = Output(t)
      <3>1. objects'[o] = out
        BY <1>3, <1>5, <2>1 DEF TablesAtEnd, Outcome, OutputFails, EndsWith
      <3>2. Produced(o) \/ GivenUp(o)
        BY <1>1, <1>2, <2>1, <3>1 DEF Produced, GivenUp, EndsWith
      <3> QED
        BY <3>2 DEF ObjectMoves
    <2>2. CASE o # Output(t)
      <3>1. O[o] = objects[o]
        BY <1>3, <2>2 DEF TablesAtEnd
      <3>2. CASE objects'[o] = objects[o]
        BY <3>2 DEF ObjectMoves, Stays, SessionsStay, Registered
      <3>3. CASE OutputFails(O, objects', o)
        BY <3>1, <3>3 DEF ObjectMoves, GivenUp, OutputFails
      <3> QED
        BY <1>5, <3>1, <3>2, <3>3 DEF Outcome
    <2> QED
      BY <2>1, <2>2
  <1>8. WaitersArePending'
    BY <1>5 DEF Outcome, WaiterPends, WaitersArePending, Broken
  <1> QED
    BY <1>6, <1>7, <1>8

\* The end of a leased task on its worker's report.
LEMMA ReportedEndMoves ==
  ASSUME CoreInv, NEW g \in grants, CheckFence(g),
         tasks[g.task].state \in LeasedStates, NEW s, NEW out \in Object,
         SessionsStay, EndsWith(g.task, s, out),
         Reconcile(EndedTasks(g.task, s), WithOutput(g.task, out),
                   waiting, runnable),
         UNCHANGED <<operations, pendingDeletes, minted, grants>>
  PROVE  StepEffect
  <1> DEFINE t == g.task
  <1>1. t \in TaskId
    BY DEF CoreInv, TypeOK, Grant
  <1>2. waiting = waiting \ {t}
    BY <1>1 DEF CoreInv, IndexesExact, LeasedStates
  <1>3. Reconcile(EndedTasks(t, s), WithOutput(t, out), waiting \ {t}, runnable)
    BY <1>2
  <1>4. EndsWith(t, s, out)
    OBVIOUS
  <1> HIDE DEF t
  <1>5. AllTasksMove /\ AllObjectsMove /\ WaitersArePending'
    BY <1>1, <1>3, <1>4, EndMoves
  <1> QED
    BY <1>5, RestSame DEF StepEffect

LEMMA CompleteMoves ==
  ASSUME CoreInv, NEW g \in grants, NEW codec \in Codec,
         NEW inline \in BOOLEAN, Complete(g, codec, inline)
  PROVE  StepEffect
  <1> USE DEF Complete, Accepts
  <1> DEFINE out == [state |-> "Available", codec |-> codec,
                     inline |-> inline, version |-> g.attempt,
                     owner |-> g.node, location |-> g.node]
  <1>1. /\ g.node \in NodeId /\ g.attempt \in Nat
        /\ tasks[g.task].attempt = g.attempt
        /\ tasks[g.task].assigned.node = g.node /\ Registered(g.node)
    BY DEF CoreInv, TypeOK, Grant, CheckFence, CheckIdentity
  <1>2. out \in Object
    BY <1>1 DEF Object, Nodes, Places
  <1>3. SessionsStay
    BY ReleasedWorker
  <1>4. EndsWith(g.task, "Succeeded", out)
    BY <1>1, <1>3 DEF EndsWith, SessionsStay
  <1>5. Reconcile(EndedTasks(g.task, "Succeeded"), WithOutput(g.task, out),
                  waiting, runnable)
    BY DEF EndedTasks, WithOutput
  <1>6. tasks[g.task].state \in LeasedStates
    BY DEF LeasedStates
  <1> HIDE DEF out
  <1> QED
    BY <1>2, <1>3, <1>4, <1>5, <1>6, ReportedEndMoves

LEMMA FailFinallyMoves ==
  ASSUME CoreInv, NEW g \in grants, NEW transient \in BOOLEAN,
         FailFinally(g, transient)
  PROVE  StepEffect
  <1> USE DEF FailFinally, Accepts
  <1> DEFINE out == [objects[Output(g.task)] EXCEPT !.state = "Failed"]
  <1>1. /\ g.task \in TaskId /\ tasks[g.task].state \in LeasedStates
        /\ tasks[g.task].state \in LiveStates
    BY DEF CoreInv, TypeOK, Grant, LeasedStates, LiveStates
  <1>2. out \in Object /\ out.state = "Failed"
        /\ [objects EXCEPT ![Output(g.task)].state = "Failed"]
             = [objects EXCEPT ![Output(g.task)] = out]
    BY <1>1, OutputMade
  <1>3. SessionsStay
    BY ReleasedWorker
  <1>4. out.codec = objects[Output(g.task)].codec
    OBVIOUS
  <1>5. Reconcile(EndedTasks(g.task, "Failed"), WithOutput(g.task, out),
                  waiting, runnable)
    BY <1>2 DEF EndedTasks, WithOutput
  <1> HIDE DEF out
  <1>6. EndsWith(g.task, "Failed", out)
    BY <1>2, <1>4 DEF EndsWith
  <1> QED
    BY <1>1, <1>2, <1>3, <1>5, <1>6, ReportedEndMoves

LEMMA AcknowledgeCancelMoves ==
  ASSUME CoreInv, NEW g \in grants, AcknowledgeCancel(g)
  PROVE  StepEffect
  <1> USE DEF AcknowledgeCancel
  <1> DEFINE out == [objects[Output(g.task)] EXCEPT !.state = "Cancelled"]
  <1>1. /\ g.task \in TaskId /\ tasks[g.task].state \in LeasedStates
        /\ tasks[g.task].state \in LiveStates
    BY DEF CoreInv, TypeOK, Grant, LeasedStates, LiveStates
  <1>2. out \in Object /\ out.state = "Cancelled"
        /\ [objects EXCEPT ![Output(g.task)].state = "Cancelled"]
             = [objects EXCEPT ![Output(g.task)] = out]
    BY <1>1, OutputMade
  <1>3. SessionsStay
    BY ReleasedWorker
  <1>4. out.codec = objects[Output(g.task)].codec
    OBVIOUS
  <1>5. Reconcile(EndedTasks(g.task, "Cancelled"), WithOutput(g.task, out),
                  waiting, runnable)
    BY <1>2 DEF EndedTasks, WithOutput
  <1> HIDE DEF out
  <1>6. EndsWith(g.task, "Cancelled", out)
    BY <1>2, <1>4 DEF EndsWith
  <1> QED
    BY <1>1, <1>2, <1>3, <1>5, <1>6, ReportedEndMoves

LEMMA CancelUnleasedMoves ==
  ASSUME CoreInv, NEW t \in TaskId, CancelUnleased(t)
  PROVE  StepEffect
  <1> USE DEF CancelUnleased
  <1> DEFINE out == [objects[Output(t)] EXCEPT !.state = "Cancelled"]
  <1>1. tasks[t].state \in LiveStates
    BY DEF Live
  <1>2. out \in Object /\ out.state = "Cancelled"
        /\ [objects EXCEPT ![Output(t)].state = "Cancelled"]
             = [objects EXCEPT ![Output(t)] = out]
    BY <1>1, OutputMade
  <1>3. SessionsStay
    BY SameWorkers
  <1>4. out.codec = objects[Output(t)].codec
    OBVIOUS
  <1>5. Reconcile(EndedTasks(t, "Cancelled"), WithOutput(t, out),
                  waiting \ {t}, runnable)
    BY <1>2 DEF EndedTasks, WithOutput
  <1>6. tasks[t].state \in {"Waiting", "Runnable"}
    <2>1. CASE tasks[t].state \in LeasedStates
      <3>1. tasks[t].state # "Absent" /\ tasks[t].assigned.node \in NodeId
        BY <1>1, <2>1 DEF CoreInv, LeasesAreCurrent, LiveStates
      <3> QED
        BY <3>1, ConstantsDiffer DEF Unassigned
    <2> QED
      BY <1>1, <2>1 DEF LiveStates, LeasedStates
  <1> HIDE DEF out
  <1>7. EndsWith(t, "Cancelled", out)
    BY <1>2, <1>4, <1>6 DEF EndsWith
  <1>8. AllTasksMove /\ AllObjectsMove /\ WaitersArePending'
    BY <1>2, <1>3, <1>5, <1>7, EndMoves
  <1> QED
    BY <1>3, <1>8, RestSame DEF StepEffect

LEMMA CancelLeasedMoves ==
  ASSUME CoreInv, NEW t \in TaskId, CancelLeased(t)
  PROVE  StepEffect
  <1> USE DEF CancelLeased
  <1> DEFINE x == [tasks[t] EXCEPT !.state = "CancelRequested"]
  <1>1. tasks[t] \in Task /\ tasks[t].state \in {"Assigned", "Running"}
    <2>1. tasks[t] \in Task /\ tasks[t].state # "Absent"
      BY DEF CoreInv, TypeOK, Live, LiveStates, NoTask
    <2>2. tasks[t].state \in LeasedStates
      BY <2>1 DEF CoreInv, LeasesAreCurrent
    <2> QED
      BY <2>1, <2>2 DEF LeasedStates
  <1>2. tasks' = [tasks EXCEPT ![t] = x] /\ tasks'[t] = x
    BY DEF CoreInv, TypeOK
  <1>3. Advanced(t)
    BY <1>1, <1>2 DEF Advanced, SameRun, SameJob, Task
  <1>4. SessionsStay
    BY SameWorkers
  <1> HIDE DEF x
  <1>5. AllTasksMove
    BY <1>2, <1>3, OneTaskMoves DEF TaskMoves
  <1> QED
    BY <1>4, <1>5, RestSame, SameObjects DEF StepEffect

LEMMA StartedMoves ==
  ASSUME CoreInv, NEW g \in grants, Started(g)
  PROVE  StepEffect
  <1> USE DEF Started
  <1> DEFINE t == g.task
             x == [tasks[t] EXCEPT !.state = "Running"]
  <1>1. t \in TaskId /\ tasks[t] \in Task
    BY DEF CoreInv, TypeOK, Grant, NoTask
  <1>2. tasks' = [tasks EXCEPT ![t] = x] /\ tasks'[t] = x
    BY <1>1 DEF CoreInv, TypeOK
  <1>3. Advanced(t)
    BY <1>1, <1>2 DEF Advanced, SameRun, SameJob, Task
  <1>4. SessionsStay
    BY SameWorkers
  <1> HIDE DEF x, t
  <1>5. AllTasksMove
    BY <1>1, <1>2, <1>3, OneTaskMoves DEF TaskMoves
  <1> QED
    BY <1>4, <1>5, RestSame, SameObjects DEF StepEffect

LEMMA FailRetryMoves ==
  ASSUME CoreInv, NEW g \in grants, FailRetry(g)
  PROVE  StepEffect
  <1> USE DEF FailRetry, Accepts
  <1> DEFINE t == g.task
             x == Retried(tasks[t])
  <1>1. t \in TaskId /\ tasks[t] \in Task
    BY DEF CoreInv, TypeOK, Grant, NoTask
  <1>2. tasks' = [tasks EXCEPT ![t] = x] /\ tasks'[t] = x
    BY <1>1 DEF CoreInv, TypeOK
  <1>3. Requeued(t)
    BY <1>1, <1>2 DEF Requeued, SameRun, SameJob, Task, Retried
  <1>4. SessionsStay
    BY ReleasedWorker
  <1> HIDE DEF x, t
  <1>5. AllTasksMove
    BY <1>1, <1>2, <1>3, OneTaskMoves DEF TaskMoves
  <1> QED
    BY <1>4, <1>5, RestSame, SameObjects DEF StepEffect

LEMMA PollAssignMoves ==
  ASSUME CoreInv, NEW s \in DOMAIN sessions, PollAssign(s)
  PROVE  StepEffect
  <1> DEFINE n == sessions[s]
  <1>1. PICK end \in 0..Len(runnable), i \in DOMAIN runnable :
          Picks(n, end, i) /\ Assign(n, runnable[i])
    BY DEF PollAssign
  <1> DEFINE t == runnable[i]
             ses == workers[n].session
             x == [tasks[t] EXCEPT !.state = "Assigned", !.attempt = @ + 1,
                     !.assigned = [node |-> n, session |-> ses]]
             w == [workers[n] EXCEPT !.free = @ - 1,
                     !.available = Subtract(@, tasks[t].resources)]
             g == [task |-> t, attempt |-> tasks[t].attempt + 1,
                   node |-> n, session |-> ses]
  <1>2. n \in NodeId /\ workers[n] \in Worker /\ Registered(n)
    BY DEF PollAssign, CanTake, CheckIdentity, Registered, CoreInv, TypeOK,
       NoWorker
  <1>3. t \in TaskId /\ tasks[t] \in Task /\ tasks[t].state = "Runnable"
    BY <1>1 DEF CoreInv, TypeOK, Picks, Servable, Serves, Runs, NoTask
  <1>4. UNCHANGED <<objects, operations, pendingDeletes, minted>>
    BY DEF PollAssign
  <1>5. /\ tasks' = [tasks EXCEPT ![t] = x] /\ tasks'[t] = x
        /\ workers' = [workers EXCEPT ![n] = w]
        /\ grants' = grants \cup {g}
    BY <1>1, <1>3 DEF Assign, CoreInv, TypeOK
  <1>6. /\ x.state = "Assigned" /\ x.attempt = tasks[t].attempt + 1
        /\ SameJob(tasks[t], x)
    BY <1>3 DEF Task, SameJob
  <1>7. w.state # "Absent" /\ w.offer = workers[n].offer
    BY <1>2 DEF Worker
  <1>8. g \in Grant /\ g.task = t /\ g.attempt = tasks[t].attempt + 1
    BY <1>2, <1>3 DEF Grant, Worker, Task
  <1> HIDE DEF x, w, g, t, n
  <1>9. Leased(t)
    BY <1>3, <1>5, <1>6 DEF Leased
  <1>10. AllTasksMove
    BY <1>3, <1>5, <1>9, OneTaskMoves DEF TaskMoves
  <1>11. SessionsStay
    BY <1>2, <1>5, <1>7, OneWorker
  <1>12. GrantsGrow
    BY <1>5, <1>8, <1>9 DEF GrantsGrow
  <1>13. RestMoves
    BY <1>4, <1>11, <1>12 DEF SessionsStay, RestMoves, WorkerMoves,
       DeletesMove, CatalogueGrows, MintedGrows, Registered
  <1> QED
    BY <1>4, <1>10, <1>11, <1>13, SameObjects DEF StepEffect

\* Steps that touch neither tasks nor objects.
LEMMA QuietMoves ==
  ASSUME SessionsStay, UNCHANGED <<tasks, objects>>, RestMoves
  PROVE  StepEffect
  BY SameObjects, SameTasks DEF StepEffect

LEMMA RegisterMoves ==
  ASSUME CoreInv, NEW n \in NodeId, NEW epoch \in WorkerEpoch,
         NEW offer \in Offer,
         RegisterWorker(n, epoch, offer) \/ RegisterAgain(n, epoch, offer)
  PROVE  StepEffect
  <1>1. CASE RegisterWorker(n, epoch, offer)
    <2> USE DEF RegisterWorker
    <2>1. /\ workers'[n].state = "Alive" /\ workers'[n].offer = offer
          /\ \A m \in NodeId \ {n} : workers'[m] = workers[m]
          /\ ~Registered(n)
      BY <1>1 DEF CoreInv, TypeOK, MayRegister
    <2>2. \A p \in Operation :
            operations'[p] = IF offer.ops[p] = NoCodec THEN operations[p]
                             ELSE offer.ops[p]
      BY <1>1
    <2>3. CatalogueGrows
      BY <1>1, <2>2 DEF CatalogueGrows, NoConflict
    <2>4. \A m \in NodeId : WorkerMoves(m)
      BY <2>1, <2>2 DEF WorkerMoves, Registered
    <2>5. \A m \in NodeId : Registered(m) => workers'[m].state # "Absent"
      BY <2>1 DEF Registered
    <2>6. UNCHANGED <<tasks, objects, pendingDeletes, minted, grants>>
      BY <1>1
    <2>7. RestMoves
      BY <2>3, <2>4, <2>5, <2>6 DEF RestMoves, DeletesMove, GrantsGrow,
         MintedGrows, Registered
    <2>8. AllObjectsMove /\ Calm
      BY <2>5, <2>6 DEF AllObjectsMove, ObjectMoves, Stays, Calm, Registered
    <2> QED
      BY <2>6, <2>7, <2>8, SameTasks DEF StepEffect
  <1>2. CASE RegisterAgain(n, epoch, offer)
    <2> USE DEF RegisterAgain
    <2> DEFINE w == [workers[n] EXCEPT !.lease = LeaseMs]
    <2>1. workers[n] \in Worker
      BY <1>2 DEF CoreInv, TypeOK, Registered, NoWorker
    <2>2. workers' = [workers EXCEPT ![n] = w]
      BY <1>2
    <2>3. w.state # "Absent" /\ w.offer = workers[n].offer
      BY <2>1 DEF Worker
    <2> HIDE DEF w
    <2>4. SessionsStay
      BY <1>2, <2>2, <2>3, OneWorker
    <2> QED
      BY <1>2, <2>4, RestSame, QuietMoves
  <1> QED
    BY <1>1, <1>2

LEMMA SessionMoves ==
  ASSUME CoreInv, NEW s \in DOMAIN sessions,
         Heartbeat(s) \/ Drain(s) \/ PollEmpty(s)
  PROVE  StepEffect
  <1> DEFINE n == sessions[s]
  <1>1. n \in NodeId /\ workers[n] \in Worker /\ Registered(n)
    BY DEF CoreInv, TypeOK, Heartbeat, Drain, PollEmpty, CanTake,
       CheckIdentity, Registered, NoWorker
  <1>2. \/ workers' = [workers EXCEPT ![n] = [workers[n] EXCEPT !.lease = LeaseMs]]
        \/ workers' = [workers EXCEPT ![n] = [workers[n] EXCEPT !.state = "Draining"]]
        \/ workers' = workers
    BY DEF Heartbeat, Drain, PollEmpty
  <1> HIDE DEF n
  <1>3. SessionsStay
    <2> DEFINE v == [workers[n] EXCEPT !.lease = LeaseMs]
               w == [workers[n] EXCEPT !.state = "Draining"]
    <2>1. /\ v.state # "Absent" /\ v.offer = workers[n].offer
          /\ w.state # "Absent" /\ w.offer = workers[n].offer
      BY <1>1 DEF Worker
    <2>2. \/ workers' = [workers EXCEPT ![n] = v]
          \/ workers' = [workers EXCEPT ![n] = w] \/ workers' = workers
      BY <1>2
    <2> HIDE DEF v, w
    <2> QED
      BY <1>1, <2>1, <2>2, OneWorker, SameWorkers
  <1>4. UNCHANGED <<tasks, objects, operations, pendingDeletes, minted, grants>>
    BY DEF Heartbeat, Drain, PollEmpty
  <1> QED
    BY <1>3, <1>4, RestSame, QuietMoves

LEMMA PollDeleteMoves ==
  ASSUME CoreInv, NEW n \in NodeId, PollDelete(n)
  PROVE  StepEffect
  <1>1. UNCHANGED <<workers, tasks, objects, operations, minted, grants>>
    BY DEF PollDelete
  <1>2. \A m \in NodeId : pendingDeletes'[m] \subseteq pendingDeletes[m]
    BY DEF PollDelete, CoreInv, TypeOK
  <1>3. SessionsStay
    BY <1>1, SameWorkers
  <1>4. RestMoves
    BY <1>1, <1>2 DEF RestMoves, WorkerMoves, DeletesMove, CatalogueGrows,
       GrantsGrow, MintedGrows, Registered
  <1> QED
    BY <1>1, <1>3, <1>4, QuietMoves

LEMMA PutMoves ==
  ASSUME CoreInv, NEW o \in PutId, NEW codec \in Codec, NEW inline \in BOOLEAN,
         Put(o, codec, inline)
  PROVE  StepEffect
  <1> USE DEF Put, MayPut
  <1>1. o \in ObjectId
    BY DEF ObjectId
  <1>2. PutAway(o) /\ \A p \in ObjectId \ {o} : objects'[p] = objects[p]
    BY <1>1 DEF PutAway, CoreInv, TypeOK
  <1>3. SessionsStay
    BY SameWorkers
  <1>4. AllObjectsMove
    BY <1>2, <1>3 DEF AllObjectsMove, ObjectMoves, Stays, SessionsStay,
       Registered
  <1>5. Calm
    BY <1>2 DEF Calm
  <1> QED
    BY <1>3, <1>4, <1>5, SameTasks, RestSame DEF StepEffect

LEMMA SubmitMoves ==
  ASSUME CoreInv, NEW t \in TaskId, NEW job \in Job,
         NEW args \in SUBSET ObjectId, Submit(t, job, args)
  PROVE  StepEffect
  <1> USE DEF Submit
  <1>1. tasks[t].state = "Absent" /\ objects[Output(t)].state = "Absent"
    BY DEF CoreInv, KnownAreMinted, OutputMatchesTask
  <1>2. /\ tasks'[t].op = job.op /\ tasks'[t].args = args
        /\ tasks'[t].attempt = 0
        /\ tasks'[t].state = IF \E o \in args : objects[o].state = "Reserved"
                             THEN "Waiting" ELSE "Runnable"
        /\ \A u \in TaskId \ {t} : tasks'[u] = tasks[u]
    BY DEF CoreInv, TypeOK
  <1>3. /\ objects'[Output(t)].state = "Reserved"
        /\ objects'[Output(t)].codec = operations[job.op].out
        /\ \A o \in ObjectId \ {Output(t)} : objects'[o] = objects[o]
    BY OutputInjective DEF CoreInv, TypeOK
  <1>4. /\ t \notin minted /\ minted' = minted \cup {t}
        /\ operations[job.op] # NoCodec
        /\ \A o \in args : /\ objects[o].state \in {"Available", "Reserved"}
                           /\ objects[o].codec = operations[job.op].in
        /\ UNCHANGED <<workers, operations, pendingDeletes, grants>>
    BY DEF Usable
  <1> HIDE DEF Submit
  <1>5. Submitted(t)
    <2>1. \A o \in args : objects'[o] = objects[o]
      BY <1>1, <1>3, <1>4
    <2> QED
      BY <1>1, <1>2, <1>3, <1>4, <2>1 DEF Submitted
  <1>6. AllTasksMove
    BY <1>2, <1>5 DEF AllTasksMove, TaskMoves, Untouched, SameRun, SameJob
  <1>7. AllObjectsMove
    BY <1>1, <1>3, <1>4 DEF AllObjectsMove, ObjectMoves, Promised, Stays,
       Registered
  <1>8. Calm
    BY <1>1, <1>3 DEF Calm
  <1>9. RestMoves
    BY <1>4, <1>5 DEF RestMoves, WorkerMoves, DeletesMove, CatalogueGrows,
       GrantsGrow, MintedGrows, Registered
  <1> QED
    BY <1>6, <1>7, <1>8, <1>9 DEF StepEffect

\* Reclaiming objects that may be released, with their producers.
LEMMA ReclaimMoves ==
  ASSUME CoreInv, NEW S, NEW T,
         \A o \in S : o \in ObjectId /\ Releasable(o),
         \A t \in TaskId : /\ T[t].state = tasks[t].state
                           /\ T[t].state # "Absent" =>
                                /\ SameRun(tasks[t], T[t])
                                /\ tasks[t].assigned = T[t].assigned,
         Reclaim(S, T), UNCHANGED <<workers, operations, minted, grants>>
  PROVE  StepEffect
  <1>1. \A o \in ObjectId :
          IF o \in S THEN Deleted(o) ELSE objects'[o] = objects[o]
    BY DEF Reclaim, Deleted, Releasable
  <1>2. AllTasksMove
    <2> SUFFICES ASSUME NEW t \in TaskId PROVE TaskMoves(t)
      BY DEF AllTasksMove
    <2>1. CASE Output(t) \in S
      <3>1. tasks'[t].state = "Absent"
        BY <2>1 DEF Reclaim, NoTask
      <3>2. ~ObjectInUse(Output(t))
            /\ objects[Output(t)].state \notin {"Absent", "Reserved"}
        BY <2>1 DEF Releasable
      <3>3. tasks[t].state \notin LiveStates /\ tasks[t].state # "Absent"
        BY <3>2 DEF CoreInv, OutputMatchesTask
      <3>4. Terminal(t)
        BY <3>3 DEF Terminal, CoreInv, TypeOK, Task, NoTask
      <3> QED
        BY <3>1, <3>2, <3>4 DEF TaskMoves, Dropped
    <2>2. CASE Output(t) \notin S
      <3>1. tasks'[t] = T[t]
        BY <2>2 DEF Reclaim
      <3> QED
        BY <3>1 DEF TaskMoves, Untouched
    <2> QED
      BY <2>1, <2>2
  <1>3. AllObjectsMove /\ Calm
    BY <1>1 DEF AllObjectsMove, ObjectMoves, Stays, Calm, Deleted, Registered
  <1>4. \A n \in NodeId : DeletesMove(n)
    <2> SUFFICES ASSUME NEW n \in NodeId, NEW o \in pendingDeletes'[n]
                 PROVE  DeletesMove(n)!(o)
      BY DEF DeletesMove
    <2>1. \/ o \in pendingDeletes[n]
          \/ Registered(n) /\ o \in S /\ objects[o].owner = n
      BY DEF Reclaim
    <2> QED
      BY <1>1, <2>1 DEF Registered
  <1>5. RestMoves
    BY <1>4 DEF RestMoves, WorkerMoves, CatalogueGrows, GrantsGrow,
       MintedGrows, Registered
  <1> QED
    BY <1>2, <1>3, <1>5 DEF StepEffect

LEMMA ReleaseObjectMoves ==
  ASSUME CoreInv, NEW o \in ObjectId, ReleaseObject(o)
  PROVE  StepEffect
  <1>1. \A p \in {o} : p \in ObjectId /\ Releasable(p)
    BY DEF ReleaseObject
  <1>2. /\ Reclaim({o}, tasks)
        /\ UNCHANGED <<workers, operations, minted, grants>>
    BY DEF ReleaseObject
  <1> QED
    BY <1>1, <1>2, ReclaimMoves DEF SameRun, SameJob

LEMMA ReapMoves ==
  ASSUME CoreInv, ReapTerminalTasks
  PROVE  StepEffect
  <1> DEFINE T == [t \in TaskId |-> Stamped(t)]
             due == {t \in TaskId : /\ Terminal(t)
                                    /\ Stamped(t).age >= TtlMs
                                    /\ Releasable(Output(t))}
             S == {Output(t) : t \in due}
  <1>1. \A t \in TaskId :
          \/ T[t] = tasks[t]
          \/ tasks[t] \in Task /\ T[t] = [tasks[t] EXCEPT !.age = 0]
    BY DEF Stamped, Terminal, TerminalStates, CoreInv, TypeOK, NoTask
  <1>2. Reclaim(S, T) /\ UNCHANGED <<workers, operations, minted, grants>>
    BY DEF ReapTerminalTasks
  <1>3. \A o \in S : o \in ObjectId /\ Releasable(o)
    BY OutputInjective
  <1> HIDE DEF T, S
  <1>4. \A t \in TaskId : /\ T[t].state = tasks[t].state
                          /\ T[t].state # "Absent" =>
                               /\ SameRun(tasks[t], T[t])
                               /\ tasks[t].assigned = T[t].assigned
    BY <1>1 DEF Task, SameRun, SameJob
  <1> QED
    BY <1>2, <1>3, <1>4, ReclaimMoves

LEMMA TickMoves ==
  ASSUME CoreInv, Tick
  PROVE  StepEffect
  <1>1. \A n \in NodeId :
          \/ workers'[n] = workers[n]
          \/ /\ workers[n] \in Worker
             /\ workers'[n] = [workers[n] EXCEPT !.lease = Down(@)]
    BY DEF Tick, Registered, CoreInv, TypeOK, NoWorker
  <1>2. \A t \in TaskId :
          \/ tasks'[t] = tasks[t]
          \/ /\ tasks[t] \in Task
             /\ tasks'[t] = [tasks[t] EXCEPT !.wait = Down(@),
                                             !.age = Older(@)]
    BY DEF Tick, Live, Terminal, LiveStates, TerminalStates, CoreInv, TypeOK,
       NoTask
  <1>3. SessionsStay
    BY <1>1 DEF SessionsStay, Registered, Worker
  <1>4. AllTasksMove
    <2> SUFFICES ASSUME NEW t \in TaskId PROVE Untouched(t)
      BY DEF AllTasksMove, TaskMoves
    <2>1. CASE tasks'[t] = tasks[t]
      BY <2>1 DEF Untouched, SameRun, SameJob
    <2>2. CASE /\ tasks[t] \in Task
               /\ tasks'[t] = [tasks[t] EXCEPT !.wait = Down(@),
                                               !.age = Older(@)]
      BY <2>2 DEF Untouched, SameRun, SameJob, Task
    <2> QED
      BY <1>2, <2>1, <2>2
  <1>5. UNCHANGED <<objects, operations, pendingDeletes, minted, grants>>
    BY DEF Tick
  <1> QED
    BY <1>3, <1>4, <1>5, RestSame, SameObjects DEF StepEffect

\* What expiry makes of a task that it takes from its worker.
LEMMA OrphanMoves ==
  ASSUME CoreInv, NEW t \in Orphans, tasks'[t] = ExpiredTask(t)
  PROVE  TaskMoves(t)
  <1>1. tasks[t] \in Task /\ tasks[t].state \in LeasedStates
    BY OrphansEffect
  <1>2. CASE AfterExpiry(t) = "Runnable"
    <2>1. /\ tasks[t].state # "CancelRequested"
          /\ tasks[t].attempt < tasks[t].max
      BY <1>2 DEF AfterExpiry
    <2>2. tasks'[t].state = "Runnable" /\ SameRun(tasks[t], tasks'[t])
      BY <1>1, <1>2 DEF ExpiredTask, Retried, Task, SameRun, SameJob
    <2> QED
      BY <1>1, <2>1, <2>2 DEF TaskMoves, Requeued, LeasedStates
  <1>3. CASE AfterExpiry(t) # "Runnable"
    <2>1. tasks'[t].state = AfterExpiry(t) /\ SameRun(tasks[t], tasks'[t])
      BY <1>1, <1>3 DEF ExpiredTask, Ended, Task, SameRun, SameJob
    <2> QED
      BY <1>1, <1>3, <2>1 DEF TaskMoves, Stopped, LeasedStates, AfterExpiry
  <1> QED
    BY <1>2, <1>3

\* What expiry makes of an object, before reconciliation.
LEMMA ExpiryOfObject ==
  ASSUME CoreInv, NEW o \in ObjectId, NEW x, x = OutputAfterExpiry(o)
  PROVE  \/ x = objects[o] /\ ~Orphaned(o)
         \/ /\ objects[o].state = "Available" /\ objects[o].owner \in NodeId
            /\ \/ x.state = "Lost"
               \/ /\ x.state = "Available" /\ x.inline
                  /\ x.location = AtCoordinator
            /\ x.owner = NoNode /\ x.version = objects[o].version
            /\ x.codec = objects[o].codec
         \/ /\ objects[o].state = "Reserved"
            /\ x.state \in {"Failed", "Cancelled"}
            /\ x.codec = objects[o].codec
  <1> DEFINE ended == {t \in Orphans :
                         o = Output(t) /\ AfterExpiry(t) # "Runnable"}
             e == CHOOSE t \in ended : TRUE
  <1>1. CASE Orphaned(o)
    <2>1. /\ objects[o] \in Object /\ objects[o].state = "Available"
          /\ objects[o].owner \in NodeId
      BY <1>1 DEF Orphaned, Expired, CoreInv, TypeOK, NoObject
    <2>2. x = ExpiredObject(o)
      BY <1>1 DEF OutputAfterExpiry
    <2>3. CASE objects[o].inline
      BY <2>1, <2>2, <2>3 DEF ExpiredObject, Object
    <2>4. CASE ~objects[o].inline
      BY <2>1, <2>2, <2>4 DEF ExpiredObject, Object
    <2> QED
      BY <2>3, <2>4
  <1>2. CASE ~Orphaned(o) /\ ended # {}
    <2>1. e \in ended
      BY <1>2
    <2>2. x = [objects[o] EXCEPT !.state = AfterExpiry(e)]
      BY <1>2 DEF OutputAfterExpiry
    <2> HIDE DEF e
    <2>3. /\ e \in TaskId /\ tasks[e].state \in LiveStates
          /\ AfterExpiry(e) \in {"Cancelled", "Failed"}
      BY <2>1, OrphansEffect DEF LeasedStates, LiveStates
    <2>4. objects[o].state = "Reserved"
      BY <2>1, <2>3 DEF CoreInv, OutputMatchesTask
    <2>5. objects[o] \in Object
      BY <2>4 DEF CoreInv, TypeOK, NoObject
    <2> QED
      BY <2>2, <2>3, <2>4, <2>5 DEF Object
  <1>3. CASE ~Orphaned(o) /\ ended = {}
    BY <1>3 DEF OutputAfterExpiry
  <1> QED
    BY <1>1, <1>2, <1>3

LEMMA ExpireMoves ==
  ASSUME CoreInv, ExpireWorkers
  PROVE  StepEffect
  <1> DEFINE T == [t \in TaskId |->
                     IF t \in Orphans THEN ExpiredTask(t) ELSE tasks[t]]
             O == [o \in ObjectId |-> OutputAfterExpiry(o)]
             retried == {t \in Orphans : AfterExpiry(t) = "Runnable"}
             W == waiting \ retried
  <1>1. PICK order \in SetToSeqs(retried) :
          Reconcile(T, O, W, runnable \o order)
    BY DEF ExpireWorkers
  <1>2. /\ tasks' = TasksReconciled(T, O, W)
        /\ objects' = ObjectsReconciled(T, O, W)
    BY <1>1 DEF Reconcile
  <1>3. /\ \A n \in NodeId : workers'[n] = IF n \in Expired THEN NoWorker
                                           ELSE workers[n]
        /\ \A n \in NodeId : pendingDeletes'[n] = DeletesAfterExpiry(n)
        /\ UNCHANGED <<operations, minted, grants>>
    BY DEF ExpireWorkers
  <1>4. /\ \A t \in Orphans : T[t] = ExpiredTask(t)
        /\ \A t \in TaskId \ Orphans : T[t] = tasks[t]
        /\ \A o \in ObjectId : O[o] = OutputAfterExpiry(o)
        /\ T \in Tasks /\ O \in Objects
        /\ IsWaitingSet(T, W) /\ OutputsMatch(T, O)
    BY ExpiryTables
  <1> HIDE DEF T, O, W, retried
  <1>5. Outcome(T, O, tasks', objects')
    BY <1>2, <1>4, ReconcileOutcome
  <1>6. AllTasksMove
    <2> SUFFICES ASSUME NEW u \in TaskId PROVE TaskMoves(u)
      BY DEF AllTasksMove
    <2>1. CASE u \in Orphans
      <3>1. T[u] = ExpiredTask(u) /\ T[u].state # "Waiting"
        BY <1>4, <2>1, OrphansEffect
      <3>2. tasks'[u] = ExpiredTask(u)
        BY <1>5, <3>1 DEF Outcome, WaiterFails, WaiterReady
      <3> QED
        BY <2>1, <3>2, OrphanMoves
    <2>2. CASE u \notin Orphans
      <3>1. T[u] = tasks[u]
        BY <1>4, <2>2
      <3>2. CASE tasks'[u] = tasks[u]
        BY <3>2 DEF TaskMoves, Untouched, SameRun, SameJob
      <3>3. CASE WaiterFails(T, tasks', objects', u)
        BY <3>1, <3>3 DEF TaskMoves, Stopped, WaiterFails
      <3>4. CASE WaiterReady(T, tasks', objects', u)
        BY <3>1, <3>4 DEF TaskMoves, Readied, WaiterReady
      <3> QED
        BY <1>5, <3>1, <3>2, <3>3, <3>4 DEF Outcome
    <2> QED
      BY <2>1, <2>2
  <1>7. AllObjectsMove
    <2> SUFFICES ASSUME NEW o \in ObjectId PROVE ObjectMoves(o)
      BY DEF AllObjectsMove
    <2>1. \/ O[o] = objects[o] /\ ~Orphaned(o)
          \/ /\ objects[o].state = "Available" /\ objects[o].owner \in NodeId
             /\ \/ O[o].state = "Lost"
                \/ /\ O[o].state = "Available" /\ O[o].inline
                   /\ O[o].location = AtCoordinator
             /\ O[o].owner = NoNode /\ O[o].version = objects[o].version
             /\ O[o].codec = objects[o].codec
          \/ /\ objects[o].state = "Reserved"
             /\ O[o].state \in {"Failed", "Cancelled"}
             /\ O[o].codec = objects[o].codec
      BY <1>4, ExpiryOfObject
    <2>2. CASE objects'[o] = O[o]
      <3>1. CASE O[o] = objects[o] /\ ~Orphaned(o)
        BY <1>3, <2>2, <3>1 DEF ObjectMoves, Stays, Orphaned, Registered
      <3>2. CASE O[o] # objects[o] \/ Orphaned(o)
        BY <2>1, <2>2, <3>2 DEF ObjectMoves, Bereft, GivenUp
      <3> QED
        BY <3>1, <3>2
    <2>3. CASE OutputFails(O, objects', o)
      BY <2>1, <2>3 DEF ObjectMoves, GivenUp, OutputFails
    <2> QED
      BY <1>5, <2>2, <2>3 DEF Outcome
  <1>8. WaitersArePending'
    BY <1>5 DEF Outcome, WaiterPends, WaitersArePending, Broken
  <1>9. \A n \in NodeId : WorkerMoves(n) /\ DeletesMove(n)
    BY <1>3 DEF WorkerMoves, DeletesMove, DeletesAfterExpiry, Registered,
       NoWorker
  <1>10. RestMoves
    BY <1>3, <1>9 DEF RestMoves, CatalogueGrows, GrantsGrow, MintedGrows
  <1> QED
    BY <1>6, <1>7, <1>8, <1>10 DEF StepEffect

\* Every step of the coordinator makes these moves and no others.
LEMMA NextEffect ==
  ASSUME CoreInv, [Next]_vars
  PROVE  StepEffect
  <1>1. CASE WorkerRequest
    BY <1>1, RegisterMoves, SessionMoves, PollAssignMoves, PollDeleteMoves
       DEF WorkerRequest
  <1>2. CASE TaskReport
    BY <1>2, StartedMoves, AcknowledgeCancelMoves, FailRetryMoves,
       FailFinallyMoves, CompleteMoves DEF TaskReport
  <1>3. CASE ClientRequest
    BY <1>3, PutMoves, SubmitMoves, CancelLeasedMoves, CancelUnleasedMoves,
       ReleaseObjectMoves DEF ClientRequest
  <1>4. CASE Reaper
    BY <1>4, ExpireMoves, ReapMoves, TickMoves DEF Reaper
  <1>5. CASE UNCHANGED vars
    BY <1>5, SameWorkers, RestSame, QuietMoves DEF vars
  <1> QED
    BY <1>1, <1>2, <1>3, <1>4, <1>5 DEF Next

----------------------------------------------------------------------------
(* The invariant of tasks and objects.  The properties the runs check are  *)
(* not inductive: that attempts are bounded needs that a task in the queue *)
(* has one left; that arguments are held needs that what a task waits for  *)
(* is still to come and what it was leased with was once produced; that    *)
(* deletes are dead needs that the ids in them can never be used again.    *)

\* A task that is still to be leased has an attempt left.
AttemptsLeft ==
  \A t \in TaskId : tasks[t].state \in {"Waiting", "Runnable"} =>
                      tasks[t].attempt < tasks[t].max

GrantsAreMinted == \A g \in grants : g.task \in minted

\* The inputs of a task that is past Waiting were all produced; since then
\* they can only have been lost.
InputsProduced ==
  \A t \in TaskId : Live(t) /\ tasks[t].state # "Waiting" =>
    \A o \in tasks[t].args : objects[o].state \in {"Available", "Lost"}

\* A live task's operation is in the catalogue, and its output and arguments
\* have the codecs the catalogue gives.
CodecsFixed ==
  \A t \in TaskId : Live(t) =>
    /\ operations[tasks[t].op] # NoCodec
    /\ objects[Output(t)].codec = operations[tasks[t].op].out
    /\ \A o \in tasks[t].args : objects[o].codec = operations[tasks[t].op].in

\* What a client put belongs to no worker.
PutsStay ==
  \A o \in PutId : objects[o].state # "Absent" =>
    /\ objects[o].state = "Available" /\ objects[o].owner = NoNode
    /\ objects[o].location = AtCoordinator

\* A worker is told to delete outputs only.
DeletesAreOutputs ==
  \A n \in NodeId : \A o \in pendingDeletes[n] :
    \E t \in minted : o = Output(t)

LifeInv ==
  /\ AttemptsBounded /\ AttemptsLeft /\ GrantsAreMinted
  /\ WaitersArePending /\ InputsProduced /\ CodecsFixed
  /\ PutsStay /\ AvailableHasHome /\ DeletesAreDead /\ DeletesAreOutputs
  /\ CatalogueAgrees

LEMMA InitLife == Init => LifeInv
  <1> SUFFICES ASSUME Init PROVE LifeInv
    OBVIOUS
  <1> USE DEF Init, NoWorker, NoTask, NoObject
  <1>1. AttemptsBounded /\ AttemptsLeft /\ GrantsAreMinted
    BY DEF AttemptsBounded, AttemptsLeft, GrantsAreMinted
  <1>2. WaitersArePending /\ InputsProduced /\ CodecsFixed
    BY DEF WaitersArePending, InputsProduced, CodecsFixed, Live, LiveStates
  <1>3. PutsStay /\ AvailableHasHome
    BY DEF PutsStay, AvailableHasHome, ObjectId
  <1>4. DeletesAreDead /\ DeletesAreOutputs /\ CatalogueAgrees
    BY DEF DeletesAreDead, DeletesAreOutputs, CatalogueAgrees, Registered
  <1> QED
    BY <1>1, <1>2, <1>3, <1>4 DEF LifeInv

\* A task that is known is a task record.
LEMMA KnownTask ==
  ASSUME CoreInv, NEW t \in TaskId, tasks[t].state # "Absent"
  PROVE  /\ tasks[t] \in Task /\ tasks[t].attempt \in Nat
         /\ tasks[t].max \in Nat \ {0} /\ tasks[t].args \subseteq ObjectId
         /\ tasks[t].op \in Operation
  <1>1. tasks[t] \in Task
    BY DEF CoreInv, TypeOK, NoTask
  <1> QED
    BY <1>1 DEF Task

LEMMA KnownTaskNext ==
  ASSUME CoreInv', NEW t \in TaskId, tasks'[t].state # "Absent"
  PROVE  /\ tasks'[t] \in Task /\ tasks'[t].attempt \in Nat
         /\ tasks'[t].max \in Nat \ {0} /\ tasks'[t].args \subseteq ObjectId
         /\ tasks'[t].op \in Operation
  <1>1. tasks'[t] \in Task
    BY DEF CoreInv, TypeOK, NoTask
  <1> QED
    BY <1>1 DEF Task

\* A task that is leased, retried or readied stays below its bound.
LEMMA AttemptMoves ==
  ASSUME CoreInv, CoreInv', AttemptsBounded, AttemptsLeft, NEW t \in TaskId,
         TaskMoves(t), tasks'[t].state # "Absent"
  PROVE  /\ tasks'[t].attempt <= tasks'[t].max
         /\ tasks'[t].state \in {"Waiting", "Runnable"} =>
              tasks'[t].attempt < tasks'[t].max
         /\ tasks[t].state # "Absent" => tasks[t].attempt <= tasks'[t].attempt
         /\ tasks[t].state = "Absent" => Submitted(t)
  <1>1. /\ tasks'[t].attempt \in Nat /\ tasks'[t].max \in Nat \ {0}
    BY KnownTaskNext
  <1>2. CASE Submitted(t)
    BY <1>1, <1>2 DEF Submitted
  <1>3. CASE ~Submitted(t)
    <2>1. tasks[t].state # "Absent"
      BY <1>3 DEF TaskMoves, Untouched, Leased, Advanced, Requeued, Readied,
         Stopped, Dropped
    <2>2. /\ tasks[t].attempt \in Nat /\ tasks[t].max \in Nat
          /\ tasks[t].attempt <= tasks[t].max
      BY <2>1, KnownTask DEF AttemptsBounded
    <2>3. tasks[t].state \in {"Waiting", "Runnable"} =>
            tasks[t].attempt < tasks[t].max
      BY DEF AttemptsLeft
    <2>4. CASE Leased(t)
      BY <2>1, <2>2, <2>3, <2>4 DEF Leased, SameJob
    <2>5. CASE ~Leased(t)
      <3>1. tasks'[t].max = tasks[t].max /\ tasks'[t].attempt = tasks[t].attempt
        BY <1>3, <2>1, <2>5 DEF TaskMoves, Untouched, Advanced, Requeued,
           Readied, Stopped, Dropped, SameRun, SameJob
      <3>2. tasks'[t].state \in {"Waiting", "Runnable"} =>
              tasks[t].attempt < tasks[t].max
        BY <1>3, <2>3, <2>5 DEF TaskMoves, Untouched, Advanced, Requeued,
           Readied, Stopped, Dropped
      <3> QED
        BY <2>1, <2>2, <3>1, <3>2
    <2> QED
      BY <2>4, <2>5
  <1> QED
    BY <1>2, <1>3

LEMMA AttemptsStep ==
  ASSUME CoreInv, CoreInv', StepEffect,
         AttemptsBounded, AttemptsLeft, GrantsAreMinted
  PROVE  (AttemptsBounded /\ AttemptsLeft /\ GrantsAreMinted)'
  <1>1. \A t \in TaskId : TaskMoves(t)
    BY DEF StepEffect, AllTasksMove
  <1>2. AttemptsLeft'
    BY <1>1, AttemptMoves DEF AttemptsLeft
  <1>3. \A t \in TaskId : tasks'[t].state # "Absent" =>
          \A g \in grants : g.task = t => g.attempt <= tasks'[t].attempt
    <2> SUFFICES ASSUME NEW t \in TaskId, tasks'[t].state # "Absent",
                        NEW g \in grants, g.task = t
                 PROVE  g.attempt <= tasks'[t].attempt
      OBVIOUS
    <2>1. tasks[t].state # "Absent"
      BY <1>1, AttemptMoves DEF GrantsAreMinted, Submitted
    <2>2. g.attempt <= tasks[t].attempt
      BY <2>1 DEF AttemptsBounded
    <2>3. g.attempt \in Nat /\ tasks[t].attempt \in Nat
          /\ tasks'[t].attempt \in Nat
      BY <2>1, KnownTask, KnownTaskNext DEF CoreInv, TypeOK, Grant
    <2>4. tasks[t].attempt <= tasks'[t].attempt
      BY <1>1, <2>1, AttemptMoves
    <2> QED
      BY <2>2, <2>3, <2>4
  <1>4. CASE grants' = grants
    <2>1. AttemptsBounded'
      BY <1>1, <1>3, <1>4, AttemptMoves DEF AttemptsBounded
    <2>2. GrantsAreMinted'
      BY <1>4 DEF GrantsAreMinted, StepEffect, RestMoves, MintedGrows
    <2> QED
      BY <1>2, <2>1, <2>2
  <1>5. ASSUME NEW g \in Grant, Leased(g.task),
               g.attempt = tasks[g.task].attempt + 1,
               grants' = grants \cup {g}
        PROVE  (AttemptsBounded /\ GrantsAreMinted)'
    <2> DEFINE t == g.task
    <2>1. /\ t \in TaskId /\ tasks[t].state # "Absent"
          /\ tasks[t].attempt \in Nat /\ tasks'[t].attempt = g.attempt
      BY <1>5, KnownTask DEF Grant, Leased
    <2>2. \A h \in grants : h.task = t => h.attempt < g.attempt
      <3> SUFFICES ASSUME NEW h \in grants, h.task = t
                   PROVE  h.attempt < g.attempt
        OBVIOUS
      <3>1. h.attempt <= tasks[t].attempt /\ h.attempt \in Nat
        BY <2>1 DEF AttemptsBounded, CoreInv, TypeOK, Grant
      <3> QED
        BY <1>5, <2>1, <3>1
    <2>3. t \in minted /\ minted \subseteq minted'
      BY <2>1 DEF CoreInv, KnownAreMinted, StepEffect, RestMoves, MintedGrows
    <2>4. \A h, k \in grants' : h.task = k.task /\ h.attempt = k.attempt => h = k
      <3>1. \A h \in grants : h.attempt \in Nat
        BY DEF CoreInv, TypeOK, Grant
      <3> QED
        BY <1>5, <2>2, <3>1 DEF AttemptsBounded, Grant
    <2>5. \A u \in TaskId : tasks'[u].state # "Absent" =>
            \A h \in grants' : h.task = u => h.attempt <= tasks'[u].attempt
      BY <1>3, <1>5, <2>1 DEF Grant
    <2>6. AttemptsBounded'
      BY <1>1, <2>4, <2>5, AttemptMoves DEF AttemptsBounded
    <2>7. GrantsAreMinted'
      BY <1>5, <2>3 DEF GrantsAreMinted
    <2> QED
      BY <2>6, <2>7
  <1> QED
    BY <1>2, <1>4, <1>5 DEF StepEffect, RestMoves, GrantsGrow

\* A task that is live after a step was just born, or was live before with
\* the same operation and arguments.
LEMMA LiveBefore ==
  ASSUME NEW t \in TaskId, TaskMoves(t), tasks'[t].state \in LiveStates,
         ~Submitted(t)
  PROVE  /\ Live(t) /\ tasks'[t].op = tasks[t].op
         /\ tasks'[t].args = tasks[t].args
         /\ tasks'[t].state = "Waiting" => tasks[t].state = "Waiting"
         /\ tasks[t].state = "Waiting" => Readied(t) \/ tasks'[t].state = "Waiting"
  BY DEF TaskMoves, Untouched, Leased, Advanced, Requeued, Readied, Stopped,
     Dropped, SameRun, SameJob, Live, LiveStates, TerminalStates

\* An argument of a live task is used, so it is not deleted.
LEMMA ArgumentUsed ==
  ASSUME NEW t \in TaskId, Live(t), NEW o \in tasks[t].args
  PROVE  ObjectInUse(o)
  BY DEF ObjectInUse

LEMMA WaitersStep ==
  ASSUME CoreInv, CoreInv', StepEffect, WaitersArePending
  PROVE  WaitersArePending'
  <1>1. CASE Calm
    <2> SUFFICES ASSUME NEW t \in TaskId, tasks'[t].state = "Waiting"
                 PROVE  /\ \E o \in tasks'[t].args : objects'[o].state = "Reserved"
                        /\ \A o \in tasks'[t].args : ~Broken(objects', o)
      BY DEF WaitersArePending, Broken
    <2>1. TaskMoves(t)
      BY DEF StepEffect, AllTasksMove
    <2>2. CASE Submitted(t)
      BY <2>2 DEF Submitted, Broken
    <2>3. CASE ~Submitted(t)
      <3>1. /\ tasks[t].state = "Waiting" /\ Live(t)
            /\ tasks'[t].args = tasks[t].args
            /\ tasks[t].args \subseteq ObjectId
        BY <2>1, <2>3, LiveBefore, KnownTask DEF LiveStates
      <3>2. /\ \E o \in tasks[t].args : objects[o].state = "Reserved"
            /\ \A o \in tasks[t].args : ~Broken(objects, o)
        BY <3>1 DEF WaitersArePending
      <3>3. \A o \in tasks[t].args : objects'[o] = objects[o]
        BY <1>1, <3>1, <3>2, ArgumentUsed DEF Calm, Broken
      <3> QED
        BY <3>1, <3>2, <3>3 DEF Broken
    <2> QED
      BY <2>2, <2>3
  <1> QED
    BY <1>1 DEF StepEffect

\* Produced bytes that are in use can only be lost.
LEMMA ProducedStays ==
  ASSUME NEW o \in ObjectId, ObjectMoves(o), ObjectInUse(o),
         objects[o].state \in {"Available", "Lost"}
  PROVE  /\ objects'[o].state \in {"Available", "Lost"}
         /\ objects'[o].codec = objects[o].codec
  BY DEF ObjectMoves, Stays, PutAway, Promised, Produced, GivenUp, Bereft,
     Deleted

LEMMA InputsStep ==
  ASSUME CoreInv, CoreInv', StepEffect, InputsProduced
  PROVE  InputsProduced'
  <1> SUFFICES ASSUME NEW t \in TaskId, tasks'[t].state \in LiveStates,
                      tasks'[t].state # "Waiting", NEW o \in tasks'[t].args
               PROVE  objects'[o].state \in {"Available", "Lost"}
    BY DEF InputsProduced, Live
  <1>1. TaskMoves(t)
    BY DEF StepEffect, AllTasksMove
  <1>2. CASE Submitted(t)
    BY <1>2 DEF Submitted
  <1>3. CASE ~Submitted(t)
    <2>1. /\ Live(t) /\ tasks'[t].args = tasks[t].args
          /\ tasks[t].state = "Waiting" => Readied(t)
      BY <1>1, <1>3, LiveBefore
    <2>2. CASE Readied(t)
      BY <2>1, <2>2 DEF Readied
    <2>3. CASE ~Readied(t)
      <3>1. objects[o].state \in {"Available", "Lost"}
        BY <2>1, <2>3 DEF InputsProduced
      <3>2. o \in ObjectId /\ ObjectInUse(o)
        BY <2>1, KnownTask, ArgumentUsed DEF Live, LiveStates
      <3>3. ObjectMoves(o)
        BY <3>2 DEF StepEffect, AllObjectsMove
      <3> QED
        BY <3>1, <3>2, <3>3, ProducedStays
    <2> QED
      BY <2>2, <2>3
  <1> QED
    BY <1>2, <1>3

\* The codec of an object in use does not change.
LEMMA CodecStays ==
  ASSUME CodecsFixed, NEW o \in ObjectId, ObjectMoves(o), ObjectInUse(o),
         objects[o].state # "Absent"
  PROVE  objects'[o].codec = objects[o].codec
  <1>1. CASE Produced(o)
    BY <1>1 DEF Produced, CodecsFixed
  <1>2. CASE ~Produced(o)
    BY <1>2 DEF ObjectMoves, Stays, PutAway, Promised, GivenUp, Bereft, Deleted
  <1> QED
    BY <1>1, <1>2

LEMMA CodecsStep ==
  ASSUME CoreInv, CoreInv', StepEffect, WaitersArePending, InputsProduced,
         CodecsFixed
  PROVE  CodecsFixed'
  <1>1. CatalogueGrows
    BY DEF StepEffect, RestMoves
  <1> SUFFICES ASSUME NEW t \in TaskId, tasks'[t].state \in LiveStates
               PROVE  CodecsFixed!(t)'
    BY DEF CodecsFixed, Live
  <1>2. TaskMoves(t) /\ tasks'[t].op \in Operation
        /\ tasks'[t].args \subseteq ObjectId
    BY KnownTaskNext DEF StepEffect, AllTasksMove, LiveStates
  <1>3. CASE Submitted(t)
    <2>1. operations'[tasks'[t].op] = operations[tasks'[t].op]
          /\ operations[tasks'[t].op] # NoCodec
      BY <1>1, <1>2, <1>3 DEF Submitted, CatalogueGrows
    <2> QED
      BY <1>3, <2>1 DEF Submitted
  <1>4. CASE ~Submitted(t)
    <2>1. /\ Live(t) /\ tasks'[t].op = tasks[t].op
          /\ tasks'[t].args = tasks[t].args
      BY <1>2, <1>4, LiveBefore
    <2>2. CodecsFixed!(t)
      BY <2>1 DEF CodecsFixed
    <2>3. operations'[tasks[t].op] = operations[tasks[t].op]
          /\ operations[tasks[t].op] # NoCodec
      BY <1>1, <1>2, <2>1, <2>2 DEF CatalogueGrows
    <2>4. objects'[Output(t)].codec = objects[Output(t)].codec
      <3>1. /\ objects[Output(t)].state = "Reserved"
            /\ objects'[Output(t)].state = "Reserved"
        BY <2>1 DEF CoreInv, OutputMatchesTask, Live
      <3>2. ObjectMoves(Output(t))
        BY OutputInjective DEF StepEffect, AllObjectsMove
      <3> QED
        BY <3>1, <3>2 DEF ObjectMoves, Stays, PutAway, Promised, Produced,
           GivenUp, Bereft, Deleted, NoObject
    <2>5. \A o \in tasks[t].args : objects'[o].codec = objects[o].codec
      <3> SUFFICES ASSUME NEW o \in tasks[t].args
                   PROVE  objects'[o].codec = objects[o].codec
        OBVIOUS
      <3>1. o \in ObjectId /\ ObjectInUse(o) /\ ObjectMoves(o)
        BY <1>2, <2>1, ArgumentUsed DEF StepEffect, AllObjectsMove
      <3>2. objects[o].state # "Absent"
        BY <2>1 DEF WaitersArePending, InputsProduced, Broken
      <3> QED
        BY <3>1, <3>2, CodecStays
    <2> QED
      BY <2>1, <2>2, <2>3, <2>4, <2>5
  <1> QED
    BY <1>3, <1>4

LEMMA PutsStep ==
  ASSUME CoreInv, StepEffect, PutsStay
  PROVE  PutsStay'
  <1> SUFFICES ASSUME NEW o \in PutId, objects'[o].state # "Absent"
               PROVE  PutsStay!(o)'
    BY DEF PutsStay
  <1>1. ObjectMoves(o)
    BY DEF StepEffect, AllObjectsMove, ObjectId
  <1>2. \A t \in TaskId : o # Output(t)
    BY OutputInjective
  <1>3. objects[o].state # "Absent" =>
          /\ objects[o].state = "Available" /\ objects[o].owner = NoNode
          /\ objects[o].location = AtCoordinator
    BY DEF PutsStay
  <1> QED
    BY <1>1, <1>2, <1>3, ConstantsDiffer DEF ObjectMoves, Stays, PutAway,
       Promised, Produced, GivenUp, Bereft, Deleted, NoObject

LEMMA HomesStep ==
  ASSUME CoreInv, StepEffect, AvailableHasHome
  PROVE  AvailableHasHome'
  <1> SUFFICES ASSUME NEW o \in ObjectId, objects'[o].state = "Available"
               PROVE  AvailableHasHome!(o)'
    BY DEF AvailableHasHome
  <1>1. ObjectMoves(o)
    BY DEF StepEffect, AllObjectsMove
  <1>2. /\ NoNode \notin NodeId /\ AtCoordinator \notin NodeId
        /\ AtCoordinator # NoNode
    BY ConstantsDiffer DEF Nodes
  <1>3. CASE Stays(o)
    BY <1>3 DEF Stays, AvailableHasHome, Registered
  <1>4. CASE PutAway(o)
    BY <1>2, <1>4 DEF PutAway
  <1>5. CASE Produced(o)
    BY <1>2, <1>5 DEF Produced, Registered
  <1>6. CASE Bereft(o)
    BY <1>2, <1>6 DEF Bereft
  <1> QED
    BY <1>1, <1>3, <1>4, <1>5, <1>6 DEF ObjectMoves, Promised, GivenUp,
       Deleted, NoObject

LEMMA DeletesStep ==
  ASSUME CoreInv, CoreInv', StepEffect, PutsStay, DeletesAreDead,
         DeletesAreOutputs
  PROVE  DeletesAreDead' /\ DeletesAreOutputs'
  <1> SUFFICES ASSUME NEW n \in NodeId, NEW o \in pendingDeletes'[n]
               PROVE  /\ workers'[n].state # "Absent"
                      /\ objects'[o].state = "Absent"
                      /\ \E t \in minted' : o = Output(t)
    BY DEF DeletesAreDead, DeletesAreOutputs, Registered
  <1>1. /\ DeletesMove(n) /\ minted \subseteq minted' /\ o \in ObjectId
        /\ minted \subseteq TaskId
    BY DEF StepEffect, RestMoves, MintedGrows, CoreInv, TypeOK
  <1>2. ObjectMoves(o)
    BY <1>1 DEF StepEffect, AllObjectsMove
  <1>3. CASE o \in pendingDeletes[n] /\ (Registered(n) => Registered(n)')
    <2>1. Registered(n) /\ objects[o].state = "Absent"
      BY <1>3 DEF DeletesAreDead
    <2>2. PICK t \in minted : o = Output(t)
      BY <1>3 DEF DeletesAreOutputs
    <2>3. o \notin PutId /\ \A u \in TaskId \ minted : o # Output(u)
      BY <1>1, <2>2, OutputInjective
    <2>4. objects'[o].state = "Absent"
      BY <1>2, <2>1, <2>3 DEF ObjectMoves, Stays, PutAway, Promised, Produced,
         GivenUp, Bereft, Deleted
    <2> QED
      BY <1>1, <1>3, <2>1, <2>2, <2>4 DEF Registered
  <1>4. CASE objects[o].owner = n /\ Registered(n)' /\ Deleted(o)
    <2>1. objects'[o].state = "Absent" /\ objects[o].state # "Absent"
      BY <1>4 DEF Deleted, NoObject
    <2>2. o \notin PutId
      BY <1>4, <2>1, ConstantsDiffer DEF PutsStay
    <2>3. PICK t \in TaskId : o = Output(t)
      BY <1>1, <2>2 DEF ObjectId
    <2>4. t \in minted
      BY <2>1, <2>3 DEF CoreInv, OutputMatchesTask, KnownAreMinted
    <2> QED
      BY <1>1, <1>4, <2>1, <2>3, <2>4 DEF Registered
  <1> QED
    BY <1>1, <1>3, <1>4 DEF DeletesMove

LEMMA CatalogueStep ==
  ASSUME StepEffect, CatalogueAgrees
  PROVE  CatalogueAgrees'
  BY DEF StepEffect, RestMoves, WorkerMoves, CatalogueGrows, CatalogueAgrees,
     Registered

LEMMA NextLife == CoreInv /\ CoreInv' /\ LifeInv /\ [Next]_vars => LifeInv'
  <1> SUFFICES ASSUME CoreInv, CoreInv', LifeInv, [Next]_vars PROVE LifeInv'
    OBVIOUS
  <1>1. StepEffect
    BY NextEffect
  <1>2. /\ AttemptsBounded /\ AttemptsLeft /\ GrantsAreMinted
        /\ WaitersArePending /\ InputsProduced /\ CodecsFixed
        /\ PutsStay /\ AvailableHasHome /\ DeletesAreDead
        /\ DeletesAreOutputs /\ CatalogueAgrees
    BY DEF LifeInv
  <1>3. (AttemptsBounded /\ AttemptsLeft /\ GrantsAreMinted)'
    BY <1>1, <1>2, AttemptsStep
  <1>4. WaitersArePending' /\ InputsProduced' /\ CodecsFixed'
    BY <1>1, <1>2, WaitersStep, InputsStep, CodecsStep
  <1>5. PutsStay' /\ AvailableHasHome'
    BY <1>1, <1>2, PutsStep, HomesStep
  <1>6. DeletesAreDead' /\ DeletesAreOutputs'
    BY <1>1, <1>2, DeletesStep
  <1>7. CatalogueAgrees'
    BY <1>1, <1>2, CatalogueStep
  <1> QED
    BY <1>3, <1>4, <1>5, <1>6, <1>7 DEF LifeInv

\* The invariant of tasks and objects holds of every behaviour.
THEOREM LifeInvariant == Spec => []LifeInv
  BY InitLife, NextLife, CoreInvariant, PTL DEF Spec

\* No attempt is handed out twice, and retries, worker deaths and restarts
\* together never exceed the attempts the client allowed (assign_next, fail,
\* expire_workers).
THEOREM AttemptsAreBounded == Spec => []AttemptsBounded
  <1>1. LifeInv => AttemptsBounded
    BY DEF LifeInv
  <1> QED
    BY <1>1, LifeInvariant, PTL

\* reconcile_dependencies strands no task, whatever chain of dependents an
\* end, a cancellation or the loss of a worker runs down.
THEOREM WaitersPend == Spec => []WaitersArePending
  <1>1. LifeInv => WaitersArePending
    BY DEF LifeInv
  <1> QED
    BY <1>1, LifeInvariant, PTL

\* No release, reap or loss takes an argument away from a live task, and no
\* late registration changes the codec it is read with.
THEOREM ArgumentsAreHeld == Spec => []ArgumentsHeld
  <1>1. LifeInv => ArgumentsHeld
    BY DEF LifeInv, ArgumentsHeld, WaitersArePending, InputsProduced,
       CodecsFixed, Broken
  <1> QED
    BY <1>1, LifeInvariant, PTL

\* A reader is sent to a worker only while that worker is registered, and
\* bytes that are nowhere are not called available (complete, expire_workers).
THEOREM AvailableHasAHome == Spec => []AvailableHasHome
  <1>1. LifeInv => AvailableHasHome
    BY DEF LifeInv
  <1> QED
    BY <1>1, LifeInvariant, PTL

\* A delete that is still to be delivered names an object that is gone for
\* good and a worker that is there.
THEOREM DeletesDead == Spec => []DeletesAreDead
  <1>1. LifeInv => DeletesAreDead
    BY DEF LifeInv
  <1> QED
    BY <1>1, LifeInvariant, PTL

\* A registered worker and the catalogue agree on every operation.
THEOREM CatalogueAgreed == Spec => []CatalogueAgrees
  <1>1. LifeInv => CatalogueAgrees
    BY DEF LifeInv
  <1> QED
    BY <1>1, LifeInvariant, PTL

\* Published bytes are never changed in place.
THEOREM PublishedImmutable == Spec => PublishedIsImmutable
  <1> DEFINE A == \A o \in ObjectId : objects[o].state = "Available" =>
                    \/ objects'[o].state \in {"Lost", "Absent"}
                    \/ /\ objects'[o].state = "Available"
                       /\ objects'[o].version = objects[o].version
                       /\ objects'[o].codec = objects[o].codec
  <1>1. CoreInv /\ [Next]_vars => [A]_vars
    <2> SUFFICES ASSUME CoreInv, [Next]_vars PROVE A
      OBVIOUS
    <2>1. \A o \in ObjectId : ObjectMoves(o)
      BY NextEffect DEF StepEffect, AllObjectsMove
    <2> QED
      BY <2>1 DEF ObjectMoves, Stays, PutAway, Promised, Produced, GivenUp,
         Bereft, Deleted, NoObject
  <1>2. Spec => [][A]_vars
    <2> HIDE DEF A
    <2> QED
      BY <1>1, CoreInvariant, PTL DEF Spec
  <1> QED
    BY <1>2 DEF PublishedIsImmutable

----------------------------------------------------------------------------
(* The coordinator implements TaskLifecycle: every move of a task is one   *)
(* of the moves that module allows, or none of a client's business.        *)

\* An output that can be taken as an argument has a task that has not failed;
\* an output that was given up or lost has a task that has ended.
LEMMA ProducerPhase ==
  ASSUME CoreInv, NEW u \in TaskId
  PROVE  /\ objects[Output(u)].state \in {"Available", "Reserved"} =>
              Phase(u) \in {"Pending", "Leased", "Stopping", "Succeeded"}
         /\ objects[Output(u)].state \in {"Available", "Lost"} =>
              Phase(u) = "Succeeded"
         /\ objects[Output(u)].state \in {"Failed", "Cancelled", "Lost"} =>
              Phase(u) \in TerminalStates
  <1>1. tasks[u].state \in LiveStates \cup TerminalStates \cup {"Absent"}
    BY DEF CoreInv, TypeOK, Task, NoTask
  <1>2. OutputMatchesTask!(u)
    BY DEF CoreInv, OutputMatchesTask
  <1> QED
    BY <1>1, <1>2 DEF Phase, LiveStates, TerminalStates

\* A result does not change while its task is known.
LEMMA ResultStays ==
  ASSUME CoreInv, CoreInv', StepEffect, NEW t \in TaskId,
         tasks[t].state = "Succeeded", tasks'[t].state = "Succeeded"
  PROVE  objects'[Output(t)].version = objects[Output(t)].version
  <1>1. /\ objects[Output(t)].state \in {"Available", "Lost"}
        /\ objects'[Output(t)].state \in {"Available", "Lost"}
    BY DEF CoreInv, OutputMatchesTask
  <1>2. ObjectMoves(Output(t))
    BY OutputInjective DEF StepEffect, AllObjectsMove
  <1> QED
    BY <1>1, <1>2 DEF ObjectMoves, Stays, PutAway, Promised, Produced,
       GivenUp, Bereft, Deleted, NoObject

\* A waiting task is failed only when a task whose output it takes has ended.
LEMMA AbandonedWithReason ==
  ASSUME CoreInv, CoreInv', LifeInv, LifeInv', StepEffect, NEW t \in TaskId,
         tasks[t].state = "Waiting", NEW o \in tasks[t].args,
         Broken(objects', o)
  PROVE  \E u \in TaskId : o = Output(u) /\ Phase(u)' \in TerminalStates
  <1>1. o \in ObjectId /\ ObjectInUse(o)
    BY KnownTask, ArgumentUsed DEF Live, LiveStates
  <1>2. objects[o].state \in {"Reserved", "Available"}
    BY DEF LifeInv, WaitersArePending, Broken
  <1>3. ObjectMoves(o)
    BY <1>1 DEF StepEffect, AllObjectsMove
  <1>4. objects'[o].state \in {"Failed", "Cancelled", "Lost"}
    BY <1>1, <1>2, <1>3 DEF ObjectMoves, Stays, PutAway, Promised, Produced,
       GivenUp, Bereft, Deleted, Broken
  <1>5. o \notin PutId
    BY <1>4 DEF LifeInv, PutsStay
  <1>6. PICK u \in TaskId : o = Output(u)
    BY <1>1, <1>5 DEF ObjectId
  <1>7. /\ tasks'[u].state \in LiveStates \cup TerminalStates \cup {"Absent"}
        /\ OutputMatchesTask!(u)'
    BY DEF CoreInv, TypeOK, Task, NoTask, OutputMatchesTask
  <1>8. tasks'[u].state \in TerminalStates
    BY <1>4, <1>6, <1>7 DEF LiveStates, TerminalStates
  <1> QED
    BY <1>6, <1>8 DEF Phase, TerminalStates

LEMMA LifecycleInit == Init => Lifecycle!Init
  BY DEF Init, Lifecycle!Init, Phase, Known, NoTask, TerminalStates

\* What a client sees of a task, in the state and in the next one.
SeenAttempt(t) == IF Known(t) THEN tasks[t].attempt ELSE 0
SeenInputs(t) ==
  IF Known(t) THEN {u \in TaskId : Output(u) \in tasks[t].args} ELSE {}
SeenResult(t) ==
  IF tasks[t].state = "Succeeded" THEN objects[Output(t)].version ELSE 0
SameView(t) ==
  /\ SeenAttempt(t)' = SeenAttempt(t) /\ SeenInputs(t)' = SeenInputs(t)
  /\ SeenResult(t)' = SeenResult(t)

LEMMA QuietTask ==
  ASSUME CoreInv, CoreInv', LifeInv, StepEffect, NEW t \in TaskId,
         \/ Untouched(t) \/ Advanced(t) \/ Requeued(t) \/ Readied(t)
         \/ Stopped(t) /\ tasks'[t].state # "Succeeded"
  PROVE  SameView(t)
  <1>1. \/ Known(t) /\ Known(t)' /\ SameRun(tasks[t], tasks'[t])
        \/ ~Known(t) /\ ~Known(t)'
    BY DEF Untouched, Advanced, Requeued, Readied, Stopped, Known
  <1>2. SeenAttempt(t)' = SeenAttempt(t) /\ SeenInputs(t)' = SeenInputs(t)
    BY <1>1 DEF SeenAttempt, SeenInputs, SameRun, SameJob
  <1>3. tasks[t].state = "Succeeded" <=> tasks'[t].state = "Succeeded"
    BY DEF Untouched, Advanced, Requeued, Readied, Stopped
  <1>4. SeenResult(t)' = SeenResult(t)
    BY <1>3, ResultStays DEF SeenResult
  <1> QED
    BY <1>2, <1>4 DEF SameView

\* A task that keeps its attempt, inputs and result stays in its phase or
\* makes one of the moves that change nothing else.
LEMMA ViewMoves ==
  ASSUME NEW t \in TaskId, SameView(t)
  PROVE  /\ Phase(t)' = Phase(t) => Lifecycle!Same(t)
         /\ \A from, to : Phase(t) \in from /\ Phase(t)' = to =>
              Lifecycle!Move(t, from, to)
  BY DEF Lifecycle!Same, Lifecycle!Move, SameView, SeenAttempt, SeenInputs,
     SeenResult

LEMMA QuietTaskMoves ==
  ASSUME CoreInv, CoreInv', LifeInv, StepEffect, NEW t \in TaskId,
         Untouched(t) \/ Advanced(t) \/ Requeued(t) \/ Readied(t)
  PROVE  Lifecycle!Moves(t)
  <1>1. SameView(t)
    BY QuietTask
  <1>2. CASE Untouched(t) \/ Readied(t)
    <2>1. ~Known(t) /\ ~Known(t)' => (t \in minted <=> t \in minted')
      BY <1>2 DEF StepEffect, RestMoves, MintedGrows, Submitted, Known, Untouched
    <2>2. CASE Readied(t)
      <3>1. Phase(t) = "Pending" /\ Phase(t)' = "Pending"
        BY <2>2 DEF Readied, Phase
      <3> QED
        BY <1>1, <3>1, ViewMoves DEF Lifecycle!Moves
    <2>3. CASE Untouched(t)
      <3>1. tasks'[t].state = tasks[t].state
        BY <2>3 DEF Untouched
      <3>2. CASE Known(t)
        <4>1. tasks[t].state \in LiveStates \cup TerminalStates
          BY <3>2, KnownTask DEF Known, Task
        <4>2. Phase(t)' = Phase(t)
          BY <3>1, <4>1 DEF Phase, LiveStates, TerminalStates
        <4> QED
          BY <1>1, <4>2, ViewMoves DEF Lifecycle!Moves
      <3>3. CASE ~Known(t)
        <4>1. Phase(t)' = Phase(t)
          BY <2>1, <3>1, <3>3 DEF Phase, Known, TerminalStates
        <4> QED
          BY <1>1, <4>1, ViewMoves DEF Lifecycle!Moves
      <3> QED
        BY <3>2, <3>3
    <2> QED
      BY <1>2, <2>2, <2>3
  <1>3. CASE Advanced(t)
    <2>1. Phase(t) = "Leased" /\ Phase(t)' \in {"Leased", "Stopping"}
      BY <1>3 DEF Advanced, Phase
    <2> QED
      BY <1>1, <2>1, ViewMoves DEF Lifecycle!Moves
  <1>4. CASE Requeued(t)
    <2>1. Phase(t) = "Leased" /\ Phase(t)' = "Pending"
      BY <1>4 DEF Requeued, Phase
    <2> QED
      BY <1>1, <2>1, ViewMoves DEF Lifecycle!Moves
  <1> QED
    BY <1>2, <1>3, <1>4

LEMMA BornTaskMoves ==
  ASSUME CoreInv, CoreInv', NEW t \in TaskId, Submitted(t)
  PROVE  Lifecycle!Moves(t)
  <1>1. /\ Phase(t) = "Unborn" /\ Phase(t)' = "Pending" /\ Known(t)'
        /\ tasks'[t].attempt = 0 /\ tasks'[t].state # "Succeeded"
    BY DEF Submitted, Phase, Known, TerminalStates
  <1>2. \A u \in TaskId : Output(u) \in tasks'[t].args =>
          Phase(u) \in {"Pending", "Leased", "Stopping", "Succeeded"}
    BY ProducerPhase DEF Submitted
  <1> QED
    BY <1>1, <1>2 DEF Lifecycle!Moves, Lifecycle!Create, Lifecycle!Unended

LEMMA LeasedTaskMoves ==
  ASSUME CoreInv, LifeInv, NEW t \in TaskId, Leased(t)
  PROVE  Lifecycle!Moves(t)
  <1>1. /\ Phase(t) = "Pending" /\ Phase(t)' = "Leased"
        /\ Known(t) /\ Known(t)' /\ tasks'[t].attempt = tasks[t].attempt + 1
        /\ tasks'[t].args = tasks[t].args
        /\ tasks[t].state # "Succeeded" /\ tasks'[t].state # "Succeeded"
    BY DEF Leased, Phase, Known, SameJob
  <1>2. \A u \in TaskId : Output(u) \in tasks[t].args => Phase(u) = "Succeeded"
    BY ProducerPhase DEF Leased, LifeInv, InputsProduced, Live, LiveStates
  <1> QED
    BY <1>1, <1>2 DEF Lifecycle!Moves, Lifecycle!Lease

LEMMA StoppedTaskMoves ==
  ASSUME CoreInv, CoreInv', LifeInv, LifeInv', StepEffect, NEW t \in TaskId,
         Stopped(t)
  PROVE  Lifecycle!Moves(t)
  <1>1. /\ Known(t) /\ Known(t)' /\ tasks'[t].attempt = tasks[t].attempt
        /\ tasks'[t].args = tasks[t].args
    BY DEF Stopped, Known, SameRun, SameJob
  <1>2. CASE tasks'[t].state = "Succeeded"
    <2>1. Phase(t) = "Leased" /\ Phase(t)' = "Succeeded"
      BY <1>2 DEF Stopped, Phase, TerminalStates
    <2>2. objects'[Output(t)].version = tasks'[t].attempt
      BY <1>2 DEF CoreInv, OutputMatchesTask
    <2> QED
      BY <1>1, <1>2, <2>1, <2>2 DEF Lifecycle!Moves, Lifecycle!Succeed
  <1>3. CASE tasks'[t].state # "Succeeded"
    <2>1. SameView(t)
      BY <1>3, QuietTask
    <2>2. CASE tasks[t].state = "Waiting" /\ tasks'[t].state = "Failed"
      <3>1. Phase(t) \in {"Pending"} /\ Phase(t)' = "Failed"
        BY <2>2 DEF Phase, TerminalStates
      <3>2. PICK o \in tasks[t].args : Broken(objects', o)
        BY <2>2 DEF Stopped
      <3>3. PICK u \in TaskId : o = Output(u) /\ Phase(u)' \in TerminalStates
        BY <2>2, <3>2, AbandonedWithReason
      <3>4. Lifecycle!Move(t, {"Pending"}, "Failed")
        BY <2>1, <3>1, ViewMoves
      <3> QED
        BY <1>1, <3>2, <3>3, <3>4 DEF Lifecycle!Moves, Lifecycle!Abandon,
           Lifecycle!Ended, TerminalStates
    <2>3. CASE ~(tasks[t].state = "Waiting" /\ tasks'[t].state = "Failed")
      <3>1. \/ Phase(t) = "Leased" /\ Phase(t)' = "Failed"
            \/ Phase(t) \in {"Pending", "Stopping"} /\ Phase(t)' = "Cancelled"
        BY <1>3, <2>3 DEF Stopped, Phase, TerminalStates
      <3> QED
        BY <2>1, <3>1, ViewMoves DEF Lifecycle!Moves
    <2> QED
      BY <2>2, <2>3
  <1> QED
    BY <1>2, <1>3

LEMMA DroppedTaskMoves ==
  ASSUME CoreInv, StepEffect, NEW t \in TaskId, Dropped(t)
  PROVE  Lifecycle!Moves(t)
  <1>1. t \in minted'
    BY DEF CoreInv, KnownAreMinted, Dropped, Terminal, TerminalStates,
       StepEffect, RestMoves, MintedGrows
  <1>2. /\ Phase(t) \in TerminalStates /\ Phase(t)' = "Forgotten" /\ ~Known(t)'
        /\ tasks'[t].state # "Succeeded"
    BY <1>1 DEF Dropped, Terminal, Phase, Known, TerminalStates
  <1>3. \A u \in TaskId : Phase(u) \in {"Pending", "Leased", "Stopping"} =>
          Output(t) \notin tasks[u].args
    BY DEF Dropped, ObjectInUse, Live, LiveStates, Phase, TerminalStates
  <1> QED
    BY <1>2, <1>3 DEF Lifecycle!Moves, Lifecycle!Forget, Lifecycle!Ended,
       Lifecycle!Unended, TerminalStates

LEMMA LifecycleStep ==
  CoreInv /\ CoreInv' /\ LifeInv /\ LifeInv' /\ [Next]_vars =>
    [Lifecycle!Next]_Lifecycle!vars
  <1> SUFFICES ASSUME CoreInv, CoreInv', LifeInv, LifeInv', [Next]_vars,
                      NEW t \in TaskId
               PROVE  Lifecycle!Moves(t)
    BY DEF Lifecycle!Next
  <1>1. StepEffect
    BY NextEffect
  <1>2. TaskMoves(t)
    BY <1>1 DEF StepEffect, AllTasksMove
  <1> QED
    BY <1>1, <1>2, QuietTaskMoves, BornTaskMoves, LeasedTaskMoves,
       StoppedTaskMoves, DroppedTaskMoves DEF TaskMoves

\* The coordinator implements TaskLifecycle: whatever reports, retries,
\* cancellations, losses and reclaims interleave, clients see each task live
\* the life that module describes.
THEOREM LifecycleImplemented == Spec => ImplementsLifecycle
  BY LifecycleInit, LifecycleStep, CoreInvariant, LifeInvariant, PTL
     DEF Spec, ImplementsLifecycle, Lifecycle!Spec

----------------------------------------------------------------------------
(* What a step may do to a worker's account.                               *)

IsLeased(t) == tasks[t].state \in LeasedStates
SameLeases(S) == \A t \in TaskId \ S : IsLeased(t)' <=> IsLeased(t)

SameAccount(n) ==
  /\ Registered(n)
  /\ workers'[n].offer = workers[n].offer
  /\ workers'[n].free = workers[n].free
  /\ workers'[n].available = workers[n].available

Enrolled(n) ==
  /\ ~Registered(n)
  /\ workers'[n].free = workers'[n].offer.slots
  /\ workers'[n].available = workers'[n].offer.total

\* No lease begins, and a lease ends only with its worker's registration.
AccountsStay ==
  /\ \A n \in NodeId : Registered(n)' => SameAccount(n) \/ Enrolled(n)
  /\ \A t \in TaskId :
       \/ IsLeased(t)' <=> IsLeased(t)
       \/ /\ IsLeased(t) /\ ~IsLeased(t)'
          /\ workers'[tasks[t].assigned.node].state = "Absent"

\* Node n takes task t.
Takes(n, t) ==
  /\ Registered(n) /\ workers[n].free > 0
  /\ CanFit(workers[n].available, tasks[t].resources)
  /\ workers'[n].offer = workers[n].offer
  /\ workers'[n].free = workers[n].free - 1
  /\ workers'[n].available = Subtract(workers[n].available, tasks[t].resources)
  /\ Leased(t) /\ tasks'[t].assigned.node = n
  /\ \A m \in NodeId \ {n} : workers'[m] = workers[m]
  /\ SameLeases({t})

\* Node n gives task t back.
GivesBack(n, t) ==
  /\ Registered(n) /\ IsLeased(t) /\ tasks[t].assigned.node = n
  /\ workers'[n].offer = workers[n].offer
  /\ workers'[n].free = workers[n].free + 1
  /\ workers'[n].available = Add(workers[n].available, tasks[t].resources)
  /\ ~IsLeased(t)' /\ Registered(n)'
  /\ \A m \in NodeId \ {n} : workers'[m] = workers[m]
  /\ SameLeases({t})

AccountsMove ==
  \/ AccountsStay
  \/ \E n \in NodeId, t \in TaskId : Takes(n, t) \/ GivesBack(n, t)

----------------------------------------------------------------------------
(* The moves of each action.                                               *)

LEMMA QuietAccounts ==
  ASSUME SameLeases({}),
         \A n \in NodeId : Registered(n)' => SameAccount(n) \/ Enrolled(n)
  PROVE  AccountsMove
  BY DEF AccountsMove, AccountsStay, SameLeases

LEMMA SameWorkersAccounts ==
  ASSUME SameLeases({}), UNCHANGED workers
  PROVE  AccountsMove
  BY QuietAccounts DEF SameAccount, Registered

LEMMA SameTasksLeases ==
  ASSUME UNCHANGED tasks
  PROVE  SameLeases({})
  BY DEF SameLeases, IsLeased

LEMMA OneTaskLeases ==
  ASSUME CoreInv, NEW t \in TaskId, NEW x, tasks' = [tasks EXCEPT ![t] = x]
  PROVE  /\ SameLeases({t})
         /\ (x.state \in LeasedStates <=> IsLeased(t)) => SameLeases({})
  <1>1. tasks'[t] = x /\ \A u \in TaskId \ {t} : tasks'[u] = tasks[u]
    BY DEF CoreInv, TypeOK
  <1> QED
    BY <1>1 DEF SameLeases, IsLeased

LEMMA RegisterAccounts ==
  ASSUME CoreInv, NEW n \in NodeId, NEW epoch \in WorkerEpoch,
         NEW offer \in Offer,
         RegisterWorker(n, epoch, offer) \/ RegisterAgain(n, epoch, offer)
  PROVE  AccountsMove
  <1>1. CASE RegisterWorker(n, epoch, offer)
    <2> DEFINE w == [state |-> "Alive", session |-> Len(sessions) + 1,
                     workerEpoch |-> epoch, offer |-> offer,
                     available |-> offer.total, free |-> offer.slots,
                     lease |-> LeaseMs]
    <2>1. workers'[n] = w /\ \A m \in NodeId \ {n} : workers'[m] = workers[m]
      BY <1>1 DEF RegisterWorker, CoreInv, TypeOK
    <2>2. Enrolled(n)
      BY <1>1, <2>1 DEF RegisterWorker, MayRegister, Enrolled
    <2>3. \A m \in NodeId : Registered(m)' => SameAccount(m) \/ Enrolled(m)
      BY <2>1, <2>2 DEF SameAccount, Registered
    <2> QED
      BY <1>1, <2>3, SameTasksLeases, QuietAccounts DEF RegisterWorker
  <1>2. CASE RegisterAgain(n, epoch, offer)
    <2>1. workers'[n] = [workers[n] EXCEPT !.lease = LeaseMs]
          /\ \A m \in NodeId \ {n} : workers'[m] = workers[m]
      BY <1>2 DEF RegisterAgain, CoreInv, TypeOK
    <2>2. workers[n] \in Worker /\ Registered(n)
      BY <1>2 DEF RegisterAgain, Registered, CoreInv, TypeOK, NoWorker
    <2>3. \A m \in NodeId : Registered(m)' => SameAccount(m)
      BY <2>1, <2>2 DEF SameAccount, Registered, Worker
    <2> QED
      BY <1>2, <2>3, SameTasksLeases, QuietAccounts DEF RegisterAgain
  <1> QED
    BY <1>1, <1>2

LEMMA SessionAccounts ==
  ASSUME CoreInv, NEW s \in DOMAIN sessions, Heartbeat(s) \/ Drain(s)
  PROVE  AccountsMove
  <1> DEFINE n == sessions[s]
  <1>1. n \in NodeId /\ Registered(n) /\ UNCHANGED tasks
    BY DEF Heartbeat, Drain, CheckIdentity, CoreInv, TypeOK
  <1>2. workers[n] \in Worker
    BY <1>1 DEF Registered, CoreInv, TypeOK, NoWorker
  <1>3. /\ \/ workers'[n] = [workers[n] EXCEPT !.lease = LeaseMs]
           \/ workers'[n] = [workers[n] EXCEPT !.state = "Draining"]
        /\ \A m \in NodeId \ {n} : workers'[m] = workers[m]
    BY <1>1 DEF Heartbeat, Drain, CoreInv, TypeOK
  <1> HIDE DEF n
  <1>4. \A m \in NodeId : Registered(m)' => SameAccount(m)
    BY <1>1, <1>2, <1>3 DEF SameAccount, Registered, Worker
  <1> QED
    BY <1>1, <1>4, SameTasksLeases, QuietAccounts

LEMMA PollAssignAccounts ==
  ASSUME CoreInv, CoreInv', NEW s \in DOMAIN sessions, PollAssign(s)
  PROVE  AccountsMove
  <1> DEFINE n == sessions[s]
  <1>1. PICK end \in 0..Len(runnable), i \in DOMAIN runnable :
          Picks(n, end, i) /\ Assign(n, runnable[i])
    BY DEF PollAssign
  <1> DEFINE t == runnable[i]
             ses == workers[n].session
             x == [tasks[t] EXCEPT !.state = "Assigned", !.attempt = @ + 1,
                     !.assigned = [node |-> n, session |-> ses]]
             w == [workers[n] EXCEPT !.free = @ - 1,
                     !.available = Subtract(@, tasks[t].resources)]
  <1>2. /\ n \in NodeId /\ workers[n] \in Worker /\ Registered(n)
        /\ workers[n].free > 0
    BY DEF PollAssign, CanTake, CheckIdentity, Registered, CoreInv, TypeOK,
       NoWorker
  <1>3. /\ t \in TaskId /\ tasks[t] \in Task /\ tasks[t].state = "Runnable"
        /\ CanFit(workers[n].available, tasks[t].resources)
    BY <1>1 DEF CoreInv, TypeOK, Picks, Servable, Serves, Runs, NoTask, Fits
  <1>4. /\ tasks' = [tasks EXCEPT ![t] = x] /\ tasks'[t] = x
        /\ workers'[n] = w /\ \A m \in NodeId \ {n} : workers'[m] = workers[m]
    BY <1>1, <1>2, <1>3 DEF Assign, CoreInv, TypeOK
  <1>5. /\ x.state = "Assigned" /\ x.attempt = tasks[t].attempt + 1
        /\ SameJob(tasks[t], x) /\ x.assigned.node = n
    BY <1>3 DEF Task, SameJob
  <1>6. /\ w.offer = workers[n].offer /\ w.free = workers[n].free - 1
        /\ w.available = Subtract(workers[n].available, tasks[t].resources)
    BY <1>2 DEF Worker
  <1> HIDE DEF x, w, t, n
  <1>7. SameLeases({t})
    BY <1>3, <1>4, OneTaskLeases
  <1>8. Takes(n, t)
    BY <1>2, <1>3, <1>4, <1>5, <1>6, <1>7 DEF Takes, Leased
  <1> QED
    BY <1>2, <1>3, <1>8 DEF AccountsMove

\* A report that ends a lease gives the task back to the books.
LEMMA ReportAccounts ==
  ASSUME CoreInv, NEW g \in grants, CheckFence(g), IsLeased(g.task),
         workers' = Release(g.node, g.task),
         SameLeases({g.task}), ~IsLeased(g.task)'
  PROVE  AccountsMove /\ GivesBack(g.node, g.task)
  <1> DEFINE t == g.task
             n == g.node
             w == [workers[n] EXCEPT !.free = @ + 1,
                     !.available = Add(@, tasks[t].resources)]
  <1>1. /\ t \in TaskId /\ n \in NodeId /\ Registered(n)
        /\ tasks[t].assigned.node = n
    BY DEF CheckFence, CheckIdentity, CoreInv, TypeOK, Grant
  <1>2. workers[n] \in Worker
    BY <1>1 DEF Registered, CoreInv, TypeOK, NoWorker
  <1>3. workers'[n] = w /\ \A m \in NodeId \ {n} : workers'[m] = workers[m]
    BY <1>1 DEF Release, CoreInv, TypeOK
  <1>4. /\ w.offer = workers[n].offer /\ w.free = workers[n].free + 1
        /\ w.available = Add(workers[n].available, tasks[t].resources)
        /\ w.state = workers[n].state
    BY <1>2 DEF Worker
  <1> HIDE DEF w
  <1>5. GivesBack(n, t)
    BY <1>1, <1>3, <1>4 DEF GivesBack, Registered
  <1> QED
    BY <1>1, <1>5 DEF AccountsMove

----------------------------------------------------------------------------
(* What a step may do to the queue, when it does not scan it.              *)

\* The sequence names each member of A once and nothing else.
Lists(add, A) ==
  /\ add \in Seq(TaskId)
  /\ \A i \in DOMAIN add : add[i] \in A
  /\ \A t \in A : \E i \in DOMAIN add : add[i] = t
  /\ \A i, j \in DOMAIN add : i # j => add[i] # add[j]

NewlyRunnable == {t \in TaskId : Runs(t)' /\ ~Runs(t)}

\* The tasks that have become runnable join the queue's tail, and no task is
\* handed out.
QueueGrows ==
  /\ \E add : runnable' = runnable \o add /\ Lists(add, NewlyRunnable)
  /\ \A t \in TaskId : ~Leased(t)

LEMMA SetInOrder ==
  ASSUME NEW A, A \subseteq TaskId, NEW order \in SetToSeqs(A)
  PROVE  Lists(order, A)
  <1>1. IsFiniteSet(A) /\ Cardinality(A) \in Nat
    BY FiniteIds, FS_Subset, FS_CardinalityType
  <1> DEFINE D == 1..Cardinality(A)
  <1>2. /\ order \in [D -> A] /\ DOMAIN order = D
        /\ \A i, j \in D : i # j => order[i] # order[j]
    BY DEF SetToSeqs
  <1>3. IsFiniteSet(D) /\ Cardinality(D) = Cardinality(A)
    BY <1>1, FS_Interval
  <1>4. order \in Injection(D, A)
    BY <1>2 DEF Injection, IsInjective
  <1>5. order \in Surjection(D, A)
    BY <1>1, <1>3, <1>4, FS_Injection
  <1>6. order \in Seq(TaskId)
    BY OrderType
  <1> QED
    BY <1>2, <1>5, <1>6 DEF Lists, Surjection

LEMMA ListsTwo ==
  ASSUME NEW a, NEW b, NEW A, NEW B, Lists(a, A), Lists(b, B), A \cap B = {}
  PROVE  Lists(a \o b, A \cup B)
  <1> DEFINE c == a \o b
  <1>1. /\ a \in Seq(TaskId) /\ b \in Seq(TaskId) /\ c \in Seq(TaskId)
        /\ Len(a) \in Nat /\ Len(b) \in Nat /\ Len(c) = Len(a) + Len(b)
        /\ DOMAIN a = 1..Len(a) /\ DOMAIN b = 1..Len(b) /\ DOMAIN c = 1..Len(c)
    BY DEF Lists
  <1>2. \A i \in DOMAIN c : \/ i \in DOMAIN a /\ c[i] = a[i]
                            \/ i - Len(a) \in DOMAIN b /\ c[i] = b[i - Len(a)]
    BY <1>1
  <1>3. /\ \A i \in DOMAIN a : i \in DOMAIN c /\ c[i] = a[i]
        /\ \A i \in DOMAIN b : i + Len(a) \in DOMAIN c /\ c[i + Len(a)] = b[i]
    BY <1>1
  <1> HIDE DEF c
  <1>4. /\ \A i \in DOMAIN a : a[i] \in A
        /\ \A i \in DOMAIN b : b[i] \in B
        /\ \A t \in A : \E i \in DOMAIN a : a[i] = t
        /\ \A t \in B : \E i \in DOMAIN b : b[i] = t
        /\ \A i, j \in DOMAIN a : i # j => a[i] # a[j]
        /\ \A i, j \in DOMAIN b : i # j => b[i] # b[j]
    BY DEF Lists
  <1>5. \A i \in DOMAIN c : c[i] \in A \cup B
    BY <1>2, <1>4
  <1>6. \A t \in A \cup B : \E i \in DOMAIN c : c[i] = t
    BY <1>3, <1>4
  <1>7. \A i, j \in DOMAIN c : i # j => c[i] # c[j]
    <2> SUFFICES ASSUME NEW i \in DOMAIN c, NEW j \in DOMAIN c, i # j,
                        c[i] = c[j]
                 PROVE  FALSE
      OBVIOUS
    <2>1. i \in Nat /\ j \in Nat
      BY <1>1
    <2>2. CASE i \in DOMAIN a /\ c[i] = a[i]
      BY <1>2, <1>4, <2>2
    <2>3. CASE i - Len(a) \in DOMAIN b /\ c[i] = b[i - Len(a)]
      <3>1. ~(j \in DOMAIN a /\ c[j] = a[j])
        BY <1>4, <2>3
      <3>2. j - Len(a) \in DOMAIN b /\ c[j] = b[j - Len(a)]
        BY <1>2, <3>1
      <3>3. i - Len(a) # j - Len(a)
        BY <1>1, <2>1
      <3> QED
        BY <1>4, <2>3, <3>2, <3>3
    <2> QED
      BY <1>2, <2>2, <2>3
  <1> QED
    BY <1>1, <1>5, <1>6, <1>7 DEF Lists, c

LEMMA ListsNone ==
  ASSUME NEW A, A = {}
  PROVE  Lists(<<>>, A)
  BY DEF Lists

LEMMA ListsOne ==
  ASSUME NEW t \in TaskId
  PROVE  Lists(<<t>>, {t})
  BY DEF Lists

\* No task becomes runnable or is handed out, and the queue is left alone.
LEMMA QuietQueue ==
  ASSUME CoreInv, UNCHANGED runnable,
         \A t \in TaskId : /\ Runs(t)' => Runs(t)
                           /\ Runs(t) => tasks'[t].state # "Assigned"
  PROVE  QueueGrows
  <1>1. runnable' = runnable \o <<>>
    BY DEF CoreInv, TypeOK
  <1>2. NewlyRunnable = {}
    BY DEF NewlyRunnable
  <1>3. Lists(<<>>, NewlyRunnable)
    BY <1>2, ListsNone
  <1> QED
    BY <1>1, <1>3 DEF QueueGrows, Leased, Runs

LEMMA SameTasksQueue ==
  ASSUME CoreInv, UNCHANGED <<tasks, runnable>>
  PROVE  QueueGrows
  BY QuietQueue DEF Runs

----------------------------------------------------------------------------
(* The moves of the remaining actions.                                     *)

\* A step that keeps both books.
BooksMove == AccountsMove /\ QueueGrows

\* Reconciliation only moves waiting tasks, and readies the ones it queues.
LEMMA ReconciledStates ==
  ASSUME NEW T \in Tasks, NEW O, NEW W,
         \A t \in W : t \in TaskId /\ T[t].state = "Waiting",
         NEW T2, T2 = TasksReconciled(T, O, W), NEW t \in TaskId
  PROVE  /\ t \in ReadyWaiters(T, O, W) =>
              T[t].state = "Waiting" /\ T2[t].state = "Runnable"
         /\ t \notin ReadyWaiters(T, O, W) =>
              \/ T2[t] = T[t]
              \/ T[t].state = "Waiting" /\ T2[t].state = "Failed"
  <1> DEFINE F == FailedWaiters(T, O, W)
             R == ReadyWaiters(T, O, W)
  <1>1. F \subseteq W /\ R \subseteq W /\ F \cap R = {}
    BY DEF FailedWaiters, ReadyWaiters
  <1>2. T2[t] = IF t \in F THEN [T[t] EXCEPT !.state = "Failed"]
                ELSE IF t \in R THEN [T[t] EXCEPT !.state = "Runnable"]
                ELSE T[t]
    BY DEF TasksReconciled
  <1>3. t \in W => T[t] \in Task
    BY DEF Tasks, NoTask
  <1> HIDE DEF F, R
  <1>4. \A s : t \in W => [T[t] EXCEPT !.state = s].state = s
    BY <1>3 DEF Task
  <1> QED
    BY <1>1, <1>2, <1>4 DEF R

\* The end of a live task.
LEMMA EndBooks ==
  ASSUME CoreInv, NEW t \in TaskId, Live(t), NEW s \in TerminalStates,
         NEW O, NEW W, W = waiting \ {t},
         Reconcile(EndedTasks(t, s), O, W, runnable)
  PROVE  /\ QueueGrows /\ SameLeases({t}) /\ ~IsLeased(t)'
         /\ tasks'[t].state = s
  <1> DEFINE T == EndedTasks(t, s)
             R == ReadyWaiters(T, O, W)
  <1>1. /\ tasks \in Tasks /\ tasks[t] \in Task
        /\ \A u \in waiting : u \in TaskId /\ tasks[u].state = "Waiting"
    BY DEF CoreInv, TypeOK, IndexesExact, Tasks, Live, LiveStates, NoTask
  <1>2. Ended(tasks[t], s) \in Task /\ Ended(tasks[t], s).state = s
    BY <1>1, TaskUpdates DEF Ended, Task
  <1>3. /\ T \in Tasks /\ T[t].state = s
        /\ \A u \in TaskId \ {t} : T[u] = tasks[u]
    BY <1>1, <1>2 DEF Tasks, EndedTasks
  <1>4. \A u \in W : u \in TaskId /\ T[u].state = "Waiting"
    BY <1>1, <1>3
  <1>5. PICK order \in SetToSeqs(R) : runnable' = runnable \o order
    BY DEF Reconcile
  <1>6. tasks' = TasksReconciled(T, O, W)
    BY DEF Reconcile
  <1>7. R \subseteq TaskId
    BY <1>4 DEF ReadyWaiters
  <1> HIDE DEF T
  <1>8. \A u \in TaskId :
          /\ u \in R => T[u].state = "Waiting" /\ tasks'[u].state = "Runnable"
          /\ u \notin R => \/ tasks'[u] = T[u]
                           \/ T[u].state = "Waiting" /\ tasks'[u].state = "Failed"
    BY <1>3, <1>4, <1>6, ReconciledStates
  <1> HIDE DEF R
  <1>9. tasks'[t].state = s
    BY <1>3, <1>8 DEF TerminalStates
  <1>10. NewlyRunnable = R
    BY <1>3, <1>7, <1>8, <1>9 DEF NewlyRunnable, Runs, TerminalStates
  <1>11. \A u \in TaskId : ~Leased(u)
    BY <1>3, <1>8, <1>9 DEF Leased, TerminalStates
  <1>12. QueueGrows
    BY <1>5, <1>7, <1>10, <1>11, SetInOrder DEF QueueGrows
  <1>13. SameLeases({t}) /\ ~IsLeased(t)'
    BY <1>3, <1>8, <1>9 DEF SameLeases, IsLeased, LeasedStates, TerminalStates
  <1> QED
    BY <1>9, <1>12, <1>13

\* A grant's task, while it is leased, is not waiting.
LEMMA FencedTask ==
  ASSUME CoreInv, NEW g \in grants, IsLeased(g.task)
  PROVE  /\ g.task \in TaskId /\ Live(g.task) /\ tasks[g.task] \in Task
         /\ waiting = waiting \ {g.task}
  <1>1. g.task \in TaskId /\ tasks[g.task].state # "Waiting"
    BY DEF CoreInv, TypeOK, Grant, IsLeased, LeasedStates
  <1> QED
    BY <1>1 DEF CoreInv, TypeOK, IndexesExact, IsLeased, LeasedStates, Live,
       LiveStates, NoTask

\* A report that ends task g.task in state s gives it back.
LEMMA ReportedEndBooks ==
  ASSUME CoreInv, NEW g \in grants, CheckFence(g), IsLeased(g.task),
         workers' = Release(g.node, g.task), NEW s \in TerminalStates, NEW O,
         Reconcile(EndedTasks(g.task, s), O, waiting, runnable)
  PROVE  /\ BooksMove /\ GivesBack(g.node, g.task)
         /\ tasks'[g.task].state = s
  <1> DEFINE t == g.task
  <1>1. /\ t \in TaskId /\ Live(t) /\ waiting = waiting \ {t}
        /\ Reconcile(EndedTasks(t, s), O, waiting, runnable)
    BY FencedTask
  <1> HIDE DEF t
  <1>2. QueueGrows /\ SameLeases({t}) /\ ~IsLeased(t)' /\ tasks'[t].state = s
    BY <1>1, EndBooks
  <1>3. AccountsMove /\ GivesBack(g.node, t)
    BY <1>2, ReportAccounts DEF t
  <1> QED
    BY <1>2, <1>3 DEF BooksMove, t

LEMMA CompleteBooks ==
  ASSUME CoreInv, NEW g \in grants, NEW codec, NEW inline,
         Complete(g, codec, inline)
  PROVE  BooksMove /\ GivesBack(g.node, g.task)
  <1>1. CheckFence(g) /\ IsLeased(g.task) /\ workers' = Release(g.node, g.task)
    BY DEF Complete, Accepts, IsLeased, LeasedStates
  <1>2. PICK O : Reconcile(EndedTasks(g.task, "Succeeded"), O, waiting, runnable)
    BY DEF Complete, EndedTasks
  <1> QED
    BY <1>1, <1>2, ReportedEndBooks DEF TerminalStates

LEMMA FailFinallyBooks ==
  ASSUME CoreInv, NEW g \in grants, NEW transient, FailFinally(g, transient)
  PROVE  /\ BooksMove /\ GivesBack(g.node, g.task)
         /\ tasks'[g.task].state = "Failed"
  <1>1. CheckFence(g) /\ IsLeased(g.task) /\ workers' = Release(g.node, g.task)
    BY DEF FailFinally, Accepts, IsLeased, LeasedStates
  <1>2. PICK O : Reconcile(EndedTasks(g.task, "Failed"), O, waiting, runnable)
    BY DEF FailFinally, EndedTasks
  <1> QED
    BY <1>1, <1>2, ReportedEndBooks DEF TerminalStates

LEMMA AcknowledgeCancelBooks ==
  ASSUME CoreInv, NEW g \in grants, AcknowledgeCancel(g)
  PROVE  /\ BooksMove /\ GivesBack(g.node, g.task)
         /\ tasks'[g.task].state = "Cancelled"
  <1>1. CheckFence(g) /\ IsLeased(g.task) /\ workers' = Release(g.node, g.task)
    BY DEF AcknowledgeCancel, IsLeased, LeasedStates
  <1>2. PICK O : Reconcile(EndedTasks(g.task, "Cancelled"), O, waiting, runnable)
    BY DEF AcknowledgeCancel, EndedTasks
  <1> QED
    BY <1>1, <1>2, ReportedEndBooks DEF TerminalStates

LEMMA CancelUnleasedBooks ==
  ASSUME CoreInv, NEW t \in TaskId, CancelUnleased(t)
  PROVE  BooksMove
  <1>1. Live(t) /\ tasks[t].assigned = Unassigned /\ UNCHANGED workers
    BY DEF CancelUnleased
  <1>2. ~IsLeased(t)
    <2>1. tasks[t].assigned.node \notin NodeId
      BY <1>1, ConstantsDiffer DEF Unassigned
    <2> QED
      BY <2>1 DEF CoreInv, LeasesAreCurrent, IsLeased, LeasedStates
  <1>3. PICK O : Reconcile(EndedTasks(t, "Cancelled"), O, waiting \ {t}, runnable)
    BY DEF CancelUnleased, EndedTasks
  <1>4. QueueGrows /\ SameLeases({t}) /\ ~IsLeased(t)'
    BY <1>1, <1>3, EndBooks DEF TerminalStates
  <1>5. SameLeases({})
    BY <1>2, <1>4 DEF SameLeases
  <1> QED
    BY <1>1, <1>4, <1>5, SameWorkersAccounts DEF BooksMove

LEMMA FailRetryBooks ==
  ASSUME CoreInv, NEW g \in grants, FailRetry(g)
  PROVE  /\ BooksMove /\ GivesBack(g.node, g.task)
         /\ tasks'[g.task].state = "Runnable"
  <1> DEFINE t == g.task
             x == Retried(tasks[t])
  <1>1. /\ CheckFence(g) /\ IsLeased(t) /\ workers' = Release(g.node, t)
        /\ runnable' = Append(runnable, t)
    BY DEF FailRetry, Accepts, IsLeased, LeasedStates
  <1>2. t \in TaskId /\ tasks[t] \in Task
    BY <1>1, FencedTask
  <1>3. /\ tasks' = [tasks EXCEPT ![t] = x] /\ tasks'[t] = x
        /\ \A u \in TaskId \ {t} : tasks'[u] = tasks[u]
    BY <1>2 DEF FailRetry, CoreInv, TypeOK
  <1>4. x.state = "Runnable" /\ tasks[t].state # "Runnable"
    BY <1>1, <1>2 DEF Retried, Task, IsLeased, LeasedStates
  <1> HIDE DEF x, t
  <1>5. SameLeases({t}) /\ ~IsLeased(t)'
    BY <1>2, <1>3, <1>4, OneTaskLeases DEF IsLeased, LeasedStates
  <1>6. AccountsMove /\ GivesBack(g.node, t)
    BY <1>1, <1>5, ReportAccounts DEF t
  <1>7. NewlyRunnable = {t} /\ \A u \in TaskId : ~Leased(u)
    BY <1>2, <1>3, <1>4 DEF NewlyRunnable, Runs, Leased
  <1>8. runnable' = runnable \o <<t>>
    BY <1>1, <1>2, AppendIsConcat DEF CoreInv, TypeOK
  <1>9. QueueGrows
    BY <1>2, <1>7, <1>8, ListsOne DEF QueueGrows
  <1> QED
    BY <1>3, <1>4, <1>6, <1>9 DEF BooksMove, t

LEMMA AdvanceBooks ==
  ASSUME CoreInv, NEW t \in TaskId, NEW s \in {"Running", "CancelRequested"},
         IsLeased(t), tasks' = [tasks EXCEPT ![t].state = s],
         UNCHANGED <<workers, runnable>>
  PROVE  BooksMove
  <1> DEFINE x == [tasks[t] EXCEPT !.state = s]
  <1>1. tasks[t] \in Task
    BY DEF CoreInv, TypeOK, IsLeased, LeasedStates, NoTask
  <1>2. /\ tasks' = [tasks EXCEPT ![t] = x] /\ tasks'[t] = x
        /\ \A u \in TaskId \ {t} : tasks'[u] = tasks[u]
    BY DEF CoreInv, TypeOK
  <1>3. x.state = s
    BY <1>1 DEF Task
  <1> HIDE DEF x
  <1>4. AccountsMove
    BY <1>2, <1>3, OneTaskLeases, SameWorkersAccounts DEF LeasedStates
  <1>5. QueueGrows
    BY <1>2, <1>3, QuietQueue DEF Runs
  <1> QED
    BY <1>4, <1>5 DEF BooksMove

LEMMA StartedBooks ==
  ASSUME CoreInv, NEW g \in grants, Started(g)
  PROVE  BooksMove
  <1>1. IsLeased(g.task)
    BY DEF Started, IsLeased, LeasedStates
  <1> QED
    BY <1>1, FencedTask, AdvanceBooks DEF Started

LEMMA CancelLeasedBooks ==
  ASSUME CoreInv, NEW t \in TaskId, CancelLeased(t)
  PROVE  BooksMove
  <1>1. IsLeased(t)
    BY DEF CancelLeased, CoreInv, LeasesAreCurrent, IsLeased, Live, LiveStates
  <1> QED
    BY <1>1, AdvanceBooks DEF CancelLeased

\* Steps that leave the tasks, the queue and the workers' accounts alone.
LEMMA QuietBooks ==
  ASSUME CoreInv, UNCHANGED <<workers, tasks, runnable>>
  PROVE  BooksMove
  BY SameTasksLeases, SameWorkersAccounts, SameTasksQueue DEF BooksMove

LEMMA SubmitBooks ==
  ASSUME CoreInv, NEW t \in TaskId, NEW job \in Job,
         NEW args \in SUBSET ObjectId, Submit(t, job, args)
  PROVE  BooksMove
  <1> DEFINE waits == \E o \in args : objects[o].state = "Reserved"
             x == [state |-> IF waits THEN "Waiting" ELSE "Runnable",
                   op |-> job.op, args |-> args, resources |-> job.resources,
                   max |-> job.max, attempt |-> 0, assigned |-> Unassigned,
                   wait |-> 0, age |-> Unstamped]
  <1>1. /\ tasks' = [tasks EXCEPT ![t] = x] /\ t \notin minted
        /\ runnable' = IF waits THEN runnable ELSE Append(runnable, t)
        /\ UNCHANGED workers
    BY DEF Submit
  <1>2. /\ tasks'[t] = x /\ \A u \in TaskId \ {t} : tasks'[u] = tasks[u]
        /\ tasks[t].state = "Absent"
    BY <1>1 DEF CoreInv, TypeOK, KnownAreMinted
  <1>3. x.state = IF waits THEN "Waiting" ELSE "Runnable"
    OBVIOUS
  <1> HIDE DEF x, waits
  <1>4. AccountsMove
    BY <1>1, <1>2, <1>3, OneTaskLeases, SameWorkersAccounts DEF LeasedStates,
       IsLeased
  <1>5. QueueGrows
    <2>1. CASE waits
      BY <1>1, <1>2, <1>3, <2>1, QuietQueue DEF Runs
    <2>2. CASE ~waits
      <3>1. NewlyRunnable = {t} /\ \A u \in TaskId : ~Leased(u)
        BY <1>2, <1>3, <2>2 DEF NewlyRunnable, Runs, Leased
      <3>2. runnable' = runnable \o <<t>>
        BY <1>1, <2>2, AppendIsConcat DEF CoreInv, TypeOK
      <3> QED
        BY <3>1, <3>2, ListsOne DEF QueueGrows
    <2> QED
      BY <2>1, <2>2
  <1> QED
    BY <1>4, <1>5 DEF BooksMove

\* A step under which a task keeps its state or an ended one is dropped.
LEMMA KeptOrDropped ==
  ASSUME CoreInv, UNCHANGED runnable,
         \A t \in TaskId : \/ tasks'[t].state = tasks[t].state
                           \/ Terminal(t) /\ tasks'[t].state = "Absent"
  PROVE  SameLeases({}) /\ QueueGrows
  <1>1. SameLeases({})
    BY DEF SameLeases, IsLeased, LeasedStates, Terminal, TerminalStates
  <1>2. QueueGrows
    BY QuietQueue DEF Runs, Terminal, TerminalStates
  <1> QED
    BY <1>1, <1>2

LEMMA ReleaseObjectBooks ==
  ASSUME CoreInv, NEW o \in ObjectId, ReleaseObject(o)
  PROVE  BooksMove
  <1>1. UNCHANGED <<workers, runnable>> /\ objects[o].state \notin {"Absent", "Reserved"}
    BY DEF ReleaseObject, Releasable
  <1>2. \A t \in TaskId : tasks'[t] = IF Output(t) = o THEN NoTask ELSE tasks[t]
    BY DEF ReleaseObject, Reclaim
  <1>3. \A t \in TaskId : Output(t) = o => Terminal(t)
    <2> SUFFICES ASSUME NEW t \in TaskId, Output(t) = o PROVE Terminal(t)
      OBVIOUS
    <2>1. tasks[t].state \in LiveStates \cup TerminalStates \cup {"Absent"}
      BY DEF CoreInv, TypeOK, Task, NoTask
    <2> QED
      BY <1>1, <2>1 DEF CoreInv, OutputMatchesTask, Terminal
  <1>4. SameLeases({}) /\ QueueGrows
    BY <1>1, <1>2, <1>3, KeptOrDropped DEF NoTask
  <1> QED
    BY <1>1, <1>4, SameWorkersAccounts DEF BooksMove

LEMMA ReapBooks ==
  ASSUME CoreInv, ReapTerminalTasks
  PROVE  BooksMove
  <1> DEFINE due == {t \in TaskId : /\ Terminal(t)
                                    /\ Stamped(t).age >= TtlMs
                                    /\ Releasable(Output(t))}
  <1>1. UNCHANGED <<workers, runnable>>
    BY DEF ReapTerminalTasks
  <1>2. \A t \in TaskId : tasks'[t] = IF Output(t) \in {Output(u) : u \in due}
                                      THEN NoTask ELSE Stamped(t)
    BY DEF ReapTerminalTasks, Reclaim
  <1>3. \A t \in TaskId : Output(t) \in {Output(u) : u \in due} => Terminal(t)
    BY OutputInjective
  <1> HIDE DEF due
  <1>4. \A t \in TaskId : Stamped(t).state = tasks[t].state
    <2> SUFFICES ASSUME NEW t \in TaskId PROVE Stamped(t).state = tasks[t].state
      OBVIOUS
    <2>1. Terminal(t) => tasks[t] \in Task
      BY DEF CoreInv, TypeOK, NoTask, Terminal, TerminalStates
    <2>2. Terminal(t) => [tasks[t] EXCEPT !.age = 0].state = tasks[t].state
      BY <2>1 DEF Task
    <2> QED
      BY <2>2 DEF Stamped
  <1>5. SameLeases({}) /\ QueueGrows
    BY <1>1, <1>2, <1>3, <1>4, KeptOrDropped DEF NoTask
  <1> QED
    BY <1>1, <1>5, SameWorkersAccounts DEF BooksMove

LEMMA TickBooks ==
  ASSUME CoreInv, Tick
  PROVE  BooksMove
  <1>1. \A t \in TaskId : tasks'[t].state = tasks[t].state
    <2> SUFFICES ASSUME NEW t \in TaskId
                 PROVE  tasks'[t].state = tasks[t].state
      OBVIOUS
    <2>1. Live(t) \/ Terminal(t) => tasks[t] \in Task
      BY DEF CoreInv, TypeOK, NoTask, Live, LiveStates, Terminal,
         TerminalStates
    <2>2. tasks'[t] = IF Live(t) \/ Terminal(t)
            THEN [tasks[t] EXCEPT !.wait = Down(@), !.age = Older(@)]
            ELSE tasks[t]
      BY DEF Tick
    <2> QED
      BY <2>1, <2>2 DEF Task
  <1>2. \A n \in NodeId : Registered(n)' => SameAccount(n)
    <2> SUFFICES ASSUME NEW n \in NodeId, workers'[n].state # "Absent"
                 PROVE  SameAccount(n)
      BY DEF Registered
    <2>1. workers'[n] = IF Registered(n)
            THEN [workers[n] EXCEPT !.lease = Down(@)] ELSE workers[n]
      BY DEF Tick
    <2>2. Registered(n) /\ workers[n] \in Worker
      BY <2>1 DEF Registered, CoreInv, TypeOK, NoWorker
    <2>3. workers'[n] = [workers[n] EXCEPT !.lease = Down(@)]
      BY <2>1, <2>2
    <2> QED
      BY <2>2, <2>3 DEF SameAccount, Worker
  <1>3. SameLeases({}) /\ QueueGrows
    BY <1>1, KeptOrDropped DEF Tick
  <1> QED
    BY <1>2, <1>3, QuietAccounts DEF BooksMove

LEMMA ExpireBooks ==
  ASSUME CoreInv, ExpireWorkers
  PROVE  BooksMove
  <1> DEFINE A == {t \in Orphans : AfterExpiry(t) = "Runnable"}
             T == [t \in TaskId |->
                     IF t \in Orphans THEN ExpiredTask(t) ELSE tasks[t]]
             O == [o \in ObjectId |-> OutputAfterExpiry(o)]
             W == waiting \ A
             R == ReadyWaiters(T, O, W)
  <1>1. PICK first \in SetToSeqs(A) : Reconcile(T, O, W, runnable \o first)
    BY DEF ExpireWorkers
  <1>2. PICK rest \in SetToSeqs(R) : runnable' = (runnable \o first) \o rest
    BY <1>1 DEF Reconcile
  <1>3. tasks' = TasksReconciled(T, O, W)
    BY <1>1 DEF Reconcile
  <1>4. \A n \in NodeId :
          workers'[n] = IF n \in Expired THEN NoWorker ELSE workers[n]
    BY DEF ExpireWorkers
  <1>5. /\ \A t \in Orphans : T[t] = ExpiredTask(t)
        /\ \A t \in TaskId \ Orphans : T[t] = tasks[t]
        /\ T \in Tasks /\ IsWaitingSet(T, W)
    BY ExpiryTables
  <1>6. Orphans \subseteq TaskId /\ \A t \in Orphans :
          /\ tasks[t].state \in LeasedStates
          /\ T[t].state = AfterExpiry(t)
          /\ AfterExpiry(t) \in {"Cancelled", "Runnable", "Failed"}
    BY <1>5, OrphansEffect
  <1>7. \A t \in W : t \in TaskId /\ T[t].state = "Waiting"
    BY <1>5 DEF IsWaitingSet
  <1>8. A \subseteq TaskId /\ R \subseteq TaskId
    BY <1>6, <1>7 DEF ReadyWaiters
  <1> HIDE DEF T, O, W
  <1>9. \A u \in TaskId :
          /\ u \in R => T[u].state = "Waiting" /\ tasks'[u].state = "Runnable"
          /\ u \notin R => \/ tasks'[u] = T[u]
                           \/ T[u].state = "Waiting" /\ tasks'[u].state = "Failed"
    BY <1>3, <1>5, <1>7, ReconciledStates
  <1> HIDE DEF R
  <1>10. \A t \in Orphans : tasks'[t].state = AfterExpiry(t) /\ t \notin R
    BY <1>6, <1>9
  <1>11. \A t \in TaskId \ Orphans : T[t].state = tasks[t].state
    BY <1>5
  <1>12. A \cap R = {} /\ NewlyRunnable = A \cup R
    BY <1>6, <1>8, <1>9, <1>10, <1>11 DEF NewlyRunnable, Runs, LeasedStates
  <1>13. \A u \in TaskId : ~Leased(u)
    BY <1>6, <1>9, <1>10, <1>11 DEF Leased, LeasedStates
  <1>14. QueueGrows
    <2>1. Lists(first, A) /\ Lists(rest, R)
      BY <1>8, SetInOrder
    <2>2. Lists(first \o rest, NewlyRunnable)
      BY <1>12, <2>1, ListsTwo
    <2>3. runnable' = runnable \o (first \o rest)
      BY <1>2, <2>1, ConcatAssociative DEF Lists, CoreInv, TypeOK
    <2> QED
      BY <1>13, <2>2, <2>3 DEF QueueGrows
  <1>15. AccountsStay
    <2>1. \A n \in NodeId : Registered(n)' => SameAccount(n)
      BY <1>4 DEF Registered, SameAccount, NoWorker
    <2>2. \A t \in TaskId \ Orphans : IsLeased(t)' <=> IsLeased(t)
      BY <1>9, <1>11 DEF IsLeased, LeasedStates
    <2>3. \A t \in Orphans : IsLeased(t) /\ ~IsLeased(t)'
      BY <1>6, <1>10 DEF IsLeased, LeasedStates
    <2>4. \A t \in Orphans : workers'[tasks[t].assigned.node].state = "Absent"
      BY <1>4 DEF Orphans, AssignedTo, Expired, NoWorker
    <2> QED
      BY <1>6, <2>1, <2>2, <2>3, <2>4 DEF AccountsStay
  <1> QED
    BY <1>14, <1>15 DEF BooksMove, AccountsMove

----------------------------------------------------------------------------
(* What a scan does to the queue.                                          *)

\* The queue becomes an order of positions of the old one: each at most once,
\* not position i, and every other one that holds a runnable task.
Rescanned(i) ==
  \E len \in Nat : \E f \in [1..len -> DOMAIN runnable] :
    /\ \A a, b \in 1..len : a # b => f[a] # f[b]
    /\ \A a \in 1..len : f[a] # i
    /\ \A j \in DOMAIN runnable : j # i /\ Runs(runnable[j]) =>
         \E a \in 1..len : f[a] = j
    /\ runnable' = [a \in 1..len |-> runnable[f[a]]]

QueueScanned ==
  \/ Rescanned(0) /\ UNCHANGED tasks
  \/ \E i \in DOMAIN runnable :
       /\ Rescanned(i) /\ Leased(runnable[i])
       /\ \A t \in TaskId \ {runnable[i]} : tasks'[t] = tasks[t]

LEMMA RequeueScans ==
  ASSUME CoreInv, NEW n, NEW end, NEW i, Requeue(n, end, i)
  PROVE  Rescanned(i)
  <1> DEFINE K == Kept(n, end, i)
             len == Cardinality(K)
             D == 1..len
  <1>1. /\ K \subseteq DOMAIN runnable /\ i \notin K
        /\ \A j \in DOMAIN runnable : j # i /\ Runs(runnable[j]) => j \in K
    BY DEF Kept
  <1>2. DOMAIN runnable = 1..Len(runnable) /\ Len(runnable) \in Nat
    BY DEF CoreInv, TypeOK
  <1>3. IsFiniteSet(K)
    <2>1. IsFiniteSet(DOMAIN runnable)
      BY <1>2, FS_Interval
    <2> QED
      BY <1>1, <2>1, FS_Subset
  <1>4. len \in Nat
    BY <1>3, FS_CardinalityType
  <1>5. PICK f \in [D -> K] :
          /\ \A a, b \in DOMAIN f : a < b => Before(n, end, f[a], f[b])
          /\ runnable' = [k \in DOMAIN f |-> runnable[f[k]]]
    BY DEF Requeue
  <1> HIDE DEF K
  <1>6. \A j \in DOMAIN runnable : ~Before(n, end, j, j)
    BY <1>2 DEF Before, Rank
  <1>7. \A a, b \in D : a # b => f[a] # f[b]
    <2> SUFFICES ASSUME NEW a \in D, NEW b \in D, a # b, f[a] = f[b]
                 PROVE  FALSE
      OBVIOUS
    <2>1. a < b \/ b < a
      BY <1>4
    <2>2. Before(n, end, f[a], f[b]) \/ Before(n, end, f[b], f[a])
      BY <1>5, <2>1
    <2> QED
      BY <1>1, <1>6, <2>2
  <1>8. IsFiniteSet(D) /\ Cardinality(D) = len
    BY <1>4, FS_Interval
  <1>9. f \in Injection(D, K)
    BY <1>7 DEF Injection, IsInjective
  <1>10. f \in Surjection(D, K)
    BY <1>3, <1>8, <1>9, FS_Injection
  <1>11. \A j \in K : \E a \in D : f[a] = j
    BY <1>10 DEF Surjection
  <1>12. f \in [D -> DOMAIN runnable] /\ \A a \in D : f[a] # i
    BY <1>1
  <1> HIDE DEF len
  <1> QED
    BY <1>1, <1>4, <1>5, <1>7, <1>11, <1>12 DEF Rescanned

LEMMA PollScans ==
  ASSUME CoreInv, NEW s \in DOMAIN sessions, PollAssign(s) \/ PollEmpty(s)
  PROVE  QueueScanned
  <1>1. CASE PollEmpty(s)
    BY <1>1, RequeueScans DEF PollEmpty, QueueScanned
  <1>2. CASE PollAssign(s)
    <2> DEFINE n == sessions[s]
    <2>1. PICK end \in 0..Len(runnable), i \in DOMAIN runnable :
            /\ Picks(n, end, i) /\ Assign(n, runnable[i])
            /\ Requeue(n, end, i)
      BY <1>2 DEF PollAssign
    <2> DEFINE t == runnable[i]
               ses == workers[n].session
               x == [tasks[t] EXCEPT !.state = "Assigned", !.attempt = @ + 1,
                       !.assigned = [node |-> n, session |-> ses]]
    <2>2. t \in TaskId /\ tasks[t] \in Task /\ tasks[t].state = "Runnable"
      BY <2>1 DEF CoreInv, TypeOK, Picks, Servable, Serves, Runs, NoTask
    <2>3. tasks'[t] = x /\ \A u \in TaskId \ {t} : tasks'[u] = tasks[u]
      BY <2>1, <2>2 DEF Assign, CoreInv, TypeOK
    <2>4. /\ x.state = "Assigned" /\ x.attempt = tasks[t].attempt + 1
          /\ SameJob(tasks[t], x)
      BY <2>2 DEF Task, SameJob
    <2> HIDE DEF x
    <2>5. Leased(t)
      BY <2>2, <2>3, <2>4 DEF Leased
    <2>6. Rescanned(i)
      BY <2>1, RequeueScans
    <2> QED
      BY <2>3, <2>5, <2>6 DEF QueueScanned
  <1> QED
    BY <1>1, <1>2

----------------------------------------------------------------------------
LEMMA NextBooks ==
  ASSUME CoreInv, CoreInv', [Next]_vars
  PROVE  AccountsMove /\ (QueueGrows \/ QueueScanned)
  <1>1. CASE WorkerRequest
    <2>1. ASSUME NEW n \in NodeId, NEW epoch \in WorkerEpoch,
                 NEW offer \in Offer,
                 RegisterWorker(n, epoch, offer) \/ RegisterAgain(n, epoch, offer)
          PROVE  AccountsMove /\ QueueGrows
      <3>1. UNCHANGED <<tasks, runnable>>
        BY <2>1 DEF RegisterWorker, RegisterAgain
      <3> QED
        BY <2>1, <3>1, RegisterAccounts, SameTasksQueue
    <2>2. ASSUME NEW s \in DOMAIN sessions, Heartbeat(s) \/ Drain(s)
          PROVE  AccountsMove /\ QueueGrows
      <3>1. UNCHANGED <<tasks, runnable>>
        BY <2>2 DEF Heartbeat, Drain
      <3> QED
        BY <2>2, <3>1, SessionAccounts, SameTasksQueue
    <2>3. ASSUME NEW s \in DOMAIN sessions, PollAssign(s)
          PROVE  AccountsMove /\ QueueScanned
      BY <2>3, PollAssignAccounts, PollScans
    <2>4. ASSUME NEW s \in DOMAIN sessions, PollEmpty(s)
          PROVE  AccountsMove /\ QueueScanned
      <3>1. UNCHANGED <<workers, tasks>>
        BY <2>4 DEF PollEmpty
      <3> QED
        BY <2>4, <3>1, SameTasksLeases, SameWorkersAccounts, PollScans
    <2>5. ASSUME NEW n \in NodeId, PollDelete(n)
          PROVE  BooksMove
      BY <2>5, QuietBooks DEF PollDelete
    <2> QED
      BY <1>1, <2>1, <2>2, <2>3, <2>4, <2>5 DEF WorkerRequest, BooksMove
  <1>2. CASE TaskReport
    BY <1>2, StartedBooks, FailRetryBooks, CompleteBooks, FailFinallyBooks,
       AcknowledgeCancelBooks DEF TaskReport, BooksMove
  <1>3. CASE ClientRequest
    <2>1. ASSUME NEW o \in PutId, NEW codec \in Codec, NEW inline \in BOOLEAN,
                 Put(o, codec, inline)
          PROVE  BooksMove
      BY <2>1, QuietBooks DEF Put
    <2> QED
      BY <1>3, <2>1, SubmitBooks, CancelLeasedBooks, CancelUnleasedBooks,
         ReleaseObjectBooks DEF ClientRequest, BooksMove
  <1>4. CASE Reaper
    BY <1>4, ExpireBooks, ReapBooks, TickBooks DEF Reaper, BooksMove
  <1>5. CASE UNCHANGED vars
    BY <1>5, QuietBooks DEF vars, BooksMove
  <1> QED
    BY <1>1, <1>2, <1>3, <1>4, <1>5 DEF Next

----------------------------------------------------------------------------
(* Slots and resources.                                                    *)

LEMMA AssignedFinite ==
  ASSUME NEW n
  PROVE  IsFiniteSet(AssignedTo(n)) /\ AssignedTo(n) \subseteq TaskId
  <1>1. AssignedTo(n) \subseteq TaskId
    BY DEF AssignedTo
  <1> QED
    BY <1>1, FiniteIds, FS_Subset

\* The tasks that are assigned to a node are its leases, and a node that is
\* not registered has none.
LEMMA AssignedLeases ==
  ASSUME CoreInv, NEW n \in NodeId
  PROVE  /\ \A t \in TaskId : t \in AssignedTo(n) <=>
              IsLeased(t) /\ tasks[t].assigned.node = n
         /\ AssignedTo(n) # {} => Registered(n)
  <1>1. \A t \in TaskId : tasks[t].state # "Absent" /\ ~IsLeased(t) =>
          tasks[t].assigned.node # n
    <2>1. Unassigned.node # n
      BY ConstantsDiffer DEF Unassigned
    <2>2. \A t \in TaskId : tasks[t].state # "Absent" /\ ~IsLeased(t) =>
            tasks[t].assigned = Unassigned
      BY DEF CoreInv, LeasesAreCurrent, IsLeased
    <2> QED
      BY <2>1, <2>2
  <1>2. \A t \in TaskId : IsLeased(t) => /\ tasks[t].state # "Absent"
                                         /\ Registered(tasks[t].assigned.node)
    BY DEF CoreInv, LeasesAreCurrent, IsLeased, LeasedStates, CheckIdentity
  <1>3. \A t \in TaskId : t \in AssignedTo(n) <=>
          IsLeased(t) /\ tasks[t].assigned.node = n
    BY <1>1, <1>2 DEF AssignedTo
  <1> QED
    BY <1>2, <1>3, AssignedFinite

LEMMA AssignedLeasesNext ==
  ASSUME CoreInv', NEW n \in NodeId
  PROVE  \A t \in TaskId : t \in AssignedTo(n)' <=>
           IsLeased(t)' /\ tasks'[t].assigned.node = n
  <1>1. \A t \in TaskId : tasks'[t].state # "Absent" /\ ~IsLeased(t)' =>
          tasks'[t].assigned.node # n
    <2>1. Unassigned.node # n
      BY ConstantsDiffer DEF Unassigned
    <2>2. \A t \in TaskId : tasks'[t].state # "Absent" /\ ~IsLeased(t)' =>
            tasks'[t].assigned = Unassigned
      BY DEF CoreInv, LeasesAreCurrent, IsLeased
    <2> QED
      BY <2>1, <2>2
  <1> QED
    BY <1>1 DEF AssignedTo, IsLeased, LeasedStates

\* A task whose lease neither begins nor ends stays where it is.
LEMMA LeaseStays ==
  ASSUME CoreInv, CoreInv', StepEffect, NEW t \in TaskId, NEW n \in NodeId,
         IsLeased(t)' <=> IsLeased(t)
  PROVE  /\ t \in AssignedTo(n)' <=> t \in AssignedTo(n)
         /\ t \in AssignedTo(n) => tasks'[t].resources = tasks[t].resources
  <1>1. TaskMoves(t)
    BY DEF StepEffect, AllTasksMove
  <1>2. IsLeased(t) => /\ tasks'[t].assigned = tasks[t].assigned
                       /\ tasks'[t].resources = tasks[t].resources
    BY <1>1 DEF TaskMoves, Untouched, Submitted, Leased, Advanced, Requeued,
       Readied, Stopped, Dropped, SameRun, SameJob, IsLeased, LeasedStates,
       Terminal, TerminalStates
  <1> QED
    BY <1>2, AssignedLeases, AssignedLeasesNext

\* The units of one lease, and of one more lease.
LEMMA UnitsOfOne ==
  ASSUME NEW t, NEW r \in Nat, NEW P, P = {t} \X (1..r)
  PROVE  IsFiniteSet(P) /\ Cardinality(P) = r
  <1> DEFINE I == 1..r
  <1>1. IsFiniteSet(I) /\ Cardinality(I) = r
    BY FS_Interval
  <1>2. IsFiniteSet({t}) /\ Cardinality({t}) = 1
    BY FS_Singleton
  <1> HIDE DEF I
  <1>3. /\ IsFiniteSet({t} \X I)
        /\ Cardinality({t} \X I) = Cardinality({t}) * Cardinality(I)
    BY <1>1, <1>2, FS_Product
  <1>4. Cardinality({t} \X I) = r
    BY <1>1, <1>2, <1>3
  <1>5. P = {t} \X I
    BY DEF I
  <1> QED
    BY <1>3, <1>4, <1>5, Zenon

LEMMA UnitsCount ==
  ASSUME NEW U, IsFiniteSet(U), NEW t, NEW r \in Nat,
         U \cap ({t} \X (1..r)) = {}, NEW V, V = U \cup ({t} \X (1..r))
  PROVE  IsFiniteSet(V) /\ Cardinality(V) = Cardinality(U) + r
  <1> DEFINE P == {t} \X (1..r)
  <1>1. U \cap P = {} /\ V = U \cup P /\ P = {t} \X (1..r)
    OBVIOUS
  <1> HIDE DEF P
  <1>2. IsFiniteSet(P) /\ Cardinality(P) = r
    BY <1>1, UnitsOfOne
  <1>3. Cardinality({}) = 0 /\ Cardinality(U) \in Nat
    BY FS_EmptySet, FS_CardinalityType
  <1> QED
    BY <1>1, <1>2, <1>3, FS_Union

LEMMA UnitsStay ==
  ASSUME NEW n, NEW k, AssignedTo(n)' = AssignedTo(n),
         \A t \in AssignedTo(n) : tasks'[t].resources = tasks[t].resources
  PROVE  UnitsHeld(n, k)' = UnitsHeld(n, k)
  BY DEF UnitsHeld

LEMMA UnitsTaken ==
  ASSUME NEW n, NEW k, NEW t, t \notin AssignedTo(n),
         AssignedTo(n)' = AssignedTo(n) \cup {t},
         \A u \in AssignedTo(n)' : tasks'[u].resources = tasks[u].resources,
         tasks[t].resources[k] \in Nat, IsFiniteSet(UnitsHeld(n, k))
  PROVE  /\ IsFiniteSet(UnitsHeld(n, k)')
         /\ Cardinality(UnitsHeld(n, k)')
              = Cardinality(UnitsHeld(n, k)) + tasks[t].resources[k]
  <1> DEFINE r == tasks[t].resources[k]
             U == UnitsHeld(n, k)
             V == UnitsHeld(n, k)'
  <1>1. V = U \cup ({t} \X (1..r)) /\ U \cap ({t} \X (1..r)) = {}
    BY DEF UnitsHeld
  <1>2. IsFiniteSet(U) /\ r \in Nat
    OBVIOUS
  <1> HIDE DEF r, U, V
  <1>3. IsFiniteSet(V) /\ Cardinality(V) = Cardinality(U) + r
    BY <1>1, <1>2, UnitsCount
  <1> QED
    BY <1>3 DEF r, U, V

LEMMA UnitsReturned ==
  ASSUME NEW n, NEW k, NEW t \in AssignedTo(n),
         AssignedTo(n)' = AssignedTo(n) \ {t},
         \A u \in AssignedTo(n)' : tasks'[u].resources = tasks[u].resources,
         tasks[t].resources[k] \in Nat, IsFiniteSet(UnitsHeld(n, k))
  PROVE  /\ IsFiniteSet(UnitsHeld(n, k)')
         /\ Cardinality(UnitsHeld(n, k))
              = Cardinality(UnitsHeld(n, k)') + tasks[t].resources[k]
  <1> DEFINE r == tasks[t].resources[k]
             U == UnitsHeld(n, k)'
             V == UnitsHeld(n, k)
  <1>1. V = U \cup ({t} \X (1..r)) /\ U \cap ({t} \X (1..r)) = {}
    BY DEF UnitsHeld
  <1>2. IsFiniteSet(V) /\ r \in Nat
    OBVIOUS
  <1> HIDE DEF r, U, V
  <1>3. IsFiniteSet(U)
    BY <1>1, <1>2, FS_Subset
  <1>4. Cardinality(V) = Cardinality(U) + r
    BY <1>1, <1>2, <1>3, UnitsCount
  <1> QED
    BY <1>3, <1>4 DEF r, U, V

\* The account of one node balances.
Balanced(n) ==
  /\ workers[n].free + Cardinality(AssignedTo(n)) = workers[n].offer.slots
  /\ \A k \in ResourceKind :
       /\ IsFiniteSet(UnitsHeld(n, k))
       /\ workers[n].available[k] + Cardinality(UnitsHeld(n, k))
            = workers[n].offer.total[k]

BooksBalance == \A n \in NodeId : Registered(n) => Balanced(n)

LEMMA RegisteredWorker ==
  ASSUME CoreInv, NEW n \in NodeId, Registered(n)
  PROVE  /\ workers[n].free \in Nat /\ workers[n].offer.slots \in Nat
         /\ \A k \in ResourceKind : /\ workers[n].available[k] \in Nat
                                    /\ workers[n].offer.total[k] \in Nat
  <1>1. workers[n] \in Worker
    BY DEF CoreInv, TypeOK, Registered, NoWorker
  <1>2. workers[n].offer \in [slots : Nat \ {0}, total : ResourceSet, ops : OpTable]
    BY <1>1, OffersAndJobs DEF Worker
  <1> QED
    BY <1>1, <1>2 DEF Worker, ResourceSet

LEMMA TaskResources ==
  ASSUME CoreInv, NEW t \in TaskId, tasks[t].state # "Absent",
         NEW k \in ResourceKind
  PROVE  tasks[t].resources[k] \in Nat
  BY KnownTask DEF Task, ResourceSet

LEMMA StayBalanced ==
  ASSUME CoreInv, CoreInv', StepEffect, NEW n \in NodeId, Balanced(n),
         SameAccount(n),
         \A t \in TaskId : t \in AssignedTo(n) \/ t \in AssignedTo(n)' =>
                             (IsLeased(t)' <=> IsLeased(t))
  PROVE  Balanced(n)'
  <1>1. \A t \in TaskId :
          /\ t \in AssignedTo(n)' <=> t \in AssignedTo(n)
          /\ t \in AssignedTo(n) => tasks'[t].resources = tasks[t].resources
    BY LeaseStays
  <1>2. AssignedTo(n)' = AssignedTo(n)
    BY <1>1 DEF AssignedTo
  <1>3. \A k : UnitsHeld(n, k)' = UnitsHeld(n, k)
    BY <1>1, <1>2, AssignedFinite, UnitsStay
  <1> QED
    BY <1>2, <1>3 DEF Balanced, SameAccount

LEMMA EnrolledBalanced ==
  ASSUME CoreInv, CoreInv', StepEffect, NEW n \in NodeId, Enrolled(n),
         Registered(n)', \A t \in TaskId : IsLeased(t)' => IsLeased(t)
  PROVE  Balanced(n)'
  <1>1. AssignedTo(n) = {}
    BY AssignedLeases DEF Enrolled
  <1>2. \A t \in TaskId : t \notin AssignedTo(n)'
    BY <1>1, LeaseStays, AssignedLeasesNext
  <1>3. AssignedTo(n)' = {}
    BY <1>2 DEF AssignedTo
  <1>4. \A k : UnitsHeld(n, k)' = {}
    BY <1>3 DEF UnitsHeld
  <1>5. /\ workers'[n].offer.slots \in Nat
        /\ \A k \in ResourceKind : workers'[n].offer.total[k] \in Nat
    <2>1. workers'[n] \in Worker
      BY DEF CoreInv, TypeOK, Registered, NoWorker
    <2>2. workers'[n].offer \in
            [slots : Nat \ {0}, total : ResourceSet, ops : OpTable]
      BY <2>1, OffersAndJobs DEF Worker
    <2> QED
      BY <2>2 DEF ResourceSet
  <1>6. IsFiniteSet({}) /\ Cardinality({}) = 0
    BY FS_EmptySet
  <1>7. (workers[n].free + Cardinality(AssignedTo(n)) = workers[n].offer.slots)'
    BY <1>3, <1>5, <1>6 DEF Enrolled
  <1>8. ASSUME NEW k \in ResourceKind
        PROVE  Balanced(n)!2!(k)'
    <2>1. workers'[n].available[k] = workers'[n].offer.total[k]
      BY DEF Enrolled
    <2> QED
      BY <1>4, <1>5, <1>6, <2>1
  <1> QED
    BY <1>7, <1>8 DEF Balanced

LEMMA TakesBalanced ==
  ASSUME CoreInv, CoreInv', StepEffect, NEW n \in NodeId, NEW t \in TaskId,
         Takes(n, t), Balanced(n)
  PROVE  Balanced(n)'
  <1>1. /\ tasks[t].state # "Absent" /\ ~IsLeased(t) /\ IsLeased(t)'
        /\ tasks'[t].resources = tasks[t].resources
    BY DEF Takes, Leased, IsLeased, LeasedStates, SameJob
  <1>2. t \notin AssignedTo(n) /\ t \in AssignedTo(n)'
    BY <1>1, AssignedLeases, AssignedLeasesNext DEF Takes
  <1>3. \A u \in TaskId \ {t} :
          /\ u \in AssignedTo(n)' <=> u \in AssignedTo(n)
          /\ u \in AssignedTo(n) => tasks'[u].resources = tasks[u].resources
    BY LeaseStays DEF Takes, SameLeases
  <1>4. AssignedTo(n)' = AssignedTo(n) \cup {t}
    BY <1>2, <1>3 DEF AssignedTo
  <1>5. \A u \in AssignedTo(n)' : tasks'[u].resources = tasks[u].resources
    BY <1>1, <1>3, <1>4, AssignedFinite
  <1>6. Cardinality(AssignedTo(n)') = Cardinality(AssignedTo(n)) + 1
    BY <1>2, <1>4, AssignedFinite, FS_AddElement
  <1>7. Cardinality(AssignedTo(n)) \in Nat
    BY AssignedFinite, FS_CardinalityType
  <1>8. Registered(n) /\ workers[n].free \in Nat
    BY RegisteredWorker DEF Takes
  <1>9. ASSUME NEW k \in ResourceKind
        PROVE  Balanced(n)!2!(k)'
    <2>1. /\ IsFiniteSet(UnitsHeld(n, k)')
          /\ Cardinality(UnitsHeld(n, k)')
               = Cardinality(UnitsHeld(n, k)) + tasks[t].resources[k]
      BY <1>1, <1>2, <1>4, <1>5, TaskResources, UnitsTaken DEF Balanced
    <2>2. /\ Cardinality(UnitsHeld(n, k)) \in Nat
          /\ tasks[t].resources[k] \in Nat /\ workers[n].available[k] \in Nat
      BY <1>1, <1>8, TaskResources, RegisteredWorker, FS_CardinalityType
         DEF Balanced
    <2>3. workers'[n].available[k]
            = workers[n].available[k] - tasks[t].resources[k]
      BY DEF Takes, Subtract
    <2> QED
      BY <2>1, <2>2, <2>3 DEF Takes, Balanced
  <1> QED
    BY <1>6, <1>7, <1>8, <1>9 DEF Takes, Balanced

LEMMA GivesBackBalanced ==
  ASSUME CoreInv, CoreInv', StepEffect, NEW n \in NodeId, NEW t \in TaskId,
         GivesBack(n, t), Balanced(n)
  PROVE  Balanced(n)'
  <1>1. tasks[t].state # "Absent" /\ IsLeased(t) /\ ~IsLeased(t)'
    BY DEF GivesBack, IsLeased, LeasedStates
  <1>2. t \in AssignedTo(n) /\ t \notin AssignedTo(n)'
    BY <1>1, AssignedLeases, AssignedLeasesNext DEF GivesBack
  <1>3. \A u \in TaskId \ {t} :
          /\ u \in AssignedTo(n)' <=> u \in AssignedTo(n)
          /\ u \in AssignedTo(n) => tasks'[u].resources = tasks[u].resources
    BY LeaseStays DEF GivesBack, SameLeases
  <1>4. AssignedTo(n)' = AssignedTo(n) \ {t}
    BY <1>2, <1>3 DEF AssignedTo
  <1>5. \A u \in AssignedTo(n)' : tasks'[u].resources = tasks[u].resources
    BY <1>3, <1>4, AssignedFinite
  <1>6. Cardinality(AssignedTo(n)') = Cardinality(AssignedTo(n)) - 1
    BY <1>2, <1>4, AssignedFinite, FS_RemoveElement
  <1>7. Cardinality(AssignedTo(n)) \in Nat
    BY AssignedFinite, FS_CardinalityType
  <1>8. Registered(n) /\ workers[n].free \in Nat
    BY RegisteredWorker DEF GivesBack
  <1>9. ASSUME NEW k \in ResourceKind
        PROVE  Balanced(n)!2!(k)'
    <2>1. /\ IsFiniteSet(UnitsHeld(n, k)')
          /\ Cardinality(UnitsHeld(n, k))
               = Cardinality(UnitsHeld(n, k)') + tasks[t].resources[k]
      BY <1>1, <1>2, <1>4, <1>5, TaskResources, UnitsReturned DEF Balanced
    <2>2. /\ Cardinality(UnitsHeld(n, k)') \in Nat
          /\ tasks[t].resources[k] \in Nat /\ workers[n].available[k] \in Nat
      BY <1>1, <1>8, <2>1, TaskResources, RegisteredWorker, FS_CardinalityType
    <2>3. workers'[n].available[k]
            = workers[n].available[k] + tasks[t].resources[k]
      BY DEF GivesBack, Add
    <2> QED
      BY <2>1, <2>2, <2>3 DEF GivesBack, Balanced
  <1> QED
    BY <1>6, <1>7, <1>8, <1>9 DEF GivesBack, Balanced

LEMMA BalanceStep ==
  ASSUME CoreInv, CoreInv', StepEffect, AccountsMove, BooksBalance
  PROVE  BooksBalance'
  <1> SUFFICES ASSUME NEW n \in NodeId, Registered(n)' PROVE Balanced(n)'
    BY DEF BooksBalance
  <1>1. CASE AccountsStay
    <2>1. CASE SameAccount(n)
      <3>1. Balanced(n)
        BY <2>1 DEF SameAccount, BooksBalance
      <3>2. \A t \in TaskId : t \in AssignedTo(n) \/ t \in AssignedTo(n)' =>
              (IsLeased(t)' <=> IsLeased(t))
        BY <1>1, AssignedLeases, AssignedLeasesNext DEF AccountsStay, Registered
      <3> QED
        BY <2>1, <3>1, <3>2, StayBalanced
    <2>2. CASE Enrolled(n)
      <3>1. \A t \in TaskId : IsLeased(t)' => IsLeased(t)
        BY <1>1 DEF AccountsStay
      <3> QED
        BY <2>2, <3>1, EnrolledBalanced
    <2> QED
      BY <1>1, <2>1, <2>2 DEF AccountsStay
  <1>2. ASSUME NEW m \in NodeId, NEW t \in TaskId,
               Takes(m, t) \/ GivesBack(m, t)
        PROVE  Balanced(n)'
    <2>1. CASE n = m
      <3>1. Balanced(n)
        BY <1>2, <2>1 DEF Takes, GivesBack, BooksBalance
      <3> QED
        BY <1>2, <2>1, <3>1, TakesBalanced, GivesBackBalanced
    <2>2. CASE n # m
      <3>1. workers'[n] = workers[n]
        BY <1>2, <2>2 DEF Takes, GivesBack
      <3>2. SameAccount(n) /\ Balanced(n)
        BY <3>1 DEF SameAccount, Registered, BooksBalance
      <3>3. t \notin AssignedTo(n) /\ t \notin AssignedTo(n)'
        <4>1. CASE Takes(m, t)
          BY <2>2, <4>1, AssignedLeases, AssignedLeasesNext DEF Takes, Leased,
             IsLeased, LeasedStates
        <4>2. CASE GivesBack(m, t)
          BY <2>2, <4>2, AssignedLeases, AssignedLeasesNext DEF GivesBack
        <4> QED
          BY <1>2, <4>1, <4>2
      <3>4. \A u \in TaskId \ {t} : IsLeased(u)' <=> IsLeased(u)
        BY <1>2 DEF Takes, GivesBack, SameLeases
      <3> QED
        BY <3>2, <3>3, <3>4, StayBalanced
    <2> QED
      BY <2>1, <2>2
  <1> QED
    BY <1>1, <1>2 DEF AccountsMove

----------------------------------------------------------------------------
(* The queue.                                                              *)

\* What is queued was submitted once, so it is not the id of a task that is
\* still to come.
QueuedAreMinted == \A i \in DOMAIN runnable : runnable[i] \in minted

QueueInv == QueueExact /\ QueuedAreMinted

\* The same of an id in the next state; the id itself is not primed.
RunsAfter(t) == tasks'[t].state = "Runnable"
LiveAfter(t) == tasks'[t].state \in LiveStates

LEMMA GrowStep ==
  ASSUME CoreInv, CoreInv', StepEffect, QueueGrows, QueueInv
  PROVE  QueueInv'
  <1>1. PICK add : runnable' = runnable \o add /\ Lists(add, NewlyRunnable)
    BY DEF QueueGrows
  <1> DEFINE q == runnable
             r == runnable \o add
  <1>2. /\ q \in Seq(TaskId) /\ add \in Seq(TaskId) /\ r \in Seq(TaskId)
        /\ Len(q) \in Nat /\ Len(add) \in Nat /\ Len(r) = Len(q) + Len(add)
        /\ DOMAIN q = 1..Len(q) /\ DOMAIN add = 1..Len(add)
        /\ DOMAIN r = 1..Len(r)
    BY <1>1 DEF Lists, CoreInv, TypeOK
  <1>3. \A i \in DOMAIN r : \/ i \in DOMAIN q /\ r[i] = q[i]
                            \/ i - Len(q) \in DOMAIN add /\ r[i] = add[i - Len(q)]
    BY <1>2
  <1>4. /\ \A i \in DOMAIN q : i \in DOMAIN r /\ r[i] = q[i] /\ q[i] \in TaskId
        /\ \A i \in DOMAIN add : i + Len(q) \in DOMAIN r /\ r[i + Len(q)] = add[i]
    BY <1>2
  <1>5. runnable' = r
    BY <1>1
  <1> HIDE DEF r
  <1>6. /\ \A i \in DOMAIN add : add[i] \in NewlyRunnable
        /\ \A t \in NewlyRunnable : \E i \in DOMAIN add : add[i] = t
        /\ \A i, j \in DOMAIN add : i # j => add[i] # add[j]
    BY <1>1 DEF Lists
  <1>7. \A t \in TaskId : TaskMoves(t) /\ ~Leased(t)
    BY DEF StepEffect, AllTasksMove, QueueGrows
  <1>8. \A i \in DOMAIN q : ~Submitted(q[i])
    BY DEF QueueInv, QueuedAreMinted, Submitted
  <1>9. \A i \in DOMAIN q : /\ q[i] \notin NewlyRunnable
                            /\ RunsAfter(q[i]) => Runs(q[i])
                            /\ RunsAfter(q[i]) \/ ~LiveAfter(q[i])
    <2> SUFFICES ASSUME NEW i \in DOMAIN q
                 PROVE  /\ RunsAfter(q[i]) => Runs(q[i])
                        /\ RunsAfter(q[i]) \/ ~LiveAfter(q[i])
      BY DEF NewlyRunnable, Runs, RunsAfter
    <2>1. Runs(q[i]) \/ ~Live(q[i])
      BY DEF QueueInv, QueueExact
    <2>2. TaskMoves(q[i]) /\ ~Leased(q[i]) /\ ~Submitted(q[i])
      BY <1>4, <1>7, <1>8
    <2> DEFINE t == q[i]
    <2> HIDE DEF t
    <2>3. /\ Runs(t) \/ ~Live(t)
          /\ TaskMoves(t) /\ ~Leased(t) /\ ~Submitted(t)
      BY <2>1, <2>2 DEF t
    <2>4. /\ RunsAfter(t) => Runs(t)
          /\ RunsAfter(t) \/ ~LiveAfter(t)
      BY <2>3 DEF TaskMoves, Untouched, Advanced, Requeued, Readied, Stopped,
         Dropped, Runs, Live, LiveStates, RunsAfter, LiveAfter
    <2> QED
      BY <2>4 DEF t
  <1>10. \A i \in DOMAIN add :
           RunsAfter(add[i]) /\ add[i] \in minted'
    BY <1>6 DEF NewlyRunnable, Runs, RunsAfter, CoreInv,
       KnownAreMinted
  <1>11. \A t \in TaskId : RunsAfter(t) => \E i \in DOMAIN r : r[i] = t
    <2> SUFFICES ASSUME NEW t \in TaskId, RunsAfter(t)
                 PROVE  \E i \in DOMAIN r : r[i] = t
      OBVIOUS
    <2>1. CASE Runs(t)
      BY <1>4, <2>1 DEF QueueInv, QueueExact
    <2>2. CASE ~Runs(t)
      BY <1>4, <1>6, <2>2 DEF NewlyRunnable, Runs, RunsAfter
    <2> QED
      BY <2>1, <2>2
  <1>12. \A i, j \in DOMAIN r : i # j /\ RunsAfter(r[i]) => r[i] # r[j]
    <2> SUFFICES ASSUME NEW i \in DOMAIN r, NEW j \in DOMAIN r, i # j,
                        RunsAfter(r[i]), r[i] = r[j]
                 PROVE  FALSE
      OBVIOUS
    <2>1. i \in Nat /\ j \in Nat
      BY <1>2
    <2>2. CASE i \in DOMAIN q /\ r[i] = q[i] /\ j \in DOMAIN q /\ r[j] = q[j]
      BY <1>9, <2>2 DEF QueueInv, QueueExact, Runs
    <2>3. CASE /\ i - Len(q) \in DOMAIN add /\ r[i] = add[i - Len(q)]
               /\ j - Len(q) \in DOMAIN add /\ r[j] = add[j - Len(q)]
      <3>1. i - Len(q) # j - Len(q)
        BY <1>2, <2>1
      <3> QED
        BY <1>6, <2>3, <3>1
    <2> QED
      BY <1>3, <1>6, <1>9, <2>2, <2>3
  <1>13. \A i \in DOMAIN r : RunsAfter(r[i]) \/ ~LiveAfter(r[i])
    BY <1>3, <1>9, <1>10
  <1>14. \A i \in DOMAIN r : r[i] \in minted'
    BY <1>3, <1>10 DEF QueueInv, QueuedAreMinted, StepEffect, RestMoves,
       MintedGrows
  <1>15. QueueExact'
    BY <1>5, <1>11, <1>12, <1>13 DEF QueueExact, Runs, Live, RunsAfter,
       LiveAfter
  <1>16. QueuedAreMinted'
    BY <1>5, <1>14 DEF QueuedAreMinted
  <1> QED
    BY <1>15, <1>16 DEF QueueInv

LEMMA ScanStep ==
  ASSUME CoreInv, CoreInv', StepEffect, QueueScanned, QueueInv
  PROVE  QueueInv'
  <1>1. PICK i : /\ Rescanned(i)
                 /\ \A t \in TaskId :
                      \/ tasks'[t] = tasks[t]
                      \/ i \in DOMAIN runnable /\ t = runnable[i] /\ Leased(t)
                 /\ i \in DOMAIN runnable => Leased(runnable[i])
    <2>1. 0 \notin DOMAIN runnable
      BY DEF CoreInv, TypeOK
    <2> QED
      BY <2>1 DEF QueueScanned
  <1>2. PICK len \in Nat : \E f \in [1..len -> DOMAIN runnable] :
          /\ \A a, b \in 1..len : a # b => f[a] # f[b]
          /\ \A a \in 1..len : f[a] # i
          /\ \A j \in DOMAIN runnable : j # i /\ Runs(runnable[j]) =>
               \E a \in 1..len : f[a] = j
          /\ runnable' = [a \in 1..len |-> runnable[f[a]]]
    BY <1>1 DEF Rescanned
  <1> DEFINE D == 1..len
  <1> HIDE DEF D
  <1>3. PICK f \in [D -> DOMAIN runnable] :
          /\ \A a, b \in D : a # b => f[a] # f[b]
          /\ \A a \in D : f[a] # i
          /\ \A j \in DOMAIN runnable : j # i /\ Runs(runnable[j]) =>
               \E a \in D : f[a] = j
          /\ runnable' = [a \in D |-> runnable[f[a]]]
    BY <1>2 DEF D
  <1> DEFINE r == [a \in D |-> runnable[f[a]]]
  <1>4. /\ DOMAIN r = D /\ runnable' = r
        /\ \A a \in D : /\ r[a] = runnable[f[a]] /\ f[a] \in DOMAIN runnable
                        /\ f[a] # i /\ r[a] \in TaskId
    BY <1>3 DEF CoreInv, TypeOK
  <1> HIDE DEF r
  <1>5. QueueExact
    BY DEF QueueInv
  <1>6. \A t \in TaskId : RunsAfter(t) =>
          Runs(t) /\ \A j \in DOMAIN runnable : runnable[j] = t => j # i
    BY <1>1 DEF RunsAfter, Runs, Leased
  <1>7. \A t \in TaskId : RunsAfter(t) => \E a \in DOMAIN r : r[a] = t
    <2> SUFFICES ASSUME NEW t \in TaskId, RunsAfter(t)
                 PROVE  \E a \in DOMAIN r : r[a] = t
      OBVIOUS
    <2>1. Runs(t)
      BY <1>6
    <2>2. PICK j \in DOMAIN runnable : runnable[j] = t
      BY <1>5, <2>1 DEF QueueExact
    <2>3. PICK a \in D : f[a] = j
      BY <1>3, <1>6, <2>1, <2>2
    <2> QED
      BY <1>4, <2>2, <2>3
  <1>8. \A a, b \in DOMAIN r : a # b /\ RunsAfter(r[a]) => r[a] # r[b]
    <2> SUFFICES ASSUME NEW a \in D, NEW b \in D, a # b, RunsAfter(r[a])
                 PROVE  r[a] # r[b]
      BY <1>4
    <2>1. /\ f[a] \in DOMAIN runnable /\ f[b] \in DOMAIN runnable
          /\ f[a] # f[b] /\ Runs(runnable[f[a]])
      BY <1>3, <1>4, <1>6
    <2> QED
      BY <1>4, <1>5, <2>1 DEF QueueExact
  <1>9. \A a \in DOMAIN r : RunsAfter(r[a]) \/ ~LiveAfter(r[a])
    <2> SUFFICES ASSUME NEW a \in D
                 PROVE  RunsAfter(r[a]) \/ ~LiveAfter(r[a])
      BY <1>4
    <2>1. Runs(r[a]) \/ ~Live(r[a])
      BY <1>4, <1>5 DEF QueueExact
    <2>2. tasks'[r[a]] = tasks[r[a]]
      <3> SUFFICES ASSUME i \in DOMAIN runnable, r[a] = runnable[i],
                          Leased(runnable[i])
                   PROVE  FALSE
        BY <1>1, <1>4
      <3>1. Runs(runnable[i])
        BY DEF Leased, Runs
      <3> QED
        BY <1>4, <1>5, <3>1 DEF QueueExact
    <2> QED
      BY <2>1, <2>2 DEF Runs, Live, RunsAfter, LiveAfter
  <1>10. \A a \in DOMAIN r : r[a] \in minted'
    BY <1>4 DEF QueueInv, QueuedAreMinted, StepEffect, RestMoves, MintedGrows
  <1>11. QueueExact'
    BY <1>4, <1>7, <1>8, <1>9 DEF QueueExact, Runs, Live, RunsAfter, LiveAfter
  <1>12. QueuedAreMinted'
    BY <1>4, <1>10 DEF QueuedAreMinted
  <1> QED
    BY <1>11, <1>12 DEF QueueInv

----------------------------------------------------------------------------
LEMMA InitBooks == Init => BooksBalance /\ QueueInv
  <1> SUFFICES ASSUME Init PROVE BooksBalance /\ QueueInv
    OBVIOUS
  <1>1. BooksBalance
    BY DEF Init, BooksBalance, Registered, NoWorker
  <1>2. QueueInv
    BY DEF Init, QueueInv, QueueExact, QueuedAreMinted, Runs, NoTask
  <1> QED
    BY <1>1, <1>2

LEMMA NextBalanced ==
  CoreInv /\ CoreInv' /\ BooksBalance /\ QueueInv /\ [Next]_vars =>
    BooksBalance' /\ QueueInv'
  <1> SUFFICES ASSUME CoreInv, CoreInv', BooksBalance, QueueInv, [Next]_vars
               PROVE  BooksBalance' /\ QueueInv'
    OBVIOUS
  <1>1. StepEffect
    BY NextEffect
  <1>2. AccountsMove /\ (QueueGrows \/ QueueScanned)
    BY NextBooks
  <1> QED
    BY <1>1, <1>2, BalanceStep, GrowStep, ScanStep

\* The books balance in every state.
THEOREM BooksInvariant == Spec => [](BooksBalance /\ QueueInv)
  BY InitBooks, NextBalanced, CoreInvariant, PTL DEF Spec

\* No order of assignments, reports, cancellations and expiries leaks a slot
\* or makes one.
THEOREM SlotsAreAccounted == Spec => []SlotsAccounted
  <1>1. BooksBalance => SlotsAccounted
    BY DEF BooksBalance, Balanced, SlotsAccounted
  <1> QED
    BY <1>1, BooksInvariant, PTL

\* Nor a unit of any resource.
THEOREM ResourcesAreConserved == Spec => []ResourcesConserved
  <1>1. BooksBalance => ResourcesConserved
    BY DEF BooksBalance, Balanced, ResourcesConserved
  <1> QED
    BY <1>1, BooksInvariant, PTL

\* assign_next's scan and re-queueing never lose a runnable task and never
\* queue one twice, and what else the queue holds can never be assigned.
THEOREM QueueIsExact == Spec => []QueueExact
  <1>1. QueueInv => QueueExact
    BY DEF QueueInv
  <1> QED
    BY <1>1, BooksInvariant, PTL

\* `release` has room for what a fenced report hands back.
ReleaseHasRoom ==
  \A g \in grants : CheckFence(g) /\ IsLeased(g.task) =>
    CanRelease(g.node, g.task)

LEMMA LeaseCounted ==
  ASSUME CoreInv, BooksBalance, NEW n \in NodeId, NEW t \in AssignedTo(n)
  PROVE  CanRelease(n, t)
  <1>1. Registered(n) /\ t \in TaskId /\ tasks[t].state # "Absent"
    BY AssignedLeases DEF AssignedTo
  <1>2. Balanced(n)
    BY <1>1 DEF BooksBalance
  <1>3. workers[n].free < workers[n].offer.slots
    <2>1. Cardinality(AssignedTo(n)) \in Nat /\ Cardinality(AssignedTo(n)) # 0
      BY AssignedFinite, FS_CardinalityType, FS_EmptySet
    <2> QED
      BY <1>1, <1>2, <2>1, RegisteredWorker DEF Balanced
  <1>4. CanAdd(workers[n].available, tasks[t].resources, workers[n].offer.total)
    <2> SUFFICES ASSUME NEW k \in ResourceKind
                 PROVE  workers[n].available[k] + tasks[t].resources[k]
                          <= workers[n].offer.total[k]
      BY DEF CanAdd
    <2> DEFINE r == tasks[t].resources[k]
               U == UnitsHeld(n, k)
               V == {t} \X (1..r)
    <2>1. r \in Nat
      BY <1>1, TaskResources
    <2>2. V \subseteq U
      BY DEF UnitsHeld
    <2>3. IsFiniteSet(U) /\ Cardinality(U) \in Nat
      BY <1>2, FS_CardinalityType DEF Balanced
    <2>4. /\ workers[n].available[k] \in Nat /\ workers[n].offer.total[k] \in Nat
          /\ workers[n].available[k] + Cardinality(U) = workers[n].offer.total[k]
      BY <1>1, <1>2, RegisteredWorker DEF Balanced
    <2>5. V = {t} \X (1..r)
      OBVIOUS
    <2> HIDE DEF r, U, V
    <2>6. Cardinality(V) = r
      BY <2>1, <2>5, UnitsOfOne
    <2>7. Cardinality(V) <= Cardinality(U)
      BY <2>2, <2>3, FS_Subset
    <2> QED
      BY <2>1, <2>3, <2>4, <2>6, <2>7 DEF r
  <1> QED
    BY <1>1, <1>3, <1>4 DEF CanRelease

\* A report that passes the fence is never refused by `release`: the books
\* say so before it is asked, so the error it can return is never seen.
THEOREM ReleaseNeverRefuses == Spec => []ReleaseHasRoom
  <1>1. CoreInv /\ BooksBalance => ReleaseHasRoom
    <2> SUFFICES ASSUME CoreInv, BooksBalance, NEW g \in grants,
                        CheckFence(g), IsLeased(g.task)
                 PROVE  CanRelease(g.node, g.task)
      BY DEF ReleaseHasRoom
    <2>1. g.node \in NodeId /\ g.task \in TaskId
      BY DEF CoreInv, TypeOK, Grant
    <2>2. g.task \in AssignedTo(g.node)
      BY <2>1, AssignedLeases DEF CheckFence
    <2> QED
      BY <2>1, <2>2, LeaseCounted
  <1> QED
    BY <1>1, BooksInvariant, CoreInvariant, PTL

----------------------------------------------------------------------------
(* A coordinator that is started again: the invariants hold of its empty   *)
(* tables, with the grants and ids that are still about.                   *)

LEMMA RestartKeepsLife ==
  ASSUME CoreInv, LifeInv, Restart
  PROVE  LifeInv'
  <1>1. UNCHANGED <<minted, grants>>
    BY DEF Restart
  <1>2. (AttemptsBounded /\ AttemptsLeft /\ GrantsAreMinted)'
    BY <1>1, RestartTables DEF LifeInv, AttemptsBounded, AttemptsLeft,
       GrantsAreMinted
  <1>3. (WaitersArePending /\ InputsProduced /\ CodecsFixed)'
    BY RestartTables DEF WaitersArePending, InputsProduced, CodecsFixed, Live,
       LiveStates
  <1>4. (PutsStay /\ AvailableHasHome)'
    BY RestartTables DEF PutsStay, AvailableHasHome, ObjectId
  <1>5. (DeletesAreDead /\ DeletesAreOutputs /\ CatalogueAgrees)'
    BY RestartTables DEF DeletesAreDead, DeletesAreOutputs, CatalogueAgrees
  <1> QED
    BY <1>2, <1>3, <1>4, <1>5 DEF LifeInv

LEMMA RestartKeepsBooks ==
  ASSUME Restart
  PROVE  BooksBalance' /\ QueueInv'
  <1>1. BooksBalance'
    BY RestartTables DEF BooksBalance
  <1>2. runnable' = <<>> /\ \A t \in TaskId : ~Runs(t)'
    BY RestartTables DEF Restart, Runs
  <1>3. QueueInv'
    BY <1>2 DEF QueueInv, QueueExact, QueuedAreMinted
  <1> QED
    BY <1>1, <1>3
=============================================================================
