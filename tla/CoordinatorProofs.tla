------------------------- MODULE CoordinatorProofs -------------------------
(***************************************************************************)
(* Proofs about Coordinator, for every number of nodes, tasks, objects,    *)
(* slots, attempts and every length of the timers.                         *)
(***************************************************************************)
EXTENDS Coordinator, FiniteSetTheorems, TLAPS

----------------------------------------------------------------------------
(* Facts about the operators.                                              *)

\* An output id belongs to one task and is not the id of a put.
LEMMA OutputInjective ==
  ASSUME NEW t \in TaskId, NEW u \in TaskId
  PROVE  /\ Output(t) = Output(u) => t = u
         /\ Output(t) \in ObjectId
         /\ Output(t) \notin PutId
  BY ConstantsDiffer DEF Output, ObjectId

\* The backoff of a retry is a number of milliseconds.
LEMMA BackoffType ==
  ASSUME NEW a \in Nat
  PROVE  RetryBackoff(a) \in Nat
  <1>1. MinOf(IF a > 0 THEN a - 1 ELSE 0, 20) \in 0..20
    BY DEF MinOf
  <1>2. Shift[MinOf(IF a > 0 THEN a - 1 ELSE 0, 20)] \in Nat
    BY <1>1, ShiftAssumption
  <1>3. BackoffBase * Shift[MinOf(IF a > 0 THEN a - 1 ELSE 0, 20)] \in Nat
    BY <1>2, Bounds
  <1> QED
    BY <1>3, Bounds DEF RetryBackoff, MinOf

\* An order of a set of tasks, as the hash tables yield it, is a sequence.
LEMMA OrderType ==
  ASSUME NEW S, S \subseteq TaskId, NEW s \in SetToSeqs(S)
  PROVE  s \in Seq(TaskId)
  <1>1. IsFiniteSet(S)
    BY FiniteIds, FS_Subset
  <1>2. Cardinality(S) \in Nat
    BY <1>1, FS_CardinalityType
  <1> QED
    BY <1>2 DEF SetToSeqs

\* A retried and an ended task are tasks.
LEMMA TaskUpdates ==
  ASSUME NEW task \in Task
  PROVE  /\ Retried(task) \in Task
         /\ \A s \in TerminalStates : Ended(task, s) \in Task
         /\ \A s \in LiveStates \cup TerminalStates :
              [task EXCEPT !.state = s] \in Task
  <1>1. RetryBackoff(task.attempt) \in Nat
    BY BackoffType DEF Task
  <1> QED
    BY <1>1 DEF Task, Retried, Ended, Unassigned, Nodes, LiveStates,
       TerminalStates

\* So are the updates of a worker.
LEMMA WorkerUpdates ==
  ASSUME NEW w \in Worker
  PROVE  /\ [w EXCEPT !.lease = LeaseMs] \in Worker
         /\ [w EXCEPT !.state = "Draining"] \in Worker
         /\ [w EXCEPT !.lease = LeaseMs].session = w.session
         /\ [w EXCEPT !.state = "Draining"].session = w.session
  <1>1. LeaseMs \in 0..LeaseMs
    BY Bounds
  <1> QED
    BY <1>1 DEF Worker

----------------------------------------------------------------------------
(* The inductive invariant.  Type correctness is not inductive by itself:  *)
(* an operation changes the state field of an entry it assumes is there,   *)
(* which is so because the indexes are exact, a live task has its output   *)
(* and a leased task has its worker.                                       *)

Tasks == [TaskId -> Task \cup {NoTask}]
Objects == [ObjectId -> Object \cup {NoObject}]

\* The parts of the invariant that reconciliation must restore, for tables
\* that are not yet the state's.
OutputsMatch(T, O) ==
  \A t \in TaskId :
    /\ T[t].state \in LiveStates => O[Output(t)].state = "Reserved"
    /\ T[t].state = "Succeeded" =>
         /\ O[Output(t)].state \in {"Available", "Lost"}
         /\ O[Output(t)].version = T[t].attempt
    /\ T[t].state = "Failed" => O[Output(t)].state = "Failed"
    /\ T[t].state = "Cancelled" => O[Output(t)].state = "Cancelled"
    /\ T[t].state = "Absent" => O[Output(t)].state = "Absent"

IsWaitingSet(T, W) == W = {t \in TaskId : T[t].state = "Waiting"}

\* A task that is known was minted, so a new task id is not in use.
KnownAreMinted ==
  \A t \in TaskId : tasks[t].state # "Absent" => t \in minted

CoreInv ==
  /\ TypeOK /\ IndexesExact /\ OutputMatchesTask
  /\ LeasesAreCurrent /\ KnownAreMinted

----------------------------------------------------------------------------
(* Reconciliation.                                                         *)

\* What reconciliation makes of the tables T and O: it only fails or readies
\* waiting tasks, and it keeps the invariant's parts.
Reconciled(T, O, T2, O2, W2) ==
  /\ T2 \in Tasks /\ O2 \in Objects
  /\ OutputsMatch(T2, O2)
  /\ IsWaitingSet(T2, W2)
  /\ \A t \in TaskId :
       \/ T2[t] = T[t]
       \/ /\ T[t].state = "Waiting"
          /\ T2[t] = [T[t] EXCEPT !.state = "Failed"]
       \/ /\ T[t].state = "Waiting"
          /\ T2[t] = [T[t] EXCEPT !.state = "Runnable"]
          /\ \A o \in T[t].args : O[o].state = "Available"
  /\ \A o \in ObjectId :
       \/ O2[o] = O[o]
       \/ /\ O[o].state = "Reserved"
          /\ O2[o] = [O[o] EXCEPT !.state = "Failed"]

LEMMA ReconcileEffect ==
  ASSUME NEW T \in Tasks, NEW O \in Objects, NEW W,
         IsWaitingSet(T, W), OutputsMatch(T, O),
         NEW T2, T2 = TasksReconciled(T, O, W),
         NEW O2, O2 = ObjectsReconciled(T, O, W),
         NEW W2, W2 = StillWaiting(T, O, W)
  PROVE  Reconciled(T, O, T2, O2, W2)
  <1> DEFINE F == FailedWaiters(T, O, W)
             R == ReadyWaiters(T, O, W)
  <1>1. /\ F \subseteq W /\ R \subseteq W /\ W \subseteq TaskId
        /\ F \cap R = {}
        /\ \A t \in R : \A o \in T[t].args : O[o].state = "Available"
    BY DEF FailedWaiters, ReadyWaiters, IsWaitingSet
  <1>2. T2 = [t \in TaskId |->
                IF t \in F THEN [T[t] EXCEPT !.state = "Failed"]
                ELSE IF t \in R THEN [T[t] EXCEPT !.state = "Runnable"]
                ELSE T[t]]
    BY DEF TasksReconciled
  <1>3. O2 = [o \in ObjectId |->
                IF \E t \in F : o = Output(t)
                THEN [O[o] EXCEPT !.state = "Failed"] ELSE O[o]]
    BY DEF ObjectsReconciled
  <1>4. W2 = W \ (F \cup R)
    BY DEF StillWaiting
  <1> HIDE DEF F, R
  <1>6. \A t \in W : T[t].state = "Waiting" /\ T[t] \in Task
    BY DEF IsWaitingSet, Tasks, NoTask
  <1>7. \A t \in W : /\ O[Output(t)].state = "Reserved"
                     /\ O[Output(t)] \in Object
    BY <1>1, <1>6, OutputInjective DEF OutputsMatch, Objects, NoObject,
       LiveStates
  <1>8. \A t \in F : [T[t] EXCEPT !.state = "Failed"] \in Task
    BY <1>1, <1>6, TaskUpdates DEF TerminalStates
  <1>9. \A t \in R : [T[t] EXCEPT !.state = "Runnable"] \in Task
    BY <1>1, <1>6, TaskUpdates DEF LiveStates
  <1>10. T2 \in Tasks
    BY <1>2, <1>8, <1>9 DEF Tasks
  <1>11. \A t \in F : [O[Output(t)] EXCEPT !.state = "Failed"] \in Object
    BY <1>1, <1>7 DEF Object
  <1>12. O2 \in Objects
    BY <1>3, <1>11 DEF Objects
  <1>14. \A t \in TaskId :
           \/ T2[t] = T[t] /\ t \notin F \cup R
           \/ /\ t \in F /\ T[t].state = "Waiting"
              /\ T2[t] = [T[t] EXCEPT !.state = "Failed"]
              /\ T2[t].state = "Failed"
           \/ /\ t \in R \ F /\ T[t].state = "Waiting"
              /\ T2[t] = [T[t] EXCEPT !.state = "Runnable"]
              /\ T2[t].state = "Runnable"
    BY <1>1, <1>2, <1>6 DEF Task
  <1>15. \A o \in ObjectId :
           \/ O2[o] = O[o] /\ \A t \in F : o # Output(t)
           \/ /\ O[o].state = "Reserved"
              /\ O2[o] = [O[o] EXCEPT !.state = "Failed"]
              /\ O2[o].state = "Failed"
              /\ \E t \in F : o = Output(t)
    BY <1>1, <1>3, <1>7 DEF Object
  <1>16. IsWaitingSet(T2, W2)
    <2>1. \A t \in TaskId : t \in W <=> T[t].state = "Waiting"
      BY DEF IsWaitingSet
    <2>2. \A t \in TaskId : t \in W2 <=> T2[t].state = "Waiting"
      BY <1>1, <1>4, <1>14, <2>1
    <2>3. W2 \subseteq TaskId
      BY <1>1, <1>4
    <2> QED
      BY <2>2, <2>3 DEF IsWaitingSet
  <1>17. OutputsMatch(T2, O2)
    <2> SUFFICES ASSUME NEW t \in TaskId
                 PROVE  OutputsMatch(T2, O2)!(t)
      BY DEF OutputsMatch
    <2>1. CASE t \in F
      <3>1. O2[Output(t)].state = "Failed" /\ T2[t].state = "Failed"
        BY <1>1, <1>14, <1>15, <2>1, OutputInjective
      <3> QED
        BY <3>1 DEF LiveStates
    <2>2. CASE t \notin F
      <3>1. O2[Output(t)] = O[Output(t)]
        BY <1>1, <1>15, <2>2, OutputInjective
      <3>2. \/ T2[t] = T[t]
            \/ T[t].state = "Waiting" /\ T2[t].state = "Runnable"
        BY <1>14, <2>2
      <3> QED
        BY <3>1, <3>2 DEF OutputsMatch, LiveStates
    <2> QED
      BY <2>1, <2>2
  <1>18. \A t \in TaskId :
           \/ T2[t] = T[t]
           \/ /\ T[t].state = "Waiting"
              /\ T2[t] = [T[t] EXCEPT !.state = "Failed"]
           \/ /\ T[t].state = "Waiting"
              /\ T2[t] = [T[t] EXCEPT !.state = "Runnable"]
              /\ \A o \in T[t].args : O[o].state = "Available"
    BY <1>1, <1>14
  <1> QED
    BY <1>10, <1>12, <1>15, <1>16, <1>17, <1>18 DEF Reconciled

\* The queue stays a sequence of task ids.
LEMMA ReconcileQueue ==
  ASSUME NEW T, NEW O, NEW W, W \subseteq TaskId, NEW Q \in Seq(TaskId),
         NEW order \in SetToSeqs(ReadyWaiters(T, O, W))
  PROVE  Q \o order \in Seq(TaskId)
  <1>1. ReadyWaiters(T, O, W) \subseteq TaskId
    BY DEF ReadyWaiters
  <1>2. order \in Seq(TaskId)
    BY <1>1, OrderType
  <1> QED
    BY <1>2

\* What the end of task t in state s makes of the tables: no other task moves
\* but waiting ones.
TaskEnded(t, s, T, T2, O2, W2, Q2) ==
  /\ T2 \in Tasks /\ O2 \in Objects /\ Q2 \in Seq(TaskId)
  /\ OutputsMatch(T2, O2) /\ IsWaitingSet(T2, W2)
  /\ T2[t] = Ended(T[t], s) /\ T2[t] \in Task
  /\ \A u \in TaskId \ {t} :
       \/ T2[u] = T[u]
       \/ /\ T[u].state = "Waiting"
          /\ \/ T2[u] = [T[u] EXCEPT !.state = "Failed"]
             \/ T2[u] = [T[u] EXCEPT !.state = "Runnable"]

\* The tables that the end of a live task hands to reconciliation.
EndedTasks(t, s) == [tasks EXCEPT ![t] = Ended(@, s)]
WithOutput(t, out) == [objects EXCEPT ![Output(t)] = out]
TablesAtEnd(t, s, out, T, O) ==
  /\ T \in Tasks /\ O \in Objects
  /\ T[t] = Ended(tasks[t], s) /\ T[t] \in Task /\ T[t].state = s
  /\ \A u \in TaskId \ {t} : T[u] = tasks[u]
  /\ O[Output(t)] = out
  /\ \A o \in ObjectId \ {Output(t)} : O[o] = objects[o]
  /\ IsWaitingSet(T, waiting \ {t})
  /\ OutputsMatch(T, O)

LEMMA EndTables ==
  ASSUME CoreInv, NEW t \in TaskId, Live(t), NEW s \in TerminalStates,
         NEW out \in Object,
         s = "Succeeded" => /\ out.state = "Available"
                            /\ out.version = tasks[t].attempt,
         s # "Succeeded" => out.state = s,
         NEW T, T = EndedTasks(t, s), NEW O, O = WithOutput(t, out)
  PROVE  TablesAtEnd(t, s, out, T, O)
  <1>1. /\ tasks \in Tasks /\ objects \in Objects /\ tasks[t] \in Task
        /\ IsWaitingSet(tasks, waiting) /\ OutputsMatch(tasks, objects)
    BY DEF CoreInv, TypeOK, IndexesExact, OutputMatchesTask, OutputsMatch,
       IsWaitingSet, Tasks, Objects, Live, LiveStates, NoTask
  <1>2. /\ Ended(tasks[t], s) \in Task
        /\ Ended(tasks[t], s).state = s
        /\ Ended(tasks[t], s).attempt = tasks[t].attempt
    BY <1>1, TaskUpdates DEF Ended, Task
  <1>3. T \in Tasks /\ T[t] = Ended(tasks[t], s)
        /\ \A u \in TaskId \ {t} : T[u] = tasks[u]
    BY <1>1, <1>2 DEF Tasks, EndedTasks
  <1>4. O \in Objects /\ O[Output(t)] = out
        /\ \A o \in ObjectId \ {Output(t)} : O[o] = objects[o]
    BY <1>1, OutputInjective DEF Objects, WithOutput
  <1>5. IsWaitingSet(T, waiting \ {t})
    BY <1>1, <1>2, <1>3 DEF IsWaitingSet, TerminalStates
  <1>6. OutputsMatch(T, O)
    <2> SUFFICES ASSUME NEW u \in TaskId
                 PROVE  OutputsMatch(T, O)!(u)
      BY DEF OutputsMatch
    <2>1. CASE u = t
      BY <1>2, <1>3, <1>4, <2>1 DEF TerminalStates, LiveStates
    <2>2. CASE u # t
      <3>1. Output(u) # Output(t) /\ Output(u) \in ObjectId
        BY <2>2, OutputInjective
      <3> QED
        BY <1>1, <1>3, <1>4, <2>2, <3>1 DEF OutputsMatch
    <2> QED
      BY <2>1, <2>2
  <1> QED
    BY <1>2, <1>3, <1>4, <1>5, <1>6 DEF TablesAtEnd

LEMMA EndTask ==
  ASSUME CoreInv, NEW t \in TaskId, Live(t), NEW s \in TerminalStates,
         NEW out \in Object,
         s = "Succeeded" => /\ out.state = "Available"
                            /\ out.version = tasks[t].attempt,
         s # "Succeeded" => out.state = s,
         Reconcile([tasks EXCEPT ![t] = Ended(@, s)],
                   [objects EXCEPT ![Output(t)] = out],
                   waiting \ {t}, runnable)
  PROVE  TaskEnded(t, s, tasks, tasks', objects', waiting', runnable')
  <1> DEFINE T == [tasks EXCEPT ![t] = Ended(@, s)]
             O == [objects EXCEPT ![Output(t)] = out]
  <1>1. waiting \ {t} \subseteq TaskId /\ runnable \in Seq(TaskId)
    BY DEF CoreInv, TypeOK
  <1>2. /\ T \in Tasks /\ O \in Objects
        /\ T[t] = Ended(tasks[t], s) /\ T[t] \in Task /\ T[t].state = s
        /\ \A u \in TaskId \ {t} : T[u] = tasks[u]
        /\ IsWaitingSet(T, waiting \ {t})
        /\ OutputsMatch(T, O)
    <2>1. T = EndedTasks(t, s) /\ O = WithOutput(t, out)
      BY DEF EndedTasks, WithOutput
    <2> HIDE DEF T, O
    <2>2. TablesAtEnd(t, s, out, T, O)
      BY <2>1, EndTables
    <2> QED
      BY <2>2 DEF TablesAtEnd
  <1>7. /\ tasks' = TasksReconciled(T, O, waiting \ {t})
        /\ objects' = ObjectsReconciled(T, O, waiting \ {t})
        /\ waiting' = StillWaiting(T, O, waiting \ {t})
    BY DEF Reconcile
  <1>8. runnable' \in Seq(TaskId)
    <2>1. PICK order \in SetToSeqs(ReadyWaiters(T, O, waiting \ {t})) :
            runnable' = runnable \o order
      BY DEF Reconcile
    <2> HIDE DEF T, O
    <2> QED
      BY <1>1, <2>1, ReconcileQueue
  <1> HIDE DEF T, O
  <1>9. T[t].state # "Waiting"
    BY <1>2 DEF TerminalStates
  <1>10. Reconciled(T, O, tasks', objects', waiting')
    BY <1>2, <1>7, ReconcileEffect
  <1>11. tasks'[t] = T[t]
    BY <1>9, <1>10 DEF Reconciled
  <1>12. \A u \in TaskId \ {t} :
           \/ tasks'[u] = tasks[u]
           \/ /\ tasks[u].state = "Waiting"
              /\ \/ tasks'[u] = [tasks[u] EXCEPT !.state = "Failed"]
                 \/ tasks'[u] = [tasks[u] EXCEPT !.state = "Runnable"]
    <2> SUFFICES ASSUME NEW u \in TaskId \ {t}
                 PROVE  \/ tasks'[u] = tasks[u]
                        \/ /\ tasks[u].state = "Waiting"
                           /\ \/ tasks'[u] = [tasks[u] EXCEPT !.state = "Failed"]
                              \/ tasks'[u] =
                                   [tasks[u] EXCEPT !.state = "Runnable"]
      OBVIOUS
    <2>1. T[u] = tasks[u]
      BY <1>2
    <2> QED
      BY <1>10, <2>1 DEF Reconciled
  <1>13. /\ tasks' \in Tasks /\ objects' \in Objects
         /\ OutputsMatch(tasks', objects')
         /\ IsWaitingSet(tasks', waiting')
    BY <1>10 DEF Reconciled
  <1> QED
    BY <1>2, <1>8, <1>11, <1>12, <1>13 DEF TaskEnded

----------------------------------------------------------------------------
(* The invariant holds initially and every action preserves it.            *)

LEMMA InitCore == Init => CoreInv
  <1> SUFFICES ASSUME Init PROVE CoreInv
    OBVIOUS
  <1> USE DEF Init, NoWorker, NoTask, NoObject
  <1>1. TypeOK
    BY DEF TypeOK, OpTable
  <1>2. IndexesExact
    BY DEF IndexesExact
  <1>3. OutputMatchesTask
    BY OutputInjective DEF OutputMatchesTask, LiveStates
  <1>4. LeasesAreCurrent /\ KnownAreMinted
    BY DEF LeasesAreCurrent, KnownAreMinted
  <1> QED
    BY <1>1, <1>2, <1>3, <1>4 DEF CoreInv

\* A worker record that only changes in its lease, its free slots, its
\* available resources or between Alive and Draining keeps its tasks' leases.
LEMMA SameSessions ==
  ASSUME CoreInv, UNCHANGED <<tasks, grants>>,
         \A n \in NodeId : Registered(n) =>
           /\ workers'[n].state # "Absent"
           /\ workers'[n].session = workers[n].session
  PROVE  LeasesAreCurrent'
  BY DEF CoreInv, LeasesAreCurrent, CheckIdentity, Registered

LEMMA RegisterCore ==
  ASSUME CoreInv, NEW n \in NodeId, NEW epoch \in WorkerEpoch,
         NEW offer \in Offer,
         RegisterWorker(n, epoch, offer) \/ RegisterAgain(n, epoch, offer)
  PROVE  CoreInv'
  <1>1. CASE RegisterWorker(n, epoch, offer)
    <2> USE DEF RegisterWorker
    <2>1. offer.ops \in OpTable /\ offer.total \in ResourceSet
          /\ offer.slots \in Nat
      BY OffersAndJobs
    <2>2. workers'[n] \in Worker /\ workers' \in [NodeId -> Worker \cup {NoWorker}]
      BY <1>1, <2>1, Bounds DEF CoreInv, TypeOK, Worker
    <2>3. operations' \in OpTable
      BY <1>1, <2>1 DEF CoreInv, TypeOK, OpTable
    <2>4. TypeOK'
      BY <1>1, <2>2, <2>3 DEF CoreInv, TypeOK
    <2>5. \A m \in NodeId : Registered(m) => workers'[m] = workers[m]
      BY <1>1 DEF CoreInv, TypeOK, MayRegister
    <2>6. LeasesAreCurrent'
      BY <1>1, <2>5, SameSessions DEF Registered
    <2> QED
      BY <1>1, <2>4, <2>6 DEF CoreInv, IndexesExact, OutputMatchesTask,
         KnownAreMinted
  <1>2. CASE RegisterAgain(n, epoch, offer)
    <2> USE DEF RegisterAgain
    <2>1. workers[n] \in Worker
      BY <1>2 DEF CoreInv, TypeOK, Registered, NoWorker
    <2>2. workers' = [workers EXCEPT ![n] = [@ EXCEPT !.lease = LeaseMs]]
      BY <1>2 DEF CoreInv, TypeOK
    <2>3. TypeOK'
      BY <1>2, <2>1, <2>2, WorkerUpdates DEF CoreInv, TypeOK
    <2>4. LeasesAreCurrent'
      <3>1. \A m \in NodeId : Registered(m) =>
              /\ workers'[m].state # "Absent"
              /\ workers'[m].session = workers[m].session
        BY <2>1, <2>2, WorkerUpdates DEF CoreInv, TypeOK, Registered, Worker
      <3> QED
        BY <1>2, <3>1, SameSessions
    <2> QED
      BY <1>2, <2>3, <2>4 DEF CoreInv, IndexesExact, OutputMatchesTask,
         KnownAreMinted
  <1> QED
    BY <1>1, <1>2

LEMMA HeartbeatDrainCore ==
  ASSUME CoreInv, NEW s \in DOMAIN sessions, Heartbeat(s) \/ Drain(s)
  PROVE  CoreInv'
  <1> DEFINE n == sessions[s]
  <1>1. n \in NodeId /\ workers[n] \in Worker
    BY DEF CoreInv, TypeOK, Heartbeat, Drain, CheckIdentity, Registered,
       NoWorker
  <1>2. \/ workers' = [workers EXCEPT ![n] = [@ EXCEPT !.lease = LeaseMs]]
        \/ workers' = [workers EXCEPT ![n] = [@ EXCEPT !.state = "Draining"]]
    BY <1>1 DEF CoreInv, TypeOK, Heartbeat, Drain
  <1>3. TypeOK'
    BY <1>1, <1>2, WorkerUpdates DEF CoreInv, TypeOK, Heartbeat, Drain
  <1>4. \A m \in NodeId : Registered(m) =>
           /\ workers'[m].state # "Absent"
           /\ workers'[m].session = workers[m].session
    <2>1. workers \in [NodeId -> Worker \cup {NoWorker}]
      BY DEF CoreInv, TypeOK
    <2>2. \A m \in NodeId \ {n} : workers'[m] = workers[m]
      BY <1>2, <2>1
    <2>3. /\ workers'[n] \in Worker
          /\ workers'[n].session = workers[n].session
      BY <1>1, <1>2, <2>1, WorkerUpdates
    <2>4. workers'[n].state # "Absent"
      BY <2>3 DEF Worker
    <2> QED
      BY <2>2, <2>3, <2>4 DEF Registered
  <1>5. LeasesAreCurrent'
    BY <1>4, SameSessions DEF Heartbeat, Drain
  <1> QED
    BY <1>3, <1>5 DEF CoreInv, IndexesExact, OutputMatchesTask,
       KnownAreMinted, Heartbeat, Drain

\* The leases stay current when only the tasks in S and waiting ones change,
\* the tasks in S are not leased afterwards and no session ends.
LEMMA LeasesKept ==
  ASSUME CoreInv, UNCHANGED grants, tasks' \in Tasks, NEW S,
         \A n \in NodeId : Registered(n) =>
           /\ workers'[n].state # "Absent"
           /\ workers'[n].session = workers[n].session,
         \A u \in TaskId \ S :
           \/ tasks'[u] = tasks[u]
           \/ /\ tasks[u].state = "Waiting"
              /\ \/ tasks'[u] = [tasks[u] EXCEPT !.state = "Failed"]
                 \/ tasks'[u] = [tasks[u] EXCEPT !.state = "Runnable"],
         \A u \in TaskId \cap S :
           \/ tasks'[u].state = "Absent"
           \/ /\ tasks'[u].state \notin LeasedStates
              /\ tasks'[u].assigned = Unassigned
  PROVE  LeasesAreCurrent'
  <1> SUFFICES ASSUME NEW u \in TaskId, tasks'[u].state # "Absent"
               PROVE  LeasesAreCurrent!(u)'
    BY DEF LeasesAreCurrent
  <1>1. CASE u \in S
    BY <1>1
  <1>2. CASE u \notin S /\ tasks'[u] = tasks[u]
    BY <1>2 DEF CoreInv, LeasesAreCurrent, CheckIdentity, Registered
  <1>3. CASE /\ u \notin S /\ tasks[u].state = "Waiting"
             /\ \/ tasks'[u] = [tasks[u] EXCEPT !.state = "Failed"]
                \/ tasks'[u] = [tasks[u] EXCEPT !.state = "Runnable"]
    <2>3. tasks[u] \in Task
      BY <1>3 DEF CoreInv, TypeOK, NoTask
    <2>4. tasks[u].state \notin LeasedStates /\ tasks[u].state # "Absent"
      BY <1>3 DEF LeasedStates
    <2>1. tasks[u] \in Task /\ tasks[u].assigned = Unassigned
      BY <2>3, <2>4 DEF CoreInv, LeasesAreCurrent
    <2>2. tasks'[u].assigned = Unassigned
          /\ tasks'[u].state \in {"Failed", "Runnable"}
      BY <1>3, <2>1 DEF Task
    <2> QED
      BY <2>2 DEF LeasedStates
  <1> QED
    BY <1>1, <1>2, <1>3

LEMMA PutCore ==
  ASSUME CoreInv, NEW o \in PutId, NEW codec \in Codec, NEW inline \in BOOLEAN,
         Put(o, codec, inline)
  PROVE  CoreInv'
  <1> USE DEF Put
  <1>1. o \in ObjectId /\ \A t \in TaskId : Output(t) # o
    BY OutputInjective DEF ObjectId
  <1>2. objects' \in Objects
    BY <1>1 DEF CoreInv, TypeOK, Objects, Object, Places, Nodes
  <1>3. \A t \in TaskId : objects'[Output(t)] = objects[Output(t)]
    BY <1>1, OutputInjective DEF CoreInv, TypeOK
  <1>4. OutputMatchesTask'
    BY <1>3 DEF CoreInv, OutputMatchesTask
  <1>5. TypeOK'
    BY <1>2 DEF CoreInv, TypeOK, Objects
  <1> QED
    BY <1>4, <1>5 DEF CoreInv, IndexesExact, KnownAreMinted,
       LeasesAreCurrent, CheckIdentity, Registered

LEMMA SubmitCore ==
  ASSUME CoreInv, NEW t \in TaskId, NEW job \in Job,
         NEW args \in SUBSET ObjectId, Submit(t, job, args)
  PROVE  CoreInv'
  <1> USE DEF Submit
  <1>1. tasks[t].state = "Absent"
    BY DEF CoreInv, KnownAreMinted
  <1>2. /\ job.op \in Operation /\ job.resources \in ResourceSet
        /\ job.max \in Nat \ {0}
    BY OffersAndJobs
  <1>3. tasks'[t] \in Task /\ tasks' \in Tasks
        /\ tasks'[t].assigned = Unassigned
        /\ tasks'[t].state \in {"Waiting", "Runnable"}
        /\ \A u \in TaskId \ {t} : tasks'[u] = tasks[u]
    BY <1>2 DEF CoreInv, TypeOK, Tasks, Task, LiveStates, Unassigned, Nodes
  <1>4. operations[job.op].out \in Codec
    BY <1>2, ConstantsDiffer DEF CoreInv, TypeOK, OpTable, Descriptor
  <1>5. /\ objects' \in Objects /\ objects'[Output(t)].state = "Reserved"
        /\ \A o \in ObjectId \ {Output(t)} : objects'[o] = objects[o]
    BY <1>4, OutputInjective DEF CoreInv, TypeOK, Objects, Object, Places,
       Nodes
  <1>6. TypeOK'
    BY <1>3, <1>5 DEF CoreInv, TypeOK, Tasks, Objects
  <1>7. IndexesExact'
    BY <1>1, <1>3 DEF CoreInv, IndexesExact
  <1>8. OutputMatchesTask'
    <2> SUFFICES ASSUME NEW u \in TaskId
                 PROVE  OutputMatchesTask!(u)'
      BY DEF OutputMatchesTask
    <2>1. CASE u = t
      BY <1>3, <1>5, <2>1
    <2>2. CASE u # t
      <3>1. objects'[Output(u)] = objects[Output(u)] /\ tasks'[u] = tasks[u]
        BY <1>3, <1>5, <2>2, OutputInjective
      <3> QED
        BY <3>1 DEF CoreInv, OutputMatchesTask
    <2> QED
      BY <2>1, <2>2
  <1>9. LeasesAreCurrent'
    <2>1. tasks'[t].state \notin LeasedStates
      BY <1>3 DEF LeasedStates
    <2>2. \A u \in TaskId \cap {t} : /\ tasks'[u].state \notin LeasedStates
                                     /\ tasks'[u].assigned = Unassigned
      BY <1>3, <2>1
    <2>3. \A n \in NodeId : Registered(n) =>
            /\ workers'[n].state # "Absent"
            /\ workers'[n].session = workers[n].session
      BY DEF Registered
    <2> QED
      BY <1>3, <2>2, <2>3, LeasesKept
  <1>10. KnownAreMinted'
    BY <1>3 DEF CoreInv, KnownAreMinted
  <1> QED
    BY <1>6, <1>7, <1>8, <1>9, <1>10 DEF CoreInv

LEMMA CancelLeasedCore ==
  ASSUME CoreInv, NEW t \in TaskId, CancelLeased(t)
  PROVE  CoreInv'
  <1> USE DEF CancelLeased
  <1>1. tasks[t] \in Task /\ tasks[t].state \in {"Assigned", "Running"}
    <2>1. tasks[t] \in Task /\ tasks[t].state # "Absent"
      BY DEF CoreInv, TypeOK, Live, LiveStates, NoTask
    <2>2. tasks[t].state \in LeasedStates
      BY <2>1 DEF CoreInv, LeasesAreCurrent
    <2> QED
      BY <2>1, <2>2 DEF LeasedStates
  <1>2. /\ tasks'[t] \in Task /\ tasks' \in Tasks
        /\ tasks'[t].state = "CancelRequested"
        /\ tasks'[t].assigned = tasks[t].assigned
        /\ tasks'[t].attempt = tasks[t].attempt
        /\ \A u \in TaskId \ {t} : tasks'[u] = tasks[u]
    BY <1>1 DEF CoreInv, TypeOK, Tasks, Task, LiveStates
  <1>3. TypeOK'
    BY <1>2 DEF CoreInv, TypeOK, Tasks
  <1>4. IndexesExact'
    BY <1>1, <1>2 DEF CoreInv, IndexesExact
  <1>5. OutputMatchesTask'
    BY <1>1, <1>2 DEF CoreInv, OutputMatchesTask, LiveStates
  <1>6. LeasesAreCurrent'
    BY <1>1, <1>2 DEF CoreInv, LeasesAreCurrent, LeasedStates, CheckIdentity,
       Registered
  <1>7. KnownAreMinted'
    BY <1>1, <1>2 DEF CoreInv, KnownAreMinted
  <1> QED
    BY <1>3, <1>4, <1>5, <1>6, <1>7 DEF CoreInv

\* `release` keeps the worker a worker and its session.
LEMMA ReleaseKeeps ==
  ASSUME CoreInv, NEW n \in NodeId, NEW t \in TaskId, Registered(n),
         tasks[t] \in Task, workers' = Release(n, t)
  PROVE  /\ workers' \in [NodeId -> Worker \cup {NoWorker}]
         /\ \A m \in NodeId : Registered(m) =>
              /\ workers'[m].state # "Absent"
              /\ workers'[m].session = workers[m].session
  <1> DEFINE w == [workers[n] EXCEPT !.free = @ + 1,
                                    !.available = Add(@, tasks[t].resources)]
  <1>1. workers[n] \in Worker /\ workers \in [NodeId -> Worker \cup {NoWorker}]
    BY DEF CoreInv, TypeOK, Registered, NoWorker
  <1>2. Add(workers[n].available, tasks[t].resources) \in ResourceSet
    BY <1>1 DEF Add, ResourceSet, Worker, Task
  <1>3. w \in Worker /\ w.session = workers[n].session /\ w.state # "Absent"
    <2> DEFINE a == Add(workers[n].available, tasks[t].resources)
               f == workers[n].free + 1
    <2>1. f \in Nat
      BY <1>1 DEF Worker
    <2>2. w = [workers[n] EXCEPT !.free = f, !.available = a]
      BY <1>1 DEF Worker
    <2>3. a \in ResourceSet
      BY <1>2
    <2> HIDE DEF w, a, f
    <2> QED
      BY <1>1, <2>1, <2>2, <2>3 DEF Worker
  <1>4. workers' = [workers EXCEPT ![n] = w]
    BY <1>1 DEF Release
  <1> HIDE DEF w
  <1> QED
    BY <1>1, <1>3, <1>4 DEF Registered

\* The end of a task, whatever ended it, keeps the invariant.
LEMMA EndCore ==
  ASSUME CoreInv, NEW t \in TaskId, NEW s \in TerminalStates, Live(t),
         TaskEnded(t, s, tasks, tasks', objects', waiting', runnable'),
         workers' \in [NodeId -> Worker \cup {NoWorker}],
         \A m \in NodeId : Registered(m) =>
              /\ workers'[m].state # "Absent"
              /\ workers'[m].session = workers[m].session,
         cancelRequested' = cancelRequested \ {t},
         UNCHANGED <<operations, pendingDeletes, minted, sessions, grants>>
  PROVE  CoreInv'
  <1>1. tasks[t] \in Task
    BY DEF CoreInv, TypeOK, Live, LiveStates, NoTask
  <1>2. /\ tasks'[t].state = s /\ tasks'[t].assigned = Unassigned
        /\ s \notin LeasedStates /\ s \notin LiveStates
    BY <1>1 DEF TaskEnded, Ended, Task, TerminalStates, LeasedStates,
       LiveStates
  <1>3. \A u \in TaskId \ {t} :
          \/ tasks'[u] = tasks[u]
          \/ /\ tasks[u].state = "Waiting"
             /\ tasks'[u].state \in {"Failed", "Runnable"}
    <2> SUFFICES ASSUME NEW u \in TaskId \ {t}, tasks[u].state = "Waiting",
                        \/ tasks'[u] = [tasks[u] EXCEPT !.state = "Failed"]
                        \/ tasks'[u] = [tasks[u] EXCEPT !.state = "Runnable"]
                 PROVE  tasks'[u].state \in {"Failed", "Runnable"}
      BY DEF TaskEnded
    <2>1. tasks[u] \in Task
      BY DEF CoreInv, TypeOK, NoTask
    <2> QED
      BY <2>1 DEF Task
  <1>4. TypeOK'
    BY DEF TaskEnded, CoreInv, TypeOK, IsWaitingSet, Tasks, Objects
  <1>5. IndexesExact'
    <2>1. \A u \in TaskId : u \in cancelRequested' <=>
                             tasks'[u].state = "CancelRequested"
      BY <1>2, <1>3 DEF CoreInv, IndexesExact, LeasedStates
    <2>2. cancelRequested' \subseteq TaskId
      BY DEF CoreInv, TypeOK
    <2> QED
      BY <2>1, <2>2 DEF IndexesExact, TaskEnded, IsWaitingSet
  <1>6. OutputMatchesTask'
    BY DEF TaskEnded, OutputsMatch, OutputMatchesTask
  <1>7. LeasesAreCurrent'
    <2>1. \A u \in TaskId \cap {t} :
            /\ tasks'[u].state \notin LeasedStates
            /\ tasks'[u].assigned = Unassigned
      BY <1>2
    <2>2. tasks' \in Tasks
      BY DEF TaskEnded
    <2>3. \A u \in TaskId \ {t} :
           \/ tasks'[u] = tasks[u]
           \/ /\ tasks[u].state = "Waiting"
              /\ \/ tasks'[u] = [tasks[u] EXCEPT !.state = "Failed"]
                 \/ tasks'[u] = [tasks[u] EXCEPT !.state = "Runnable"]
      BY DEF TaskEnded
    <2> QED
      BY <2>1, <2>2, <2>3, LeasesKept
  <1>8. KnownAreMinted'
    <2>1. tasks[t].state # "Absent"
      BY DEF Live, LiveStates
    <2> QED
      BY <1>3, <2>1 DEF CoreInv, KnownAreMinted
  <1> QED
    BY <1>4, <1>5, <1>6, <1>7, <1>8 DEF CoreInv

\* The end of a leased task, on its worker's report.
LEMMA ReportedEndCore ==
  ASSUME CoreInv, NEW g \in grants, CheckFence(g),
         tasks[g.task].state \in LeasedStates, NEW s \in TerminalStates,
         NEW out \in Object,
         s = "Succeeded" => /\ out.state = "Available"
                            /\ out.version = tasks[g.task].attempt,
         s # "Succeeded" => out.state = s,
         Reconcile([tasks EXCEPT ![g.task] = Ended(@, s)],
                   [objects EXCEPT ![Output(g.task)] = out],
                   waiting, runnable),
         workers' = Release(g.node, g.task),
         cancelRequested' = cancelRequested \ {g.task},
         UNCHANGED <<operations, pendingDeletes, minted, sessions, grants>>
  PROVE  CoreInv'
  <1> DEFINE t == g.task
  <1>1. t \in TaskId /\ g.node \in NodeId
    BY DEF CoreInv, TypeOK, Grant
  <1>2. Live(t) /\ tasks[t] \in Task /\ tasks[t].state # "Waiting"
    BY <1>1 DEF CoreInv, TypeOK, LeasedStates, Live, LiveStates, NoTask
  <1>3. waiting = waiting \ {t}
    BY <1>1, <1>2 DEF CoreInv, IndexesExact
  <1>4. Reconcile([tasks EXCEPT ![t] = Ended(@, s)],
                  [objects EXCEPT ![Output(t)] = out],
                  waiting \ {t}, runnable)
    BY <1>3 DEF Reconcile
  <1> HIDE DEF t
  <1>5. TaskEnded(t, s, tasks, tasks', objects', waiting', runnable')
    <2>1. t = g.task
      BY DEF t
    <2> QED
      BY <1>1, <1>2, <1>4, <2>1, EndTask
  <1>6. /\ workers' \in [NodeId -> Worker \cup {NoWorker}]
        /\ \A m \in NodeId : Registered(m) =>
             /\ workers'[m].state # "Absent"
             /\ workers'[m].session = workers[m].session
    BY <1>1, <1>2, ReleaseKeeps DEF CheckFence, CheckIdentity, t
  <1>7. cancelRequested' = cancelRequested \ {t}
    BY DEF t
  <1> QED
    BY <1>1, <1>2, <1>5, <1>6, <1>7, EndCore

\* The output of a live task is there, so it can be given its final state.
LEMMA OutputMade ==
  ASSUME CoreInv, NEW t \in TaskId, tasks[t].state \in LiveStates,
         NEW s \in {"Failed", "Cancelled"}
  PROVE  LET out == [objects[Output(t)] EXCEPT !.state = s]
         IN  /\ out \in Object /\ out.state = s
             /\ [objects EXCEPT ![Output(t)].state = s]
                  = [objects EXCEPT ![Output(t)] = out]
  <1>1. objects[Output(t)].state = "Reserved" /\ Output(t) \in ObjectId
    BY OutputInjective DEF CoreInv, OutputMatchesTask
  <1>2. objects[Output(t)] \in Object
    BY <1>1 DEF CoreInv, TypeOK, NoObject
  <1> QED
    BY <1>2 DEF Object

LEMMA CompleteCore ==
  ASSUME CoreInv, NEW g \in grants, NEW codec \in Codec,
         NEW inline \in BOOLEAN, Complete(g, codec, inline)
  PROVE  CoreInv'
  <1> USE DEF Complete, Accepts
  <1> DEFINE out == [state |-> "Available", codec |-> codec,
                     inline |-> inline, version |-> g.attempt,
                     owner |-> g.node, location |-> g.node]
  <1>1. /\ g.task \in TaskId /\ g.node \in NodeId /\ g.attempt \in Nat
        /\ tasks[g.task].attempt = g.attempt
    BY DEF CoreInv, TypeOK, Grant, CheckFence
  <1>2. out \in Object /\ out.state = "Available" /\ out.version = g.attempt
    BY <1>1 DEF Object, Nodes, Places
  <1>3. Reconcile([tasks EXCEPT ![g.task] = Ended(@, "Succeeded")],
                  [objects EXCEPT ![Output(g.task)] = out], waiting, runnable)
    OBVIOUS
  <1>4. cancelRequested' = cancelRequested \ {g.task}
    BY <1>1 DEF CoreInv, IndexesExact
  <1>5. tasks[g.task].state \in LeasedStates /\ "Succeeded" \in TerminalStates
    BY DEF LeasedStates, TerminalStates
  <1> HIDE DEF out
  <1> QED
    BY <1>1, <1>2, <1>3, <1>4, <1>5, ReportedEndCore

LEMMA FailFinallyCore ==
  ASSUME CoreInv, NEW g \in grants, NEW transient \in BOOLEAN,
         FailFinally(g, transient)
  PROVE  CoreInv'
  <1> USE DEF FailFinally, Accepts
  <1> DEFINE out == [objects[Output(g.task)] EXCEPT !.state = "Failed"]
  <1>1. /\ g.task \in TaskId /\ tasks[g.task].state \in LeasedStates
        /\ tasks[g.task].state \in LiveStates
    BY DEF CoreInv, TypeOK, Grant, LeasedStates, LiveStates
  <1>2. out \in Object /\ out.state = "Failed"
        /\ [objects EXCEPT ![Output(g.task)].state = "Failed"]
             = [objects EXCEPT ![Output(g.task)] = out]
    BY <1>1, OutputMade
  <1>3. Reconcile([tasks EXCEPT ![g.task] = Ended(@, "Failed")],
                  [objects EXCEPT ![Output(g.task)] = out], waiting, runnable)
    BY <1>2 DEF Reconcile
  <1>4. cancelRequested' = cancelRequested \ {g.task}
    BY <1>1 DEF CoreInv, IndexesExact
  <1>5. "Failed" \in TerminalStates
    BY DEF TerminalStates
  <1> HIDE DEF out
  <1> QED
    BY <1>1, <1>2, <1>3, <1>4, <1>5, ReportedEndCore

LEMMA AcknowledgeCancelCore ==
  ASSUME CoreInv, NEW g \in grants, AcknowledgeCancel(g)
  PROVE  CoreInv'
  <1> USE DEF AcknowledgeCancel
  <1> DEFINE out == [objects[Output(g.task)] EXCEPT !.state = "Cancelled"]
  <1>1. /\ g.task \in TaskId /\ tasks[g.task].state \in LeasedStates
        /\ tasks[g.task].state \in LiveStates
    BY DEF CoreInv, TypeOK, Grant, LeasedStates, LiveStates
  <1>2. out \in Object /\ out.state = "Cancelled"
        /\ [objects EXCEPT ![Output(g.task)].state = "Cancelled"]
             = [objects EXCEPT ![Output(g.task)] = out]
    BY <1>1, OutputMade
  <1>3. Reconcile([tasks EXCEPT ![g.task] = Ended(@, "Cancelled")],
                  [objects EXCEPT ![Output(g.task)] = out], waiting, runnable)
    BY <1>2 DEF Reconcile
  <1>5. "Cancelled" \in TerminalStates
    BY DEF TerminalStates
  <1> HIDE DEF out
  <1> QED
    BY <1>1, <1>2, <1>3, <1>5, ReportedEndCore

LEMMA CancelUnleasedCore ==
  ASSUME CoreInv, NEW t \in TaskId, CancelUnleased(t)
  PROVE  CoreInv'
  <1> USE DEF CancelUnleased
  <1> DEFINE out == [objects[Output(t)] EXCEPT !.state = "Cancelled"]
  <1>1. tasks[t].state \in LiveStates /\ Live(t)
    BY DEF Live
  <1>2. out \in Object /\ out.state = "Cancelled"
        /\ [objects EXCEPT ![Output(t)].state = "Cancelled"]
             = [objects EXCEPT ![Output(t)] = out]
    BY <1>1, OutputMade
  <1>3. Reconcile([tasks EXCEPT ![t] = Ended(@, "Cancelled")],
                  [objects EXCEPT ![Output(t)] = out], waiting \ {t}, runnable)
    BY <1>2 DEF Reconcile
  <1>4. "Cancelled" \in TerminalStates
    BY DEF TerminalStates
  <1> HIDE DEF out
  <1>5. TaskEnded(t, "Cancelled", tasks, tasks', objects', waiting', runnable')
    BY <1>1, <1>2, <1>3, <1>4, EndTask
  <1>6. cancelRequested' = cancelRequested \ {t}
    BY DEF CoreInv, IndexesExact
  <1>7. workers' \in [NodeId -> Worker \cup {NoWorker}]
    BY DEF CoreInv, TypeOK
  <1>8. \A m \in NodeId : Registered(m) =>
          /\ workers'[m].state # "Absent"
          /\ workers'[m].session = workers[m].session
    BY DEF Registered
  <1> QED
    BY <1>1, <1>4, <1>5, <1>6, <1>7, <1>8, EndCore

\* One task changes between live states that are neither Waiting nor
\* CancelRequested, before and after.
LEMMA OneTaskCore ==
  ASSUME CoreInv, NEW t \in TaskId, Live(t), NEW x \in Task,
         tasks' = [tasks EXCEPT ![t] = x], x.state \in LiveStates,
         tasks[t].state \notin {"Waiting", "CancelRequested"},
         x.state \notin {"Waiting", "CancelRequested"},
         UNCHANGED <<objects, waiting, cancelRequested, minted>>
  PROVE  /\ tasks' \in Tasks /\ IndexesExact' /\ OutputMatchesTask'
         /\ KnownAreMinted'
         /\ tasks'[t] = x /\ \A u \in TaskId \ {t} : tasks'[u] = tasks[u]
  <1>1. /\ tasks' \in Tasks /\ tasks'[t] = x
        /\ \A u \in TaskId \ {t} : tasks'[u] = tasks[u]
    BY DEF CoreInv, TypeOK, Tasks
  <1>2. IndexesExact'
    BY <1>1 DEF CoreInv, IndexesExact
  <1>3. OutputMatchesTask'
    <2> SUFFICES ASSUME NEW u \in TaskId
                 PROVE  OutputMatchesTask!(u)'
      BY DEF OutputMatchesTask
    <2>1. CASE u = t
      <3>1. objects'[Output(u)].state = "Reserved"
        BY <2>1 DEF CoreInv, OutputMatchesTask, Live
      <3> QED
        BY <1>1, <2>1, <3>1 DEF LiveStates
    <2>2. CASE u # t
      BY <1>1, <2>2 DEF CoreInv, OutputMatchesTask
    <2> QED
      BY <2>1, <2>2
  <1>4. KnownAreMinted'
    BY <1>1 DEF CoreInv, KnownAreMinted, Live, LiveStates
  <1> QED
    BY <1>1, <1>2, <1>3, <1>4

LEMMA StartedCore ==
  ASSUME CoreInv, NEW g \in grants, Started(g)
  PROVE  CoreInv'
  <1> USE DEF Started
  <1> DEFINE t == g.task
             x == [tasks[t] EXCEPT !.state = "Running"]
  <1>1. t \in TaskId /\ Live(t) /\ tasks[t] \in Task
    BY DEF CoreInv, TypeOK, Grant, Live, LiveStates, NoTask
  <1>2. /\ x \in Task /\ x.state = "Running" /\ x.assigned = tasks[t].assigned
        /\ x.attempt = tasks[t].attempt
    BY <1>1 DEF Task, LiveStates
  <1>3. tasks' = [tasks EXCEPT ![t] = x]
    BY <1>1 DEF CoreInv, TypeOK
  <1>4. tasks[t].state = "Assigned" /\ x.state \in LiveStates
    BY <1>2 DEF LiveStates
  <1> HIDE DEF t, x
  <1>5. /\ tasks' \in Tasks /\ IndexesExact' /\ OutputMatchesTask'
        /\ KnownAreMinted'
        /\ tasks'[t] = x /\ \A u \in TaskId \ {t} : tasks'[u] = tasks[u]
    BY <1>1, <1>2, <1>3, <1>4, OneTaskCore
  <1>6. TypeOK'
    BY <1>5 DEF CoreInv, TypeOK, Tasks
  <1>7. LeasesAreCurrent'
    BY <1>1, <1>2, <1>4, <1>5 DEF CoreInv, LeasesAreCurrent, LeasedStates,
       CheckIdentity, Registered
  <1> QED
    BY <1>5, <1>6, <1>7 DEF CoreInv

LEMMA FailRetryCore ==
  ASSUME CoreInv, NEW g \in grants, FailRetry(g)
  PROVE  CoreInv'
  <1> USE DEF FailRetry, Accepts
  <1> DEFINE t == g.task
             x == Retried(tasks[t])
  <1>1. t \in TaskId /\ g.node \in NodeId /\ Live(t) /\ tasks[t] \in Task
    BY DEF CoreInv, TypeOK, Grant, Live, LiveStates, NoTask
  <1>2. x \in Task /\ x.state = "Runnable" /\ x.assigned = Unassigned
    BY <1>1, TaskUpdates DEF Task, Retried
  <1>3. tasks' = [tasks EXCEPT ![t] = x]
    OBVIOUS
  <1>4. /\ tasks[t].state \in {"Assigned", "Running"} /\ x.state \in LiveStates
        /\ x.state \notin LeasedStates
    BY <1>2 DEF LiveStates, LeasedStates
  <1>5. waiting' = waiting
    BY <1>1, <1>4 DEF CoreInv, IndexesExact
  <1>6. runnable' \in Seq(TaskId)
    BY <1>1 DEF CoreInv, TypeOK
  <1>7. /\ workers' \in [NodeId -> Worker \cup {NoWorker}]
        /\ \A m \in NodeId : Registered(m) =>
             /\ workers'[m].state # "Absent"
             /\ workers'[m].session = workers[m].session
    BY <1>1, ReleaseKeeps DEF CheckFence, CheckIdentity
  <1> HIDE DEF t, x
  <1>8. /\ tasks' \in Tasks /\ IndexesExact' /\ OutputMatchesTask'
        /\ KnownAreMinted'
        /\ tasks'[t] = x /\ \A u \in TaskId \ {t} : tasks'[u] = tasks[u]
    BY <1>1, <1>2, <1>3, <1>4, <1>5, OneTaskCore
  <1>9. TypeOK'
    BY <1>5, <1>6, <1>7, <1>8 DEF CoreInv, TypeOK, Tasks
  <1>10. LeasesAreCurrent'
    <2>1. \A u \in TaskId \cap {t} :
            /\ tasks'[u].state \notin LeasedStates
            /\ tasks'[u].assigned = Unassigned
      BY <1>2, <1>4, <1>8
    <2> QED
      BY <1>7, <1>8, <2>1, LeasesKept
  <1> QED
    BY <1>8, <1>9, <1>10 DEF CoreInv

LEMMA PollDeleteCore ==
  ASSUME CoreInv, NEW n \in NodeId, PollDelete(n)
  PROVE  CoreInv'
  <1>1. pendingDeletes' \in [NodeId -> SUBSET ObjectId]
    BY DEF PollDelete, CoreInv, TypeOK
  <1>2. UNCHANGED <<workers, tasks, objects, operations, runnable, waiting,
                    cancelRequested, minted, sessions, grants>>
    BY DEF PollDelete
  <1> QED
    BY <1>1, <1>2 DEF CoreInv, TypeOK, IndexesExact, OutputMatchesTask,
       LeasesAreCurrent, KnownAreMinted, CheckIdentity, Registered

\* What is put back in the queue is a sequence of the ids that were in it.
LEMMA RequeueType ==
  ASSUME CoreInv, NEW n, NEW end, NEW i, Requeue(n, end, i)
  PROVE  runnable' \in Seq(TaskId)
  <1> DEFINE K == Kept(n, end, i)
  <1>1. runnable \in Seq(TaskId) /\ K \subseteq 1..Len(runnable)
    BY DEF CoreInv, TypeOK, Kept
  <1>2. IsFiniteSet(1..Len(runnable))
    BY <1>1, FS_Interval
  <1>3. IsFiniteSet(K)
    BY <1>1, <1>2, FS_Subset
  <1>4. Cardinality(K) \in Nat
    BY <1>3, FS_CardinalityType
  <1>5. PICK f \in [1..Cardinality(K) -> K] :
          runnable' = [k \in DOMAIN f |-> runnable[f[k]]]
    BY DEF Requeue
  <1> HIDE DEF K
  <1>6. \A k \in 1..Cardinality(K) : runnable[f[k]] \in TaskId
    <2> SUFFICES ASSUME NEW k \in 1..Cardinality(K)
                 PROVE  runnable[f[k]] \in TaskId
      OBVIOUS
    <2>1. f[k] \in K
      BY <1>5
    <2>2. f[k] \in 1..Len(runnable)
      BY <1>1, <2>1
    <2> QED
      BY <1>1, <2>2
  <1>7. runnable' = [k \in 1..Cardinality(K) |-> runnable[f[k]]]
    BY <1>5
  <1> QED
    BY <1>4, <1>6, <1>7

LEMMA PollEmptyCore ==
  ASSUME CoreInv, NEW s \in DOMAIN sessions, PollEmpty(s)
  PROVE  CoreInv'
  <1>1. runnable' \in Seq(TaskId)
    BY RequeueType DEF PollEmpty
  <1>2. UNCHANGED <<workers, tasks, objects, operations, pendingDeletes,
                    waiting, cancelRequested, minted, sessions, grants>>
    BY DEF PollEmpty
  <1> QED
    BY <1>1, <1>2 DEF CoreInv, TypeOK, IndexesExact, OutputMatchesTask,
       LeasesAreCurrent, KnownAreMinted, CheckIdentity, Registered

LEMMA PollAssignCore ==
  ASSUME CoreInv, NEW s \in DOMAIN sessions, PollAssign(s)
  PROVE  CoreInv'
  <1> DEFINE n == sessions[s]
  <1>1. PICK end \in 0..Len(runnable), i \in DOMAIN runnable :
          /\ Picks(n, end, i) /\ Assign(n, runnable[i]) /\ Requeue(n, end, i)
    BY DEF PollAssign
  <1> DEFINE t == runnable[i]
             ses == workers[n].session
             x == [tasks[t] EXCEPT !.state = "Assigned", !.attempt = @ + 1,
                     !.assigned = [node |-> n, session |-> ses]]
             w == [workers[n] EXCEPT !.free = @ - 1,
                     !.available = Subtract(@, tasks[t].resources)]
  <1>2. n \in NodeId /\ workers[n] \in Worker /\ workers[n].free > 0
    BY DEF PollAssign, CanTake, CheckIdentity, Registered, CoreInv, TypeOK,
       NoWorker
  <1>3. /\ t \in TaskId /\ tasks[t] \in Task /\ tasks[t].state = "Runnable"
        /\ CanFit(workers[n].available, tasks[t].resources)
    BY <1>1 DEF CoreInv, TypeOK, Picks, Servable, Serves, Runs, Fits, NoTask
  <1>4. /\ UNCHANGED <<objects, operations, pendingDeletes, waiting,
                        cancelRequested, minted, sessions>>
    BY DEF PollAssign
  <1>5. runnable' \in Seq(TaskId)
    BY <1>1, RequeueType
  <1>6. w \in Worker /\ w.session = ses /\ w.state # "Absent"
    <2> DEFINE a == Subtract(workers[n].available, tasks[t].resources)
               f == workers[n].free - 1
    <2>1. f \in Nat
      BY <1>2 DEF Worker
    <2>2. a \in ResourceSet
      BY <1>2, <1>3 DEF Worker, Task, ResourceSet, Subtract, CanFit
    <2>3. w = [workers[n] EXCEPT !.free = f, !.available = a]
      BY <1>2 DEF Worker
    <2> HIDE DEF w, a, f
    <2> QED
      BY <1>2, <2>1, <2>2, <2>3 DEF Worker
  <1>7. /\ x \in Task /\ x.state = "Assigned"
        /\ x.attempt = tasks[t].attempt + 1
        /\ x.assigned = [node |-> n, session |-> ses]
    <2>1. ses \in Nat
      BY <1>2 DEF Worker
    <2> DEFINE a == tasks[t].attempt + 1
               l == [node |-> n, session |-> ses]
    <2>2. a \in Nat /\ l \in [node : Nodes, session : Nat]
      BY <1>2, <1>3, <2>1 DEF Task, Nodes
    <2>3. x = [tasks[t] EXCEPT !.state = "Assigned", !.attempt = a,
                               !.assigned = l]
      BY <1>3 DEF Task
    <2> HIDE DEF ses, t, n, a, l, x
    <2>4. x \in Task /\ x.state = "Assigned" /\ x.attempt = a /\ x.assigned = l
      BY <1>3, <2>2, <2>3 DEF Task, LiveStates
    <2> QED
      BY <2>4 DEF a, l
  <1>8. workers' = [workers EXCEPT ![n] = w] /\ tasks' = [tasks EXCEPT ![t] = x]
    BY <1>1, <1>2, <1>3 DEF Assign, CoreInv, TypeOK
  <1>9. grants' = grants \cup {[task |-> t, attempt |-> tasks[t].attempt + 1,
                                node |-> n, session |-> ses]}
    BY <1>1 DEF Assign
  <1>10. Live(t) /\ x.state \in LiveStates
    BY <1>3, <1>7 DEF Live, LiveStates
  <1>11. ses \in Nat /\ tasks[t].attempt + 1 \in Nat
    BY <1>2, <1>3 DEF Worker, Task
  <1> HIDE DEF x, w, ses, t, n
  <1>12. /\ tasks' \in Tasks /\ IndexesExact' /\ OutputMatchesTask'
         /\ KnownAreMinted'
         /\ tasks'[t] = x /\ \A u \in TaskId \ {t} : tasks'[u] = tasks[u]
    BY <1>3, <1>4, <1>7, <1>8, <1>10, OneTaskCore
  <1>13. workers' \in [NodeId -> Worker \cup {NoWorker}] /\ workers'[n] = w
         /\ \A m \in NodeId \ {n} : workers'[m] = workers[m]
    BY <1>2, <1>6, <1>8 DEF CoreInv, TypeOK
  <1>14. grants' \subseteq Grant
    BY <1>2, <1>3, <1>9, <1>11 DEF CoreInv, TypeOK, Grant
  <1>15. TypeOK'
    BY <1>4, <1>5, <1>12, <1>13, <1>14 DEF CoreInv, TypeOK, Tasks
  <1>16. LeasesAreCurrent'
    <2>1. \A m \in NodeId : \A k : CheckIdentity(m, k) => CheckIdentity(m, k)'
      BY <1>6, <1>13 DEF CheckIdentity, Registered, ses
    <2>2. workers'[n].state # "Absent" /\ workers'[n].session = ses
      BY <1>2, <1>6, <1>13
    <2> SUFFICES ASSUME NEW u \in TaskId, tasks'[u].state # "Absent"
                 PROVE  LeasesAreCurrent!(u)'
      BY DEF LeasesAreCurrent
    <2>3. CASE u = t
      BY <1>2, <1>7, <1>9, <1>12, <2>2, <2>3 DEF LeasedStates, CheckIdentity,
         Registered
    <2>4. CASE u # t
      BY <1>9, <1>12, <2>1, <2>4 DEF CoreInv, LeasesAreCurrent
    <2> QED
      BY <2>3, <2>4
  <1> QED
    BY <1>12, <1>15, <1>16 DEF CoreInv

\* Reclaiming objects that may be released, with their producers.
LEMMA ReclaimCore ==
  ASSUME CoreInv, NEW S, NEW T \in Tasks,
         \A o \in S : o \in ObjectId /\ Releasable(o),
         \A t \in TaskId : /\ T[t].state = tasks[t].state
                           /\ T[t].state # "Absent" =>
                                /\ T[t].attempt = tasks[t].attempt
                                /\ T[t].assigned = tasks[t].assigned,
         Reclaim(S, T),
         UNCHANGED <<workers, operations, runnable, waiting, cancelRequested,
                     minted, sessions, grants>>
  PROVE  CoreInv'
  <1>1. objects' = [o \in ObjectId |-> IF o \in S THEN NoObject ELSE objects[o]]
    BY DEF Reclaim
  <1>2. tasks' = [t \in TaskId |-> IF Output(t) \in S THEN NoTask ELSE T[t]]
    BY DEF Reclaim
  <1>3. pendingDeletes' \in [NodeId -> SUBSET ObjectId]
    BY DEF Reclaim, CoreInv, TypeOK
  <1>4. objects' \in Objects /\ tasks' \in Tasks
    BY <1>1, <1>2 DEF CoreInv, TypeOK, Objects, Tasks
  <1>5. TypeOK'
    BY <1>3, <1>4 DEF CoreInv, TypeOK, Objects, Tasks
  <1>6. \A t \in TaskId : Output(t) \in S => tasks[t].state \notin LiveStates
    BY DEF Releasable, CoreInv, OutputMatchesTask
  <1>7. \A t \in TaskId :
          IF Output(t) \in S THEN tasks'[t] = NoTask ELSE tasks'[t] = T[t]
    BY <1>2
  <1>8. IndexesExact'
    BY <1>6, <1>7 DEF CoreInv, IndexesExact, NoTask, LiveStates
  <1>9. OutputMatchesTask'
    <2> SUFFICES ASSUME NEW t \in TaskId
                 PROVE  OutputMatchesTask!(t)'
      BY DEF OutputMatchesTask
    <2>1. CASE Output(t) \in S
      <3>1. tasks'[t] = NoTask /\ objects'[Output(t)] = NoObject
        BY <1>1, <1>7, <2>1
      <3> QED
        BY <3>1 DEF NoTask, NoObject, LiveStates
    <2>2. CASE Output(t) \notin S
      <3>1. tasks'[t] = T[t] /\ objects'[Output(t)] = objects[Output(t)]
        BY <1>1, <1>7, <2>2, OutputInjective
      <3>2. T[t].state = tasks[t].state
            /\ (T[t].state # "Absent" => T[t].attempt = tasks[t].attempt)
        OBVIOUS
      <3> QED
        BY <3>1, <3>2 DEF CoreInv, OutputMatchesTask
    <2> QED
      BY <2>1, <2>2
  <1>10. LeasesAreCurrent'
    <2> SUFFICES ASSUME NEW t \in TaskId, tasks'[t].state # "Absent"
                 PROVE  LeasesAreCurrent!(t)'
      BY DEF LeasesAreCurrent
    <2>1. tasks'[t] = T[t] /\ tasks[t].state = T[t].state
          /\ T[t].attempt = tasks[t].attempt /\ T[t].assigned = tasks[t].assigned
      BY <1>7 DEF NoTask
    <2> QED
      BY <2>1 DEF CoreInv, LeasesAreCurrent, CheckIdentity, Registered
  <1>11. KnownAreMinted'
    BY <1>7 DEF CoreInv, KnownAreMinted, NoTask
  <1> QED
    BY <1>5, <1>8, <1>9, <1>10, <1>11 DEF CoreInv

LEMMA ReleaseObjectCore ==
  ASSUME CoreInv, NEW o \in ObjectId, ReleaseObject(o)
  PROVE  CoreInv'
  <1>1. tasks \in Tasks
    BY DEF CoreInv, TypeOK, Tasks
  <1>2. \A p \in {o} : p \in ObjectId /\ Releasable(p)
    BY DEF ReleaseObject
  <1>3. /\ Reclaim({o}, tasks)
        /\ UNCHANGED <<workers, operations, runnable, waiting,
                        cancelRequested, minted, sessions, grants>>
    BY DEF ReleaseObject
  <1> QED
    BY <1>1, <1>2, <1>3, ReclaimCore

LEMMA ReapCore ==
  ASSUME CoreInv, ReapTerminalTasks
  PROVE  CoreInv'
  <1> DEFINE T == [t \in TaskId |-> Stamped(t)]
             due == {t \in TaskId : /\ Terminal(t)
                                    /\ Stamped(t).age >= TtlMs
                                    /\ Releasable(Output(t))}
             S == {Output(t) : t \in due}
  <1>1. \A t \in TaskId :
          \/ T[t] = tasks[t]
          \/ tasks[t] \in Task /\ T[t] = [tasks[t] EXCEPT !.age = 0]
    BY DEF Stamped, Terminal, TerminalStates, CoreInv, TypeOK, NoTask
  <1>2. Reclaim(S, T)
        /\ UNCHANGED <<workers, operations, runnable, waiting,
                        cancelRequested, minted, sessions, grants>>
    BY DEF ReapTerminalTasks
  <1>3. \A o \in S : o \in ObjectId /\ Releasable(o)
    BY OutputInjective
  <1>7. T = [t \in TaskId |-> T[t]]
    OBVIOUS
  <1> HIDE DEF T, S
  <1>4. \A t \in TaskId : T[t] \in Task \cup {NoTask}
    <2> SUFFICES ASSUME NEW t \in TaskId, tasks[t] \in Task,
                        T[t] = [tasks[t] EXCEPT !.age = 0]
                 PROVE  T[t] \in Task
      BY <1>1 DEF CoreInv, TypeOK
    <2> QED
      BY DEF Task
  <1>5. T \in Tasks
    BY <1>4, <1>7 DEF Tasks
  <1>6. \A t \in TaskId : /\ T[t].state = tasks[t].state
                          /\ T[t].state # "Absent" =>
                               /\ T[t].attempt = tasks[t].attempt
                               /\ T[t].assigned = tasks[t].assigned
    BY <1>1 DEF Task
  <1> QED
    BY <1>2, <1>3, <1>5, <1>6, ReclaimCore

\* The timers stay in their ranges as time passes.
LEMMA TimerTypes ==
  /\ \A x \in 0..LeaseMs : Down(x) \in 0..LeaseMs
  /\ \A x \in Nat : Down(x) \in Nat
  /\ \A x \in {Unstamped} \cup Nat : Older(x) \in {Unstamped} \cup Nat
  BY Bounds DEF Down, Older, MinOf, Unstamped

LEMMA AgedWorker ==
  ASSUME NEW w \in Worker
  PROVE  LET v == [w EXCEPT !.lease = Down(@)]
         IN  v \in Worker /\ v.session = w.session /\ v.state # "Absent"
  <1> DEFINE l == Down(w.lease)
  <1>1. l \in 0..LeaseMs
    BY TimerTypes DEF Worker
  <1>2. [w EXCEPT !.lease = Down(@)] = [w EXCEPT !.lease = l]
    BY DEF Worker
  <1> HIDE DEF l
  <1>3. LET v == [w EXCEPT !.lease = l]
        IN  v \in Worker /\ v.session = w.session /\ v.state # "Absent"
    BY <1>1 DEF Worker
  <1> QED
    BY <1>2, <1>3

LEMMA AgedTask ==
  ASSUME NEW x \in Task
  PROVE  LET y == [x EXCEPT !.wait = Down(@), !.age = Older(@)]
         IN  /\ y \in Task /\ y.state = x.state /\ y.attempt = x.attempt
             /\ y.assigned = x.assigned
  <1> DEFINE d == Down(x.wait)
             a == Older(x.age)
  <1>1. d \in Nat /\ a \in {Unstamped} \cup Nat
    BY TimerTypes DEF Task
  <1>2. [x EXCEPT !.wait = Down(@), !.age = Older(@)]
          = [x EXCEPT !.wait = d, !.age = a]
    BY DEF Task
  <1> HIDE DEF d, a
  <1>3. LET y == [x EXCEPT !.wait = d, !.age = a]
        IN  /\ y \in Task /\ y.state = x.state /\ y.attempt = x.attempt
            /\ y.assigned = x.assigned
    BY <1>1 DEF Task
  <1> QED
    BY <1>2, <1>3

LEMMA TickCore ==
  ASSUME CoreInv, Tick
  PROVE  CoreInv'
  <1>1. \A n \in NodeId :
          \/ workers'[n] = workers[n]
          \/ /\ workers[n] \in Worker
             /\ workers'[n] = [workers[n] EXCEPT !.lease = Down(@)]
    BY DEF Tick, Registered, CoreInv, TypeOK, NoWorker
  <1>2. \A t \in TaskId :
          \/ tasks'[t] = tasks[t]
          \/ /\ tasks[t] \in Task
             /\ tasks'[t] = [tasks[t] EXCEPT !.wait = Down(@),
                                             !.age = Older(@)]
    BY DEF Tick, Live, Terminal, LiveStates, TerminalStates, CoreInv, TypeOK,
       NoTask
  <1>3. \A n \in NodeId :
          /\ workers'[n] \in Worker \cup {NoWorker}
          /\ Registered(n) => /\ workers'[n].state # "Absent"
                              /\ workers'[n].session = workers[n].session
    <2> TAKE n \in NodeId
    <2>1. CASE workers'[n] = workers[n]
      BY <2>1 DEF CoreInv, TypeOK, Registered
    <2>2. CASE /\ workers[n] \in Worker
               /\ workers'[n] = [workers[n] EXCEPT !.lease = Down(@)]
      BY <2>2, AgedWorker
    <2> QED
      BY <1>1, <2>1, <2>2
  <1>4. \A t \in TaskId :
          /\ tasks'[t] \in Task \cup {NoTask}
          /\ \/ tasks'[t] = tasks[t]
             \/ /\ tasks'[t].state = tasks[t].state
                /\ tasks'[t].attempt = tasks[t].attempt
                /\ tasks'[t].assigned = tasks[t].assigned
    <2> TAKE t \in TaskId
    <2>1. CASE tasks'[t] = tasks[t]
      BY <2>1 DEF CoreInv, TypeOK
    <2>2. CASE /\ tasks[t] \in Task
               /\ tasks'[t] = [tasks[t] EXCEPT !.wait = Down(@),
                                               !.age = Older(@)]
      BY <2>2, AgedTask
    <2> QED
      BY <1>2, <2>1, <2>2
  <1>5. TypeOK'
    <2>1. workers' \in [NodeId -> Worker \cup {NoWorker}]
      BY <1>3 DEF Tick
    <2>2. tasks' \in [TaskId -> Task \cup {NoTask}]
      BY <1>4 DEF Tick
    <2>3. UNCHANGED <<objects, operations, pendingDeletes, runnable, waiting,
                      cancelRequested, minted, sessions, grants>>
      BY DEF Tick
    <2> QED
      BY <2>1, <2>2, <2>3 DEF CoreInv, TypeOK
  <1>6. LeasesAreCurrent'
    <2>1. \A m \in NodeId : \A k : CheckIdentity(m, k) => CheckIdentity(m, k)'
      BY <1>3 DEF CheckIdentity, Registered
    <2>2. grants' = grants
      BY DEF Tick
    <2> SUFFICES ASSUME NEW t \in TaskId, tasks'[t].state # "Absent"
                 PROVE  LeasesAreCurrent!(t)'
      BY DEF LeasesAreCurrent
    <2>3. /\ tasks'[t].state = tasks[t].state
          /\ tasks'[t].attempt = tasks[t].attempt
          /\ tasks'[t].assigned = tasks[t].assigned
      BY <1>4
    <2> QED
      BY <2>1, <2>2, <2>3 DEF CoreInv, LeasesAreCurrent
  <1>7. IndexesExact'
    <2>1. \A t \in TaskId : tasks'[t].state = tasks[t].state
      BY <1>4
    <2>2. UNCHANGED <<waiting, cancelRequested>>
      BY DEF Tick
    <2> QED
      BY <2>1, <2>2 DEF CoreInv, IndexesExact
  <1>8. OutputMatchesTask'
    <2> SUFFICES ASSUME NEW t \in TaskId
                 PROVE  OutputMatchesTask!(t)'
      BY DEF OutputMatchesTask
    <2>1. objects' = objects
      BY DEF Tick
    <2> QED
      BY <1>4, <2>1 DEF CoreInv, OutputMatchesTask
  <1>9. KnownAreMinted'
    BY <1>4 DEF CoreInv, KnownAreMinted, Tick
  <1> QED
    BY <1>5, <1>6, <1>7, <1>8, <1>9 DEF CoreInv

----------------------------------------------------------------------------
(* Expiry: several workers go at once, and with them the leases of all     *)
(* their tasks and the bytes of their objects.                             *)

\* What expiry makes of a task it takes from its worker.
LEMMA OrphansEffect ==
  ASSUME CoreInv, NEW t \in Orphans
  PROVE  /\ t \in TaskId /\ tasks[t] \in Task
         /\ tasks[t].state \in LeasedStates
         /\ AfterExpiry(t) \in {"Cancelled", "Runnable", "Failed"}
         /\ ExpiredTask(t) \in Task
         /\ ExpiredTask(t).state = AfterExpiry(t)
         /\ ExpiredTask(t).assigned = Unassigned
  <1>1. PICK n \in NodeId : t \in AssignedTo(n)
    BY DEF Orphans, Expired
  <1>2. /\ t \in TaskId /\ tasks[t].state # "Absent"
        /\ tasks[t].assigned.node = n
    BY <1>1 DEF AssignedTo
  <1>3. tasks[t] \in Task
    BY <1>2 DEF CoreInv, TypeOK, NoTask
  <1>4. tasks[t].assigned # Unassigned
    BY <1>2, ConstantsDiffer DEF Unassigned
  <1>5. tasks[t].state \in LeasedStates
    BY <1>2, <1>4 DEF CoreInv, LeasesAreCurrent
  <1>6. AfterExpiry(t) \in {"Cancelled", "Runnable", "Failed"}
    BY DEF AfterExpiry
  <1>7. /\ Retried(tasks[t]) \in Task
        /\ Retried(tasks[t]).state = "Runnable"
        /\ Retried(tasks[t]).assigned = Unassigned
    BY <1>3, TaskUpdates DEF Retried, Task
  <1>8. \A s \in TerminalStates : /\ Ended(tasks[t], s) \in Task
                                  /\ Ended(tasks[t], s).state = s
                                  /\ Ended(tasks[t], s).assigned = Unassigned
    BY <1>3, TaskUpdates DEF Ended, Task
  <1>9. CASE AfterExpiry(t) = "Runnable"
    BY <1>2, <1>3, <1>5, <1>7, <1>9 DEF ExpiredTask
  <1>10. CASE AfterExpiry(t) # "Runnable"
    <2>1. AfterExpiry(t) \in TerminalStates
      BY <1>6, <1>10 DEF TerminalStates
    <2>2. ExpiredTask(t) = Ended(tasks[t], AfterExpiry(t))
      BY <1>10 DEF ExpiredTask
    <2> QED
      BY <1>2, <1>3, <1>5, <1>6, <1>8, <2>1, <2>2
  <1> QED
    BY <1>9, <1>10

\* What expiry makes of an object: a published one keeps its version, and
\* the output of a task it ends gets the task's state.
LEMMA ObjectsAfterExpiry ==
  ASSUME CoreInv, NEW o \in ObjectId
  PROVE  /\ OutputAfterExpiry(o) \in Object \cup {NoObject}
         /\ \/ OutputAfterExpiry(o) = objects[o]
            \/ /\ objects[o].state = "Available"
               /\ OutputAfterExpiry(o).state \in {"Available", "Lost"}
               /\ OutputAfterExpiry(o).version = objects[o].version
            \/ /\ objects[o].state = "Reserved"
               /\ \E t \in Orphans : /\ o = Output(t)
                                     /\ AfterExpiry(t) # "Runnable"
                                     /\ OutputAfterExpiry(o).state
                                          = AfterExpiry(t)
  <1> DEFINE ended == {t \in Orphans :
                         o = Output(t) /\ AfterExpiry(t) # "Runnable"}
             e == CHOOSE t \in ended : TRUE
  <1>1. CASE Orphaned(o)
    <2>1. objects[o] \in Object /\ objects[o].state = "Available"
      BY <1>1 DEF Orphaned, CoreInv, TypeOK, NoObject
    <2>2. OutputAfterExpiry(o) = ExpiredObject(o)
      BY <1>1 DEF OutputAfterExpiry
    <2>3. CASE objects[o].inline
      BY <2>1, <2>2, <2>3 DEF ExpiredObject, Object, Nodes, Places
    <2>4. CASE ~objects[o].inline
      BY <2>1, <2>2, <2>4 DEF ExpiredObject, Object, Nodes, Places
    <2> QED
      BY <2>3, <2>4
  <1>2. CASE ~Orphaned(o) /\ ended # {}
    <2>1. e \in ended
      BY <1>2
    <2>2. OutputAfterExpiry(o) = [objects[o] EXCEPT !.state = AfterExpiry(e)]
      BY <1>2 DEF OutputAfterExpiry
    <2> HIDE DEF e
    <2>3. /\ e \in TaskId /\ tasks[e].state \in LiveStates
          /\ AfterExpiry(e) \in {"Cancelled", "Runnable", "Failed"}
      BY <2>1, OrphansEffect DEF LeasedStates, LiveStates
    <2>4. objects[o].state = "Reserved"
      BY <2>1, <2>3 DEF CoreInv, OutputMatchesTask
    <2>5. objects[o] \in Object
      BY <2>4 DEF CoreInv, TypeOK, NoObject
    <2>6. /\ e \in Orphans /\ o = Output(e)
          /\ AfterExpiry(e) \in {"Cancelled", "Failed"}
      BY <2>1, <2>3
    <2>7. /\ OutputAfterExpiry(o) \in Object
          /\ OutputAfterExpiry(o).state = AfterExpiry(e)
      BY <2>2, <2>5, <2>6 DEF Object
    <2> QED
      BY <2>4, <2>6, <2>7
  <1>3. CASE ~Orphaned(o) /\ ended = {}
    <2>1. OutputAfterExpiry(o) = objects[o]
      BY <1>3 DEF OutputAfterExpiry
    <2> QED
      BY <2>1 DEF CoreInv, TypeOK
  <1> QED
    BY <1>1, <1>2, <1>3

LEMMA EndedByExpiry ==
  ASSUME CoreInv, NEW t \in Orphans, AfterExpiry(t) # "Runnable"
  PROVE  OutputAfterExpiry(Output(t)).state = AfterExpiry(t)
  <1> DEFINE o == Output(t)
             ended == {u \in Orphans :
                         o = Output(u) /\ AfterExpiry(u) # "Runnable"}
             e == CHOOSE u \in ended : TRUE
  <1>1. t \in TaskId /\ tasks[t].state \in LiveStates
    BY OrphansEffect DEF LeasedStates, LiveStates
  <1>2. objects[o].state = "Reserved" /\ o \in ObjectId
    BY <1>1, OutputInjective DEF CoreInv, OutputMatchesTask
  <1>3. objects[o] \in Object /\ ~Orphaned(o)
    BY <1>2 DEF CoreInv, TypeOK, NoObject, Orphaned
  <1>4. e \in ended
    <2>1. t \in ended
      OBVIOUS
    <2> QED
      BY <2>1
  <1>5. OutputAfterExpiry(o) = [objects[o] EXCEPT !.state = AfterExpiry(e)]
    BY <1>3, <1>4 DEF OutputAfterExpiry
  <1> HIDE DEF e
  <1>6. e \in TaskId
    BY <1>4, OrphansEffect
  <1>7. e = t
    BY <1>1, <1>4, <1>6, OutputInjective
  <1> QED
    BY <1>3, <1>5, <1>7 DEF Object

\* The tables that expiry hands to reconciliation.
LEMMA ExpiryTables ==
  ASSUME CoreInv,
         NEW T, T = [t \in TaskId |->
                       IF t \in Orphans THEN ExpiredTask(t) ELSE tasks[t]],
         NEW O, O = [o \in ObjectId |-> OutputAfterExpiry(o)],
         NEW W, W = waiting \ {t \in Orphans : AfterExpiry(t) = "Runnable"}
  PROVE  /\ \A t \in Orphans : T[t] = ExpiredTask(t)
         /\ \A t \in TaskId \ Orphans : T[t] = tasks[t]
         /\ \A o \in ObjectId : O[o] = OutputAfterExpiry(o)
         /\ T \in Tasks /\ O \in Objects
         /\ IsWaitingSet(T, W) /\ OutputsMatch(T, O)
  <1>6. /\ \A t \in Orphans : T[t] = ExpiredTask(t)
        /\ \A t \in TaskId \ Orphans : T[t] = tasks[t]
        /\ \A o \in ObjectId : O[o] = OutputAfterExpiry(o)
    BY OrphansEffect
  <1>7. T \in Tasks
    BY OrphansEffect DEF Tasks, CoreInv, TypeOK
  <1>8. O \in Objects
    BY ObjectsAfterExpiry DEF Objects
  <1>9. IsWaitingSet(T, W)
    <2>1. waiting = {t \in TaskId : tasks[t].state = "Waiting"}
      BY DEF CoreInv, IndexesExact
    <2>2. \A t \in Orphans : /\ t \in TaskId /\ tasks[t].state # "Waiting"
                             /\ T[t].state # "Waiting"
      BY <1>6, OrphansEffect DEF LeasedStates
    <2>3. W = waiting
      BY <2>1, <2>2
    <2>4. \A t \in TaskId : t \in W <=> T[t].state = "Waiting"
      BY <1>6, <2>1, <2>2, <2>3
    <2> QED
      BY <2>1, <2>3, <2>4 DEF IsWaitingSet
  <1>10. OutputsMatch(T, O)
    <2> SUFFICES ASSUME NEW t \in TaskId
                 PROVE  OutputsMatch(T, O)!(t)
      BY DEF OutputsMatch
    <2> DEFINE o == Output(t)
    <2>1. o \in ObjectId /\ O[o] = OutputAfterExpiry(o)
      BY <1>6, OutputInjective
    <2>2. \/ O[o] = objects[o]
          \/ /\ objects[o].state = "Available"
             /\ O[o].state \in {"Available", "Lost"}
             /\ O[o].version = objects[o].version
          \/ /\ t \in Orphans /\ AfterExpiry(t) # "Runnable"
      <3> HIDE DEF o
      <3>1. ASSUME NEW u \in Orphans, o = Output(u), AfterExpiry(u) # "Runnable"
            PROVE  t \in Orphans /\ AfterExpiry(t) # "Runnable"
        <4>1. u \in TaskId
          BY OrphansEffect
        <4> QED
          BY <3>1, <4>1, OutputInjective DEF o
      <3> QED
        BY <2>1, <3>1, ObjectsAfterExpiry
    <2>3. CASE t \in Orphans /\ AfterExpiry(t) # "Runnable"
      <3>1. O[o].state = AfterExpiry(t) /\ T[t].state = AfterExpiry(t)
            /\ AfterExpiry(t) \in {"Cancelled", "Failed"}
        BY <1>6, <2>1, <2>3, OrphansEffect, EndedByExpiry
      <3> QED
        BY <3>1 DEF LiveStates
    <2>4. CASE t \in Orphans /\ AfterExpiry(t) = "Runnable"
      <3>1. T[t].state = "Runnable" /\ tasks[t].state \in LiveStates
        BY <1>6, <2>4, OrphansEffect DEF LeasedStates, LiveStates
      <3>2. objects[o].state = "Reserved"
        BY <3>1 DEF CoreInv, OutputMatchesTask
      <3>3. O[o].state = "Reserved"
        BY <2>2, <2>4, <3>2
      <3> QED
        BY <3>1, <3>3
    <2>5. CASE t \notin Orphans
      <3>1. T[t] = tasks[t]
        BY <1>6, <2>5
      <3>2. \/ O[o] = objects[o]
            \/ /\ objects[o].state = "Available"
               /\ O[o].state \in {"Available", "Lost"}
               /\ O[o].version = objects[o].version
        BY <2>2, <2>5
      <3>3. OutputMatchesTask!(t)
        BY DEF CoreInv, OutputMatchesTask
      <3> HIDE DEF o
      <3> QED
        BY <3>1, <3>2, <3>3 DEF o
    <2> QED
      BY <2>3, <2>4, <2>5
  <1> QED
    BY <1>6, <1>7, <1>8, <1>9, <1>10

LEMMA ExpireCore ==
  ASSUME CoreInv, ExpireWorkers
  PROVE  CoreInv'
  <1> DEFINE T == [t \in TaskId |->
                     IF t \in Orphans THEN ExpiredTask(t) ELSE tasks[t]]
             O == [o \in ObjectId |-> OutputAfterExpiry(o)]
             retried == {t \in Orphans : AfterExpiry(t) = "Runnable"}
             W == waiting \ retried
  <1>1. PICK order \in SetToSeqs(retried) :
          Reconcile(T, O, W, runnable \o order)
    BY DEF ExpireWorkers
  <1>2. /\ tasks' = TasksReconciled(T, O, W)
        /\ objects' = ObjectsReconciled(T, O, W)
        /\ waiting' = StillWaiting(T, O, W)
        /\ \E more \in SetToSeqs(ReadyWaiters(T, O, W)) :
             runnable' = (runnable \o order) \o more
    BY <1>1 DEF Reconcile
  <1>3. /\ workers' = [n \in NodeId |->
                         IF n \in Expired THEN NoWorker ELSE workers[n]]
        /\ pendingDeletes' = [n \in NodeId |-> DeletesAfterExpiry(n)]
        /\ cancelRequested' = cancelRequested \ Orphans
        /\ UNCHANGED <<operations, minted, sessions, grants>>
    BY DEF ExpireWorkers, RequestsAfterExpiry
  <1>4. retried \subseteq TaskId
    BY OrphansEffect
  <1>5. runnable \o order \in Seq(TaskId)
    <2>1. order \in Seq(TaskId)
      BY <1>4, OrderType
    <2> QED
      BY <2>1 DEF CoreInv, TypeOK
  <1>6. /\ \A t \in Orphans : T[t] = ExpiredTask(t)
        /\ \A t \in TaskId \ Orphans : T[t] = tasks[t]
        /\ \A o \in ObjectId : O[o] = OutputAfterExpiry(o)
        /\ T \in Tasks /\ O \in Objects
        /\ IsWaitingSet(T, W) /\ OutputsMatch(T, O)
    BY ExpiryTables
  <1> HIDE DEF T, O, W, retried
  <1>11. Reconciled(T, O, tasks', objects', waiting')
    BY <1>2, <1>6, ReconcileEffect
  <1>12. runnable' \in Seq(TaskId)
    <2>1. W \subseteq TaskId
      BY <1>6 DEF IsWaitingSet
    <2> QED
      BY <1>2, <1>5, <2>1, ReconcileQueue
  <1>13. TypeOK'
    <2>1. workers' \in [NodeId -> Worker \cup {NoWorker}]
      BY <1>3 DEF CoreInv, TypeOK
    <2>2. pendingDeletes' \in [NodeId -> SUBSET ObjectId]
      BY <1>3 DEF CoreInv, TypeOK, DeletesAfterExpiry
    <2>3. tasks' \in Tasks /\ objects' \in Objects /\ waiting' \subseteq TaskId
      BY <1>11 DEF Reconciled, IsWaitingSet
    <2> QED
      BY <1>3, <1>12, <2>1, <2>2, <2>3 DEF CoreInv, TypeOK, Tasks, Objects
  <1>14. \A u \in TaskId :
           \/ tasks'[u] = T[u]
           \/ /\ T[u].state = "Waiting" /\ u \notin Orphans
              /\ tasks'[u].state \in {"Failed", "Runnable"}
              /\ tasks'[u].assigned = tasks[u].assigned
    <2> SUFFICES ASSUME NEW u \in TaskId, T[u].state = "Waiting",
                        \/ tasks'[u] = [T[u] EXCEPT !.state = "Failed"]
                        \/ tasks'[u] = [T[u] EXCEPT !.state = "Runnable"]
                 PROVE  /\ u \notin Orphans
                        /\ tasks'[u].state \in {"Failed", "Runnable"}
                        /\ tasks'[u].assigned = tasks[u].assigned
      BY <1>11 DEF Reconciled
    <2>1. u \notin Orphans
      BY <1>6, OrphansEffect
    <2>2. T[u] = tasks[u] /\ tasks[u] \in Task
      BY <1>6, <2>1 DEF CoreInv, TypeOK, NoTask
    <2> QED
      BY <2>1, <2>2 DEF Task
  <1>15. IndexesExact'
    <2>1. \A u \in TaskId : u \in cancelRequested' <=>
                             tasks'[u].state = "CancelRequested"
      <3> TAKE u \in TaskId
      <3>1. CASE u \in Orphans
        <4>1. tasks'[u] = ExpiredTask(u)
          BY <1>6, <1>14, <3>1
        <4>2. tasks'[u].state \in {"Cancelled", "Runnable", "Failed"}
          BY <3>1, <4>1, OrphansEffect
        <4> QED
          BY <1>3, <3>1, <4>2
      <3>2. CASE u \notin Orphans
        <4>1. u \in cancelRequested' <=> tasks[u].state = "CancelRequested"
          BY <1>3, <3>2 DEF CoreInv, IndexesExact
        <4> QED
          BY <1>6, <1>14, <3>2, <4>1
      <3> QED
        BY <3>1, <3>2
    <2>2. cancelRequested' \subseteq TaskId
      BY <1>3 DEF CoreInv, TypeOK
    <2> QED
      BY <1>11, <2>1, <2>2 DEF IndexesExact, Reconciled, IsWaitingSet
  <1>16. OutputMatchesTask'
    BY <1>11 DEF Reconciled, OutputsMatch, OutputMatchesTask
  <1>17. LeasesAreCurrent'
    <2> SUFFICES ASSUME NEW u \in TaskId, tasks'[u].state # "Absent"
                 PROVE  LeasesAreCurrent!(u)'
      BY DEF LeasesAreCurrent
    <2>1. CASE u \in Orphans
      <3>1. tasks'[u] = ExpiredTask(u)
        BY <1>6, <1>14, <2>1
      <3>2. tasks'[u].state \notin LeasedStates
            /\ tasks'[u].assigned = Unassigned
        BY <2>1, <3>1, OrphansEffect DEF LeasedStates
      <3> QED
        BY <3>2
    <2>2. CASE u \notin Orphans /\ tasks'[u] = T[u]
      <3>1. tasks'[u] = tasks[u]
        BY <1>6, <2>2
      <3>2. CASE tasks[u].state \in LeasedStates
        <4> DEFINE n == tasks[u].assigned.node
                   k == tasks[u].assigned.session
        <4>1. /\ n \in NodeId /\ CheckIdentity(n, k)
              /\ [task |-> u, attempt |-> tasks[u].attempt, node |-> n,
                  session |-> k] \in grants
          BY <3>1, <3>2 DEF CoreInv, LeasesAreCurrent
        <4>2. n \notin Expired
          <5>1. u \in AssignedTo(n)
            BY <3>1 DEF AssignedTo
          <5> QED
            BY <2>2, <5>1 DEF Orphans
        <4>3. workers'[n] = workers[n]
          BY <1>3, <4>1, <4>2
        <4> QED
          BY <1>3, <3>1, <3>2, <4>1, <4>3 DEF CheckIdentity, Registered
      <3>3. CASE tasks[u].state \notin LeasedStates
        BY <3>1, <3>3 DEF CoreInv, LeasesAreCurrent
      <3> QED
        BY <3>2, <3>3
    <2>3. CASE u \notin Orphans /\ tasks'[u] # T[u]
      <3>1. /\ tasks[u].state = "Waiting"
            /\ tasks'[u].state \in {"Failed", "Runnable"}
            /\ tasks'[u].assigned = tasks[u].assigned
        BY <1>6, <1>14, <2>3
      <3>2. /\ tasks[u].state \notin LeasedStates
            /\ tasks[u].state # "Absent"
            /\ tasks'[u].state \notin LeasedStates
        BY <3>1 DEF LeasedStates
      <3>3. tasks[u].assigned = Unassigned
        BY <3>2 DEF CoreInv, LeasesAreCurrent
      <3> QED
        BY <3>1, <3>2, <3>3
    <2> QED
      BY <2>1, <2>2, <2>3
  <1>18. KnownAreMinted'
    <2>1. \A u \in TaskId : tasks'[u].state # "Absent" =>
                             tasks[u].state # "Absent"
      <3>1. \A u \in Orphans : tasks[u].state # "Absent"
        BY OrphansEffect DEF LeasedStates
      <3> QED
        BY <1>6, <1>14, <3>1
    <2> QED
      BY <1>3, <2>1 DEF CoreInv, KnownAreMinted
  <1> QED
    BY <1>13, <1>15, <1>16, <1>17, <1>18 DEF CoreInv

----------------------------------------------------------------------------
(* The theorems.                                                           *)

LEMMA NextCore == CoreInv /\ [Next]_vars => CoreInv'
  <1> SUFFICES ASSUME CoreInv, [Next]_vars PROVE CoreInv'
    OBVIOUS
  <1>1. CASE WorkerRequest
    BY <1>1, RegisterCore, HeartbeatDrainCore, PollAssignCore, PollEmptyCore,
       PollDeleteCore DEF WorkerRequest
  <1>2. CASE TaskReport
    BY <1>2, StartedCore, AcknowledgeCancelCore, FailRetryCore,
       FailFinallyCore, CompleteCore DEF TaskReport
  <1>3. CASE ClientRequest
    BY <1>3, PutCore, SubmitCore, CancelLeasedCore, CancelUnleasedCore,
       ReleaseObjectCore DEF ClientRequest
  <1>4. CASE Reaper
    BY <1>4, ExpireCore, ReapCore, TickCore DEF Reaper
  <1>5. CASE UNCHANGED vars
    BY <1>5 DEF vars, CoreInv, TypeOK, IndexesExact, OutputMatchesTask,
       LeasesAreCurrent, KnownAreMinted, CheckIdentity, Registered
  <1> QED
    BY <1>1, <1>2, <1>3, <1>4, <1>5 DEF Next

\* A coordinator that is started again knows no tasks, objects or workers.
LEMMA RestartTables ==
  ASSUME Restart
  PROVE  /\ \A t \in TaskId : /\ tasks'[t].state = "Absent"
                             /\ objects'[Output(t)].state = "Absent"
         /\ \A o \in ObjectId : objects'[o].state = "Absent"
         /\ \A n \in NodeId : ~Registered(n)' /\ pendingDeletes'[n] = {}
  BY OutputInjective DEF Restart, NoTask, NoObject, NoWorker, Registered

LEMMA RestartKeepsCore ==
  ASSUME CoreInv, Restart
  PROVE  CoreInv'
  <1>1. TypeOK'
    BY DEF CoreInv, TypeOK, OpTable, Restart
  <1>2. IndexesExact'
    BY RestartTables DEF IndexesExact, Restart
  <1>3. OutputMatchesTask'
    BY RestartTables DEF OutputMatchesTask, LiveStates
  <1>4. LeasesAreCurrent' /\ KnownAreMinted'
    BY RestartTables DEF LeasesAreCurrent, KnownAreMinted
  <1> QED
    BY <1>1, <1>2, <1>3, <1>4 DEF CoreInv

\* The inductive invariant holds of every behaviour of the coordinator.
THEOREM CoreInvariant == Spec => []CoreInv
  BY InitCore, NextCore, PTL DEF Spec

\* Every table of CoordinatorState keeps its type, whatever order the
\* requests, retries, expiries and reaps come in.
THEOREM TypeCorrect == Spec => []TypeOK
  <1>1. CoreInv => TypeOK
    BY DEF CoreInv
  <1> QED
    BY <1>1, CoreInvariant, PTL

\* The `waiting` and `cancel_requested` sets are exactly the tasks in those
\* states, so the operations that use them in place of a scan miss nothing.
THEOREM IndexesAreExact == Spec => []IndexesExact
  <1>1. CoreInv => IndexesExact
    BY DEF CoreInv
  <1> QED
    BY <1>1, CoreInvariant, PTL

\* A task and its output object agree, and the result of a task that
\* succeeded is the one of its last attempt.
THEOREM OutputsAgree == Spec => []OutputMatchesTask
  <1>1. CoreInv => OutputMatchesTask
    BY DEF CoreInv
  <1> QED
    BY <1>1, CoreInvariant, PTL

\* A lease is held exactly by the tasks in a leased state and by the session
\* their node has now.
THEOREM LeasesCurrent == Spec => []LeasesAreCurrent
  <1>1. CoreInv => LeasesAreCurrent
    BY DEF CoreInv
  <1> QED
    BY <1>1, CoreInvariant, PTL
=============================================================================
