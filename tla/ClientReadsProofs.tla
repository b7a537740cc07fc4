------------------------- MODULE ClientReadsProofs -------------------------
(***************************************************************************)
(* Proofs about ClientReads, for any number of calls, any handle lists,    *)
(* timeouts and frame sizes, and any coordinator.  The argument is that    *)
(* what a read of the coordinator finds settled stays settled until the    *)
(* task is forgotten for good, so that the reads of one call agree.        *)
(***************************************************************************)
EXTENDS ClientReads, CoordinatorProofs, WellFoundedInduction

----------------------------------------------------------------------------
(* What no step of the coordinator undoes.                                 *)

\* A task that has ended stays as it is or is forgotten, a forgotten task
\* does not come back, and neither do lost bytes.
Keeps(t) ==
  /\ Terminal(t) => \/ tasks'[t].state = "Absent"
                    \/ /\ tasks'[t].state = tasks[t].state
                       /\ tasks'[t].attempt = tasks[t].attempt
  /\ t \in minted /\ tasks[t].state = "Absent" => tasks'[t].state = "Absent"
  /\ objects[Output(t)].state = "Lost" =>
       objects'[Output(t)].state # "Available"
Settled == minted \subseteq minted' /\ \A t \in TaskId : Keeps(t)

LEMMA SameTables ==
  ASSUME UNCHANGED <<tasks, objects, minted>>
  PROVE  Settled
  BY DEF Settled, Keeps

\* A step that changes one live task.
LEMMA OneLiveTask ==
  ASSUME CoreInv, NEW t \in TaskId, Live(t), NEW x,
         tasks' = [tasks EXCEPT ![t] = x], UNCHANGED <<objects, minted>>
  PROVE  Settled
  <1>1. tasks \in Tasks
    BY DEF CoreInv, TypeOK, Tasks
  <1>2. \A u \in TaskId \ {t} : tasks'[u] = tasks[u]
    BY <1>1 DEF Tasks
  <1>3. ~Terminal(t) /\ tasks[t].state # "Absent"
    BY DEF Live, LiveStates, Terminal, TerminalStates
  <1> QED
    BY <1>2, <1>3 DEF Settled, Keeps

\* The output of a task that is live is reserved, so it is not lost.
LEMMA LiveNotLost ==
  ASSUME CoreInv, NEW t \in TaskId, Live(t)
  PROVE  objects[Output(t)].state = "Reserved"
  BY DEF CoreInv, OutputMatchesTask, Live

\* A step that reconciles, after changing live tasks and their outputs.
LEMMA ReconcileSettled ==
  ASSUME CoreInv, NEW T, NEW O, NEW W, NEW Q, Reconcile(T, O, W, Q),
         W \subseteq waiting, minted' = minted,
         \A u \in TaskId : ~Live(u) => T[u] = tasks[u],
         \A u \in TaskId : objects[Output(u)].state = "Lost" =>
                             O[Output(u)].state # "Available"
  PROVE  Settled
  <1> DEFINE F == FailedWaiters(T, O, W)
             R == ReadyWaiters(T, O, W)
  <1>1. F \subseteq W /\ R \subseteq W
    BY DEF FailedWaiters, ReadyWaiters
  <1>2. \A u \in W : u \in TaskId /\ Live(u)
    BY DEF CoreInv, IndexesExact, Live, LiveStates
  <1>3. tasks' = [u \in TaskId |->
                    IF u \in F THEN [T[u] EXCEPT !.state = "Failed"]
                    ELSE IF u \in R THEN [T[u] EXCEPT !.state = "Runnable"]
                    ELSE T[u]]
    BY DEF Reconcile, TasksReconciled
  <1>4. objects' = [o \in ObjectId |->
                      IF \E u \in F : o = Output(u)
                      THEN [O[o] EXCEPT !.state = "Failed"] ELSE O[o]]
    BY DEF Reconcile, ObjectsReconciled
  <1> HIDE DEF F, R
  <1>5. SUFFICES ASSUME NEW t \in TaskId PROVE Keeps(t)
    BY DEF Settled
  <1>6. ~Live(t) => tasks'[t] = tasks[t]
    BY <1>1, <1>2, <1>3
  <1>7. Terminal(t) \/ tasks[t].state = "Absent" => ~Live(t)
    BY DEF Live, LiveStates, Terminal, TerminalStates
  <1>8. ASSUME objects[Output(t)].state = "Lost"
        PROVE  objects'[Output(t)].state # "Available"
    <2>1. \A u \in F : Output(t) # Output(u)
      BY <1>1, <1>2, <1>8, LiveNotLost
    <2>2. objects'[Output(t)] = O[Output(t)]
      BY <1>4, <2>1, OutputInjective
    <2> QED
      BY <1>8, <2>2
  <1> QED
    BY <1>6, <1>7, <1>8 DEF Keeps

\* A step that ends one live task.
LEMMA EndSettled ==
  ASSUME CoreInv, NEW t \in TaskId, Live(t), NEW x, NEW out, NEW W,
         Reconcile([tasks EXCEPT ![t] = x], [objects EXCEPT ![Output(t)] = out],
                   W, runnable),
         W \subseteq waiting, minted' = minted
  PROVE  Settled
  <1> DEFINE T == [tasks EXCEPT ![t] = x]
             O == [objects EXCEPT ![Output(t)] = out]
  <1>1. tasks \in Tasks /\ objects \in Objects
    BY DEF CoreInv, TypeOK, Tasks, Objects
  <1>2. \A u \in TaskId : ~Live(u) => T[u] = tasks[u]
    BY <1>1 DEF Tasks
  <1>3. \A u \in TaskId : objects[Output(u)].state = "Lost" =>
                            O[Output(u)].state # "Available"
    <2> SUFFICES ASSUME NEW u \in TaskId, objects[Output(u)].state = "Lost"
                 PROVE  O[Output(u)].state # "Available"
      OBVIOUS
    <2>1. Output(u) # Output(t) /\ Output(u) \in ObjectId
      BY LiveNotLost, OutputInjective
    <2>2. O[Output(u)] = objects[Output(u)]
      BY <1>1, <2>1 DEF Objects
    <2> QED
      BY <2>2
  <1>4. Reconcile(T, O, W, runnable)
    OBVIOUS
  <1> HIDE DEF T, O
  <1> QED
    BY <1>2, <1>3, <1>4, ReconcileSettled

LEMMA ReportsSettled ==
  ASSUME CoreInv, TaskReport
  PROVE  Settled
  <1>1. PICK g \in grants :
          \/ Started(g) \/ AcknowledgeCancel(g) \/ FailRetry(g)
          \/ \E transient \in BOOLEAN : FailFinally(g, transient)
          \/ \E codec \in Codec, inline \in BOOLEAN :
               Complete(g, codec, inline)
    BY DEF TaskReport
  <1>2. g.task \in TaskId
    BY DEF CoreInv, TypeOK, Grant
  <1>3. CASE Started(g)
    <2>1. Live(g.task)
      BY <1>3 DEF Started, Live, LiveStates
    <2>2. tasks' = [tasks EXCEPT ![g.task] =
                      [tasks[g.task] EXCEPT !.state = "Running"]]
      BY <1>3 DEF Started
    <2> QED
      BY <1>2, <1>3, <2>1, <2>2, OneLiveTask DEF Started
  <1>4. CASE FailRetry(g)
    <2>1. Live(g.task)
      BY <1>4 DEF FailRetry, Accepts, Live, LiveStates
    <2>2. tasks' = [tasks EXCEPT ![g.task] = Retried(tasks[g.task])]
      BY <1>4 DEF FailRetry
    <2> QED
      BY <1>2, <1>4, <2>1, <2>2, OneLiveTask DEF FailRetry
  <1>5. CASE AcknowledgeCancel(g)
    <2>1. Live(g.task)
      BY <1>5 DEF AcknowledgeCancel, Live, LiveStates
    <2>2. Reconcile([tasks EXCEPT ![g.task] = Ended(tasks[g.task], "Cancelled")],
                    [objects EXCEPT ![Output(g.task)] =
                       [objects[Output(g.task)] EXCEPT !.state = "Cancelled"]],
                    waiting, runnable)
      BY <1>5 DEF AcknowledgeCancel
    <2> QED
      BY <1>2, <1>5, <2>1, <2>2, EndSettled DEF AcknowledgeCancel
  <1>6. ASSUME NEW transient \in BOOLEAN, FailFinally(g, transient)
        PROVE  Settled
    <2>1. Live(g.task)
      BY <1>6 DEF FailFinally, Accepts, Live, LiveStates
    <2>2. Reconcile([tasks EXCEPT ![g.task] = Ended(tasks[g.task], "Failed")],
                    [objects EXCEPT ![Output(g.task)] =
                       [objects[Output(g.task)] EXCEPT !.state = "Failed"]],
                    waiting, runnable)
      BY <1>6 DEF FailFinally
    <2> QED
      BY <1>2, <1>6, <2>1, <2>2, EndSettled DEF FailFinally
  <1>7. ASSUME NEW codec \in Codec, NEW inline \in BOOLEAN,
               Complete(g, codec, inline)
        PROVE  Settled
    <2>1. Live(g.task)
      BY <1>7 DEF Complete, Accepts, Live, LiveStates
    <2>2. Reconcile([tasks EXCEPT ![g.task] = Ended(tasks[g.task], "Succeeded")],
                    [objects EXCEPT ![Output(g.task)] =
                       [state |-> "Available", codec |-> codec,
                        inline |-> inline, version |-> g.attempt,
                        owner |-> g.node, location |-> g.node]],
                    waiting, runnable)
      BY <1>7 DEF Complete
    <2> QED
      BY <1>2, <1>7, <2>1, <2>2, EndSettled DEF Complete
  <1> QED
    BY <1>1, <1>3, <1>4, <1>5, <1>6, <1>7

LEMMA ReclaimSettled ==
  ASSUME CoreInv, NEW S, NEW T,
         \A t \in TaskId : /\ T[t].state = tasks[t].state
                           /\ Terminal(t) => T[t].attempt = tasks[t].attempt,
         Reclaim(S, T), minted' = minted
  PROVE  Settled
  <1>1. \A t \in TaskId : tasks'[t] = NoTask \/ tasks'[t] = T[t]
    BY DEF Reclaim
  <1>2. \A t \in TaskId : \/ objects'[Output(t)] = NoObject
                          \/ objects'[Output(t)] = objects[Output(t)]
    BY OutputInjective DEF Reclaim
  <1> QED
    BY <1>1, <1>2 DEF Settled, Keeps, NoTask, NoObject, Terminal,
       TerminalStates

LEMMA RequestsSettled ==
  ASSUME CoreInv, ClientRequest
  PROVE  Settled
  <1>1. ASSUME NEW o \in PutId, NEW codec \in Codec, NEW inline \in BOOLEAN,
               Put(o, codec, inline)
        PROVE  Settled
    <2>1. tasks' = tasks /\ minted' = minted
      BY <1>1 DEF Put
    <2>2. \A t \in TaskId : objects'[Output(t)] = objects[Output(t)]
      BY <1>1, OutputInjective DEF Put, CoreInv, TypeOK
    <2> QED
      BY <2>1, <2>2 DEF Settled, Keeps
  <1>2. ASSUME NEW t \in TaskId, NEW job \in Job, NEW args \in SUBSET ObjectId,
               Submit(t, job, args)
        PROVE  Settled
    <2>1. t \notin minted /\ minted' = minted \cup {t}
      BY <1>2 DEF Submit
    <2>2. tasks[t].state = "Absent"
      BY <2>1 DEF CoreInv, KnownAreMinted
    <2>3. objects[Output(t)].state = "Absent"
      BY <2>2 DEF CoreInv, OutputMatchesTask
    <2>4. \A u \in TaskId \ {t} : /\ tasks'[u] = tasks[u]
                                  /\ objects'[Output(u)] = objects[Output(u)]
      BY <1>2, OutputInjective DEF Submit, CoreInv, TypeOK
    <2>5. \A u \in TaskId : Keeps(u)
      BY <2>1, <2>2, <2>3, <2>4 DEF Keeps, Terminal, TerminalStates
    <2> QED
      BY <2>1, <2>5 DEF Settled
  <1>3. ASSUME NEW t \in TaskId, CancelLeased(t) PROVE Settled
    <2>1. tasks' = [tasks EXCEPT ![t] =
                      [tasks[t] EXCEPT !.state = "CancelRequested"]]
      BY <1>3 DEF CancelLeased
    <2> QED
      BY <1>3, <2>1, OneLiveTask DEF CancelLeased
  <1>4. ASSUME NEW t \in TaskId, CancelUnleased(t) PROVE Settled
    <2>1. Reconcile([tasks EXCEPT ![t] = Ended(tasks[t], "Cancelled")],
                    [objects EXCEPT ![Output(t)] =
                       [objects[Output(t)] EXCEPT !.state = "Cancelled"]],
                    waiting \ {t}, runnable)
      BY <1>4 DEF CancelUnleased
    <2> QED
      BY <1>4, <2>1, EndSettled DEF CancelUnleased
  <1>5. ASSUME NEW o \in ObjectId, ReleaseObject(o) PROVE Settled
    BY <1>5, ReclaimSettled DEF ReleaseObject
  <1> QED
    BY <1>1, <1>2, <1>3, <1>4, <1>5 DEF ClientRequest

LEMMA WorkersSettled ==
  ASSUME CoreInv, WorkerRequest
  PROVE  Settled
  <1>1. ASSUME NEW n \in NodeId, NEW e \in WorkerEpoch, NEW offer \in Offer,
               RegisterWorker(n, e, offer) \/ RegisterAgain(n, e, offer)
        PROVE  Settled
    BY <1>1, SameTables DEF RegisterWorker, RegisterAgain
  <1>2. ASSUME NEW s \in DOMAIN sessions,
               Heartbeat(s) \/ Drain(s) \/ PollEmpty(s)
        PROVE  Settled
    BY <1>2, SameTables DEF Heartbeat, Drain, PollEmpty
  <1>3. ASSUME NEW s \in DOMAIN sessions, PollAssign(s) PROVE Settled
    <2>1. PICK end \in 0..Len(runnable), i \in DOMAIN runnable :
            /\ Picks(sessions[s], end, i)
            /\ Assign(sessions[s], runnable[i])
      BY <1>3 DEF PollAssign
    <2> DEFINE t == runnable[i]
               n == sessions[s]
    <2>2. t \in TaskId /\ Live(t)
      BY <2>1 DEF CoreInv, TypeOK, Picks, Servable, Serves, Runs, Live,
         LiveStates
    <2>3. tasks' = [tasks EXCEPT ![t] =
            [tasks[t] EXCEPT !.state = "Assigned", !.attempt = @ + 1,
               !.assigned = [node |-> n, session |-> workers[n].session]]]
      BY <2>1 DEF Assign
    <2>4. UNCHANGED <<objects, minted>>
      BY <1>3 DEF PollAssign
    <2> HIDE DEF t, n
    <2> QED
      BY <2>2, <2>3, <2>4, OneLiveTask
  <1>4. ASSUME NEW n \in NodeId, PollDelete(n) PROVE Settled
    BY <1>4, SameTables DEF PollDelete
  <1> QED
    BY <1>1, <1>2, <1>3, <1>4 DEF WorkerRequest

LEMMA ExpirySettled ==
  ASSUME CoreInv, ExpireWorkers
  PROVE  Settled
  <1> DEFINE T == [t \in TaskId |->
                     IF t \in Orphans THEN ExpiredTask(t) ELSE tasks[t]]
             O == [o \in ObjectId |-> OutputAfterExpiry(o)]
             retried == {t \in Orphans : AfterExpiry(t) = "Runnable"}
             W == waiting \ retried
  <1>1. PICK order \in SetToSeqs(retried) :
          Reconcile(T, O, W, runnable \o order)
    BY DEF ExpireWorkers
  <1>2. minted' = minted /\ W \subseteq waiting
    BY DEF ExpireWorkers
  <1>3. \A u \in TaskId : ~Live(u) => T[u] = tasks[u]
    BY OrphansEffect DEF Live, LiveStates, LeasedStates
  <1>4. \A u \in TaskId : objects[Output(u)].state = "Lost" =>
                            O[Output(u)].state # "Available"
    BY OutputInjective, ObjectsAfterExpiry
  <1> HIDE DEF T, O, W
  <1> QED
    BY <1>1, <1>2, <1>3, <1>4, ReconcileSettled

LEMMA ReaperSettled ==
  ASSUME CoreInv, ReapTerminalTasks \/ Tick
  PROVE  Settled
  <1>0. \A t \in TaskId : tasks[t].state # "Absent" => tasks[t] \in Task
    BY DEF CoreInv, TypeOK, NoTask
  <1>1. CASE ReapTerminalTasks
    <2>1. \A t \in TaskId : Terminal(t) => tasks[t] \in Task
      BY <1>0 DEF Terminal, TerminalStates
    <2>2. \A t \in TaskId :
            /\ Stamped(t).state = tasks[t].state
            /\ Terminal(t) => Stamped(t).attempt = tasks[t].attempt
      BY <2>1 DEF Stamped, Task
    <2> DEFINE T == [t \in TaskId |-> Stamped(t)]
               S == {Output(t) : t \in {u \in TaskId :
                       /\ Terminal(u) /\ Stamped(u).age >= TtlMs
                       /\ Releasable(Output(u))}}
    <2>3. Reclaim(S, T) /\ minted' = minted
      BY <1>1 DEF ReapTerminalTasks
    <2>4. \A t \in TaskId : T[t] = Stamped(t)
      OBVIOUS
    <2> HIDE DEF S, T
    <2> QED
      BY <2>2, <2>3, <2>4, ReclaimSettled
  <1>2. CASE Tick
    <2>1. \A t \in TaskId :
            IF Live(t) \/ Terminal(t)
            THEN tasks'[t] = [tasks[t] EXCEPT !.wait = Down(tasks[t].wait),
                                              !.age = Older(tasks[t].age)]
            ELSE tasks'[t] = tasks[t]
      BY <1>2 DEF Tick
    <2>2. \A t \in TaskId : Live(t) \/ Terminal(t) => tasks[t] \in Task
      BY <1>0 DEF Live, LiveStates, Terminal, TerminalStates
    <2>3. \A t \in TaskId : /\ tasks'[t].state = tasks[t].state
                            /\ Terminal(t) =>
                                 tasks'[t].attempt = tasks[t].attempt
      BY <2>1, <2>2 DEF Task
    <2>4. UNCHANGED <<objects, minted>>
      BY <1>2 DEF Tick
    <2> QED
      BY <2>3, <2>4 DEF Settled, Keeps
  <1> QED
    BY <1>1, <1>2

LEMMA NextSettled ==
  ASSUME CoreInv, [Next]_vars
  PROVE  Settled
  BY WorkersSettled, ReportsSettled, RequestsSettled, ExpirySettled,
     ReaperSettled, SameTables DEF Next, Reaper, vars

\* What clients were once told of a task's end is never taken back: a task
\* that succeeded, failed or was cancelled keeps its state and its attempt
\* until it is forgotten, a forgotten one is not found again, and lost bytes
\* are not announced again (complete, fail, acknowledge_cancel, expire_workers,
\* release, reap_terminal_tasks in whatever order).
THEOREM EndedIsFinal == Spec => [][Settled]_vars
  <1>1. CoreInv /\ [Next]_vars => [Settled]_vars
    BY NextSettled
  <1> QED
    BY <1>1, CoreInvariant, PTL DEF Spec

----------------------------------------------------------------------------
(* The invariant.                                                          *)

\* What a slot and a result say of task t, in the tables T and O.
SlotTrue(T, O, t, s) ==
  T[t].state # "Absent" =>
    /\ s.tag = "Object" => /\ T[t].state = "Succeeded"
                           /\ T[t].attempt = s.version
    /\ s.tag = "Lost" => O[Output(t)].state = "Lost"
    /\ s.tag = "Unavailable" => T[t].state \in {"Failed", "Cancelled"}

OutTrue(T, O, t, r) ==
  /\ r.tag # "NotTerminal"
  /\ T[t].state # "Absent" =>
       /\ r.tag # "TaskNotFound"
       /\ r.tag = "Value" => /\ T[t].state = "Succeeded"
                             /\ T[t].attempt = r.version
       /\ r.tag = "ObjectConflict" => T[t].state = "Succeeded"
       /\ r.tag = "ObjectLost" => O[Output(t)].state = "Lost"
       /\ r.tag = "TaskFailed" => T[t].state = "Failed"
       /\ r.tag = "TaskCancelled" => T[t].state = "Cancelled"
       /\ r.tag = "Unavailable" => T[t].state \in {"Failed", "Cancelled"}

Truths(M, T, O, call) ==
  /\ \A i \in DOMAIN call.handles : call.handles[i] \in M
  /\ \A i \in DOMAIN call.slots :
       /\ i \in DOMAIN call.handles
       /\ SlotTrue(T, O, call.handles[i], call.slots[i])
  /\ \A i \in DOMAIN call.out :
       /\ i \in DOMAIN call.handles
       /\ OutTrue(T, O, call.handles[i], call.out[i])

\* A request of a loop costs the caller some of its time before it is
\* answered with too little.
Paced(call) ==
  /\ call.kind = "result" => call.min = 1
  /\ ~Batched(call.kind) /\ call.pc # "idle" => Len(call.handles) = 1
  /\ call.pc \notin {"asking", "waiting"} => call.asked = 0
  /\ Loops(call.kind) /\ call.pc = "asking" =>
       call.asked + call.left <= MaxTimeout
  /\ Loops(call.kind) /\ call.pc = "waiting" =>
       /\ call.asked <= MaxTimeout /\ call.park <= call.left
       /\ call.asked + call.left <= MaxTimeout + 1
       /\ call.park = 0 => call.asked + call.left <= MaxTimeout

ReadInv ==
  /\ CoreInv /\ ReadTypeOK
  /\ \A c \in Caller : Paced(calls[c]) /\ Truths(minted, tasks, objects, calls[c])

----------------------------------------------------------------------------
(* What was true stays true.                                               *)

LEMMA SlotStays ==
  ASSUME CoreInv, CoreInv', Settled, NEW t \in minted, NEW s,
         SlotTrue(tasks, objects, t, s)
  PROVE  SlotTrue(tasks', objects', t, s)
  <1>1. t \in TaskId
    BY DEF CoreInv, TypeOK
  <1>2. Keeps(t)
    BY <1>1 DEF Settled
  <1>3. tasks'[t].state = "Succeeded" =>
          objects'[Output(t)].state \in {"Available", "Lost"}
    BY <1>1 DEF CoreInv, OutputMatchesTask
  <1>4. objects[Output(t)].state = "Lost" /\ tasks[t].state # "Absent" =>
          tasks[t].state = "Succeeded"
    <2>1. tasks[t].state \in LiveStates \cup TerminalStates \cup {"Absent"}
      BY <1>1 DEF CoreInv, TypeOK, Task, NoTask
    <2> QED
      BY <1>1, <2>1 DEF CoreInv, OutputMatchesTask, LiveStates, TerminalStates
  <1> QED
    BY <1>2, <1>3, <1>4 DEF SlotTrue, Keeps, Terminal, TerminalStates

LEMMA OutStays ==
  ASSUME CoreInv, CoreInv', Settled, NEW t \in minted, NEW r,
         OutTrue(tasks, objects, t, r)
  PROVE  OutTrue(tasks', objects', t, r)
  <1>1. t \in TaskId
    BY DEF CoreInv, TypeOK
  <1>2. Keeps(t)
    BY <1>1 DEF Settled
  <1>3. tasks'[t].state = "Succeeded" =>
          objects'[Output(t)].state \in {"Available", "Lost"}
    BY <1>1 DEF CoreInv, OutputMatchesTask
  <1>4. objects[Output(t)].state = "Lost" /\ tasks[t].state # "Absent" =>
          tasks[t].state = "Succeeded"
    <2>1. tasks[t].state \in LiveStates \cup TerminalStates \cup {"Absent"}
      BY <1>1 DEF CoreInv, TypeOK, Task, NoTask
    <2> QED
      BY <1>1, <2>1 DEF CoreInv, OutputMatchesTask, LiveStates, TerminalStates
  <1> QED
    BY <1>2, <1>3, <1>4 DEF OutTrue, Keeps, Terminal, TerminalStates

\* So it does for a whole call, whose timers may have moved.
LEMMA TruthsStay ==
  ASSUME CoreInv, CoreInv', Settled, NEW old, NEW new,
         Truths(minted, tasks, objects, old),
         new.handles = old.handles, new.slots = old.slots, new.out = old.out
  PROVE  Truths(minted', tasks', objects', new)
  <1>1. \A i \in DOMAIN old.handles : old.handles[i] \in minted
    BY DEF Truths
  <1>2. \A i \in DOMAIN old.slots :
          SlotTrue(tasks', objects', old.handles[i], old.slots[i])
    BY <1>1, SlotStays DEF Truths
  <1>3. \A i \in DOMAIN old.out :
          OutTrue(tasks', objects', old.handles[i], old.out[i])
    BY <1>1, OutStays DEF Truths
  <1> QED
    BY <1>1, <1>2, <1>3 DEF Truths, Settled

----------------------------------------------------------------------------
(* The steps of a call.                                                    *)

\* A step of one call that leaves the coordinator alone.
LEMMA CallStep ==
  ASSUME ReadInv, NEW c \in Caller, NEW x \in Call, Becomes(c, x),
         UNCHANGED <<vars, restarts>>,
         Paced(x), Truths(minted, tasks, objects, x)
  PROVE  ReadInv'
  <1>1. CoreInv'
    BY NextCore DEF ReadInv
  <1>2. calls \in [Caller -> Call] /\ restarts \in 0..MaxRestarts
    BY DEF ReadInv, ReadTypeOK
  <1>3. calls' = [calls EXCEPT ![c] = x]
    BY DEF Becomes
  <1>4. ReadTypeOK'
    BY <1>2, <1>3 DEF ReadTypeOK
  <1>5. UNCHANGED <<minted, tasks, objects>>
    BY DEF vars
  <1>6. \A d \in Caller : calls'[d] = IF d = c THEN x ELSE calls[d]
    BY <1>2, <1>3
  <1>7. \A d \in Caller : /\ Paced(calls[d])
                          /\ Truths(minted, tasks, objects, calls[d])
    BY DEF ReadInv
  <1>8. \A d \in Caller : /\ Paced(calls'[d])
                          /\ Truths(minted', tasks', objects', calls'[d])
    BY <1>5, <1>6, <1>7
  <1> QED
    BY <1>1, <1>4, <1>8 DEF ReadInv, Paced, Truths

LEMMA EmptySeqs ==
  <<>> \in Seq(TaskId) /\ <<>> \in Seq(Slot) /\ <<>> \in Seq(Result)
  OBVIOUS

LEMMA Zeros == 0 \in 0..MaxTimeout /\ 0 \in 0..LongPollMs /\ 0 \in Nat
  BY ReadBounds

LEMMA NoCallType == NoCall \in Call
  BY EmptySeqs, Zeros DEF NoCall, Call, Kind

\* The updates of a call.
LEMMA AskedType ==
  ASSUME NEW call \in Call, NEW p \in 0..LongPollMs
  PROVE  [call EXCEPT !.pc = "waiting", !.asked = @ + 1, !.park = p] \in Call
  <1> DEFINE n == call.asked + 1
  <1>0. call.asked \in Nat
    BY DEF Call
  <1>1. n \in Nat
    BY <1>0
  <1>2. [call EXCEPT !.pc = "waiting", !.asked = @ + 1, !.park = p]
          = [call EXCEPT !.pc = "waiting", !.asked = n, !.park = p]
    OBVIOUS
  <1> HIDE DEF n
  <1> QED
    BY <1>1, <1>2 DEF Call

LEMMA AskingType ==
  ASSUME NEW call \in Call
  PROVE  [call EXCEPT !.pc = "asking", !.park = 0] \in Call
  BY Zeros DEF Call

LEMMA AppendType ==
  ASSUME NEW call \in Call, NEW out \in Seq(Result)
  PROVE  [call EXCEPT !.out = out] \in Call
  BY DEF Call

LEMMA WorksType ==
  ASSUME NEW call \in Call, NEW slots \in Seq(Slot)
  PROVE  [call EXCEPT !.pc = "resolving", !.left = 0, !.asked = 0,
                      !.park = 0, !.slots = slots] \in Call
  BY Zeros DEF Call

LEMMA ReturnsType ==
  ASSUME NEW call \in Call, NEW out \in Seq(Result)
  PROVE  Returns(call, out) \in Call
  BY EmptySeqs, Zeros DEF Returns, Call

LEMMA FailsType ==
  ASSUME NEW call \in Call,
         NEW e \in {"DeadlineExceeded", "CapacityExceeded", "Io"}
  PROVE  Fails(call, e) \in Call
  <1>1. Returns(call, <<>>) \in Call
    BY EmptySeqs, ReturnsType
  <1> QED
    BY <1>1 DEF Fails, Call

LEMMA OverFields ==
  ASSUME NEW call \in Call, NEW out, NEW e
  PROVE  /\ Returns(call, out).pc = "returned"
         /\ Returns(call, out).kind = call.kind
         /\ Returns(call, out).min = call.min
         /\ Returns(call, out).handles = call.handles
         /\ Returns(call, out).asked = 0
         /\ Returns(call, out).slots = <<>>
         /\ Returns(call, out).out = out
         /\ Fails(call, e).pc = "returned"
         /\ Fails(call, e).kind = call.kind
         /\ Fails(call, e).min = call.min
         /\ Fails(call, e).handles = call.handles
         /\ Fails(call, e).asked = 0
         /\ Fails(call, e).slots = <<>>
         /\ Fails(call, e).out = <<>>
  BY DEF Returns, Fails, Call

LEMMA BeginStep ==
  ASSUME ReadInv, NEW c \in Caller, NEW kind \in Kind,
         NEW handles \in Handles, NEW min \in Wanted,
         NEW timeout \in 0..MaxTimeout, Begin(c, kind, handles, min, timeout)
  PROVE  ReadInv'
  <1> DEFINE m == MinReady(kind, handles, min)
             x == [NoCall EXCEPT !.pc = "asking", !.kind = kind,
                     !.handles = handles, !.min = m, !.left = timeout]
  <1>1. handles \in Seq(TaskId) /\ m \in Nat
    BY ReadBounds DEF MinReady, MinOf
  <1>2. kind = "result" => m = 1
    BY DEF MinReady, Batched, Loops
  <1> HIDE DEF m
  <1>3. x \in Call
    BY <1>1, NoCallType DEF NoCall, Call
  <1>4. /\ x.pc = "asking" /\ x.kind = kind /\ x.handles = handles
        /\ x.min = m /\ x.left = timeout /\ x.asked = 0
        /\ x.slots = <<>> /\ x.out = <<>>
    BY DEF NoCall
  <1>5. Becomes(c, x) /\ UNCHANGED <<vars, restarts>>
    BY DEF Begin, m
  <1>6. /\ \A i \in DOMAIN handles : handles[i] \in minted
        /\ ~Batched(kind) => Len(handles) = 1
    BY DEF Begin
  <1> HIDE DEF x
  <1>7. Paced(x)
    BY <1>2, <1>4, <1>6, ReadBounds DEF Paced
  <1>8. Truths(minted, tasks, objects, x)
    BY <1>4, <1>6 DEF Truths
  <1> QED
    BY <1>3, <1>5, <1>7, <1>8, CallStep

\* A call that fails has nothing to show.
LEMMA FailStep ==
  ASSUME ReadInv, NEW c \in Caller,
         NEW e \in {"DeadlineExceeded", "CapacityExceeded", "Io"},
         calls[c].pc # "idle",
         Becomes(c, Fails(calls[c], e)), UNCHANGED <<vars, restarts>>
  PROVE  ReadInv'
  <1> DEFINE call == calls[c]
             x == Fails(call, e)
  <1>1. call \in Call /\ Paced(call) /\ Truths(minted, tasks, objects, call)
    BY DEF ReadInv, ReadTypeOK
  <1>3. x \in Call
    BY <1>1, FailsType
  <1>4. /\ x.pc = "returned" /\ x.kind = call.kind /\ x.min = call.min
        /\ x.handles = call.handles /\ x.asked = 0
        /\ x.slots = <<>> /\ x.out = <<>>
    BY <1>1, OverFields
  <1>5. Becomes(c, x) /\ call.pc # "idle"
    OBVIOUS
  <1> HIDE DEF x, call
  <1>6. Paced(x)
    BY <1>1, <1>4, <1>5 DEF Paced
  <1>7. Truths(minted, tasks, objects, x)
    BY <1>1, <1>4 DEF Truths
  <1> QED
    BY <1>3, <1>5, <1>6, <1>7, CallStep

LEMMA AskStep ==
  ASSUME ReadInv, NEW c \in Caller, Ask(c)
  PROVE  ReadInv'
  <1> DEFINE call == calls[c]
             p == MinOf(call.left, LongPollMs)
             x == [call EXCEPT !.pc = "waiting", !.asked = @ + 1, !.park = p]
  <1>1. call \in Call /\ Paced(call) /\ Truths(minted, tasks, objects, call)
    BY DEF ReadInv, ReadTypeOK
  <1>2. call.pc = "asking" /\ UNCHANGED <<vars, restarts>>
    BY DEF Ask
  <1>3. CASE ~Remaining(call)
    <2>1. Becomes(c, Fails(call, "DeadlineExceeded"))
      BY <1>3 DEF Ask
    <2> QED
      BY <1>2, <2>1, FailStep
  <1>4. CASE Remaining(call)
    <2>1. Becomes(c, x)
      BY <1>4 DEF Ask
    <2>2. /\ call.left \in 0..MaxTimeout /\ call.asked \in Nat
          /\ Loops(call.kind) => call.left > 0
      BY <1>1, <1>4 DEF Call, Remaining
    <2>3. /\ p \in 0..LongPollMs /\ p <= call.left
          /\ call.left > 0 => p > 0
      BY <2>2, ReadBounds DEF MinOf
    <2> HIDE DEF p
    <2>4. x \in Call
      BY <1>1, <2>3, AskedType
    <2>5. /\ x.pc = "waiting" /\ x.kind = call.kind /\ x.min = call.min
          /\ x.handles = call.handles /\ x.asked = call.asked + 1
          /\ x.left = call.left /\ x.park = p
          /\ x.slots = call.slots /\ x.out = call.out
      BY <1>1 DEF Call
    <2> HIDE DEF x, call
    <2>6. Paced(x)
      BY <1>1, <1>2, <2>2, <2>3, <2>5, ReadBounds DEF Paced
    <2>7. Truths(minted, tasks, objects, x)
      BY <1>1, <2>5 DEF Truths
    <2> QED
      BY <1>2, <2>1, <2>4, <2>6, <2>7, CallStep
  <1> QED
    BY <1>3, <1>4

----------------------------------------------------------------------------
(* The reply.                                                              *)

\* What the coordinator says of an output is true when it says it.
LEMMA ResolveTrue ==
  ASSUME CoreInv, NEW t \in TaskId
  PROVE  /\ Resolve(Output(t)) \in Slot
         /\ SlotTrue(tasks, objects, t, Resolve(Output(t)))
  <1> DEFINE out == objects[Output(t)]
  <1>1. out \in Object \cup {NoObject}
    BY OutputInjective DEF CoreInv, TypeOK
  <1>2. tasks[t].state \in LiveStates \cup TerminalStates \cup {"Absent"}
    BY DEF CoreInv, TypeOK, Task, NoTask
  <1>3. /\ tasks[t].state \in LiveStates => out.state = "Reserved"
        /\ tasks[t].state = "Succeeded" => /\ out.state \in {"Available", "Lost"}
                                           /\ out.version = tasks[t].attempt
        /\ tasks[t].state = "Failed" => out.state = "Failed"
        /\ tasks[t].state = "Cancelled" => out.state = "Cancelled"
    BY DEF CoreInv, OutputMatchesTask
  <1> HIDE DEF out
  <1>4. Resolve(Output(t)) \in Slot
    <2>1. CASE out.state = "Available"
      <3>1. out \in Object
        BY <1>1, <2>1 DEF NoObject
      <3>2. Resolve(Output(t)) =
              [tag |-> "Object", version |-> out.version,
               inline |-> out.inline, at |-> out.location]
        BY <2>1 DEF Resolve, out
      <3> QED
        BY <3>1, <3>2 DEF Slot, Payload, Object
    <2>2. CASE out.state # "Available"
      <3>1. Resolve(Output(t)) \in
              {Is("Lost"), Is("Pending"), Is("Unavailable")}
        BY <2>2 DEF Resolve, out
      <3> QED
        BY <3>1 DEF Slot, Unresolved, Is
    <2> QED
      BY <2>1, <2>2
  <1>5. /\ Resolve(Output(t)).tag = "Object" =>
             /\ out.state = "Available"
             /\ Resolve(Output(t)).version = out.version
        /\ Resolve(Output(t)).tag = "Lost" => out.state = "Lost"
        /\ Resolve(Output(t)).tag = "Unavailable" =>
             out.state \notin {"Available", "Lost", "Reserved"}
    BY DEF Resolve, Is, out
  <1>6. SlotTrue(tasks, objects, t, Resolve(Output(t)))
    BY <1>2, <1>3, <1>5 DEF SlotTrue, LiveStates, TerminalStates, out
  <1> QED
    BY <1>4, <1>6

\* A slot for every id: what the output is, or a refusal.
LEMMA BatchSlots ==
  ASSUME NEW ids \in Seq(ObjectId)
  PROVE  /\ DOMAIN Batch(ids) = 1..Len(ids)
         /\ Batch(ids) = [i \in 1..Len(ids) |-> Batch(ids)[i]]
         /\ \A i \in 1..Len(ids) :
              Batch(ids)[i] \in {Resolve(ids[i]), Is("Overflow")}
  BY DEF Batch, Keep

LEMMA AnswerTrue ==
  ASSUME CoreInv, NEW call \in Call, Paced(call), call.pc # "idle",
         \A i \in DOMAIN call.handles : call.handles[i] \in minted
  PROVE  /\ Answer(call) \in Seq(Slot)
         /\ \A i \in DOMAIN Answer(call) :
              /\ i \in DOMAIN call.handles
              /\ SlotTrue(tasks, objects, call.handles[i], Answer(call)[i])
  <1> DEFINE h == call.handles
             ids == Outputs(h)
  <1>1. h \in Seq(TaskId)
    BY DEF Call
  <1>2. CASE Batched(call.kind)
    <2>1. /\ ids \in Seq(ObjectId) /\ Len(ids) = Len(h)
          /\ \A i \in 1..Len(h) : h[i] \in TaskId /\ ids[i] = Output(h[i])
      BY <1>1, OutputInjective DEF Outputs
    <2>2. Answer(call) = Batch(ids)
      BY <1>2 DEF Answer
    <2>3. \A i \in 1..Len(h) :
            /\ Batch(ids)[i] \in Slot
            /\ SlotTrue(tasks, objects, h[i], Batch(ids)[i])
      <3> SUFFICES ASSUME NEW i \in 1..Len(h)
                   PROVE  /\ Batch(ids)[i] \in Slot
                          /\ SlotTrue(tasks, objects, h[i], Batch(ids)[i])
        OBVIOUS
      <3>1. Batch(ids)[i] \in {Resolve(Output(h[i])), Is("Overflow")}
        BY <2>1, BatchSlots
      <3>2. /\ Is("Overflow") \in Slot
            /\ SlotTrue(tasks, objects, h[i], Is("Overflow"))
        BY DEF Slot, Unresolved, Is, SlotTrue
      <3> HIDE DEF h, ids
      <3> QED
        BY <2>1, <3>1, <3>2, ResolveTrue
    <2>4. /\ DOMAIN Batch(ids) = 1..Len(h)
          /\ Batch(ids) = [i \in 1..Len(h) |-> Batch(ids)[i]]
      BY <2>1, BatchSlots
    <2>5. DOMAIN h = 1..Len(h) /\ Len(h) \in Nat
      BY <1>1
    <2> HIDE DEF h, ids
    <2>6. Batch(ids) \in Seq(Slot)
      BY <2>3, <2>4, <2>5
    <2> QED
      BY <2>2, <2>3, <2>4, <2>5, <2>6 DEF h
  <1>3. CASE ~Batched(call.kind)
    <2>1. Len(h) = 1
      BY <1>3 DEF Paced
    <2>2. h[1] \in TaskId /\ 1 \in DOMAIN h
      BY <1>1, <2>1
    <2>3. Answer(call) = <<Resolve(Output(h[1]))>>
      BY <1>3 DEF Answer
    <2> HIDE DEF h
    <2>4. /\ Resolve(Output(h[1])) \in Slot
          /\ SlotTrue(tasks, objects, h[1], Resolve(Output(h[1])))
      BY <2>2, ResolveTrue
    <2> QED
      BY <2>2, <2>3, <2>4 DEF h
  <1> QED
    BY <1>2, <1>3

LEMMA DispatchStep ==
  ASSUME ReadInv, NEW c \in Caller, Dispatch(c)
  PROVE  ReadInv'
  <1> DEFINE call == calls[c]
             slots == Answer(call)
  <1>1. /\ CoreInv /\ call \in Call /\ Paced(call)
        /\ Truths(minted, tasks, objects, call)
    BY DEF ReadInv, ReadTypeOK
  <1>2. call.pc = "waiting" /\ UNCHANGED <<vars, restarts>>
    BY DEF Dispatch
  <1>3. CASE Batched(call.kind) /\ TooLong(call.handles)
    <2>1. Becomes(c, Fails(call, "CapacityExceeded"))
      BY <1>3 DEF Dispatch
    <2> QED
      BY <1>2, <2>1, FailStep
  <1>4. CASE ~(Batched(call.kind) /\ TooLong(call.handles))
    <2>1. /\ Answers(call, slots)
          /\ Becomes(c, IF Enough(call, slots) THEN Works(call, slots)
                        ELSE [call EXCEPT !.pc = "asking", !.park = 0])
      BY <1>4 DEF Dispatch
    <2>2. /\ slots \in Seq(Slot)
          /\ \A i \in DOMAIN slots :
               /\ i \in DOMAIN call.handles
               /\ SlotTrue(tasks, objects, call.handles[i], slots[i])
      BY <1>1, <1>2, AnswerTrue DEF Truths
    <2> HIDE DEF slots
    <2>3. CASE Enough(call, slots) /\ slots = <<>>
      <3> DEFINE x == Returns(call, <<>>)
      <3>1. Becomes(c, x)
        BY <2>1, <2>3 DEF Works
      <3>2. x \in Call
        BY <1>1, EmptySeqs, ReturnsType
      <3>3. /\ x.pc = "returned" /\ x.kind = call.kind /\ x.min = call.min
            /\ x.handles = call.handles /\ x.asked = 0
            /\ x.slots = <<>> /\ x.out = <<>>
        BY <1>1, OverFields
      <3> HIDE DEF x, call
      <3>4. Paced(x)
        BY <1>1, <1>2, <3>3 DEF Paced
      <3>5. Truths(minted, tasks, objects, x)
        BY <1>1, <3>3 DEF Truths
      <3> QED
        BY <1>2, <3>1, <3>2, <3>4, <3>5, CallStep
    <2>4. CASE Enough(call, slots) /\ slots # <<>>
      <3> DEFINE x == [call EXCEPT !.pc = "resolving", !.left = 0,
                         !.asked = 0, !.park = 0, !.slots = slots]
      <3>1. Becomes(c, x)
        BY <2>1, <2>4 DEF Works
      <3>2. x \in Call
        BY <1>1, <2>2, WorksType
      <3>3. /\ x.pc = "resolving" /\ x.kind = call.kind /\ x.min = call.min
            /\ x.handles = call.handles /\ x.asked = 0
            /\ x.slots = slots /\ x.out = call.out
        BY <1>1 DEF Call
      <3> HIDE DEF x, call
      <3>4. Paced(x)
        BY <1>1, <1>2, <3>3 DEF Paced
      <3>5. Truths(minted, tasks, objects, x)
        BY <1>1, <2>2, <3>3 DEF Truths
      <3> QED
        BY <1>2, <3>1, <3>2, <3>4, <3>5, CallStep
    <2>5. CASE ~Enough(call, slots)
      <3> DEFINE x == [call EXCEPT !.pc = "asking", !.park = 0]
      <3>1. Becomes(c, x)
        BY <2>1, <2>5
      <3>2. x \in Call
        BY <1>1, AskingType
      <3>3. /\ x.pc = "asking" /\ x.kind = call.kind /\ x.min = call.min
            /\ x.handles = call.handles /\ x.asked = call.asked
            /\ x.left = call.left /\ x.slots = call.slots /\ x.out = call.out
        BY <1>1 DEF Call
      <3>4. Loops(call.kind) => call.park = 0
        <4>1. call.kind \in Kind
          BY <1>1 DEF Call
        <4>2. Loops(call.kind) /\ ~Batched(call.kind) => call.min = 1
          BY <1>1, <4>1 DEF Paced, Kind, Loops, Batched
        <4>3. Loops(call.kind) => ~IsReady(call, slots)
          BY <2>5, <4>2 DEF IsReady, Enough
        <4> QED
          BY <2>1, <4>3 DEF Answers
      <3> HIDE DEF x, call
      <3>5. Paced(x)
        BY <1>1, <1>2, <3>3, <3>4 DEF Paced
      <3>6. Truths(minted, tasks, objects, x)
        BY <1>1, <3>3 DEF Truths
      <3> QED
        BY <1>2, <3>1, <3>2, <3>5, <3>6, CallStep
    <2> QED
      BY <2>3, <2>4, <2>5
  <1> QED
    BY <1>3, <1>4

----------------------------------------------------------------------------
(* What is made of the reply.                                              *)

\* The result of a slot that is true is true as well, although the task's
\* status, or the bytes at the worker, were read later.
LEMMA ResultTrue ==
  ASSUME NEW t \in TaskId, NEW kind \in Kind, NEW s \in Slot,
         SlotTrue(tasks, objects, t, s), NEW r \in Results(kind, t, s)
  PROVE  r \in Result /\ OutTrue(tasks, objects, t, r)
  <1>1. CASE s.tag = "Object"
    <2>1. s \in Payload
      BY <1>1 DEF Slot, Unresolved
    <2>2. s.version \in Nat
      BY <2>1 DEF Payload
    <2>3. r \in Fetched(t, s)
      BY <1>1 DEF Results
    <2>4. \/ r = [tag |-> "Value", version |-> s.version]
          \/ r = Is("ObjectConflict") \/ r = Is("Io")
      BY <2>3 DEF Fetched, Verified
    <2>5. r \in Result
      BY <2>2, <2>4 DEF Result, Is
    <2>6. OutTrue(tasks, objects, t, r)
      BY <1>1, <2>4 DEF OutTrue, SlotTrue, Is
    <2> QED
      BY <2>5, <2>6
  <1>2. CASE s.tag = "Unavailable"
    <2>1. r \in {TerminalError(t), Is("Io"), Is("Unavailable")}
      BY <1>2 DEF Results
    <2>2. tasks[t].state \in {"Failed", "Cancelled", "Absent"}
      BY <1>2 DEF SlotTrue
    <2>3. \/ tasks[t].state = "Failed" /\ TerminalError(t) = Is("TaskFailed")
          \/ /\ tasks[t].state = "Cancelled"
             /\ TerminalError(t) = Is("TaskCancelled")
          \/ tasks[t].state = "Absent" /\ TerminalError(t) = Is("TaskNotFound")
      BY <2>2 DEF TerminalError
    <2>4. r \in Result
      BY <2>1, <2>3 DEF Result, Is
    <2>5. OutTrue(tasks, objects, t, r)
      BY <2>1, <2>2, <2>3 DEF OutTrue, Is
    <2> QED
      BY <2>4, <2>5
  <1>3. CASE s.tag \notin {"Object", "Unavailable"}
    <2>1. s.tag \in {"Pending", "Lost", "Overflow"}
      BY <1>3 DEF Slot, Payload, Unresolved
    <2>2. \/ s.tag = "Pending" /\ r = Is("Pending")
          \/ s.tag = "Lost" /\ r = Is("ObjectLost")
          \/ s.tag = "Overflow" /\ r = Is("CapacityExceeded")
      BY <2>1 DEF Results
    <2> QED
      BY <2>2 DEF Result, Is, OutTrue, SlotTrue
  <1> QED
    BY <1>1, <1>2, <1>3

LEMMA ResolveStep ==
  ASSUME ReadInv, NEW c \in Caller, ResolveSlot(c)
  PROVE  ReadInv'
  <1> DEFINE call == calls[c]
             i == Len(call.out) + 1
             h == call.handles
  <1>1. /\ call \in Call /\ Paced(call)
        /\ Truths(minted, tasks, objects, call)
    BY DEF ReadInv, ReadTypeOK
  <1>2. /\ call.pc = "resolving" /\ i <= Len(call.slots)
        /\ UNCHANGED <<vars, restarts>>
    BY DEF ResolveSlot
  <1>3. PICK r \in Results(call.kind, h[i], call.slots[i]) :
          Becomes(c, IF i < Len(call.slots)
                     THEN [call EXCEPT !.out = Append(call.out, r)]
                     ELSE Returns(call, Append(call.out, r)))
    BY DEF ResolveSlot
  <1>4. /\ call.slots \in Seq(Slot) /\ call.out \in Seq(Result)
        /\ h \in Seq(TaskId) /\ call.kind \in Kind
    BY <1>1 DEF Call
  <1>5. i \in DOMAIN call.slots /\ call.slots[i] \in Slot
    BY <1>2, <1>4
  <1>6. i \in DOMAIN h /\ SlotTrue(tasks, objects, h[i], call.slots[i])
    BY <1>1, <1>5 DEF Truths
  <1>7. h[i] \in TaskId
    BY <1>4, <1>6
  <1>8. r \in Result /\ OutTrue(tasks, objects, h[i], r)
    BY <1>4, <1>5, <1>6, <1>7, ResultTrue
  <1> DEFINE out == Append(call.out, r)
  <1>9. /\ out \in Seq(Result) /\ DOMAIN out = DOMAIN call.out \cup {i}
        /\ \A j \in DOMAIN call.out : out[j] = call.out[j]
        /\ out[i] = r
    BY <1>4, <1>8
  <1>10. \A j \in DOMAIN out :
           j \in DOMAIN h /\ OutTrue(tasks, objects, h[j], out[j])
    <2>1. \A j \in DOMAIN call.out :
            j \in DOMAIN h /\ OutTrue(tasks, objects, h[j], call.out[j])
      BY <1>1 DEF Truths
    <2> HIDE DEF out, i, h
    <2> QED
      BY <1>6, <1>8, <1>9, <2>1
  <1> HIDE DEF out
  <1>11. CASE i < Len(call.slots)
    <2> DEFINE x == [call EXCEPT !.out = out]
    <2>1. Becomes(c, x)
      BY <1>3, <1>11 DEF out
    <2>2. x \in Call
      BY <1>1, <1>9, AppendType
    <2>3. /\ x.pc = call.pc /\ x.kind = call.kind /\ x.min = call.min
          /\ x.handles = h /\ x.asked = call.asked
          /\ x.slots = call.slots /\ x.out = out
      BY <1>1 DEF Call
    <2> HIDE DEF x
    <2>4. Paced(x)
      BY <1>1, <1>2, <2>3 DEF Paced
    <2>5. Truths(minted, tasks, objects, x)
      BY <1>1, <1>10, <2>3 DEF Truths
    <2> QED
      BY <1>2, <2>1, <2>2, <2>4, <2>5, CallStep
  <1>12. CASE ~(i < Len(call.slots))
    <2> DEFINE x == Returns(call, out)
    <2>1. Becomes(c, x)
      BY <1>3, <1>12 DEF out
    <2>2. x \in Call
      BY <1>1, <1>9, ReturnsType
    <2>3. /\ x.pc = "returned" /\ x.kind = call.kind /\ x.min = call.min
          /\ x.handles = h /\ x.asked = 0
          /\ x.slots = <<>> /\ x.out = out
      BY <1>1, OverFields
    <2> HIDE DEF x
    <2>4. Paced(x)
      BY <1>1, <1>2, <2>3 DEF Paced
    <2>5. Truths(minted, tasks, objects, x)
      BY <1>1, <1>10, <2>3 DEF Truths
    <2> QED
      BY <1>2, <2>1, <2>2, <2>4, <2>5, CallStep
  <1> QED
    BY <1>11, <1>12

----------------------------------------------------------------------------
(* The steps of the rest of the system.                                    *)

LEMMA RestartCore ==
  ASSUME CoreInv, RestartCoordinator
  PROVE  CoreInv' /\ Settled
  <1>1. Restart
    BY DEF RestartCoordinator
  <1>2. Settled
    BY <1>1, RestartTables DEF Settled, Keeps, Restart
  <1> QED
    BY <1>1, <1>2, RestartKeepsCore

\* A step that leaves the calls alone.
LEMMA CallsKept ==
  ASSUME ReadInv, CoreInv', Settled, calls' = calls,
         restarts' \in 0..MaxRestarts
  PROVE  ReadInv'
  <1>1. /\ CoreInv /\ ReadTypeOK
        /\ \A c \in Caller : /\ Paced(calls[c])
                             /\ Truths(minted, tasks, objects, calls[c])
    BY DEF ReadInv
  <1>2. ReadTypeOK'
    BY <1>1 DEF ReadTypeOK
  <1>3. \A c \in Caller : Truths(minted', tasks', objects', calls[c])
    BY <1>1, TruthsStay
  <1>4. \A c \in Caller : /\ Paced(calls'[c])
                          /\ Truths(minted', tasks', objects', calls'[c])
    BY <1>1, <1>3
  <1> QED
    BY <1>2, <1>4 DEF ReadInv, Paced, Truths

Timed(call, l, p) == [call EXCEPT !.left = l, !.park = p]

LEMMA TimedType ==
  ASSUME NEW call \in Call, NEW l \in 0..MaxTimeout, NEW p \in 0..LongPollMs
  PROVE  /\ Timed(call, l, p) \in Call
         /\ Timed(call, l, p).pc = call.pc
         /\ Timed(call, l, p).kind = call.kind
         /\ Timed(call, l, p).min = call.min
         /\ Timed(call, l, p).handles = call.handles
         /\ Timed(call, l, p).asked = call.asked
         /\ Timed(call, l, p).slots = call.slots
         /\ Timed(call, l, p).out = call.out
         /\ Timed(call, l, p).left = l
         /\ Timed(call, l, p).park = p
  BY DEF Call, Timed

LEMMA DownType ==
  ASSUME NEW n \in Nat, NEW y \in 0..n
  PROVE  /\ Down(y) \in 0..n /\ Down(y) <= y
         /\ y > 0 => Down(y) = y - 1
  BY DEF Down

LEMMA TimeBounds == MaxTimeout \in Nat /\ LongPollMs \in Nat
  BY ReadBounds

LEMMA ClockStep ==
  ASSUME ReadInv, ClockTick
  PROVE  ReadInv'
  <1>1. /\ CoreInv /\ ReadTypeOK
        /\ \A c \in Caller : /\ Paced(calls[c])
                             /\ Truths(minted, tasks, objects, calls[c])
    BY DEF ReadInv
  <1>2. CoreInv' /\ Settled
    BY <1>1, NextCore, NextSettled DEF ClockTick, Next, Reaper
  <1>3. ASSUME NEW c \in Caller
        PROVE  /\ calls'[c] \in Call /\ Paced(calls'[c])
               /\ Truths(minted', tasks', objects', calls'[c])
    <2> DEFINE call == calls[c]
               l == Down(call.left)
               p == Down(call.park)
               x == Timed(call, l, p)
    <2>1. call \in Call /\ calls'[c] = x
      BY <1>1 DEF ReadTypeOK, ClockTick, Timed
    <2>2. /\ call.left \in 0..MaxTimeout /\ call.park \in 0..LongPollMs
          /\ call.asked \in Nat
      BY <2>1 DEF Call
    <2> HIDE DEF call
    <2>3. /\ l \in 0..MaxTimeout /\ l <= call.left
          /\ call.left > 0 => l = call.left - 1
          /\ p \in 0..LongPollMs /\ p <= call.park
          /\ call.park > 0 => p = call.park - 1
      BY <2>2, TimeBounds, DownType
    <2> HIDE DEF l, p
    <2>4. /\ x \in Call
          /\ x.pc = call.pc /\ x.kind = call.kind /\ x.min = call.min
          /\ x.handles = call.handles /\ x.asked = call.asked
          /\ x.slots = call.slots /\ x.out = call.out
          /\ x.left = l /\ x.park = p
      <3>1. call \in Call /\ l \in 0..MaxTimeout /\ p \in 0..LongPollMs
        BY <2>1, <2>3
      <3> QED
        BY <3>1, TimedType
    <2>5. Paced(call) /\ Truths(minted, tasks, objects, call)
      BY <1>1 DEF call
    <2> HIDE DEF x
    <2>6. Paced(x)
      <3>1. /\ call.left \in Nat /\ call.park \in Nat /\ call.asked \in Nat
            /\ l \in Nat /\ p \in Nat /\ MaxTimeout \in Nat
        BY <2>2, <2>3, TimeBounds
      <3>2. call.park = 0 => p = 0
        BY <2>3, <3>1
      <3>3. call.park <= call.left => p <= l
        BY <2>3, <3>1, <3>2
      <3>4. call.park <= call.left /\ call.park > 0 => l = call.left - 1
        BY <2>3, <3>1
      <3> QED
        BY <2>3, <2>4, <2>5, <3>1, <3>2, <3>3, <3>4 DEF Paced
    <2>7. Truths(minted', tasks', objects', x)
      BY <1>1, <1>2, <2>4, <2>5, TruthsStay
    <2> QED
      BY <2>1, <2>4, <2>6, <2>7
  <1>4. ReadTypeOK'
    <2>1. calls' = [c \in Caller |-> calls'[c]]
      BY DEF ClockTick
    <2>2. calls' \in [Caller -> Call]
      BY <1>3, <2>1
    <2> QED
      BY <1>1, <2>2 DEF ReadTypeOK, ClockTick
  <1> QED
    BY <1>2, <1>3, <1>4 DEF ReadInv, Paced, Truths

LEMMA ReadInitInv == ReadInit => ReadInv
  <1> SUFFICES ASSUME ReadInit PROVE ReadInv
    OBVIOUS
  <1>1. CoreInv
    BY InitCore DEF ReadInit
  <1>2. calls = [c \in Caller |-> NoCall] /\ restarts = 0
    BY DEF ReadInit
  <1>3. ReadTypeOK
    BY <1>2, NoCallType, ReadBounds DEF ReadTypeOK
  <1>4. Paced(NoCall) /\ Truths(minted, tasks, objects, NoCall)
    BY DEF Paced, Truths, NoCall
  <1> QED
    BY <1>1, <1>2, <1>3, <1>4 DEF ReadInv

LEMMA ReadNextInv == ReadInv /\ [ReadNext]_allVars => ReadInv'
  <1> SUFFICES ASSUME ReadInv, [ReadNext]_allVars PROVE ReadInv'
    OBVIOUS
  <1>0. CoreInv /\ restarts \in 0..MaxRestarts
    BY DEF ReadInv, ReadTypeOK
  <1>1. ASSUME NEW c \in Caller, Starts(c) PROVE ReadInv'
    BY <1>1, BeginStep DEF Starts
  <1>2. ASSUME NEW c \in Caller, Proceeds(c) PROVE ReadInv'
    <2>1. CASE RpcFails(c)
      BY <2>1, FailStep DEF RpcFails
    <2> QED
      BY <1>2, <2>1, AskStep, DispatchStep, ResolveStep DEF Proceeds
  <1>3. CASE Cluster
    <2>1. [Next]_vars /\ UNCHANGED <<calls, restarts>>
      BY <1>3 DEF Cluster, Next, Reaper, readVars
    <2> QED
      BY <1>0, <2>1, NextCore, NextSettled, CallsKept
  <1>4. CASE RestartCoordinator
    <2>1. restarts' \in 0..MaxRestarts /\ calls' = calls
      BY <1>0, <1>4, ReadBounds DEF RestartCoordinator
    <2> QED
      BY <1>0, <1>4, <2>1, RestartCore, CallsKept
  <1>5. CASE UNCHANGED allVars
    <2>1. [Next]_vars /\ UNCHANGED <<calls, restarts>>
      BY <1>5 DEF allVars, readVars
    <2> QED
      BY <1>0, <2>1, NextCore, NextSettled, CallsKept
  <1> QED
    BY <1>1, <1>2, <1>3, <1>4, <1>5, ClockStep DEF ReadNext

----------------------------------------------------------------------------
(* The theorems.                                                           *)

LEMMA ReadInvariant == ReadSpec => []ReadInv
  BY ReadInitInv, ReadNextInv, PTL DEF ReadSpec

\* The calls keep their types through every reply, timeout and restart
\* (fetch_batch, TaskHandle::result).
THEOREM ReadTypeCorrect == ReadSpec => []ReadTypeOK
  <1>1. ReadInv => ReadTypeOK
    BY DEF ReadInv
  <1> QED
    BY <1>1, ReadInvariant, PTL

\* What result, results, wait, get_bytes and get_bytes_many return for a task
\* is what became of it, whatever the coordinator did between the reads.
THEOREM ResultsAlwaysTrue == ReadSpec => []ResultsAreTrue
  <1>1. ReadInv => ResultsAreTrue
    <2> SUFFICES ASSUME ReadInv, NEW c \in Caller,
                        NEW i \in DOMAIN calls[c].out
                 PROVE  LET t == calls[c].handles[i]
                        IN IF tasks[t].state = "Absent"
                           THEN calls[c].out[i].tag # "NotTerminal"
                           ELSE TrueOf(t, calls[c].out[i])
      BY DEF ResultsAreTrue
    <2>1. OutTrue(tasks, objects, calls[c].handles[i], calls[c].out[i])
      BY DEF ReadInv, Truths
    <2> QED
      BY <2>1 DEF OutTrue, TrueOf
  <1> QED
    BY <1>1, ReadInvariant, PTL

\* A call whose requests are answered with too little repeats them no more
\* often than it has units of time (remaining_wait_ms, MAX_LONG_POLL_MS).
THEOREM LoopsAlwaysEnd == ReadSpec => []LoopEnds
  <1>1. ReadInv => LoopEnds
    <2> SUFFICES ASSUME ReadInv, NEW c \in Caller, Loops(calls[c].kind)
                 PROVE  calls[c].asked <= MaxTimeout
      BY DEF LoopEnds
    <2>1. calls[c] \in Call /\ Paced(calls[c])
      BY DEF ReadInv, ReadTypeOK
    <2>2. /\ calls[c].asked \in Nat /\ calls[c].left \in 0..MaxTimeout
          /\ calls[c].pc \in {"idle", "asking", "waiting", "resolving",
                              "returned"}
      BY <2>1 DEF Call
    <2> QED
      BY <2>1, <2>2, ReadBounds DEF Paced
  <1> QED
    BY <1>1, ReadInvariant, PTL

----------------------------------------------------------------------------
(* Induction.  The least-number principle in the form of a set, from the   *)
(* library's theorem that < is well-founded on the naturals.               *)

\* A set of naturals has a smallest element.
LEMMA SmallestOf ==
  ASSUME NEW S \in SUBSET Nat, S # {}
  PROVE  \E m \in S : \A k \in S : m <= k
  <1> DEFINE R == {ss \in Nat \X Nat : ss[1] < ss[2]}
  <1>1. R = OpToRel(<, Nat)
    BY Zenon DEF OpToRel
  <1>2. IsWellFoundedOn(R, Nat)
    BY <1>1, NatLessThanWellFounded, Zenon
  <1>3. \A k, m \in Nat : k < m => <<k, m>> \in R
    OBVIOUS
  <1> HIDE DEF R
  <1>4. \E m \in S : \A k \in S : ~(<<k, m>> \in R)
    BY <1>2, WFMin
  <1>5. PICK m \in S : \A k \in S : ~(<<k, m>> \in R)
    BY <1>4
  <1>6. ASSUME NEW k \in S PROVE m <= k
    <2>1. k \in Nat /\ m \in Nat
      OBVIOUS
    <2>2. ~(k < m)
      BY <1>3, <1>5, <2>1
    <2> QED
      BY <2>1, <2>2
  <1> QED
    BY <1>6

\* What holds of 0 and is passed on from i to i + 1 holds up to n.
LEMMA UpTo ==
  ASSUME NEW n \in Nat, NEW S, 0 \in S,
         \A i \in 0..(n - 1) : i \in S => i + 1 \in S
  PROVE  \A i \in 0..n : i \in S
  <1> DEFINE bad == {i \in 0..n : i \notin S}
  <1> SUFFICES ASSUME bad # {} PROVE FALSE
    OBVIOUS
  <1>1. bad \in SUBSET Nat
    OBVIOUS
  <1>2. PICK m \in bad : \A k \in bad : m <= k
    <2> HIDE DEF bad
    <2> QED
      BY <1>1, SmallestOf
  <1>3. m \in 0..n /\ m \notin S /\ m # 0
    OBVIOUS
  <1>4. m - 1 \in 0..(n - 1) /\ ~(m <= m - 1) /\ m - 1 + 1 = m
    BY <1>3
  <1>5. m - 1 \in S
    BY <1>2, <1>4
  <1> QED
    BY <1>3, <1>4, <1>5

----------------------------------------------------------------------------
(* GetBatch counts the bytes of the reply slot by slot.                    *)

\* The running count g of a batch, up to the n-th slot.
Counts(ids, g, n) ==
  g = [i \in 0..n |->
        IF i = 0 THEN BaseSize
        ELSE g[i - 1] + SizeOf(Keep(ids[i], g[i - 1], Len(ids) - i))]

LEMMA CountExists ==
  ASSUME NEW ids, Len(ids) \in Nat
  PROVE  \E g : Counts(ids, g, Len(ids))
  <1> DEFINE n == Len(ids)
             More(g, i) == g[i - 1] + SizeOf(Keep(ids[i], g[i - 1], n - i))
             S == {k \in Nat : \E g : Counts(ids, g, k)}
  <1>1. 0 \in S
    <2> DEFINE g == [i \in 0..0 |-> BaseSize]
    <2>1. g = [i \in 0..0 |-> IF i = 0 THEN BaseSize ELSE More(g, i)]
      OBVIOUS
    <2>2. Counts(ids, g, 0)
      BY <2>1 DEF Counts
    <2> QED
      BY <2>2
  <1>2. ASSUME NEW k \in 0..(n - 1), k \in S
        PROVE  k + 1 \in S
    <2>1. PICK g : Counts(ids, g, k)
      BY <1>2
    <2>2. \A i \in 0..k : g[i] = IF i = 0 THEN BaseSize ELSE More(g, i)
      BY <2>1 DEF Counts
    <2> DEFINE f == [i \in 0..(k + 1) |-> IF i = k + 1 THEN More(g, i) ELSE g[i]]
    <2>3. k \in Nat /\ k + 1 \in Nat
      OBVIOUS
    <2>4. \A i \in 0..(k + 1) :
            f[i] = IF i = 0 THEN BaseSize ELSE More(f, i)
      <3> SUFFICES ASSUME NEW i \in 0..(k + 1)
                   PROVE  f[i] = IF i = 0 THEN BaseSize ELSE More(f, i)
        OBVIOUS
      <3>1. CASE i = 0
        BY <2>2, <2>3, <3>1
      <3>2. CASE i # 0
        <4>1. i - 1 \in 0..k /\ f[i - 1] = g[i - 1]
          BY <2>3, <3>2
        <4>2. f[i] = More(g, i)
          BY <2>2, <2>3, <3>2
        <4> QED
          BY <3>2, <4>1, <4>2
      <3> QED
        BY <3>1, <3>2
    <2>5. f = [i \in 0..(k + 1) |-> IF i = 0 THEN BaseSize ELSE More(f, i)]
      BY <2>4
    <2>6. Counts(ids, f, k + 1)
      BY <2>5 DEF Counts
    <2> QED
      BY <2>3, <2>6
  <1>3. \A k \in 0..(n - 1) : k \in S => k + 1 \in S
    BY <1>2
  <1>4. n \in Nat
    OBVIOUS
  <1> HIDE DEF S, n
  <1>5. \A k \in 0..n : k \in S
    BY <1>1, <1>3, <1>4, UpTo
  <1>6. n \in S
    BY <1>4, <1>5
  <1> QED
    BY <1>6 DEF S, n

\* Batch keeps its slots by such a count.
LEMMA BatchCounts ==
  ASSUME NEW ids, Len(ids) \in Nat
  PROVE  \E g : /\ Counts(ids, g, Len(ids))
                /\ Batch(ids) = [i \in 1..Len(ids) |->
                                  Keep(ids[i], g[i - 1], Len(ids) - i)]
  <1> DEFINE u == CHOOSE g : Counts(ids, g, Len(ids))
  <1>1. Counts(ids, u, Len(ids))
    BY CountExists
  <1>2. Batch(ids) = [i \in 1..Len(ids) |-> Keep(ids[i], u[i - 1], Len(ids) - i)]
    BY DEF Batch, Counts
  <1> QED
    BY <1>1, <1>2

LEMMA Product ==
  ASSUME NEW k \in Nat, NEW o \in Nat
  PROVE  k * o \in Nat /\ (k + 1) * o = k * o + o /\ o * k = k * o
  OBVIOUS

LEMMA Sizes ==
  /\ {Frame, BaseSize, OverflowSize, ErrorSize} \subseteq Nat
  /\ ErrorSize <= OverflowSize
  /\ \A s : SizeOf(s) \in Nat
  BY ReadBounds DEF SizeOf

\* Whatever was kept so far, the refusals of all slots to come have room, so
\* the one that is pending, and smaller than a refusal, is not refused.
LEMMA KeepRoom ==
  ASSUME NEW id, NEW used \in Nat, NEW k \in Nat,
         used + (k + 1) * OverflowSize <= Frame
  PROVE  /\ used + SizeOf(Keep(id, used, k)) \in Nat
         /\ used + SizeOf(Keep(id, used, k)) + k * OverflowSize <= Frame
         /\ Resolve(id) = Is("Pending") => Keep(id, used, k) = Is("Pending")
  <1> DEFINE s == SizeOf(Resolve(id))
             p == k * OverflowSize
  <1>1. /\ s \in Nat /\ p \in Nat /\ OverflowSize \in Nat /\ Frame \in Nat
        /\ ErrorSize \in Nat /\ ErrorSize <= OverflowSize
        /\ (k + 1) * OverflowSize = p + OverflowSize
    BY Sizes, Product
  <1>2. SizeOf(Is("Overflow")) = OverflowSize /\ SizeOf(Is("Pending")) = ErrorSize
    BY DEF SizeOf, Is
  <1>3. Room(used, s, k) <=> used + s + p <= Frame
    BY DEF Room
  <1> HIDE DEF s, p
  <1>4. Keep(id, used, k) = IF Room(used, s, k) THEN Resolve(id)
                            ELSE Is("Overflow")
    BY DEF Keep, s
  <1>5. CASE Room(used, s, k)
    BY <1>1, <1>3, <1>4, <1>5 DEF s, p
  <1>6. CASE ~Room(used, s, k)
    <2>1. Keep(id, used, k) = Is("Overflow")
      BY <1>4, <1>6
    <2>2. used + OverflowSize + p <= Frame
      BY <1>1
    <2>3. Resolve(id) # Is("Pending")
      BY <1>1, <1>2, <1>3, <1>6 DEF s
    <2> QED
      BY <1>1, <1>2, <2>1, <2>2, <2>3 DEF p
  <1> QED
    BY <1>5, <1>6

\* The bytes of the first slots of a reply.
FirstBytes(slots, n) == UNION {{i} \X (1..SizeOf(slots[i])) : i \in 1..n}

LEMMA OneSlotMore ==
  ASSUME NEW slots, NEW k \in Nat, IsFiniteSet(FirstBytes(slots, k))
  PROVE  /\ IsFiniteSet(FirstBytes(slots, k + 1))
         /\ Cardinality(FirstBytes(slots, k)) \in Nat
         /\ Cardinality(FirstBytes(slots, k + 1))
              = Cardinality(FirstBytes(slots, k)) + SizeOf(slots[k + 1])
  <1> DEFINE A == FirstBytes(slots, k)
             n == SizeOf(slots[k + 1])
             one == {k + 1}
             I == 1..n
             B == one \X I
             V == FirstBytes(slots, k + 1)
  <1>1. V = A \cup B /\ A \cap B = {}
    <2>1. 1..(k + 1) = (1..k) \cup one /\ k + 1 \notin 1..k
      OBVIOUS
    <2> QED
      BY <2>1 DEF FirstBytes
  <1>2. n \in Nat
    BY Sizes
  <1> HIDE DEF n
  <1>3. IsFiniteSet(I) /\ Cardinality(I) = n
    BY <1>2, FS_Interval
  <1>4. IsFiniteSet(one) /\ Cardinality(one) = 1
    BY FS_Singleton
  <1> HIDE DEF I, one
  <1>5. IsFiniteSet(B) /\ Cardinality(B) = 1 * n
    BY <1>3, <1>4, FS_Product
  <1>6. 1 * n = n
    BY <1>2
  <1>7. IsFiniteSet(A)
    OBVIOUS
  <1> HIDE DEF A, B, V
  <1>8. /\ IsFiniteSet(A \cup B)
        /\ Cardinality(A \cup B)
             = Cardinality(A) + Cardinality(B) - Cardinality(A \cap B)
    BY <1>5, <1>7, FS_Union
  <1>9. Cardinality({}) = 0 /\ Cardinality(A) \in Nat
    BY <1>7, FS_EmptySet, FS_CardinalityType
  <1>10. IsFiniteSet(V) /\ Cardinality(V) = Cardinality(A) + n - 0
    BY <1>1, <1>5, <1>6, <1>8, <1>9, Zenon
  <1>11. Cardinality(V) = Cardinality(A) + n
    BY <1>2, <1>9, <1>10
  <1> QED
    BY <1>9, <1>10, <1>11 DEF A, V, n

\* A reply fits the frame, and no slot of it that is pending was refused.
LEMMA BatchRoom ==
  ASSUME NEW ids, Len(ids) \in Nat, ~TooLong(ids)
  PROVE  /\ BaseSize + Cardinality(SlotBytes(Batch(ids))) <= Frame
         /\ \A i \in 1..Len(ids) :
              Resolve(ids[i]) = Is("Pending") => Batch(ids)[i] = Is("Pending")
  <1> DEFINE n == Len(ids)
             B == Batch(ids)
  <1>1. PICK g : /\ Counts(ids, g, n)
                 /\ B = [i \in 1..n |-> Keep(ids[i], g[i - 1], n - i)]
    BY BatchCounts
  <1>2. /\ g[0] = BaseSize
        /\ \A i \in 1..n : g[i] = g[i - 1] + SizeOf(B[i])
    BY <1>1 DEF Counts
  <1>3. /\ DOMAIN B = 1..n
        /\ \A i \in 1..n : B[i] = Keep(ids[i], g[i - 1], n - i)
    BY <1>1
  <1>4. n \in Nat /\ BaseSize \in Nat /\ Frame \in Nat
    BY Sizes
  <1>5. BaseSize + n * OverflowSize <= Frame
    <2>1. OverflowSize * n = n * OverflowSize /\ n * OverflowSize \in Nat
      BY <1>4, Sizes, Product
    <2>2. ~(BaseSize + OverflowSize * n > Frame)
      BY DEF TooLong
    <2> QED
      BY <1>4, <2>1, <2>2
  <1> HIDE DEF n, B
  <1> DEFINE S == {k \in 0..n : /\ g[k] \in Nat
                                /\ g[k] + (n - k) * OverflowSize <= Frame
                                /\ IsFiniteSet(FirstBytes(B, k))
                                /\ BaseSize + Cardinality(FirstBytes(B, k)) = g[k]}
  <1>6. 0 \in S
    <2>1. FirstBytes(B, 0) = {}
      BY DEF FirstBytes
    <2>2. IsFiniteSet({}) /\ Cardinality({}) = 0
      BY FS_EmptySet
    <2>3. n - 0 = n /\ BaseSize + 0 = BaseSize /\ 0 \in 0..n
      BY <1>4
    <2> QED
      BY <1>2, <1>4, <1>5, <2>1, <2>2, <2>3
  <1>7. ASSUME NEW k \in 0..(n - 1), k \in S PROVE k + 1 \in S
    <2> DEFINE j == n - (k + 1)
               i == k + 1
    <2>1. /\ k \in Nat /\ i \in 1..n /\ i - 1 = k /\ i \in 0..n
          /\ j \in Nat /\ n - k = j + 1 /\ n - i = j
      BY <1>4
    <2>2. /\ g[k] \in Nat /\ g[k] + (j + 1) * OverflowSize <= Frame
          /\ IsFiniteSet(FirstBytes(B, k))
          /\ BaseSize + Cardinality(FirstBytes(B, k)) = g[k]
      BY <1>7, <2>1
    <2>3. B[i] = Keep(ids[i], g[k], j) /\ g[i] = g[k] + SizeOf(B[i])
      BY <1>2, <1>3, <2>1
    <2> HIDE DEF i, j
    <2>4. g[i] \in Nat /\ g[i] + j * OverflowSize <= Frame
      <3>1. /\ g[k] + SizeOf(Keep(ids[i], g[k], j)) \in Nat
            /\ g[k] + SizeOf(Keep(ids[i], g[k], j)) + j * OverflowSize <= Frame
        BY <2>1, <2>2, KeepRoom
      <3>2. g[i] = g[k] + SizeOf(Keep(ids[i], g[k], j))
        BY <2>3
      <3> QED
        BY <3>1, <3>2
    <2>5. /\ IsFiniteSet(FirstBytes(B, i))
          /\ Cardinality(FirstBytes(B, k)) \in Nat
          /\ Cardinality(FirstBytes(B, i))
               = Cardinality(FirstBytes(B, k)) + SizeOf(B[i])
      BY <2>1, <2>2, OneSlotMore DEF i
    <2>6. BaseSize + Cardinality(FirstBytes(B, i)) = g[i]
      BY <1>4, <2>2, <2>3, <2>5, Sizes
    <2>7. i \in S
      BY <2>1, <2>4, <2>5, <2>6
    <2> QED
      BY <2>7 DEF i
  <1>8. \A k \in 0..(n - 1) : k \in S => k + 1 \in S
    BY <1>7
  <1>9. \A k \in 0..n : k \in S
    <2> HIDE DEF S
    <2> QED
      BY <1>4, <1>6, <1>8, UpTo
  <1>10. BaseSize + Cardinality(SlotBytes(B)) <= Frame
    <2>1. SlotBytes(B) = FirstBytes(B, n)
      BY <1>3 DEF SlotBytes, FirstBytes
    <2>2. n \in 0..n /\ n - n = 0 /\ 0 * OverflowSize = 0
      BY <1>4, Sizes
    <2>3. g[n] \in Nat /\ g[n] + 0 <= Frame
      BY <1>9, <2>2
    <2> QED
      BY <1>4, <1>9, <2>1, <2>2, <2>3
  <1>11. ASSUME NEW i \in 1..n, Resolve(ids[i]) = Is("Pending")
         PROVE  B[i] = Is("Pending")
    <2> DEFINE k == i - 1
               j == n - i
    <2>1. k \in 0..n /\ j \in Nat /\ n - k = j + 1
      BY <1>4
    <2>2. g[k] \in Nat /\ g[k] + (j + 1) * OverflowSize <= Frame
      BY <1>9, <2>1
    <2>3. B[i] = Keep(ids[i], g[k], j)
      BY <1>3
    <2> HIDE DEF k, j
    <2> QED
      BY <1>11, <2>1, <2>2, <2>3, KeepRoom
  <1> QED
    BY <1>10, <1>11 DEF n, B

----------------------------------------------------------------------------
(* A reply that is worked off, and what is made of it, has what the caller *)
(* asked for.                                                              *)

EndedAmong(T, handles) ==
  {i \in DOMAIN handles : T[handles[i]].state \notin LiveStates}

Served(T, call) ==
  /\ call.pc = "resolving" \/ (call.pc = "returned" /\ call.error = "") =>
       Cardinality(EndedAmong(T, call.handles)) >= call.min
  /\ Batched(call.kind) /\ call.pc = "resolving" =>
       /\ DOMAIN call.slots = DOMAIN call.handles
       /\ BaseSize + Cardinality(SlotBytes(call.slots)) <= Frame

AllServed == \A c \in Caller : Served(tasks, calls[c])

LEMMA EndedFinite ==
  ASSUME NEW T, NEW handles \in Seq(TaskId)
  PROVE  /\ IsFiniteSet(EndedAmong(T, handles))
         /\ Cardinality(EndedAmong(T, handles)) \in Nat
  <1> DEFINE n == Len(handles)
             I == 1..n
             E == EndedAmong(T, handles)
  <1>1. n \in Nat /\ E \subseteq I
    BY DEF EndedAmong
  <1> HIDE DEF n, E
  <1>2. IsFiniteSet(I)
    BY <1>1, FS_Interval
  <1> HIDE DEF I
  <1>3. IsFiniteSet(E)
    BY <1>1, <1>2, FS_Subset
  <1> QED
    BY <1>3, FS_CardinalityType DEF E

\* A task that has ended does not live again.
LEMMA ServedStays ==
  ASSUME CoreInv, Settled, NEW old \in Call, NEW new, Served(tasks, old),
         \A i \in DOMAIN old.handles : old.handles[i] \in minted,
         new.pc = old.pc, new.kind = old.kind, new.min = old.min,
         new.handles = old.handles, new.slots = old.slots,
         new.error = old.error
  PROVE  Served(tasks', new)
  <1> DEFINE h == old.handles
             A == EndedAmong(tasks, h)
             B == EndedAmong(tasks', h)
  <1>1. h \in Seq(TaskId) /\ old.min \in Nat
    BY DEF Call
  <1>2. A \subseteq B
    <2> SUFFICES ASSUME NEW i \in DOMAIN h, tasks[h[i]].state \notin LiveStates
                 PROVE  tasks'[h[i]].state \notin LiveStates
      BY DEF EndedAmong
    <2>1. h[i] \in TaskId /\ h[i] \in minted
      BY <1>1
    <2>2. tasks[h[i]].state \in LiveStates \cup TerminalStates \cup {"Absent"}
      BY <2>1 DEF CoreInv, TypeOK, Task, NoTask
    <2>3. Keeps(h[i])
      BY <2>1 DEF Settled
    <2> QED
      BY <2>1, <2>2, <2>3 DEF Keeps, Terminal, TerminalStates, LiveStates
  <1>3. IsFiniteSet(B) /\ Cardinality(A) \in Nat /\ Cardinality(B) \in Nat
    BY <1>1, EndedFinite
  <1> HIDE DEF A, B
  <1>4. Cardinality(A) <= Cardinality(B)
    BY <1>2, <1>3, FS_Subset
  <1>5. Cardinality(A) >= old.min => Cardinality(B) >= new.min
    BY <1>1, <1>3, <1>4
  <1> QED
    BY <1>5 DEF Served, A, B

\* A step of one call.
LEMMA ServedCall ==
  ASSUME ReadInv, AllServed, NEW c \in Caller, NEW x, Becomes(c, x),
         UNCHANGED <<vars, restarts>>, Served(tasks, x)
  PROVE  AllServed'
  <1>1. tasks' = tasks
    BY DEF vars
  <1>2. \A d \in Caller : calls'[d] = IF d = c THEN x ELSE calls[d]
    BY DEF Becomes, ReadInv, ReadTypeOK
  <1>3. \A d \in Caller : Served(tasks', calls'[d])
    BY <1>1, <1>2 DEF AllServed
  <1> QED
    BY <1>3 DEF AllServed, Served, EndedAmong, SlotBytes, SizeOf

LEMMA OverError ==
  ASSUME NEW call \in Call, NEW out, NEW e
  PROVE  /\ Returns(call, out).error = call.error
         /\ Fails(call, e).error = e
  BY DEF Returns, Fails, Call

LEMMA FailServed ==
  ASSUME ReadInv, AllServed, NEW c \in Caller,
         NEW e \in {"DeadlineExceeded", "CapacityExceeded", "Io"},
         Becomes(c, Fails(calls[c], e)), UNCHANGED <<vars, restarts>>
  PROVE  AllServed'
  <1> DEFINE x == Fails(calls[c], e)
  <1>0. calls[c] \in Call /\ e # ""
    BY DEF ReadInv, ReadTypeOK
  <1>1. x.pc = "returned" /\ x.error = e
    BY <1>0, OverFields, OverError
  <1>2. Becomes(c, x)
    OBVIOUS
  <1> HIDE DEF x
  <1>3. Served(tasks, x)
    BY <1>0, <1>1 DEF Served
  <1> QED
    BY <1>2, <1>3, ServedCall

\* The slots that are ready are those of tasks that have ended.
LEMMA ReadyEnded ==
  ASSUME CoreInv, NEW call \in Call, Paced(call), call.pc # "idle",
         ~(Batched(call.kind) /\ TooLong(call.handles)),
         Enough(call, Answer(call))
  PROVE  Cardinality(EndedAmong(tasks, call.handles)) >= call.min
  <1> DEFINE h == call.handles
             slots == Answer(call)
             A == ReadySlots(slots)
             B == EndedAmong(tasks, h)
  <1>1. h \in Seq(TaskId) /\ call.min \in Nat
    BY DEF Call
  <1>2. \A t \in TaskId : Live(t) => Resolve(Output(t)) = Is("Pending")
    BY LiveNotLost DEF Resolve
  <1>3. A \subseteq B
    <2>1. CASE Batched(call.kind)
      <3> DEFINE ids == Outputs(h)
      <3>1. /\ ids \in Seq(ObjectId) /\ Len(ids) = Len(h) /\ Len(ids) \in Nat
            /\ \A i \in 1..Len(h) : h[i] \in TaskId /\ ids[i] = Output(h[i])
        BY <1>1, OutputInjective DEF Outputs
      <3>2. slots = Batch(ids)
        BY <2>1 DEF Answer
      <3>3. ~TooLong(ids)
        BY <2>1, <3>1 DEF TooLong
      <3> HIDE DEF ids, h, slots
      <3>4. DOMAIN slots = 1..Len(h)
        BY <3>1, <3>2, BatchSlots
      <3>5. \A i \in 1..Len(h) :
              Resolve(ids[i]) = Is("Pending") => slots[i] = Is("Pending")
        BY <3>1, <3>2, <3>3, BatchRoom
      <3>6. \A i \in 1..Len(h) : Live(h[i]) => slots[i].tag = "Pending"
        BY <1>2, <3>1, <3>5 DEF Is
      <3> QED
        BY <1>1, <3>4, <3>6 DEF ReadySlots, EndedAmong, Live
    <2>2. CASE ~Batched(call.kind)
      <3>1. Len(h) = 1
        BY <2>2 DEF Paced
      <3>2. h[1] \in TaskId /\ DOMAIN h = {1}
        BY <1>1, <3>1
      <3>3. slots = <<Resolve(Output(h[1]))>>
        BY <2>2 DEF Answer
      <3> HIDE DEF h, slots
      <3>4. Live(h[1]) => slots[1].tag = "Pending"
        BY <1>2, <3>2, <3>3 DEF Is
      <3>5. DOMAIN slots = {1}
        BY <3>3
      <3> QED
        BY <3>2, <3>4, <3>5 DEF ReadySlots, EndedAmong, Live
    <2> QED
      BY <2>1, <2>2
  <1>4. IsFiniteSet(B) /\ Cardinality(B) \in Nat
    BY <1>1, EndedFinite
  <1>5. Cardinality(A) >= call.min
    BY DEF Enough
  <1> HIDE DEF A, B
  <1>6. IsFiniteSet(A) /\ Cardinality(A) <= Cardinality(B)
    BY <1>3, <1>4, FS_Subset
  <1>7. Cardinality(A) \in Nat
    BY <1>6, FS_CardinalityType
  <1>8. Cardinality(B) >= call.min
    BY <1>1, <1>4, <1>5, <1>6, <1>7
  <1> QED
    BY <1>8 DEF B

LEMMA DispatchServed ==
  ASSUME ReadInv, AllServed, NEW c \in Caller, Dispatch(c)
  PROVE  AllServed'
  <1> DEFINE call == calls[c]
             slots == Answer(call)
  <1>1. CoreInv /\ call \in Call /\ Paced(call)
    BY DEF ReadInv, ReadTypeOK
  <1>2. call.pc = "waiting" /\ UNCHANGED <<vars, restarts>>
    BY DEF Dispatch
  <1>3. CASE Batched(call.kind) /\ TooLong(call.handles)
    <2>1. Becomes(c, Fails(call, "CapacityExceeded"))
      BY <1>3 DEF Dispatch
    <2> QED
      BY <1>2, <2>1, FailServed
  <1>4. CASE ~(Batched(call.kind) /\ TooLong(call.handles))
    <2>1. Becomes(c, IF Enough(call, slots) THEN Works(call, slots)
                     ELSE [call EXCEPT !.pc = "asking", !.park = 0])
      BY <1>4 DEF Dispatch
    <2>2. Enough(call, slots) =>
            Cardinality(EndedAmong(tasks, call.handles)) >= call.min
      BY <1>1, <1>2, <1>4, ReadyEnded
    <2>3. Batched(call.kind) =>
            /\ DOMAIN slots = DOMAIN call.handles
            /\ BaseSize + Cardinality(SlotBytes(slots)) <= Frame
      <3> SUFFICES ASSUME Batched(call.kind)
                   PROVE  /\ DOMAIN slots = DOMAIN call.handles
                          /\ BaseSize + Cardinality(SlotBytes(slots)) <= Frame
        OBVIOUS
      <3> DEFINE ids == Outputs(call.handles)
      <3>1. call.handles \in Seq(TaskId)
        BY <1>1 DEF Call
      <3>2. /\ ids \in Seq(ObjectId) /\ Len(ids) = Len(call.handles)
            /\ Len(ids) \in Nat /\ DOMAIN call.handles = 1..Len(call.handles)
        BY <3>1, OutputInjective DEF Outputs
      <3>3. slots = Batch(ids) /\ ~TooLong(ids)
        BY <1>4, <3>2 DEF Answer, TooLong
      <3> HIDE DEF ids, slots, call
      <3> QED
        BY <3>2, <3>3, BatchSlots, BatchRoom
    <2> HIDE DEF slots
    <2>4. CASE Enough(call, slots) /\ slots = <<>>
      <3> DEFINE x == Returns(call, <<>>)
      <3>1. Becomes(c, x)
        BY <2>1, <2>4 DEF Works
      <3>2. x.pc = "returned" /\ x.min = call.min /\ x.handles = call.handles
        BY <1>1, OverFields
      <3> HIDE DEF x, call
      <3>3. Served(tasks, x)
        BY <2>2, <2>4, <3>2 DEF Served
      <3> QED
        BY <1>2, <3>1, <3>3, ServedCall
    <2>5. CASE Enough(call, slots) /\ slots # <<>>
      <3> DEFINE x == [call EXCEPT !.pc = "resolving", !.left = 0,
                         !.asked = 0, !.park = 0, !.slots = slots]
      <3>1. Becomes(c, x)
        BY <2>1, <2>5 DEF Works
      <3>2. /\ x.pc = "resolving" /\ x.min = call.min /\ x.kind = call.kind
            /\ x.handles = call.handles /\ x.slots = slots
        BY <1>1 DEF Call
      <3> HIDE DEF x, call
      <3>3. Served(tasks, x)
        BY <2>2, <2>3, <2>5, <3>2 DEF Served
      <3> QED
        BY <1>2, <3>1, <3>3, ServedCall
    <2>6. CASE ~Enough(call, slots)
      <3> DEFINE x == [call EXCEPT !.pc = "asking", !.park = 0]
      <3>1. Becomes(c, x)
        BY <2>1, <2>6
      <3>2. x.pc = "asking"
        BY <1>1 DEF Call
      <3> HIDE DEF x, call
      <3>3. Served(tasks, x)
        BY <3>2 DEF Served
      <3> QED
        BY <1>2, <3>1, <3>3, ServedCall
    <2> QED
      BY <2>4, <2>5, <2>6
  <1> QED
    BY <1>3, <1>4

LEMMA ResolveServed ==
  ASSUME ReadInv, AllServed, NEW c \in Caller, ResolveSlot(c)
  PROVE  AllServed'
  <1> DEFINE call == calls[c]
  <1>1. call \in Call /\ Served(tasks, call)
    BY DEF ReadInv, ReadTypeOK, AllServed
  <1>2. call.pc = "resolving" /\ UNCHANGED <<vars, restarts>>
    BY DEF ResolveSlot
  <1>3. PICK out : \/ Becomes(c, [call EXCEPT !.out = out])
                   \/ Becomes(c, Returns(call, out))
    BY DEF ResolveSlot
  <1>4. ASSUME NEW x, Becomes(c, x), x.handles = call.handles,
               x.min = call.min, x.kind = call.kind,
               \/ x.pc = "returned"
               \/ x.pc = "resolving" /\ x.slots = call.slots
        PROVE  AllServed'
    <2>1. Served(tasks, x)
      BY <1>1, <1>2, <1>4 DEF Served
    <2> QED
      BY <1>2, <1>4, <2>1, ServedCall
  <1>5. CASE Becomes(c, [call EXCEPT !.out = out])
    <2> DEFINE x == [call EXCEPT !.out = out]
    <2>1. /\ x.handles = call.handles /\ x.min = call.min
          /\ x.kind = call.kind /\ x.pc = "resolving" /\ x.slots = call.slots
      BY <1>1, <1>2 DEF Call
    <2> QED
      BY <1>4, <1>5, <2>1
  <1>6. CASE Becomes(c, Returns(call, out))
    BY <1>1, <1>4, <1>6, OverFields
  <1> QED
    BY <1>3, <1>5, <1>6

\* Asking, and the beginning of a call, promise nothing yet.
LEMMA AskServed ==
  ASSUME ReadInv, AllServed, NEW c \in Caller, Ask(c)
  PROVE  AllServed'
  <1> DEFINE call == calls[c]
             x == [call EXCEPT !.pc = "waiting", !.asked = @ + 1,
                               !.park = MinOf(call.left, LongPollMs)]
  <1>1. call \in Call
    BY DEF ReadInv, ReadTypeOK
  <1>2. UNCHANGED <<vars, restarts>>
    BY DEF Ask
  <1>3. Becomes(c, x) \/ Becomes(c, Fails(call, "DeadlineExceeded"))
    BY DEF Ask
  <1>4. x.pc = "waiting"
    BY <1>1 DEF Call
  <1> HIDE DEF x
  <1>5. Served(tasks, x)
    BY <1>4 DEF Served
  <1> QED
    BY <1>2, <1>3, <1>5, ServedCall, FailServed

LEMMA BeginServed ==
  ASSUME ReadInv, AllServed, NEW c \in Caller, Starts(c)
  PROVE  AllServed'
  <1>1. PICK kind \in Kind, handles \in Handles, min \in Wanted,
             timeout \in 0..MaxTimeout : Begin(c, kind, handles, min, timeout)
    BY DEF Starts
  <1> DEFINE x == [NoCall EXCEPT !.pc = "asking", !.kind = kind,
                     !.handles = handles, !.min = MinReady(kind, handles, min),
                     !.left = timeout]
  <1>2. Becomes(c, x) /\ UNCHANGED <<vars, restarts>>
    BY <1>1 DEF Begin
  <1>3. x.pc = "asking"
    BY DEF NoCall
  <1> HIDE DEF x
  <1>4. Served(tasks, x)
    BY <1>3 DEF Served
  <1> QED
    BY <1>2, <1>4, ServedCall

\* A step of the coordinator, or of the clock.
LEMMA OthersServed ==
  ASSUME ReadInv, AllServed, Settled,
         \A c \in Caller :
           /\ calls'[c].pc = calls[c].pc /\ calls'[c].kind = calls[c].kind
           /\ calls'[c].min = calls[c].min /\ calls'[c].slots = calls[c].slots
           /\ calls'[c].handles = calls[c].handles
           /\ calls'[c].error = calls[c].error
  PROVE  AllServed'
  <1>1. ASSUME NEW c \in Caller PROVE Served(tasks', calls'[c])
    <2> DEFINE old == calls[c]
               new == calls'[c]
    <2>1. /\ CoreInv /\ old \in Call /\ Served(tasks, old)
          /\ \A i \in DOMAIN old.handles : old.handles[i] \in minted
      BY DEF ReadInv, ReadTypeOK, Truths, AllServed
    <2>2. /\ new.pc = old.pc /\ new.kind = old.kind /\ new.min = old.min
          /\ new.handles = old.handles /\ new.slots = old.slots
          /\ new.error = old.error
      OBVIOUS
    <2> HIDE DEF old, new
    <2>3. Served(tasks', new)
      BY <2>1, <2>2, ServedStays
    <2> QED
      BY <2>3 DEF new
  <1> QED
    BY <1>1 DEF AllServed, Served, EndedAmong, SlotBytes, SizeOf

LEMMA NextServed == ReadInv /\ AllServed /\ [ReadNext]_allVars => AllServed'
  <1> SUFFICES ASSUME ReadInv, AllServed, [ReadNext]_allVars PROVE AllServed'
    OBVIOUS
  <1>0. CoreInv /\ calls \in [Caller -> Call]
    BY DEF ReadInv, ReadTypeOK
  <1>1. ASSUME NEW c \in Caller, Starts(c) PROVE AllServed'
    BY <1>1, BeginServed
  <1>2. ASSUME NEW c \in Caller, Proceeds(c) PROVE AllServed'
    <2>1. CASE RpcFails(c)
      BY <2>1, FailServed DEF RpcFails
    <2> QED
      BY <1>2, <2>1, AskServed, DispatchServed, ResolveServed DEF Proceeds
  <1>3. CASE Cluster \/ UNCHANGED allVars
    <2>1. [Next]_vars /\ calls' = calls
      BY <1>3 DEF Cluster, Next, Reaper, readVars, allVars
    <2> QED
      BY <1>0, <2>1, NextSettled, OthersServed
  <1>4. CASE RestartCoordinator
    BY <1>0, <1>4, RestartCore, OthersServed DEF RestartCoordinator
  <1>5. CASE ClockTick
    <2>1. Settled
      BY <1>0, <1>5, NextSettled DEF ClockTick, Next, Reaper
    <2>2. ASSUME NEW c \in Caller
          PROVE  /\ calls'[c].pc = calls[c].pc /\ calls'[c].kind = calls[c].kind
                 /\ calls'[c].min = calls[c].min
                 /\ calls'[c].slots = calls[c].slots
                 /\ calls'[c].handles = calls[c].handles
                 /\ calls'[c].error = calls[c].error
      <3> DEFINE call == calls[c]
      <3>1. call \in Call
        BY <1>0
      <3>2. calls'[c] = [call EXCEPT !.left = Down(call.left),
                                     !.park = Down(call.park)]
        BY <1>5 DEF ClockTick
      <3> QED
        BY <3>1, <3>2 DEF Call
    <2> QED
      BY <2>1, <2>2, OthersServed
  <1> QED
    BY <1>1, <1>2, <1>3, <1>4, <1>5 DEF ReadNext

LEMMA AlwaysServed == ReadSpec => []AllServed
  <1>1. ReadInit => AllServed
    <2>1. Served(tasks, NoCall)
      BY DEF Served, NoCall
    <2> QED
      BY <2>1 DEF ReadInit, AllServed
  <1> QED
    BY <1>1, NextServed, ReadInvariant, PTL DEF ReadSpec

\* A batch that returns without an error (fetch_batch, client_get_batch_ready)
\* has min_ready tasks that ended, and still has them when the caller looks.
THEOREM EnoughHaveEnded == ReadSpec => []EnoughEnded
  <1>1. AllServed => EnoughEnded
    BY DEF AllServed, Served, EnoughEnded, EndedAmong, Live
  <1> QED
    BY <1>1, AlwaysServed, PTL

\* The reply that GetBatch builds fits the frame, for every mixture of slots,
\* every number of ids and every frame size.
THEOREM BatchAlwaysFits == ReadSpec => []BatchFits
  <1>1. AllServed => BatchFits
    BY DEF AllServed, Served, BatchFits
  <1> QED
    BY <1>1, AlwaysServed, PTL
=============================================================================
