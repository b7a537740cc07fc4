---------------------------- MODULE WorkerProofs ----------------------------
(***************************************************************************)
(* Proofs about the worker processes and the coordinator together, for     *)
(* every number of nodes, tasks, sessions, lost calls and restarts of      *)
(* either side.                                                            *)
(*                                                                         *)
(* A step of the cluster is a step of the coordinator, or its restart, and *)
(* a step of one process.  First comes what a step of the coordinator can  *)
(* do to what a process relies on (CoordMoves), then that this keeps a     *)
(* process and a late report sound (NodeKept, GhostKept), then the         *)
(* processes' own steps, one by one.  At the end, the steps of the cluster *)
(* are shown to be steps that Coordinator allows.                          *)
(***************************************************************************)
EXTENDS WorkerProcess, LifecycleProofs

----------------------------------------------------------------------------
(* The invariant.                                                          *)

Working == {"starting", "fetching", "running"}
Final == {"completing", "failing", "stopping", "acking"}

\* The attempt that grant g was given for is the task's last, and the task is
\* in one of the states S: leased; leased and not asked to stop; not begun.
AtFence(g, S) == tasks[g.task].state \in S /\ tasks[g.task].attempt = g.attempt
Held(g) == AtFence(g, LeasedStates)
Open(g) == AtFence(g, {"Assigned", "Running"})
Unbegun(g) == AtFence(g, {"Assigned"})

\* What the coordinator's tables owe to the workers that fill them.
GrantsSound == \A g \in grants : g.attempt > 0 /\ g.session \in DOMAIN sessions
WorkersSound ==
  \A n \in NodeId : Registered(n) =>
    /\ workers[n].offer = WorkerOffer[n]
    /\ workers[n].session \in DOMAIN sessions
    /\ sessions[workers[n].session] = n
BytesNamed ==
  \A o \in ObjectId :
    objects[o].state = "Available" /\ objects[o].location \in NodeId =>
      objects[o].version > 0

\* Process p of node n, with the objects st: its locals,
LocalsOK(n, p, st) ==
  /\ p \in Process /\ st \in [ObjectId -> Nat]
  /\ (p.grant # NoGrant) <=> p.pc \in InSession \ {"idle"}
  /\ p.grant # NoGrant => p.grant.node = n /\ p.grant.session = p.session
  /\ p.exit # "stray"
\* its sessions,
SessionOK(n, p) ==
  /\ p.epoch \in WorkerEpoch /\ p.first <= p.epoch
  /\ p.pc \in InSession => p.session # 0
  /\ p.session # 0 => p.session \in DOMAIN sessions /\ sessions[p.session] = n
  /\ Registered(n) => workers[n].workerEpoch <= p.epoch
\* its assignment,
AssignmentOK(n, p) ==
  /\ p.pc \in Working /\ CheckIdentity(n, p.session) => Held(p.grant)
  /\ p.pc \in InSession \ {"idle", "starting"} => ~Unbegun(p.grant)
\* and its store.
Answers(n, p) == p.pc # "exited" /\ workers[n].workerEpoch >= p.first
StoreOK(n, p, st) ==
  /\ p.pc = "completing" => st[Output(p.grant.task)] = p.grant.attempt
  /\ \A o \in ObjectId :
       (/\ objects[o].state = "Available" /\ objects[o].location = n
        /\ Answers(n, p)) => st[o] = objects[o].version
NodeOK(n, p, st) ==
  /\ LocalsOK(n, p, st) /\ SessionOK(n, p)
  /\ AssignmentOK(n, p) /\ StoreOK(n, p, st)

FinalOK(r, p, st) ==
  /\ r.flag \in BOOLEAN
  /\ ~Unbegun(r.grant)
  /\ p.grant = r.grant => p.pc \notin Working
  /\ (/\ r.kind = "completing" /\ Open(r.grant)
      /\ Answers(r.grant.node, p)) => st[Output(r.grant.task)] = r.grant.attempt
GhostOK(r, P, S) ==
  \/ /\ r.kind = "register" /\ r.node \in NodeId
     /\ r.epoch \in WorkerEpoch /\ r.epoch <= P[r.node].epoch
  \/ r.kind \in {"poll", "drain"} /\ r.session \in DOMAIN sessions
  \/ r.kind = "starting" /\ r.grant \in grants
  \/ /\ r.kind \in Final /\ r.grant \in grants
     /\ FinalOK(r, P[r.grant.node], S[r.grant.node])

CoordInv ==
  /\ CoreInv /\ LifeInv /\ BooksBalance /\ QueueInv
  /\ GrantsSound /\ WorkersSound /\ BytesNamed

IsRow(f) == f = [n \in NodeId |-> f[n]]

ClusterInv ==
  /\ CoordInv
  /\ IsRow(proc) /\ IsRow(store)
  /\ \A n \in NodeId : NodeOK(n, proc[n], store[n])
  /\ \A r \in ghosts : GhostOK(r, proc, store)

----------------------------------------------------------------------------
(* Steps of the coordinator, as the processes see them.                    *)

SessionsGrow ==
  /\ DOMAIN sessions \subseteq DOMAIN sessions'
  /\ \A s \in DOMAIN sessions : sessions'[s] = sessions[s]

WorkerStays(n) ==
  /\ Registered(n)
  /\ workers'[n].session = workers[n].session
  /\ workers'[n].workerEpoch = workers[n].workerEpoch
  /\ workers'[n].offer = workers[n].offer
WorkerComes(n) ==
  /\ ~Registered(n)
  /\ workers'[n].session \in DOMAIN sessions' \ DOMAIN sessions
  /\ sessions'[workers'[n].session] = n
  /\ workers'[n].workerEpoch <= proc[n].epoch
  /\ workers'[n].offer = WorkerOffer[n]
WorkersMove ==
  /\ SessionsGrow
  /\ \A n \in NodeId : Registered(n)' => WorkerStays(n) \/ WorkerComes(n)

\* A fence that has fallen does not come back.
FencesFall ==
  \A g \in grants : /\ Held(g)' => Held(g)
                    /\ Open(g)' => Open(g)
                    /\ Unbegun(g)' => Unbegun(g)

\* A lease lasts as long as its session, but for the grants F that were
\* reported on.
LeasesLast(F) ==
  \A g \in grants \ F :
    Held(g) /\ CheckIdentity(g.node, g.session)' => Held(g)'

\* Readers are sent to a worker for the same bytes as before, or for those of
\* the grants C that were completed.
BytesStay(C) ==
  \A n \in NodeId, o \in ObjectId :
    objects'[o].state = "Available" /\ objects'[o].location = n =>
      \/ /\ objects[o].state = "Available" /\ objects[o].location = n
         /\ objects'[o].version = objects[o].version
      \/ \E g \in C : /\ o = Output(g.task) /\ g.node = n /\ Open(g)
                      /\ objects'[o].version = g.attempt

CoordMoves(F, C) ==
  /\ CoordInv' /\ grants \subseteq grants' /\ WorkersMove
  /\ FencesFall /\ LeasesLast(F) /\ BytesStay(C)

\* A grant's fence is in force exactly while its lease is.
LEMMA FenceMeans ==
  ASSUME CoreInv, AttemptsBounded, NEW g \in grants
  PROVE  /\ CheckFence(g) <=> Held(g)
         /\ g.task \in TaskId /\ g.node \in NodeId /\ g.attempt \in Nat
         /\ g.session \in Nat
  <1>1. /\ g.task \in TaskId /\ g.node \in NodeId /\ g.attempt \in Nat
        /\ g.session \in Nat
    BY DEF CoreInv, TypeOK, Grant
  <1>2. ASSUME CheckFence(g) PROVE Held(g)
    <2>1. /\ tasks[g.task].state # "Absent" /\ tasks[g.task].attempt = g.attempt
          /\ tasks[g.task].assigned.node = g.node
      BY <1>2 DEF CheckFence
    <2>2. tasks[g.task].assigned # Unassigned
      BY <1>1, <2>1, ConstantsDiffer DEF Unassigned
    <2>3. tasks[g.task].state \in LeasedStates
      BY <1>1, <2>1, <2>2 DEF CoreInv, LeasesAreCurrent
    <2> QED
      BY <2>1, <2>3 DEF Held, AtFence
  <1>3. ASSUME Held(g) PROVE CheckFence(g)
    <2> DEFINE t == g.task
               n == tasks[t].assigned.node
               s == tasks[t].assigned.session
               h == [task |-> t, attempt |-> tasks[t].attempt, node |-> n,
                     session |-> s]
    <2>1. tasks[t].state \in LeasedStates /\ tasks[t].attempt = g.attempt
      BY <1>3 DEF Held, AtFence
    <2>2. /\ tasks[t].state # "Absent" /\ n \in NodeId /\ CheckIdentity(n, s)
          /\ h \in grants
      BY <1>1, <2>1 DEF CoreInv, LeasesAreCurrent, LeasedStates
    <2>3. h.task = t /\ h.attempt = g.attempt /\ h.node = n /\ h.session = s
      BY <2>1
    <2>4. tasks[t].assigned = [node |-> n, session |-> s]
      BY <1>1, <2>2, KnownTask DEF Task
    <2> HIDE DEF h
    <2>5. h = g
      BY <2>2, <2>3 DEF AttemptsBounded
    <2> QED
      BY <2>1, <2>2, <2>3, <2>4, <2>5 DEF CheckFence
  <1> QED
    BY <1>1, <1>2, <1>3

LEMMA FenceMeansNext ==
  ASSUME CoreInv', AttemptsBounded', NEW g \in grants', Held(g)'
  PROVE  CheckIdentity(g.node, g.session)'
  <1> DEFINE t == g.task
             n == tasks'[t].assigned.node
             s == tasks'[t].assigned.session
             h == [task |-> t, attempt |-> tasks'[t].attempt, node |-> n,
                   session |-> s]
  <1>1. t \in TaskId
    BY DEF CoreInv, TypeOK, Grant
  <1>2. tasks'[t].state \in LeasedStates /\ tasks'[t].attempt = g.attempt
    BY DEF Held, AtFence
  <1>3. /\ workers'[n].state # "Absent" /\ workers'[n].session = s
        /\ h \in grants'
    BY <1>1, <1>2 DEF CoreInv, LeasesAreCurrent, LeasedStates, CheckIdentity,
       Registered
  <1>4. h.task = t /\ h.attempt = g.attempt /\ h.node = n /\ h.session = s
    BY <1>2
  <1> HIDE DEF h
  <1>5. h = g
    BY <1>3, <1>4 DEF AttemptsBounded
  <1> QED
    BY <1>3, <1>4, <1>5 DEF CheckIdentity, Registered

LEMMA FencesDoFall ==
  ASSUME CoreInv, CoreInv', AttemptsBounded, AllTasksMove
  PROVE  FencesFall
  <1> SUFFICES ASSUME NEW g \in grants, Held(g)'
               PROVE  /\ Held(g)
                      /\ Open(g)' => Open(g)
                      /\ Unbegun(g)' => Unbegun(g)
    BY DEF FencesFall, Held, Open, Unbegun, AtFence, LeasedStates
  <1> DEFINE t == g.task
  <1>1. t \in TaskId /\ TaskMoves(t) /\ g.attempt \in Nat
    BY FenceMeans DEF AllTasksMove
  <1>2. tasks'[t].state \in LeasedStates /\ tasks'[t].attempt = g.attempt
    BY DEF Held, AtFence
  <1>3. CASE Untouched(t)
    BY <1>2, <1>3 DEF Untouched, SameRun, Held, Open, Unbegun, AtFence,
       LeasedStates
  <1>4. CASE Leased(t)
    <2>1. tasks[t].attempt \in Nat
      BY <1>1, <1>4, KnownTask DEF Leased
    <2>2. g.attempt <= tasks[t].attempt
      BY <1>1, <1>4 DEF AttemptsBounded, Leased
    <2> QED
      BY <1>1, <1>2, <1>4, <2>1, <2>2 DEF Leased
  <1>5. CASE Advanced(t)
    BY <1>2, <1>5 DEF Advanced, SameRun, Held, Open, Unbegun, AtFence,
       LeasedStates
  <1> QED
    BY <1>1, <1>2, <1>3, <1>4, <1>5 DEF TaskMoves, Submitted, Requeued,
       Readied, Stopped, Dropped, LeasedStates

LEMMA LeaseLasts ==
  ASSUME NEW g, TaskMoves(g.task), Held(g), IsLeased(g.task)'
  PROVE  Held(g)'
  BY DEF Held, AtFence, IsLeased, LeasedStates, TaskMoves, Untouched, SameRun,
     Submitted, Leased, Advanced, Requeued, Readied, Stopped, Dropped

\* Whoever completes a task does it for the grant that holds it.
LEMMA BytesDoStay ==
  ASSUME CoreInv, CoreInv', AllTasksMove, AllObjectsMove, NEW C,
         \A g \in grants : (/\ Open(g) /\ tasks'[g.task].state = "Succeeded"
                            /\ Registered(g.node)') => g \in C
  PROVE  BytesStay(C)
  <1> SUFFICES ASSUME NEW n \in NodeId, NEW o \in ObjectId,
                      objects'[o].state = "Available", objects'[o].location = n,
                      ~(/\ objects[o].state = "Available"
                        /\ objects[o].location = n
                        /\ objects'[o].version = objects[o].version)
               PROVE  \E g \in C : /\ o = Output(g.task) /\ g.node = n
                                   /\ Open(g)
                                   /\ objects'[o].version = g.attempt
    BY DEF BytesStay
  <1>1. Produced(o)
    <2>1. n # AtCoordinator
      BY ConstantsDiffer DEF Nodes
    <2> QED
      BY <2>1 DEF AllObjectsMove, ObjectMoves, Stays, PutAway, Promised,
         GivenUp, Bereft, Deleted, NoObject
  <1>2. PICK t \in TaskId : /\ o = Output(t) /\ Live(t)
                            /\ objects'[o].owner = tasks[t].assigned.node
    BY <1>1 DEF Produced
  <1>3. n = tasks[t].assigned.node /\ workers'[n].state # "Absent"
    BY <1>1, <1>2 DEF Produced
  <1>4. tasks'[t] \in Task \cup {NoTask}
    BY DEF CoreInv, TypeOK
  <1>5. /\ tasks'[t].state = "Succeeded"
        /\ objects'[o].version = tasks'[t].attempt
    BY <1>2, <1>4 DEF CoreInv, OutputMatchesTask, Task, NoTask, TerminalStates
  <1>6. /\ tasks[t].state \in {"Assigned", "Running"}
        /\ tasks'[t].attempt = tasks[t].attempt
    BY <1>2, <1>5 DEF AllTasksMove, TaskMoves, Untouched, Submitted, Leased,
       Advanced, Requeued, Readied, Stopped, Dropped, SameRun, Live, LiveStates
  <1> DEFINE s == tasks[t].assigned.session
             g == [task |-> t, attempt |-> tasks[t].attempt, node |-> n,
                   session |-> s]
  <1>7. g \in grants
    BY <1>3, <1>6 DEF CoreInv, LeasesAreCurrent, LeasedStates
  <1>8. g.task = t /\ g.attempt = tasks[t].attempt /\ g.node = n
    OBVIOUS
  <1> HIDE DEF g
  <1>9. Open(g)
    BY <1>6, <1>8 DEF Open, AtFence
  <1>10. g \in C
    BY <1>3, <1>5, <1>7, <1>8, <1>9 DEF Registered
  <1> QED
    BY <1>2, <1>5, <1>6, <1>8, <1>9, <1>10

LEMMA SoundTables ==
  ASSUME CoordInv, CoreInv', LifeInv', WorkersMove, GrantsGrow,
         NEW C, C \subseteq grants, BytesStay(C)
  PROVE  GrantsSound' /\ WorkersSound' /\ BytesNamed'
  <1> USE DEF CoordInv
  <1>1. WorkersSound'
    BY DEF WorkersMove, WorkerStays, WorkerComes, SessionsGrow, WorkersSound
  <1>2. GrantsSound'
    <2> SUFFICES ASSUME NEW g \in grants'
                 PROVE  g.attempt > 0 /\ g.session \in DOMAIN sessions'
      BY DEF GrantsSound
    <2>1. CASE g \in grants
      BY <2>1 DEF GrantsSound, WorkersMove, SessionsGrow
    <2>2. CASE g \notin grants
      <3>1. /\ g \in Grant /\ Leased(g.task)
            /\ g.attempt = tasks[g.task].attempt + 1
        BY <2>2 DEF GrantsGrow
      <3>2. g.task \in TaskId /\ g.node \in NodeId
        BY <3>1 DEF Grant
      <3>3. tasks[g.task].attempt \in Nat
        BY <3>1, <3>2, KnownTask DEF Leased
      <3>4. Held(g)'
        BY <3>1 DEF Leased, Held, AtFence, LeasedStates
      <3>5. CheckIdentity(g.node, g.session)'
        BY <3>4, FenceMeansNext DEF LifeInv
      <3>6. g.session \in DOMAIN sessions'
        BY <1>1, <3>2, <3>5 DEF CheckIdentity, WorkersSound
      <3> QED
        BY <3>1, <3>3, <3>6
    <2> QED
      BY <2>1, <2>2
  <1>3. BytesNamed'
    <2> SUFFICES ASSUME NEW o \in ObjectId, objects'[o].state = "Available",
                        objects'[o].location \in NodeId
                 PROVE  objects'[o].version > 0
      BY DEF BytesNamed
    <2>1. PICK n \in NodeId : objects'[o].location = n
      OBVIOUS
    <2> QED
      BY <2>1 DEF BytesStay, BytesNamed, GrantsSound
  <1> QED
    BY <1>1, <1>2, <1>3

\* A step of the coordinator that ends no leases of registered workers but
\* those of F, and completes only those of C.
LEMMA StepMoves ==
  ASSUME CoordInv, [Next]_vars, WorkersMove, NEW F, NEW C,
         C \subseteq F, F \subseteq grants,
         \A g \in grants \ F :
           Held(g) /\ Registered(g.node)' => IsLeased(g.task)',
         \A g \in F : tasks'[g.task].state = "Succeeded" => g \in C
  PROVE  CoordMoves(F, C)
  <1>1. CoreInv /\ LifeInv /\ BooksBalance /\ QueueInv /\ AttemptsBounded
    BY DEF CoordInv, LifeInv
  <1>2. CoreInv'
    BY <1>1, NextCore
  <1>3. LifeInv' /\ BooksBalance' /\ QueueInv'
    BY <1>1, <1>2, NextLife, NextBalanced
  <1>4. AllTasksMove /\ AllObjectsMove /\ GrantsGrow
    BY <1>1, NextEffect DEF StepEffect, RestMoves
  <1>5. FencesFall
    BY <1>1, <1>2, <1>4, FencesDoFall
  <1>6. LeasesLast(F)
    <2> SUFFICES ASSUME NEW g \in grants \ F, Held(g),
                        CheckIdentity(g.node, g.session)'
                 PROVE  Held(g)'
      BY DEF LeasesLast
    <2>1. IsLeased(g.task)' /\ g.task \in TaskId
      BY <1>1, FenceMeans DEF CheckIdentity
    <2> QED
      BY <1>4, <2>1, LeaseLasts DEF AllTasksMove
  <1>7. BytesStay(C)
    <2>1. ASSUME NEW g \in grants, Open(g), tasks'[g.task].state = "Succeeded",
                 Registered(g.node)'
          PROVE  g \in C
      <3>1. Held(g)
        BY <2>1 DEF Open, Held, AtFence, LeasedStates
      <3>2. ~IsLeased(g.task)'
        BY <2>1 DEF IsLeased, LeasedStates
      <3> QED
        BY <2>1, <3>1, <3>2
    <2> QED
      BY <1>1, <1>2, <1>4, <2>1, BytesDoStay
  <1>8. grants \subseteq grants'
    BY <1>4 DEF GrantsGrow
  <1>9. GrantsSound' /\ WorkersSound' /\ BytesNamed'
    BY <1>2, <1>3, <1>4, <1>7, SoundTables
  <1> QED
    BY <1>2, <1>3, <1>5, <1>6, <1>7, <1>8, <1>9 DEF CoordMoves, CoordInv

LEMMA RestartMoves ==
  ASSUME CoordInv, Restart
  PROVE  CoordMoves({}, {})
  <1>1. CoreInv' /\ LifeInv' /\ BooksBalance' /\ QueueInv'
    BY RestartKeepsCore, RestartKeepsLife, RestartKeepsBooks DEF CoordInv
  <1>2. UNCHANGED <<grants, sessions>>
    BY DEF Restart
  <1>3. /\ \A t \in TaskId : tasks'[t].state = "Absent"
        /\ \A o \in ObjectId : objects'[o].state = "Absent"
        /\ \A n \in NodeId : ~Registered(n)'
    BY RestartTables
  <1>4. \A g \in grants : g.task \in TaskId /\ g.node \in NodeId
    BY DEF CoordInv, CoreInv, TypeOK, Grant
  <1>5. WorkersMove
    BY <1>2, <1>3 DEF WorkersMove, SessionsGrow
  <1>6. FencesFall /\ LeasesLast({}) /\ BytesStay({})
    BY <1>3, <1>4 DEF FencesFall, LeasesLast, BytesStay, Held, Open, Unbegun,
       AtFence, LeasedStates, CheckIdentity
  <1>7. GrantsSound' /\ WorkersSound' /\ BytesNamed'
    BY <1>2, <1>3 DEF CoordInv, GrantsSound, WorkersSound, BytesNamed
  <1> QED
    BY <1>1, <1>2, <1>5, <1>6, <1>7 DEF CoordMoves, CoordInv

----------------------------------------------------------------------------
(* The coordinator's actions, sorted by what they do to leases.            *)

StillServes(n) == WorkerStays(n) /\ workers'[n].free <= workers[n].free

LEMMA FreeSlots ==
  ASSUME CoordInv, NEW n \in NodeId, Registered(n)
  PROVE  workers[n] \in Worker /\ workers[n].free \in Nat
  <1>1. workers[n] \in Worker
    BY DEF CoordInv, CoreInv, TypeOK, Registered, NoWorker
  <1> QED
    BY <1>1 DEF Worker

\* Where no slot comes free, a lease ends only with its worker.
LEMMA QuietStep ==
  ASSUME CoordInv, [Next]_vars, WorkersMove,
         \A n \in NodeId : Registered(n)' /\ Registered(n) =>
                             workers'[n].free <= workers[n].free
  PROVE  CoordMoves({}, {})
  <1>1. CoreInv /\ AttemptsBounded /\ CoreInv'
    BY NextCore DEF CoordInv, LifeInv
  <1>2. AccountsMove
    BY <1>1, NextBooks
  <1>3. ASSUME NEW g \in grants, Held(g), Registered(g.node)'
        PROVE  IsLeased(g.task)'
    <2> DEFINE t == g.task
               n == g.node
    <2>1. t \in TaskId /\ n \in NodeId /\ IsLeased(t) /\ CheckFence(g)
      BY <1>1, <1>3, FenceMeans DEF Held, AtFence, IsLeased
    <2>2. tasks[t].assigned.node = n /\ Registered(n)
      BY <2>1 DEF CheckFence, CheckIdentity
    <2>3. CASE AccountsStay
      BY <1>3, <2>1, <2>2, <2>3 DEF AccountsStay, Registered
    <2>4. ASSUME NEW m \in NodeId, NEW u \in TaskId, Takes(m, u)
          PROVE  IsLeased(t)'
      <3>1. u # t
        BY <2>1, <2>4 DEF Takes, Leased, IsLeased, LeasedStates
      <3> QED
        BY <2>1, <2>4, <3>1 DEF Takes, SameLeases
    <2>5. ASSUME NEW m \in NodeId, NEW u \in TaskId, GivesBack(m, u)
          PROVE  FALSE
      <3>1. /\ Registered(m) /\ Registered(m)'
            /\ workers'[m].free = workers[m].free + 1
        BY <2>5 DEF GivesBack
      <3>2. workers'[m].free <= workers[m].free
        BY <3>1
      <3> QED
        BY <3>1, <3>2, FreeSlots
    <2> QED
      BY <1>2, <2>3, <2>4, <2>5 DEF AccountsMove
  <1> QED
    BY <1>3, StepMoves

LEMMA CalmStep ==
  ASSUME CoordInv, [Next]_vars, UNCHANGED sessions,
         \A n \in NodeId : Registered(n)' => StillServes(n)
  PROVE  CoordMoves({}, {})
  <1>1. WorkersMove
    BY DEF WorkersMove, SessionsGrow, StillServes
  <1> QED
    BY <1>1, QuietStep DEF StillServes

\* Most steps leave the workers alone.
LEMMA WorkersAlone ==
  ASSUME CoordInv, [Next]_vars, UNCHANGED <<workers, sessions>>
  PROVE  CoordMoves({}, {})
  <1>1. \A n \in NodeId : Registered(n)' => StillServes(n)
    <2> SUFFICES ASSUME NEW n \in NodeId, Registered(n)' PROVE StillServes(n)
      OBVIOUS
    <2>1. Registered(n)
      BY DEF Registered
    <2> QED
      BY <2>1, FreeSlots DEF StillServes, WorkerStays
  <1> QED
    BY <1>1, CalmStep

\* Some change the lease or the state of one worker.
LEMMA OneServes ==
  ASSUME CoordInv, NEW n \in NodeId, Registered(n), NEW w,
         workers' = [workers EXCEPT ![n] = w],
         w.session = workers[n].session, w.workerEpoch = workers[n].workerEpoch,
         w.offer = workers[n].offer, w.free <= workers[n].free
  PROVE  \A m \in NodeId : Registered(m)' => StillServes(m)
  <1>1. workers'[n] = w /\ \A m \in NodeId \ {n} : workers'[m] = workers[m]
    BY DEF CoordInv, CoreInv, TypeOK
  <1>2. StillServes(n)
    BY <1>1 DEF StillServes, WorkerStays
  <1>3. ASSUME NEW m \in NodeId \ {n}, Registered(m)'
        PROVE  StillServes(m)
    <2>1. Registered(m)
      BY <1>1, <1>3 DEF Registered
    <2> QED
      BY <1>1, <2>1, FreeSlots DEF StillServes, WorkerStays
  <1> QED
    BY <1>2, <1>3

LEMMA RenewMoves ==
  ASSUME CoordInv, NEW n \in NodeId, Registered(n),
         \/ workers' = [workers EXCEPT ![n].lease = LeaseMs]
         \/ workers' = [workers EXCEPT ![n].state = "Draining"],
         [Next]_vars, UNCHANGED sessions
  PROVE  CoordMoves({}, {})
  <1>1. workers[n] \in Worker /\ workers[n].free \in Nat
    BY FreeSlots
  <1>2. PICK w : /\ workers' = [workers EXCEPT ![n] = w]
                 /\ \/ w = [workers[n] EXCEPT !.lease = LeaseMs]
                    \/ w = [workers[n] EXCEPT !.state = "Draining"]
    OBVIOUS
  <1>3. /\ w.session = workers[n].session
        /\ w.workerEpoch = workers[n].workerEpoch
        /\ w.offer = workers[n].offer /\ w.free <= workers[n].free
    BY <1>1, <1>2 DEF Worker
  <1>4. \A m \in NodeId : Registered(m)' => StillServes(m)
    BY <1>2, <1>3, OneServes
  <1> QED
    BY <1>4, CalmStep

LEMMA HeartbeatMoves ==
  ASSUME CoordInv, NEW s \in DOMAIN sessions, Heartbeat(s) \/ Drain(s)
  PROVE  CoordMoves({}, {})
  <1> DEFINE n == sessions[s]
  <1>1. n \in NodeId /\ Registered(n) /\ UNCHANGED sessions
    BY DEF Heartbeat, Drain, CheckIdentity, CoordInv, CoreInv, TypeOK
  <1>2. \/ workers' = [workers EXCEPT ![n].lease = LeaseMs]
        \/ workers' = [workers EXCEPT ![n].state = "Draining"]
    BY DEF Heartbeat, Drain
  <1>3. [Next]_vars
    BY DEF Next, WorkerRequest
  <1> HIDE DEF n
  <1> QED
    BY <1>1, <1>2, <1>3, RenewMoves

LEMMA PollMoves ==
  ASSUME CoordInv, NEW s \in DOMAIN sessions,
         \/ PollAssign(s) \/ PollEmpty(s) \/ PollDelete(sessions[s])
         \/ UNCHANGED vars
  PROVE  CoordMoves({}, {})
  <1> DEFINE n == sessions[s]
  <1>1. n \in NodeId
    BY DEF CoordInv, CoreInv, TypeOK
  <1>2. [Next]_vars
    BY <1>1 DEF Next, WorkerRequest
  <1>3. CASE PollEmpty(s) \/ PollDelete(n) \/ UNCHANGED vars
    <2>1. UNCHANGED <<workers, sessions>>
      BY <1>3 DEF PollEmpty, PollDelete, vars
    <2> QED
      BY <1>2, <2>1, WorkersAlone
  <1>4. CASE PollAssign(s)
    <2>1. PICK i \in DOMAIN runnable : Assign(n, runnable[i])
      BY <1>4 DEF PollAssign
    <2>2. Registered(n) /\ UNCHANGED sessions
      BY <1>4 DEF PollAssign, CanTake, CheckIdentity
    <2>3. workers[n] \in Worker /\ workers[n].free \in Nat
      BY <1>1, <2>2, FreeSlots
    <2> DEFINE w == [workers[n] EXCEPT !.free = @ - 1,
                       !.available = Subtract(@, tasks[runnable[i]].resources)]
    <2>4. workers' = [workers EXCEPT ![n] = w]
      BY <2>1 DEF Assign
    <2>5. /\ w.session = workers[n].session
          /\ w.workerEpoch = workers[n].workerEpoch
          /\ w.offer = workers[n].offer /\ w.free <= workers[n].free
      BY <2>3 DEF Worker
    <2> HIDE DEF w, n
    <2>6. \A m \in NodeId : Registered(m)' => StillServes(m)
      BY <1>1, <2>2, <2>4, <2>5, OneServes
    <2> QED
      BY <1>2, <2>2, <2>6, CalmStep
  <1> QED
    BY <1>3, <1>4

LEMMA RegistersMoves ==
  ASSUME CoordInv, NEW n \in NodeId, NEW epoch \in WorkerEpoch,
         epoch <= proc[n].epoch, Registers(n, epoch)
  PROVE  /\ CoordMoves({}, {})
         /\ Registered(n)' /\ workers'[n].session \in DOMAIN sessions'
         /\ sessions'[workers'[n].session] = n
  <1>1. WorkerOffer[n] \in Offer
    BY WorkerBounds
  <1>2. [Next]_vars
    BY <1>1 DEF Registers, Next, WorkerRequest
  <1> DEFINE offer == WorkerOffer[n]
  <1>3. CASE RegisterAgain(n, epoch, offer)
    <2>1. /\ Registered(n) /\ UNCHANGED sessions
          /\ workers' = [workers EXCEPT ![n].lease = LeaseMs]
      BY <1>3 DEF RegisterAgain
    <2>2. workers[n] \in Worker
      BY <2>1, FreeSlots
    <2>3. /\ workers'[n].state = workers[n].state
          /\ workers'[n].session = workers[n].session
      BY <2>1, <2>2 DEF CoordInv, CoreInv, TypeOK, Worker
    <2> QED
      BY <1>2, <2>1, <2>3, RenewMoves DEF CoordInv, WorkersSound, Registered
  <1>4. CASE RegisterWorker(n, epoch, offer)
    <2> DEFINE w == [state |-> "Alive", session |-> Len(sessions) + 1,
                     workerEpoch |-> epoch, offer |-> offer,
                     available |-> offer.total, free |-> offer.slots,
                     lease |-> LeaseMs]
    <2>1. /\ workers'[n] = w /\ ~Registered(n)
          /\ \A m \in NodeId \ {n} : workers'[m] = workers[m]
          /\ sessions' = Append(sessions, n) /\ sessions \in Seq(NodeId)
      BY <1>4 DEF RegisterWorker, MayRegister, CoordInv, CoreInv, TypeOK
    <2>2. /\ w.state = "Alive" /\ w.session = Len(sessions) + 1
          /\ w.workerEpoch = epoch /\ w.offer = offer
      OBVIOUS
    <2> HIDE DEF w
    <2>3. /\ SessionsGrow
          /\ Len(sessions) + 1 \in DOMAIN sessions' \ DOMAIN sessions
          /\ sessions'[Len(sessions) + 1] = n
      BY <2>1 DEF SessionsGrow
    <2>4. WorkerComes(n)
      BY <2>1, <2>2, <2>3 DEF WorkerComes
    <2>5. \A m \in NodeId \ {n} : Registered(m)' => StillServes(m)
      <3> SUFFICES ASSUME NEW m \in NodeId \ {n}, Registered(m)'
                   PROVE  StillServes(m)
        OBVIOUS
      <3>1. Registered(m)
        BY <2>1 DEF Registered
      <3> QED
        BY <2>1, <3>1, FreeSlots DEF StillServes, WorkerStays
    <2>6. WorkersMove
      BY <2>3, <2>4, <2>5 DEF WorkersMove, StillServes
    <2>7. CoordMoves({}, {})
      BY <1>2, <2>1, <2>5, <2>6, QuietStep DEF StillServes
    <2> QED
      BY <2>1, <2>2, <2>3, <2>7 DEF Registered
  <1> QED
    BY <1>3, <1>4 DEF Registers

\* The steps that are not a worker's.
LEMMA ClientMoves ==
  ASSUME CoordInv, ClientRequest \/ ReapTerminalTasks
  PROVE  CoordMoves({}, {})
  <1>1. [Next]_vars
    BY DEF Next, Reaper
  <1>2. UNCHANGED <<workers, sessions>>
    BY DEF ClientRequest, Put, Submit, CancelLeased, CancelUnleased,
       ReleaseObject, ReapTerminalTasks
  <1> QED
    BY <1>1, <1>2, WorkersAlone

LEMMA TimeMoves ==
  ASSUME CoordInv, Tick \/ ExpireWorkers
  PROVE  CoordMoves({}, {})
  <1>1. [Next]_vars /\ UNCHANGED sessions
    BY DEF Next, Reaper, Tick, ExpireWorkers
  <1>2. \A n \in NodeId : Registered(n)' => StillServes(n)
    <2> SUFFICES ASSUME NEW n \in NodeId, Registered(n)' PROVE StillServes(n)
      OBVIOUS
    <2>1. CASE Tick
      <3>1. workers'[n] = IF Registered(n)
                          THEN [workers[n] EXCEPT !.lease = Down(@)]
                          ELSE workers[n]
        BY <2>1 DEF Tick
      <3>2. Registered(n)
        BY <3>1 DEF Registered
      <3> QED
        BY <3>1, <3>2, FreeSlots DEF StillServes, WorkerStays, Worker
    <2>2. CASE ExpireWorkers
      <3>1. workers'[n] = workers[n] \/ workers'[n] = NoWorker
        BY <2>2 DEF ExpireWorkers
      <3>2. workers'[n] = workers[n] /\ Registered(n)
        BY <3>1 DEF Registered, NoWorker
      <3> QED
        BY <3>2, FreeSlots DEF StillServes, WorkerStays
    <2> QED
      BY <2>1, <2>2
  <1> QED
    BY <1>1, <1>2, CalmStep

LEMMA MovesMore ==
  ASSUME CoordMoves({}, {}), NEW F, NEW C
  PROVE  CoordMoves(F, C)
  BY DEF CoordMoves, LeasesLast, BytesStay

LEMMA ReleaseMoves ==
  ASSUME CoordInv, NEW g \in grants, CheckFence(g),
         workers' = Release(g.node, g.task), UNCHANGED sessions
  PROVE  WorkersMove
  <1> DEFINE n == g.node
             w == [workers[n] EXCEPT !.free = @ + 1,
                     !.available = Add(@, tasks[g.task].resources)]
  <1>1. n \in NodeId /\ Registered(n)
    BY DEF CheckFence, CheckIdentity, CoordInv, CoreInv, TypeOK, Grant
  <1>2. workers[n] \in Worker
    BY <1>1, FreeSlots
  <1>3. workers'[n] = w /\ \A m \in NodeId \ {n} : workers'[m] = workers[m]
    BY <1>1 DEF Release, CoordInv, CoreInv, TypeOK
  <1>4. /\ w.session = workers[n].session
        /\ w.workerEpoch = workers[n].workerEpoch /\ w.offer = workers[n].offer
    BY <1>2 DEF Worker
  <1> HIDE DEF w, n
  <1> QED
    BY <1>1, <1>3, <1>4 DEF WorkersMove, SessionsGrow, WorkerStays, Registered

\* A report that ends the lease of g, and completes it if g is in C.
LEMMA FinalMoves ==
  ASSUME CoordInv, NEW g \in grants, NEW C, C \subseteq {g}, TaskReport,
         CheckFence(g), workers' = Release(g.node, g.task), UNCHANGED sessions,
         GivesBack(g.node, g.task),
         tasks'[g.task].state = "Succeeded" => g \in C
  PROVE  CoordMoves({g}, C)
  <1>1. CoreInv /\ AttemptsBounded /\ [Next]_vars
    BY DEF CoordInv, LifeInv, Next
  <1>2. WorkersMove
    BY ReleaseMoves
  <1>3. ASSUME NEW h \in grants \ {g}, Held(h) PROVE IsLeased(h.task)'
    <2>1. h.task # g.task
      BY <1>1, <1>3, FenceMeans DEF Held, AtFence, AttemptsBounded
    <2> QED
      BY <1>1, <1>3, <2>1, FenceMeans DEF GivesBack, SameLeases, Held,
         AtFence, IsLeased
  <1> QED
    BY <1>1, <1>2, <1>3, StepMoves

----------------------------------------------------------------------------
(* Requests, answered or late.                                             *)

\* The lease a request may end, and the one it may complete.
Reported(r) == IF r.kind \in Final THEN {r.grant} ELSE {}
Done(r) == IF r.kind = "completing" THEN {r.grant} ELSE {}

LEMMA OutCodec ==
  ASSUME CoordInv, NEW t \in TaskId, Live(t)
  PROVE  operations[tasks[t].op].out \in Codec
  <1>1. operations[tasks[t].op] # NoCodec
    BY DEF CoordInv, LifeInv, CodecsFixed
  <1>2. tasks[t].op \in Operation
    BY KnownTask DEF CoordInv, Live, LiveStates
  <1>3. operations[tasks[t].op] \in Descriptor
    BY <1>1, <1>2 DEF CoordInv, CoreInv, TypeOK, OpTable
  <1> QED
    BY <1>3 DEF Descriptor

LEMMA ApplyMoves ==
  ASSUME CoordInv, NEW r, r.kind \in Reporting, r.grant \in grants,
         r.kind \in Final => r.flag \in BOOLEAN, Apply(r)
  PROVE  CoordMoves(Reported(r), Done(r))
  <1> DEFINE g == r.grant
  <1>1. CASE r.kind = "starting"
    <2>1. Started(g)
      BY <1>1 DEF Apply
    <2>2. [Next]_vars /\ UNCHANGED <<workers, sessions>>
      BY <2>1 DEF Next, TaskReport, Started
    <2> QED
      BY <2>2, WorkersAlone, MovesMore
  <1>2. CASE r.kind = "completing"
    <2> DEFINE out == operations[tasks[g.task].op].out
    <2>1. Complete(g, out, r.flag) /\ r.flag \in BOOLEAN
      BY <1>2 DEF Apply, Final
    <2>2. Live(g.task) /\ g.task \in TaskId
      BY <2>1 DEF Complete, Accepts, Live, LiveStates, CoordInv, CoreInv,
         TypeOK, Grant
    <2>3. out \in Codec
      BY <2>2, OutCodec
    <2>4. TaskReport
      BY <2>1, <2>3 DEF TaskReport
    <2>5. /\ CheckFence(g) /\ workers' = Release(g.node, g.task)
          /\ UNCHANGED sessions
      BY <2>1 DEF Complete, Accepts
    <2>6. GivesBack(g.node, g.task)
      BY <2>1, CompleteBooks DEF CoordInv
    <2>7. Done(r) = {g} /\ Reported(r) = {g}
      BY <1>2 DEF Done, Reported, Final
    <2> HIDE DEF g
    <2> QED
      BY <2>4, <2>5, <2>6, <2>7, FinalMoves DEF g
  <1>3. CASE r.kind \notin {"starting", "completing"}
    <2>1. r.flag \in BOOLEAN /\ Done(r) = {} /\ Reported(r) = {g}
      BY <1>3 DEF Reporting, Final, Done, Reported
    <2>2. FailRetry(g) \/ FailFinally(g, r.flag) \/ AcknowledgeCancel(g)
      BY <1>3 DEF Apply
    <2>3. TaskReport
      BY <2>1, <2>2 DEF TaskReport
    <2>4. /\ CheckFence(g) /\ workers' = Release(g.node, g.task)
          /\ UNCHANGED sessions
      BY <2>2 DEF FailRetry, FailFinally, AcknowledgeCancel, Accepts
    <2>5. GivesBack(g.node, g.task) /\ tasks'[g.task].state # "Succeeded"
      BY <2>2, FailRetryBooks, FailFinallyBooks, AcknowledgeCancelBooks
         DEF CoordInv
    <2> HIDE DEF g
    <2> QED
      BY <2>1, <2>3, <2>4, <2>5, FinalMoves DEF g
  <1> QED
    BY <1>1, <1>2, <1>3

LEMMA EffectMoves ==
  ASSUME CoordInv, NEW r, GhostOK(r, proc, store), Effect(r)
  PROVE  CoordMoves(Reported(r), Done(r))
  <1>1. CASE UNCHANGED vars
    <2>1. UNCHANGED <<workers, sessions>>
      BY <1>1 DEF vars
    <2> QED
      BY <1>1, <2>1, WorkersAlone, MovesMore
  <1>2. CASE r.kind = "register"
    <2>1. /\ r.node \in NodeId /\ r.epoch \in WorkerEpoch
          /\ r.epoch <= proc[r.node].epoch
      BY <1>2 DEF GhostOK, Final
    <2>2. UNCHANGED vars \/ Registers(r.node, r.epoch)
      BY <1>2 DEF Effect
    <2> QED
      BY <1>1, <2>1, <2>2, RegistersMoves, MovesMore
  <1>3. CASE r.kind \in {"poll", "drain"}
    <2>1. r.session \in DOMAIN sessions
      BY <1>3 DEF GhostOK, Final
    <2>2. \/ UNCHANGED vars \/ PollDelete(sessions[r.session])
          \/ PollAssign(r.session) \/ PollEmpty(r.session) \/ Drain(r.session)
      BY <1>3 DEF Effect, PollIdle, PollStale, PollCancels, PollRepeats
    <2> QED
      BY <2>1, <2>2, PollMoves, HeartbeatMoves, MovesMore
  <1>4. CASE r.kind \in Reporting
    <2>1. r.grant \in grants /\ (r.kind \in Final => r.flag \in BOOLEAN)
      BY <1>4 DEF GhostOK, FinalOK, Reporting, Final
    <2>2. UNCHANGED vars \/ Apply(r)
      BY <1>4 DEF Effect, Reporting
    <2> QED
      BY <1>1, <1>4, <2>1, <2>2, ApplyMoves
  <1> QED
    BY <1>2, <1>3, <1>4 DEF GhostOK, Reporting, Final

----------------------------------------------------------------------------
(* What a step of the coordinator leaves of a process and a late request.  *)

\* The reports behind F and C are ones that process p of node n could make.
SafeFor(n, p, st, F, C) ==
  /\ \A g \in F : p.grant = g => p.pc \notin Working
  /\ \A g \in C : g.node = n /\ Open(g) /\ Answers(n, p) =>
                    st[Output(g.task)] = g.attempt

\* The assignment of a process is a grant of its node and session.
LEMMA AssignmentGranted ==
  ASSUME NEW n, NEW p, NEW st, LocalsOK(n, p, st), p.pc \in InSession \ {"idle"}
  PROVE  p.grant \in grants /\ p.grant.node = n /\ p.grant.session = p.session
  BY DEF LocalsOK, Process

LEMMA HomeStays ==
  ASSUME CoordInv, CoordInv', WorkersMove, NEW n \in NodeId, Registered(n),
         NEW o \in ObjectId, objects'[o].state = "Available",
         objects'[o].location = n
  PROVE  WorkerStays(n)
  <1>1. Registered(n)'
    BY DEF CoordInv, LifeInv, AvailableHasHome, Registered
  <1> QED
    BY <1>1 DEF WorkersMove, WorkerComes

LEMMA NodeKept ==
  ASSUME CoordInv, NEW F, NEW C, C \subseteq grants, CoordMoves(F, C),
         NEW n \in NodeId, NEW p, NEW st, p.epoch = proc[n].epoch,
         NodeOK(n, p, st), SafeFor(n, p, st, F, C)
  PROVE  NodeOK(n, p, st)'
  <1>1. /\ LocalsOK(n, p, st) /\ SessionOK(n, p) /\ AssignmentOK(n, p)
        /\ StoreOK(n, p, st) /\ CoordInv' /\ WorkersMove
    BY DEF NodeOK, CoordMoves
  <1>2. LocalsOK(n, p, st)'
    <2>1. p \in Process'
      BY <1>1 DEF LocalsOK, Process, CoordMoves
    <2> QED
      BY <1>1, <2>1 DEF LocalsOK
  <1>3. SessionOK(n, p)'
    <2>1. \/ ~Registered(n)' \/ WorkerComes(n) \/ WorkerStays(n)
      BY <1>1 DEF WorkersMove
    <2>2. Registered(n)' => workers'[n].workerEpoch <= p.epoch
      BY <1>1, <2>1 DEF WorkerComes, WorkerStays, SessionOK
    <2> QED
      BY <1>1, <2>2 DEF SessionOK, WorkersMove, SessionsGrow
  <1>4. AssignmentOK(n, p)'
    <2>1. ASSUME p.pc \in Working, CheckIdentity(n, p.session)'
          PROVE  Held(p.grant)'
      <3>1. p.pc \in InSession \ {"idle"} /\ p.session \in DOMAIN sessions
        BY <1>1, <2>1 DEF Working, InSession, Reporting, SessionOK
      <3>2. WorkerStays(n)
        BY <1>1, <2>1, <3>1 DEF WorkersMove, WorkerComes, CheckIdentity
      <3>3. CheckIdentity(n, p.session)
        BY <2>1, <3>2 DEF WorkerStays, CheckIdentity
      <3>4. Held(p.grant)
        BY <1>1, <2>1, <3>3 DEF AssignmentOK
      <3>5. p.grant \in grants \ F
        BY <1>1, <2>1, <3>1, AssignmentGranted DEF SafeFor
      <3> QED
        BY <1>1, <2>1, <3>1, <3>4, <3>5, AssignmentGranted DEF CoordMoves,
           LeasesLast
    <2>2. ASSUME p.pc \in InSession \ {"idle", "starting"}
          PROVE  ~Unbegun(p.grant)'
      <3>1. p.grant \in grants /\ ~Unbegun(p.grant)
        BY <1>1, <2>2, AssignmentGranted DEF AssignmentOK
      <3> QED
        BY <3>1 DEF CoordMoves, FencesFall
    <2> QED
      BY <2>1, <2>2 DEF AssignmentOK
  <1>5. StoreOK(n, p, st)'
    <2> SUFFICES ASSUME NEW o \in ObjectId, objects'[o].state = "Available",
                        objects'[o].location = n, Answers(n, p)'
                 PROVE  st[o] = objects'[o].version
      BY <1>1 DEF StoreOK
    <2>1. ASSUME Registered(n) PROVE Answers(n, p)
      BY <1>1, <2>1, HomeStays DEF WorkerStays, Answers
    <2>2. CASE /\ objects[o].state = "Available" /\ objects[o].location = n
               /\ objects'[o].version = objects[o].version
      <3>1. Registered(n)
        BY <2>2 DEF CoordInv, LifeInv, AvailableHasHome, Registered
      <3> QED
        BY <1>1, <2>1, <2>2, <3>1 DEF StoreOK
    <2>3. ASSUME NEW g \in C, o = Output(g.task), g.node = n, Open(g),
                 objects'[o].version = g.attempt
          PROVE  st[o] = objects'[o].version
      <3>1. Held(g) /\ g \in grants
        BY <2>3 DEF Open, Held, AtFence, LeasedStates
      <3>2. Registered(n)
        BY <2>3, <3>1, FenceMeans DEF CheckFence, CheckIdentity, CoordInv,
           LifeInv
      <3> QED
        BY <2>1, <2>3, <3>2 DEF SafeFor
    <2> QED
      BY <2>2, <2>3 DEF CoordMoves, BytesStay
  <1> QED
    BY <1>2, <1>3, <1>4, <1>5 DEF NodeOK

LEMMA GhostKept ==
  ASSUME CoordInv, NEW F, NEW C, CoordMoves(F, C), NEW r, NEW P, NEW S,
         GhostOK(r, P, S)
  PROVE  GhostOK(r, P, S)'
  <1>1. CASE r.kind \notin Final
    BY <1>1 DEF GhostOK, CoordMoves, WorkersMove, SessionsGrow
  <1>2. CASE r.kind \in Final
    <2> DEFINE g == r.grant
               n == g.node
               p == P[n]
               st == S[n]
    <2>1. g \in grants /\ FinalOK(r, p, st)
      BY <1>2 DEF GhostOK, Final
    <2>2. g \in grants' /\ ~Unbegun(g)'
      BY <2>1 DEF FinalOK, CoordMoves, FencesFall
    <2>3. ASSUME r.kind = "completing", Open(g)', Answers(n, p)'
          PROVE  st[Output(g.task)] = g.attempt
      <3>1. Open(g) /\ Held(g)' /\ Held(g)
        BY <2>1, <2>3 DEF CoordMoves, FencesFall, Open, Held, AtFence,
           LeasedStates
      <3>2. CheckIdentity(g.node, g.session)'
        BY <2>2, <3>1, FenceMeansNext DEF CoordMoves, CoordInv, LifeInv
      <3>3. g.session \in DOMAIN sessions /\ n \in NodeId
        BY <2>1, FenceMeans DEF CoordInv, LifeInv, GrantsSound
      <3>4. WorkerStays(n)
        BY <3>2, <3>3 DEF CoordMoves, WorkersMove, WorkerComes, CheckIdentity
      <3>5. Answers(n, p)
        BY <2>3, <3>4 DEF WorkerStays, Answers
      <3> QED
        BY <2>1, <2>3, <3>1, <3>5 DEF FinalOK
    <2>4. FinalOK(r, p, st)'
      BY <2>1, <2>2, <2>3 DEF FinalOK
    <2> QED
      BY <1>2, <2>2, <2>4 DEF GhostOK
  <1> QED
    BY <1>1, <1>2

\* A request that is well formed may have its effect.
LEMMA RequestSafe ==
  ASSUME ClusterInv, NEW r, GhostOK(r, proc, store), NEW n \in NodeId
  PROVE  /\ SafeFor(n, proc[n], store[n], Reported(r), Done(r))
         /\ Done(r) \subseteq grants
  <1>1. CASE r.kind \notin Final
    BY <1>1 DEF Reported, Done, SafeFor, Final
  <1>2. CASE r.kind \in Final
    <2> DEFINE g == r.grant
    <2>1. g \in grants /\ FinalOK(r, proc[g.node], store[g.node])
      BY <1>2 DEF GhostOK, Final
    <2>2. Reported(r) = {g} /\ Done(r) \subseteq {g}
          /\ (Done(r) # {} => r.kind = "completing")
      BY <1>2 DEF Reported, Done
    <2>3. proc[n].grant = g => proc[n].pc \notin Working
      <3> SUFFICES ASSUME proc[n].grant = g, proc[n].pc \in Working PROVE FALSE
        OBVIOUS
      <3>1. g.node = n
        BY AssignmentGranted DEF ClusterInv, NodeOK, Working, InSession,
           Reporting
      <3> QED
        BY <2>1, <3>1 DEF FinalOK
    <2>4. ASSUME r.kind = "completing", g.node = n, Open(g), Answers(n, proc[n])
          PROVE  store[n][Output(g.task)] = g.attempt
      BY <2>1, <2>4 DEF FinalOK
    <2> HIDE DEF g
    <2> QED
      BY <2>1, <2>2, <2>3, <2>4 DEF SafeFor
  <1> QED
    BY <1>1, <1>2

----------------------------------------------------------------------------
(* A step of one process beside a step of the coordinator.                 *)

\* What the change of a process from p to q, and of its store from st to s2,
\* may not do to the requests it left behind: a new assignment is not begun,
\* and no output is dropped that a late report may still publish.
Passes(n, p, q, st, s2) ==
  /\ p.epoch <= q.epoch
  /\ q.pc \in Working => \/ p.pc \in Working /\ q.grant = p.grant
                         \/ Unbegun(q.grant)'
  /\ q.pc # "exited" /\ q.first <= p.epoch =>
       /\ p.pc # "exited" /\ q.first = p.first
       /\ \A g \in grants' :
            g.node = n /\ Open(g)' /\ st[Output(g.task)] = g.attempt =>
              s2[Output(g.task)] = g.attempt

LEMMA EpochTypes ==
  ASSUME CoordInv', NEW n \in NodeId, Registered(n)'
  PROVE  workers'[n].workerEpoch \in Nat
  <1>1. workers'[n] \in Worker
    BY DEF CoordInv, CoreInv, TypeOK, Registered, NoWorker
  <1> QED
    BY <1>1, WorkerBounds DEF Worker

\* The requests that were left behind stay sound when the processes P change
\* to P2 and their stores S to S2.
LEMMA GhostPasses ==
  ASSUME CoordInv', NEW P, NEW S, NEW P2, NEW S2,
         \A n \in NodeId : /\ NodeOK(n, P[n], S[n])' /\ NodeOK(n, P2[n], S2[n])'
                          /\ Passes(n, P[n], P2[n], S[n], S2[n]),
         NEW r, GhostOK(r, P, S)'
  PROVE  GhostOK(r, P2, S2)'
  <1>1. \A n \in NodeId :
          /\ P[n].epoch \in Nat /\ P2[n].epoch \in Nat
          /\ P[n].first \in Nat /\ P2[n].first \in Nat
          /\ Registered(n)' => workers'[n].workerEpoch <= P[n].epoch
    BY DEF NodeOK, LocalsOK, SessionOK, Process
  <1>2. CASE r.kind = "register"
    <2>1. /\ r.node \in NodeId /\ r.epoch \in WorkerEpoch
          /\ r.epoch <= P[r.node].epoch
      BY <1>2 DEF GhostOK, Final
    <2>2. r.epoch \in Nat
      BY <2>1, WorkerBounds
    <2>3. r.epoch <= P2[r.node].epoch
      BY <1>1, <2>1, <2>2 DEF Passes
    <2> QED
      BY <1>2, <2>1, <2>3 DEF GhostOK
  <1>3. CASE r.kind \notin Final \cup {"register"}
    BY <1>3 DEF GhostOK
  <1>4. CASE r.kind \in Final
    <2> DEFINE g == r.grant
               n == g.node
               p == P[n]
               q == P2[n]
               st == S[n]
               s2 == S2[n]
    <2>1. g \in grants' /\ n \in NodeId /\ FinalOK(r, p, st)'
      BY <1>4 DEF GhostOK, Final, CoordInv, CoreInv, TypeOK, Grant
    <2>2. /\ Passes(n, p, q, st, s2)
          /\ p.epoch \in Nat /\ q.first \in Nat
          /\ Registered(n)' => workers'[n].workerEpoch <= p.epoch
      BY <1>1, <2>1
    <2> HIDE DEF p, q, st, s2
    <2>3. /\ r.flag \in BOOLEAN /\ ~Unbegun(g)'
          /\ p.grant = g => p.pc \notin Working
          /\ r.kind = "completing" /\ Open(g)' /\ Answers(n, p)' =>
               st[Output(g.task)] = g.attempt
      BY <2>1 DEF FinalOK
    <2>4. q.grant = g => q.pc \notin Working
      BY <2>2, <2>3 DEF Passes
    <2>5. ASSUME r.kind = "completing", Open(g)', Answers(n, q)'
          PROVE  s2[Output(g.task)] = g.attempt
      <3>1. Held(g)'
        BY <2>5 DEF Open, Held, AtFence, LeasedStates
      <3>2. Registered(n)'
        BY <2>1, <3>1, FenceMeansNext DEF CoordInv, LifeInv, CheckIdentity
      <3>3. /\ workers'[n].workerEpoch \in Nat /\ q.pc # "exited"
            /\ workers'[n].workerEpoch >= q.first
        BY <2>1, <2>5, <3>2, EpochTypes DEF Answers
      <3>4. q.first <= p.epoch
        BY <2>2, <3>2, <3>3
      <3>5. p.pc # "exited" /\ q.first = p.first
        BY <2>2, <3>3, <3>4 DEF Passes
      <3>6. Answers(n, p)'
        BY <3>3, <3>5 DEF Answers
      <3>7. st[Output(g.task)] = g.attempt
        BY <2>3, <2>5, <3>6
      <3> QED
        BY <2>1, <2>2, <2>5, <3>3, <3>4, <3>7 DEF Passes
    <2>6. FinalOK(r, q, s2)'
      BY <2>3, <2>4, <2>5 DEF FinalOK
    <2> QED
      BY <1>4, <2>1, <2>6 DEF GhostOK, q, s2
  <1> QED
    BY <1>2, <1>3, <1>4

\* The step of the coordinator leaves every process as it was,
LEMMA CoordStep ==
  ASSUME ClusterInv, NEW F, NEW C, CoordMoves(F, C), C \subseteq grants,
         \A m \in NodeId : SafeFor(m, proc[m], store[m], F, C),
         NEW P, P = proc, NEW S, S = store
  PROVE  /\ \A m \in NodeId : NodeOK(m, P[m], S[m])'
         /\ \A r : GhostOK(r, P, S) => GhostOK(r, P, S)'
  <1>1. ASSUME NEW m \in NodeId PROVE NodeOK(m, P[m], S[m])'
    <2>1. /\ CoordInv /\ NodeOK(m, P[m], S[m]) /\ P[m].epoch = proc[m].epoch
          /\ SafeFor(m, P[m], S[m], F, C)
      BY DEF ClusterInv
    <2> QED
      BY <2>1, NodeKept
  <1> QED
    BY <1>1, GhostKept DEF ClusterInv

\* and the processes that make a step bring themselves in order.
LEMMA ProcessesStep ==
  ASSUME ClusterInv, NEW F, NEW C, CoordMoves(F, C), C \subseteq grants,
         \A m \in NodeId : SafeFor(m, proc[m], store[m], F, C),
         NEW P, P = proc, NEW S, S = store, NEW P2, P2 = proc',
         NEW S2, S2 = store', IsRow(P2), IsRow(S2),
         \A m \in NodeId : /\ NodeOK(m, P2[m], S2[m])'
                          /\ Passes(m, P[m], P2[m], S[m], S2[m]),
         \A r \in ghosts' : GhostOK(r, proc, store)
  PROVE  ClusterInv'
  <1>1. /\ \A m \in NodeId : NodeOK(m, P[m], S[m])'
        /\ \A r : GhostOK(r, P, S) => GhostOK(r, P, S)'
    BY CoordStep
  <1>2. CoordInv'
    BY DEF CoordMoves
  <1>3. \A r \in ghosts' : GhostOK(r, P2, S2)'
    <2> SUFFICES ASSUME NEW r \in ghosts' PROVE GhostOK(r, P2, S2)'
      OBVIOUS
    <2>1. GhostOK(r, P, S)'
      BY <1>1
    <2> QED
      BY <1>1, <1>2, <2>1, GhostPasses
  <1> QED
    BY <1>2, <1>3 DEF ClusterInv, IsRow

LEMMA PassesOn ==
  ASSUME NEW n, NEW p, NEW st, p.epoch \in Nat
  PROVE  Passes(n, p, p, st, st)
  BY DEF Passes

LEMMA ProcessStep ==
  ASSUME ClusterInv, NEW F, NEW C, CoordMoves(F, C), C \subseteq grants,
         \A m \in NodeId : SafeFor(m, proc[m], store[m], F, C),
         NEW n \in NodeId, NEW q, NEW s2,
         proc' = [proc EXCEPT ![n] = q], store' = [store EXCEPT ![n] = s2],
         NodeOK(n, q, s2)', Passes(n, proc[n], q, store[n], s2),
         \A r \in ghosts' : GhostOK(r, proc, store)
  PROVE  ClusterInv'
  <1>1. PICK P : P = proc
    OBVIOUS
  <1>2. PICK S : S = store
    OBVIOUS
  <1>3. PICK P2 : P2 = proc'
    OBVIOUS
  <1>4. PICK S2 : S2 = store'
    OBVIOUS
  <1>5. /\ IsRow(P) /\ IsRow(S)
        /\ P2 = [P EXCEPT ![n] = q] /\ S2 = [S EXCEPT ![n] = s2]
        /\ Passes(n, P[n], q, S[n], s2)
    BY <1>1, <1>2, <1>3, <1>4 DEF ClusterInv
  <1>6. DOMAIN P = NodeId /\ DOMAIN S = NodeId
    BY <1>5 DEF IsRow
  <1>7. IsRow(P2) /\ IsRow(S2)
    BY <1>5, <1>6 DEF IsRow
  <1>8. \A m \in NodeId : NodeOK(m, P[m], S[m])'
    BY <1>1, <1>2, CoordStep
  <1>9. ASSUME NEW m \in NodeId
        PROVE  /\ NodeOK(m, P2[m], S2[m])'
               /\ Passes(m, P[m], P2[m], S[m], S2[m])
    <2>1. CASE m = n
      <3>1. P2[m] = q /\ S2[m] = s2
        BY <1>5, <1>6, <2>1
      <3> QED
        BY <1>5, <2>1, <3>1
    <2>2. CASE m # n
      <3>1. P2[m] = P[m] /\ S2[m] = S[m]
        BY <1>5, <1>6, <2>2
      <3>2. P[m].epoch \in Nat
        BY <1>8 DEF NodeOK, LocalsOK, Process
      <3> QED
        BY <1>8, <3>1, <3>2, PassesOn
    <2> QED
      BY <2>1, <2>2
  <1> QED
    BY <1>1, <1>2, <1>3, <1>4, <1>7, <1>9, ProcessesStep

\* A step that leaves the processes alone.
LEMMA ProcessesStay ==
  ASSUME ClusterInv, NEW F, NEW C, CoordMoves(F, C), C \subseteq grants,
         \A m \in NodeId : SafeFor(m, proc[m], store[m], F, C),
         UNCHANGED <<proc, store>>,
         \A r \in ghosts' : GhostOK(r, proc, store)
  PROVE  ClusterInv'
  <1>1. PICK P : P = proc
    OBVIOUS
  <1>2. PICK S : S = store
    OBVIOUS
  <1>3. P = proc' /\ S = store' /\ IsRow(P) /\ IsRow(S)
    BY <1>1, <1>2 DEF ClusterInv
  <1>4. \A m \in NodeId : NodeOK(m, P[m], S[m])'
    BY <1>1, <1>2, CoordStep
  <1>5. \A m \in NodeId : Passes(m, P[m], P[m], S[m], S[m])
    BY <1>4, PassesOn DEF NodeOK, LocalsOK, Process
  <1> QED
    BY <1>1, <1>2, <1>3, <1>4, <1>5, ProcessesStep

----------------------------------------------------------------------------
(* The ways a process goes on.                                             *)

\* The coordinator made a step that no process has to fear.
Tolerated ==
  \E F, C : /\ CoordMoves(F, C) /\ C \subseteq grants
            /\ \A m \in NodeId : SafeFor(m, proc[m], store[m], F, C)

LEMMA MovesTolerated ==
  ASSUME CoordMoves({}, {})
  PROVE  Tolerated
  BY DEF Tolerated, SafeFor

LEMMA IdleTolerated ==
  ASSUME CoordInv, UNCHANGED vars
  PROVE  Tolerated
  <1>1. UNCHANGED <<workers, sessions>>
    BY DEF vars
  <1> QED
    BY <1>1, WorkersAlone, MovesTolerated

LEMMA EffectTolerated ==
  ASSUME ClusterInv, NEW r, GhostOK(r, proc, store), Effect(r)
  PROVE  Tolerated
  <1>1. CoordMoves(Reported(r), Done(r))
    BY EffectMoves DEF ClusterInv
  <1>2. \A m \in NodeId :
          SafeFor(m, proc[m], store[m], Reported(r), Done(r))
    BY RequestSafe
  <1>3. Done(r) \subseteq grants
    BY DEF Done, GhostOK, Final
  <1> QED
    BY <1>1, <1>2, <1>3 DEF Tolerated

\* Process q does what p does with another program counter and assignment.
Like(p, q, pc, g) ==
  /\ q \in Process' /\ q.pc = pc /\ q.grant = g
  /\ q.epoch = p.epoch /\ q.first = p.first
  /\ q.session = p.session /\ q.exit = p.exit

\* Of what st holds, s2 holds what readers or late reports count on.
KeepsBytes(n, st, s2) ==
  /\ s2 \in [ObjectId -> Nat]
  /\ \A o \in ObjectId :
       (/\ objects'[o].state = "Available" /\ objects'[o].location = n
        /\ st[o] = objects'[o].version) => s2[o] = objects'[o].version
  /\ \A g \in grants' :
       g.node = n /\ Open(g)' /\ st[Output(g.task)] = g.attempt =>
         s2[Output(g.task)] = g.attempt

LEMMA Turn ==
  ASSUME NEW n, NEW p, NEW st, NodeOK(n, p, st)', p.pc # "exited",
         NEW q, NEW pc, NEW g, Like(p, q, pc, g), pc # "exited",
         NEW s2, KeepsBytes(n, st, s2),
         (g # NoGrant) <=> pc \in InSession \ {"idle"},
         g # NoGrant => g.node = n /\ g.session = p.session,
         pc \in InSession => p.session # 0,
         pc \in Working /\ CheckIdentity(n, p.session)' => Held(g)',
         pc \in InSession \ {"idle", "starting"} => ~Unbegun(g)',
         pc = "completing" => s2[Output(g.task)] = g.attempt,
         pc \in Working => \/ p.pc \in Working /\ g = p.grant
                           \/ Unbegun(g)'
  PROVE  NodeOK(n, q, s2)' /\ Passes(n, p, q, st, s2)
  <1>1. /\ q \in Process' /\ q.pc = pc /\ q.grant = g
        /\ q.epoch = p.epoch /\ q.first = p.first
        /\ q.session = p.session /\ q.exit = p.exit
    BY DEF Like
  <1>2. LocalsOK(n, p, st)' /\ SessionOK(n, p)' /\ StoreOK(n, p, st)'
    BY DEF NodeOK
  <1>3. LocalsOK(n, q, s2)'
    BY <1>1, <1>2 DEF LocalsOK, KeepsBytes
  <1>4. SessionOK(n, q)'
    BY <1>1, <1>2 DEF SessionOK
  <1>5. AssignmentOK(n, q)'
    BY <1>1 DEF AssignmentOK
  <1>6. StoreOK(n, q, s2)'
    <2>1. Answers(n, q)' => Answers(n, p)'
      BY <1>1 DEF Answers
    <2> QED
      BY <1>1, <1>2, <2>1 DEF StoreOK, KeepsBytes
  <1>7. Passes(n, p, q, st, s2)
    <2>1. p.epoch \in Nat
      BY <1>2 DEF LocalsOK, Process
    <2> QED
      BY <1>1, <2>1 DEF Passes, KeepsBytes
  <1> QED
    BY <1>3, <1>4, <1>5, <1>6, <1>7 DEF NodeOK

LEMMA BytesKept ==
  ASSUME NEW n, NEW st \in [ObjectId -> Nat]
  PROVE  KeepsBytes(n, st, st)
  BY DEF KeepsBytes

\* It goes on with what it does,
LEMMA GoesOn ==
  ASSUME NEW n, NEW p, NEW st, NodeOK(n, p, st)', NEW q,
         Like(p, q, p.pc, p.grant)
  PROVE  NodeOK(n, q, st)' /\ Passes(n, p, q, st, st)
  <1>1. /\ q \in Process' /\ q.pc = p.pc /\ q.grant = p.grant
        /\ q.epoch = p.epoch /\ q.first = p.first
        /\ q.session = p.session /\ q.exit = p.exit
    BY DEF Like
  <1>2. LocalsOK(n, p, st)' /\ SessionOK(n, p)' /\ AssignmentOK(n, p)'
        /\ StoreOK(n, p, st)'
    BY DEF NodeOK
  <1>3. LocalsOK(n, q, st)'
    BY <1>1, <1>2 DEF LocalsOK
  <1>4. SessionOK(n, q)'
    BY <1>1, <1>2 DEF SessionOK
  <1>5. AssignmentOK(n, q)'
    BY <1>1, <1>2 DEF AssignmentOK
  <1>6. StoreOK(n, q, st)'
    BY <1>1, <1>2 DEF StoreOK, Answers
  <1>7. Passes(n, p, q, st, st)
    <2>1. p.epoch \in Nat
      BY <1>2 DEF LocalsOK, Process
    <2> QED
      BY <1>1, <2>1 DEF Passes
  <1> QED
    BY <1>3, <1>4, <1>5, <1>6, <1>7 DEF NodeOK

\* puts its assignment down,
LEMMA PutsDown ==
  ASSUME NEW n, NEW p, NEW st, NodeOK(n, p, st)', p.pc # "exited",
         NEW q, NEW pc \in {"idle", "backoff"}, Like(p, q, pc, NoGrant),
         pc = "idle" => p.pc \in InSession,
         NEW s2, KeepsBytes(n, st, s2)
  PROVE  NodeOK(n, q, s2)' /\ Passes(n, p, q, st, s2)
  <1>1. pc = "idle" => p.session # 0
    BY DEF NodeOK, SessionOK
  <1> QED
    BY <1>1, Turn DEF InSession, Reporting, Working

\* or is gone.
LEMMA IsGone ==
  ASSUME NEW n, NEW p, NEW st, NodeOK(n, p, st)', NEW q \in Process',
         q.pc = "exited", q.grant = NoGrant, q.epoch = p.epoch,
         q.first = p.first, q.session = 0, q.exit # "stray"
  PROVE  NodeOK(n, q, Empty)' /\ Passes(n, p, q, st, Empty)
  <1>1. LocalsOK(n, p, st)' /\ SessionOK(n, p)'
    BY DEF NodeOK
  <1>2. LocalsOK(n, q, Empty)'
    BY <1>1 DEF LocalsOK, Empty, InSession, Reporting
  <1>3. SessionOK(n, q)'
    BY <1>1 DEF SessionOK, InSession, Reporting
  <1>4. AssignmentOK(n, q)' /\ StoreOK(n, q, Empty)'
    BY DEF AssignmentOK, StoreOK, Answers, Working, InSession, Reporting
  <1>5. Passes(n, p, q, st, Empty)
    <2>1. p.epoch \in Nat
      BY <1>1 DEF LocalsOK, Process
    <2> QED
      BY <2>1 DEF Passes, Working
  <1> QED
    BY <1>2, <1>3, <1>4, <1>5 DEF NodeOK

\* How the record of a process changes.
LEMMA Records ==
  ASSUME NEW p \in Process'
  PROVE  /\ \A b \in BOOLEAN : Like(p, [p EXCEPT !.again = b], p.pc, p.grant)
         /\ \A h \in {"due", "sent", "stopped"} :
              Like(p, [p EXCEPT !.heart = h], p.pc, p.grant)
         /\ Like(p, [p EXCEPT !.drain = TRUE], p.pc, p.grant)
         /\ Like(p, Reconnect(p), "backoff", NoGrant)
         /\ Like(p, Idle(p), "idle", NoGrant)
         /\ \A pc \in InSession, g \in grants' : Like(p, Busy(p, pc, g), pc, g)
         /\ \A pc \in InSession :
              /\ Like(p, [p EXCEPT !.pc = pc], pc, p.grant)
              /\ \A b \in BOOLEAN :
                   Like(p, [p EXCEPT !.pc = pc, !.flag = b], pc, p.grant)
  <1> USE DEF Like, Process
  <1>1. \A b \in BOOLEAN : Like(p, [p EXCEPT !.again = b], p.pc, p.grant)
    OBVIOUS
  <1>2. \A h \in {"due", "sent", "stopped"} :
          Like(p, [p EXCEPT !.heart = h], p.pc, p.grant)
    OBVIOUS
  <1>3. Like(p, [p EXCEPT !.drain = TRUE], p.pc, p.grant)
    OBVIOUS
  <1>4. Like(p, Reconnect(p), "backoff", NoGrant)
    BY DEF Reconnect
  <1>5. Like(p, Idle(p), "idle", NoGrant)
    BY DEF Idle, InSession
  <1>6. \A pc \in InSession, g \in grants' : Like(p, Busy(p, pc, g), pc, g)
    BY DEF Busy
  <1>7. \A pc \in InSession : Like(p, [p EXCEPT !.pc = pc], pc, p.grant)
    OBVIOUS
  <1>8. \A pc \in InSession, b \in BOOLEAN :
          Like(p, [p EXCEPT !.pc = pc, !.flag = b], pc, p.grant)
    OBVIOUS
  <1> HIDE DEF Like, Process
  <1> QED
    BY <1>1, <1>2, <1>3, <1>4, <1>5, <1>6, <1>7, <1>8

----------------------------------------------------------------------------
(* The node that makes the step.                                           *)

LEMMA NodeNext ==
  ASSUME ClusterInv, Tolerated, NEW n \in NodeId,
         NEW p, p = proc[n], NEW st, st = store[n]
  PROVE  /\ CoordInv' /\ NodeOK(n, p, st)' /\ NodeOK(n, p, st)
         /\ p \in Process' /\ st \in [ObjectId -> Nat]
  <1>1. PICK F, C : /\ CoordMoves(F, C) /\ C \subseteq grants
                    /\ \A m \in NodeId : SafeFor(m, proc[m], store[m], F, C)
    BY DEF Tolerated
  <1>2. PICK P : P = proc
    OBVIOUS
  <1>3. PICK S : S = store
    OBVIOUS
  <1>4. \A m \in NodeId : NodeOK(m, P[m], S[m])'
    BY <1>1, <1>2, <1>3, CoordStep
  <1>5. p = P[n] /\ st = S[n] /\ CoordInv'
    BY <1>1, <1>2, <1>3 DEF CoordMoves
  <1>6. NodeOK(n, p, st)'
    BY <1>4, <1>5
  <1> QED
    BY <1>5, <1>6 DEF ClusterInv, NodeOK, LocalsOK

LEMMA NodeTurns ==
  ASSUME ClusterInv, Tolerated, NEW n \in NodeId,
         NEW p, p = proc[n], NEW st, st = store[n],
         NEW q, proc' = [proc EXCEPT ![n] = q],
         NEW s2, store' = [store EXCEPT ![n] = s2],
         NodeOK(n, q, s2)', Passes(n, p, q, st, s2),
         \A r \in ghosts' : GhostOK(r, proc, store)
  PROVE  ClusterInv'
  <1>1. PICK F, C : /\ CoordMoves(F, C) /\ C \subseteq grants
                    /\ \A m \in NodeId : SafeFor(m, proc[m], store[m], F, C)
    BY DEF Tolerated
  <1>2. Passes(n, proc[n], q, store[n], s2)
    OBVIOUS
  <1> QED
    BY <1>1, <1>2, ProcessStep

LEMMA SameStore ==
  ASSUME ClusterInv, NEW n \in NodeId, NEW st, st = store[n], UNCHANGED store
  PROVE  store' = [store EXCEPT ![n] = st]
  BY DEF ClusterInv, IsRow

\* A node that goes on as before beside a step of the coordinator.
LEMMA NodeGoesOn ==
  ASSUME ClusterInv, Tolerated, NEW n \in NodeId, NEW p, p = proc[n],
         NEW q, proc' = [proc EXCEPT ![n] = q], UNCHANGED store,
         p \in Process' => Like(p, q, p.pc, p.grant),
         \A r \in ghosts' : GhostOK(r, proc, store)
  PROVE  ClusterInv'
  <1>1. PICK st : st = store[n]
    OBVIOUS
  <1>2. NodeOK(n, p, st)' /\ p \in Process'
    BY <1>1, NodeNext
  <1>3. NodeOK(n, q, st)' /\ Passes(n, p, q, st, st)
    BY <1>2, GoesOn
  <1> QED
    BY <1>1, <1>3, SameStore, NodeTurns

LEMMA NodePutsDown ==
  ASSUME ClusterInv, Tolerated, NEW n \in NodeId, NEW p, p = proc[n],
         NEW q, proc' = [proc EXCEPT ![n] = q], UNCHANGED store,
         NEW pc \in {"idle", "backoff"},
         p \in Process' => Like(p, q, pc, NoGrant),
         p.pc # "exited", pc = "idle" => p.pc \in InSession,
         \A r \in ghosts' : GhostOK(r, proc, store)
  PROVE  ClusterInv'
  <1>1. PICK st : st = store[n]
    OBVIOUS
  <1>2. NodeOK(n, p, st)' /\ p \in Process' /\ st \in [ObjectId -> Nat]
    BY <1>1, NodeNext
  <1>3. KeepsBytes(n, st, st)
    BY <1>2, BytesKept
  <1>4. NodeOK(n, q, st)' /\ Passes(n, p, q, st, st)
    BY <1>2, <1>3, PutsDown
  <1> QED
    BY <1>1, <1>4, SameStore, NodeTurns

LEMMA NodeExits ==
  ASSUME ClusterInv, Tolerated, NEW n \in NodeId,
         NEW why \in ExitReason \ {"stray"}, Exit(n, why),
         \A r \in ghosts' : GhostOK(r, proc, store)
  PROVE  ClusterInv'
  <1>1. PICK p : p = proc[n]
    OBVIOUS
  <1>2. PICK st : st = store[n]
    OBVIOUS
  <1>3. NodeOK(n, p, st)' /\ p \in Process'
    BY <1>1, <1>2, NodeNext
  <1>4. PICK q : q = [Reconnect(p) EXCEPT !.pc = "exited", !.exit = why,
                                          !.session = 0, !.drain = FALSE]
    OBVIOUS
  <1>5. proc' = [proc EXCEPT ![n] = q] /\ store' = [store EXCEPT ![n] = Empty]
    BY <1>1, <1>4 DEF Exit, Becomes
  <1>6. /\ q \in Process' /\ q.pc = "exited" /\ q.grant = NoGrant
        /\ q.epoch = p.epoch /\ q.first = p.first /\ q.session = 0
        /\ q.exit = why
    BY <1>3, <1>4 DEF Reconnect, Process
  <1>7. NodeOK(n, q, Empty)' /\ Passes(n, p, q, st, Empty)
    BY <1>3, <1>6, IsGone
  <1> QED
    BY <1>1, <1>2, <1>5, <1>7, NodeTurns

\* Each call is a well-formed request, and stays one if nobody waits for it.
LEMMA RequestIsOK ==
  ASSUME ClusterInv, NEW n \in NodeId, Calls(n)
  PROVE  GhostOK(Request(n), proc, store)
  <1> DEFINE p == proc[n]
             st == store[n]
             r == Request(n)
  <1>1. /\ LocalsOK(n, p, st) /\ SessionOK(n, p) /\ AssignmentOK(n, p)
        /\ StoreOK(n, p, st)
    BY DEF ClusterInv, NodeOK
  <1>2. CASE p.pc = "registering"
    <2>1. r = [kind |-> "register", node |-> n, epoch |-> p.epoch]
      BY <1>2 DEF Request
    <2>2. p.epoch \in WorkerEpoch /\ p.epoch \in Nat
      BY <1>1 DEF SessionOK, LocalsOK, Process
    <2> QED
      BY <2>1, <2>2 DEF GhostOK
  <1>3. CASE p.pc \in Reporting
    <2>1. r = [kind |-> p.pc, grant |-> p.grant, flag |-> p.flag]
      BY <1>3 DEF Request, Reporting
    <2>2. r.kind = p.pc /\ r.grant = p.grant /\ r.flag \in BOOLEAN
      BY <1>1, <2>1 DEF LocalsOK, Process
    <2>3. p.grant \in grants /\ p.grant.node = n
      BY <1>1, <1>3, AssignmentGranted DEF InSession, Reporting
    <2>4. CASE p.pc = "starting"
      BY <2>2, <2>3, <2>4 DEF GhostOK
    <2>5. CASE p.pc \in Final
      <3>1. ~Unbegun(p.grant) /\ p.pc \notin Working
        BY <1>1, <2>5 DEF AssignmentOK, Final, Working, InSession, Reporting
      <3>2. p.pc = "completing" => st[Output(p.grant.task)] = p.grant.attempt
        BY <1>1 DEF StoreOK
      <3> HIDE DEF r
      <3>3. FinalOK(r, proc[r.grant.node], store[r.grant.node])
        BY <2>2, <2>3, <3>1, <3>2 DEF FinalOK
      <3> QED
        BY <2>2, <2>3, <2>5, <3>3 DEF GhostOK, r
    <2> QED
      BY <1>3, <2>4, <2>5 DEF Reporting, Final
  <1>4. CASE p.pc \in {"idle", "running"}
    <2>1. r = [kind |-> "poll", session |-> p.session]
      BY <1>4 DEF Request, Reporting
    <2>2. p.session \in DOMAIN sessions
      BY <1>1, <1>4 DEF SessionOK, InSession
    <2> QED
      BY <2>1, <2>2 DEF GhostOK
  <1> QED
    BY <1>2, <1>3, <1>4 DEF Calls, InSession

LEMMA GhostsStay ==
  ASSUME ClusterInv, UNCHANGED ghosts
  PROVE  \A r \in ghosts' : GhostOK(r, proc, store)
  BY DEF ClusterInv

LEMMA SessionKnown ==
  ASSUME ClusterInv, NEW n \in NodeId, proc[n].pc \in InSession
  PROVE  proc[n].session \in DOMAIN sessions /\ sessions[proc[n].session] = n
  BY DEF ClusterInv, NodeOK, SessionOK

----------------------------------------------------------------------------
(* The steps of a process, one by one.                                     *)

LEMMA RegisterStep ==
  ASSUME ClusterInv, NEW n \in NodeId, Register(n)
  PROVE  ClusterInv'
  <1>1. \A r \in ghosts' : GhostOK(r, proc, store)
    BY GhostsStay DEF Register
  <1>2. CASE Exit(n, "duplicate") /\ UNCHANGED vars
    <2>1. Tolerated
      BY <1>2, IdleTolerated DEF ClusterInv
    <2> QED
      BY <1>1, <1>2, <2>1, NodeExits DEF ExitReason
  <1>3. CASE ~Refuses(n, proc[n].epoch)
    <2>1. PICK p : p = proc[n]
      OBVIOUS
    <2>2. PICK st : st = store[n]
      OBVIOUS
    <2>3. PICK s : s = workers'[n].session
      OBVIOUS
    <2>4. PICK q : q = [Idle(p) EXCEPT !.session = s, !.heart = "due"]
      OBVIOUS
    <2>5. /\ Registers(n, p.epoch) /\ proc' = [proc EXCEPT ![n] = q]
          /\ UNCHANGED store /\ p.pc = "registering"
      BY <1>3, <2>1, <2>3, <2>4 DEF Register, Becomes
    <2>6. p.epoch \in WorkerEpoch /\ p.epoch \in Nat
      BY <2>1 DEF ClusterInv, NodeOK, LocalsOK, SessionOK, Process
    <2>7. /\ CoordMoves({}, {}) /\ s \in DOMAIN sessions'
          /\ sessions'[s] = n
      BY <2>1, <2>3, <2>5, <2>6, RegistersMoves DEF ClusterInv
    <2>8. Tolerated
      BY <2>7, MovesTolerated
    <2>9. CoordInv' /\ NodeOK(n, p, st)' /\ p \in Process'
      BY <2>1, <2>2, <2>8, NodeNext
    <2>10. s \in Nat \ {0}
      <3>1. sessions' \in Seq(NodeId)
        BY <2>9 DEF CoordInv, CoreInv, TypeOK
      <3> QED
        BY <2>7, <3>1
    <2>11. /\ q \in Process' /\ q.pc = "idle" /\ q.grant = NoGrant
           /\ q.epoch = p.epoch /\ q.first = p.first /\ q.session = s
           /\ q.exit = p.exit
      BY <2>4, <2>9, <2>10 DEF Idle, Process, InSession
    <2>12. /\ LocalsOK(n, p, st)' /\ SessionOK(n, p)' /\ StoreOK(n, p, st)'
      BY <2>9 DEF NodeOK
    <2>13. LocalsOK(n, q, st)' /\ SessionOK(n, q)'
      BY <2>7, <2>10, <2>11, <2>12 DEF LocalsOK, SessionOK
    <2>14. AssignmentOK(n, q)' /\ StoreOK(n, q, st)'
      <3>1. Answers(n, q)' => Answers(n, p)'
        BY <2>5, <2>11 DEF Answers
      <3> QED
        BY <2>11, <2>12, <3>1 DEF AssignmentOK, StoreOK, Working
    <2>15. NodeOK(n, q, st)'
      BY <2>13, <2>14 DEF NodeOK
    <2>16. Passes(n, p, q, st, st)
      BY <2>5, <2>6, <2>11 DEF Passes, Working
    <2> QED
      BY <1>1, <2>1, <2>2, <2>5, <2>8, <2>15, <2>16, SameStore, NodeTurns
  <1> QED
    BY <1>2, <1>3 DEF Register

\* What a worker is told to delete nobody asks it for, now or later.
LEMMA DeleteStep ==
  ASSUME ClusterInv, NEW n \in NodeId, proc[n].pc \in {"idle", "running"},
         Delete(n), UNCHANGED ghosts
  PROVE  ClusterInv'
  <1>1. PICK p : p = proc[n]
    OBVIOUS
  <1>2. PICK st : st = store[n]
    OBVIOUS
  <1>3. PICK gone : gone = pendingDeletes[n] \ pendingDeletes'[n]
    OBVIOUS
  <1>4. PICK s2 : s2 = [o \in ObjectId |-> IF o \in gone THEN 0 ELSE st[o]]
    OBVIOUS
  <1>5. PICK q : q = [p EXCEPT !.again = FALSE]
    OBVIOUS
  <1>6. DOMAIN store = NodeId
    BY DEF ClusterInv, IsRow
  <1>7. proc' = [proc EXCEPT ![n] = q] /\ store' = [store EXCEPT ![n] = s2]
    BY <1>1, <1>2, <1>3, <1>4, <1>5, <1>6 DEF Delete, Becomes
  <1>8. /\ p.pc \in {"idle", "running"} /\ PollDelete(n)
        /\ UNCHANGED <<tasks, objects, grants>>
    BY <1>1 DEF Delete, PollDelete
  <1>9. Tolerated
    <2>1. p.session \in DOMAIN sessions /\ sessions[p.session] = n
      BY <1>1, <1>8, SessionKnown DEF InSession
    <2> QED
      BY <1>8, <2>1, PollMoves, MovesTolerated DEF ClusterInv
  <1>10. NodeOK(n, p, st)' /\ p \in Process' /\ st \in [ObjectId -> Nat]
    BY <1>1, <1>2, <1>9, NodeNext
  <1>11. Like(p, q, p.pc, p.grant)
    BY <1>5, <1>10, Records
  <1>12. \A o \in gone : objects'[o].state = "Absent"
    BY <1>3, <1>8 DEF ClusterInv, CoordInv, LifeInv, DeletesAreDead
  <1>13. KeepsBytes(n, st, s2)
    <2>1. s2 \in [ObjectId -> Nat]
      BY <1>4, <1>10
    <2>2. ASSUME NEW o \in ObjectId, objects'[o].state # "Absent"
          PROVE  s2[o] = st[o]
      BY <1>4, <1>12, <2>2
    <2>3. ASSUME NEW g \in grants', Open(g)'
          PROVE  s2[Output(g.task)] = st[Output(g.task)]
      <3>1. g.task \in TaskId /\ tasks[g.task].state \in LiveStates
        BY <1>8, <2>3 DEF Open, AtFence, LiveStates, ClusterInv, CoordInv,
           CoreInv, TypeOK, Grant
      <3>2. /\ objects'[Output(g.task)].state = "Reserved"
            /\ Output(g.task) \in ObjectId
        BY <1>8, <3>1 DEF ClusterInv, CoordInv, CoreInv, OutputMatchesTask,
           ObjectId
      <3> QED
        BY <2>2, <3>2
    <2> QED
      BY <2>1, <2>2, <2>3 DEF KeepsBytes
  <1>14. NodeOK(n, q, s2)' /\ Passes(n, p, q, st, s2)
    <2>1. LocalsOK(n, p, st)' /\ SessionOK(n, p)' /\ AssignmentOK(n, p)'
      BY <1>10 DEF NodeOK
    <2>2. /\ (p.grant # NoGrant) <=> p.pc \in InSession \ {"idle"}
          /\ p.grant # NoGrant =>
               p.grant.node = n /\ p.grant.session = p.session
          /\ p.pc \in InSession => p.session # 0
          /\ p.pc \in Working /\ CheckIdentity(n, p.session)' => Held(p.grant)'
          /\ p.pc \in InSession \ {"idle", "starting"} => ~Unbegun(p.grant)'
      BY <2>1 DEF LocalsOK, SessionOK, AssignmentOK
    <2>3. p.pc # "exited" /\ p.pc # "completing"
      BY <1>8
    <2> QED
      BY <1>10, <1>11, <1>13, <2>2, <2>3, Turn
  <1>15. \A r \in ghosts' : GhostOK(r, proc, store)
    BY GhostsStay
  <1> QED
    BY <1>1, <1>2, <1>7, <1>9, <1>14, <1>15, NodeTurns

\* A process takes up assignment g.
LEMMA NodeTakesUp ==
  ASSUME ClusterInv, Tolerated, NEW n \in NodeId, proc[n].pc \in InSession,
         NEW pc \in InSession \ {"idle", "completing"}, NEW g \in grants',
         Becomes(n, Busy(proc[n], pc, g)), UNCHANGED <<store, ghosts>>,
         g.node = n, g.session = proc[n].session,
         pc \in Working /\ CheckIdentity(n, g.session)' => Held(g)',
         pc # "starting" => ~Unbegun(g)',
         pc \in Working => \/ proc[n].pc \in Working /\ g = proc[n].grant
                           \/ Unbegun(g)'
  PROVE  ClusterInv'
  <1>1. PICK p : p = proc[n]
    OBVIOUS
  <1>2. PICK st : st = store[n]
    OBVIOUS
  <1>3. PICK q : q = Busy(p, pc, g)
    OBVIOUS
  <1>4. proc' = [proc EXCEPT ![n] = q] /\ p.pc \in InSession
    BY <1>1, <1>3 DEF Becomes
  <1>5. NodeOK(n, p, st)' /\ p \in Process' /\ st \in [ObjectId -> Nat]
        /\ CoordInv'
    BY <1>1, <1>2, NodeNext
  <1>6. Like(p, q, pc, g)
    BY <1>3, <1>5, Records
  <1>7. g # NoGrant
    BY <1>5, ConstantsDiffer DEF NoGrant, Nodes
  <1>8. p.session # 0 /\ p.pc # "exited" /\ pc # "exited"
    BY <1>4, <1>5 DEF NodeOK, SessionOK, InSession, Reporting
  <1>9. g.session = p.session
        /\ (pc \in Working => \/ p.pc \in Working /\ g = p.grant
                              \/ Unbegun(g)')
    BY <1>1
  <1>10. NodeOK(n, q, st)' /\ Passes(n, p, q, st, st)
    BY <1>5, <1>6, <1>7, <1>8, <1>9, BytesKept, Turn
  <1>11. \A r \in ghosts' : GhostOK(r, proc, store)
    BY GhostsStay
  <1> QED
    BY <1>1, <1>2, <1>4, <1>10, <1>11, SameStore, NodeTurns

LEMMA QuietTolerated ==
  ASSUME ClusterInv, NEW n \in NodeId, proc[n].pc \in InSession,
         \/ PollAssign(proc[n].session) \/ PollIdle(proc[n].session)
         \/ UNCHANGED vars
  PROVE  Tolerated
  <1> DEFINE s == proc[n].session
  <1>1. s \in DOMAIN sessions
    BY SessionKnown
  <1>2. PollAssign(s) \/ PollEmpty(s) \/ UNCHANGED vars
    BY DEF PollIdle
  <1> HIDE DEF s
  <1> QED
    BY <1>1, <1>2, PollMoves, MovesTolerated DEF ClusterInv

\* The lease an idle poll's answer repeats is in force.
LEMMA GrantOfLease ==
  ASSUME CoordInv, NEW state, state # "Absent",
         NEW s, NEW t \in Outstanding(s, state), NEW g, g = GrantOf(t)
  PROVE  /\ g.node = sessions[s] /\ g.session = s /\ g.task = t
         /\ AtFence(g, {state}) /\ t \in TaskId
         /\ t \in AssignedTo(sessions[s])
  <1>1. /\ t \in TaskId /\ tasks[t].state = state
        /\ tasks[t].assigned = [node |-> sessions[s], session |-> s]
    BY DEF Outstanding
  <1>2. /\ tasks[t].assigned.node = sessions[s]
        /\ tasks[t].assigned.session = s
    BY <1>1
  <1>3. /\ g.task = t /\ g.attempt = tasks[t].attempt
        /\ g.node = sessions[s] /\ g.session = s
    BY <1>2 DEF GrantOf
  <1> QED
    BY <1>1, <1>2, <1>3 DEF AtFence, AssignedTo

\* What a new assignment hands out.
LEMMA NewGrant ==
  ASSUME CoordInv, NEW s \in DOMAIN sessions, PollAssign(s),
         NEW g \in grants' \ grants
  PROVE  /\ g.node = sessions[s] /\ g.session = s
         /\ Unbegun(g)' /\ Held(g)'
  <1> DEFINE n == sessions[s]
  <1>1. PICK i \in DOMAIN runnable : /\ Assign(n, runnable[i])
                                     /\ i \in Servable(n)
    BY DEF PollAssign, Picks
  <1>2. workers[n].session = s
    BY DEF PollAssign, CanTake, CheckIdentity
  <1>3. PICK t : t = runnable[i]
    OBVIOUS
  <1>4. t \in TaskId /\ tasks[t].state = "Runnable"
    BY <1>1, <1>3 DEF Servable, Serves, Runs, CoordInv, CoreInv, TypeOK
  <1>5. /\ g.task = t /\ g.attempt = tasks[t].attempt + 1
        /\ g.node = n /\ g.session = s
    BY <1>1, <1>2, <1>3 DEF Assign
  <1>6. tasks[t] \in Task /\ t \in DOMAIN tasks
    BY <1>4, KnownTask DEF CoordInv, CoreInv, TypeOK
  <1>7. /\ tasks'[t].state = "Assigned"
        /\ tasks'[t].attempt = tasks[t].attempt + 1
    BY <1>1, <1>3, <1>6 DEF Assign, Task
  <1> QED
    BY <1>5, <1>7 DEF Unbegun, Held, AtFence, LeasedStates

LEMMA IdlePollStep ==
  ASSUME ClusterInv, NEW n \in NodeId, IdlePoll(n)
  PROVE  ClusterInv'
  <1> DEFINE p == proc[n]
             s == p.session
  <1>1. p.pc = "idle" /\ UNCHANGED ghosts /\ p.pc \in InSession
    BY DEF IdlePoll, InSession
  <1>2. s \in DOMAIN sessions /\ sessions[s] = n /\ CoordInv
    BY <1>1, SessionKnown DEF ClusterInv
  <1>3. \A r \in ghosts' : GhostOK(r, proc, store)
    BY <1>1, GhostsStay
  <1>4. CASE Delete(n)
    BY <1>1, <1>4, DeleteStep
  <1>5. ASSUME NEW g \in grants, PollCancels(s, g),
               Becomes(n, Busy(p, "acking", g)), UNCHANGED store
        PROVE  ClusterInv'
    <2>1. /\ UNCHANGED vars
          /\ \E t \in Outstanding(s, "CancelRequested") : g = GrantOf(t)
      BY <1>5 DEF PollCancels
    <2>2. g.node = n /\ g.session = s /\ AtFence(g, {"CancelRequested"})
      BY <1>2, <2>1, GrantOfLease
    <2>3. UNCHANGED <<tasks, grants>>
      BY <2>1 DEF vars
    <2>4. ~Unbegun(g)' /\ g \in grants'
      BY <2>2, <2>3 DEF Unbegun, AtFence
    <2>5. Tolerated
      BY <1>1, <2>1, QuietTolerated
    <2>6. /\ "acking" \in InSession \ {"idle", "completing"}
          /\ "acking" \notin Working
      BY DEF InSession, Reporting, Working
    <2> HIDE DEF s
    <2> QED
      BY <1>1, <1>5, <2>2, <2>4, <2>5, <2>6, NodeTakesUp DEF s
  <1>6. ASSUME NEW g \in grants, PollRepeats(s, g),
               Becomes(n, Busy(p, "starting", g)), UNCHANGED store
        PROVE  ClusterInv'
    <2>1. /\ UNCHANGED vars
          /\ \E t \in Outstanding(s, "Assigned") : g = GrantOf(t)
      BY <1>6 DEF PollRepeats, Unstarted
    <2>2. g.node = n /\ g.session = s /\ AtFence(g, {"Assigned"})
      BY <1>2, <2>1, GrantOfLease
    <2>3. UNCHANGED <<tasks, grants>>
      BY <2>1 DEF vars
    <2>4. Unbegun(g)' /\ Held(g)' /\ g \in grants'
      BY <2>2, <2>3 DEF Unbegun, Held, AtFence, LeasedStates
    <2>5. Tolerated
      BY <1>1, <2>1, QuietTolerated
    <2>6. "starting" \in InSession \ {"idle", "completing"}
      BY DEF InSession, Reporting
    <2> QED
      BY <1>1, <1>6, <2>2, <2>4, <2>5, <2>6, NodeTakesUp
  <1>7. ASSUME PollAssign(s), NEW g \in grants' \ grants,
               Becomes(n, Busy(p, "starting", g)), UNCHANGED store
        PROVE  ClusterInv'
    <2>1. g.node = n /\ g.session = s /\ Unbegun(g)' /\ Held(g)'
      BY <1>2, <1>7, NewGrant
    <2>2. Tolerated
      BY <1>1, <1>7, QuietTolerated
    <2>3. "starting" \in InSession \ {"idle", "completing"}
      BY DEF InSession, Reporting
    <2> QED
      BY <1>1, <1>7, <2>1, <2>2, <2>3, NodeTakesUp
  <1>8. CASE PollIdle(s) /\ Becomes(n, Idle(p)) /\ UNCHANGED store
    <2>1. PICK p0 : p0 = proc[n]
      OBVIOUS
    <2>2. PICK q : q = Idle(p0)
      OBVIOUS
    <2>3. /\ proc' = [proc EXCEPT ![n] = q]
          /\ p0.pc \in InSession /\ p0.pc = "idle"
      BY <1>1, <1>8, <2>1, <2>2 DEF Becomes
    <2>4. p0 \in Process' => Like(p0, q, "idle", NoGrant)
      BY <2>2, Records
    <2>5. Tolerated
      BY <1>1, <1>8, QuietTolerated
    <2> HIDE DEF s, p
    <2> QED
      BY <1>3, <1>8, <2>1, <2>3, <2>4, <2>5, NodePutsDown
  <1>9. CASE PollStale(s) /\ Becomes(n, Reconnect(p)) /\ UNCHANGED store
    <2>1. PICK p0 : p0 = proc[n]
      OBVIOUS
    <2>2. PICK q : q = Reconnect(p0)
      OBVIOUS
    <2>3. proc' = [proc EXCEPT ![n] = q] /\ p0.pc = "idle"
      BY <1>1, <1>9, <2>1, <2>2 DEF Becomes
    <2>4. p0 \in Process' => Like(p0, q, "backoff", NoGrant)
      BY <2>2, Records
    <2>5. Tolerated
      BY <1>1, <1>9, QuietTolerated DEF PollStale
    <2> HIDE DEF s, p
    <2> QED
      BY <1>3, <1>9, <2>1, <2>3, <2>4, <2>5, NodePutsDown
  <1> HIDE DEF p, s
  <1> QED
    BY <1>4, <1>5, <1>6, <1>7, <1>8, <1>9 DEF IdlePoll, p, s

\* A worker has one slot, so it holds one task.
LEMMA OneTask ==
  ASSUME CoordInv, NEW n \in NodeId, NEW t \in AssignedTo(n)
  PROVE  workers[n].free = 0 /\ \A u \in AssignedTo(n) : u = t
  <1>1. Registered(n)
    BY AssignedLeases DEF CoordInv
  <1>2. Balanced(n) /\ workers[n].offer.slots = 1 /\ workers[n].free \in Nat
    BY <1>1, FreeSlots, WorkerBounds DEF CoordInv, BooksBalance, WorkersSound
  <1> DEFINE A == AssignedTo(n)
  <1>3. IsFiniteSet(A) /\ Cardinality(A) \in Nat /\ Cardinality(A) # 0
    BY AssignedFinite, FS_CardinalityType, FS_EmptySet DEF CoordInv
  <1>4. workers[n].free + Cardinality(A) = 1
    BY <1>2 DEF Balanced
  <1>5. workers[n].free = 0 /\ Cardinality(A) = 1
    BY <1>2, <1>3, <1>4
  <1>6. \E x : A = {x}
    BY <1>3, <1>5, FS_Singleton
  <1> QED
    BY <1>5, <1>6

\* The task a process works on is the one its node holds.
LEMMA WorksOnLease ==
  ASSUME ClusterInv, NEW n \in NodeId, proc[n].pc \in Working,
         CheckIdentity(n, proc[n].session)
  PROVE  /\ proc[n].grant \in grants /\ Held(proc[n].grant)
         /\ proc[n].grant.task \in AssignedTo(n)
  <1> DEFINE g == proc[n].grant
  <1>1. g \in grants /\ g.node = n
    BY AssignmentGranted DEF ClusterInv, NodeOK, Working, InSession, Reporting
  <1>2. Held(g)
    BY DEF ClusterInv, NodeOK, AssignmentOK
  <1>3. CheckFence(g) /\ g.task \in TaskId
    BY <1>1, <1>2, FenceMeans DEF ClusterInv, CoordInv, LifeInv
  <1> QED
    BY <1>1, <1>2, <1>3 DEF CheckFence, AssignedTo

\* So an outstanding lease of its session is the one it works on.
LEMMA OwnLease ==
  ASSUME ClusterInv, NEW n \in NodeId, proc[n].pc \in Working,
         CheckIdentity(n, proc[n].session),
         NEW state, state # "Absent",
         NEW t \in Outstanding(proc[n].session, state),
         NEW g \in grants, g = GrantOf(t)
  PROVE  g = proc[n].grant /\ AtFence(g, {state})
  <1> DEFINE h == proc[n].grant
             s == proc[n].session
  <1>1. CoordInv /\ s \in DOMAIN sessions /\ sessions[s] = n
    BY SessionKnown DEF ClusterInv, Working, InSession, Reporting
  <1>2. h \in grants /\ Held(h) /\ h.task \in AssignedTo(n)
    BY WorksOnLease
  <1>3. AtFence(g, {state}) /\ g.task \in AssignedTo(n)
    <2>1. t \in Outstanding(s, state)
      OBVIOUS
    <2> HIDE DEF s
    <2>2. AtFence(g, {state}) /\ g.task = t /\ t \in AssignedTo(sessions[s])
      BY <1>1, <2>1, GrantOfLease
    <2> QED
      BY <1>1, <2>2
  <1>4. g.task = h.task
    BY <1>1, <1>2, <1>3, OneTask
  <1>5. g.attempt = h.attempt
    BY <1>2, <1>3, <1>4 DEF Held, AtFence
  <1> QED
    BY <1>1, <1>2, <1>3, <1>4, <1>5 DEF CoordInv, LifeInv, AttemptsBounded

LEMMA BusyPollStep ==
  ASSUME ClusterInv, NEW n \in NodeId, BusyPoll(n)
  PROVE  ClusterInv'
  <1>1. PICK p : p = proc[n]
    OBVIOUS
  <1>2. PICK s : s = p.session
    OBVIOUS
  <1>3. /\ p.pc = "running" /\ UNCHANGED ghosts
        /\ proc[n].pc \in InSession /\ proc[n].pc \in Working
    BY <1>1 DEF BusyPoll, InSession, Working
  <1>4. s \in DOMAIN sessions /\ sessions[s] = n /\ CoordInv
    BY <1>1, <1>2, <1>3, SessionKnown DEF ClusterInv
  <1>5. \A r \in ghosts' : GhostOK(r, proc, store)
    BY <1>3, GhostsStay
  <1>6. CASE Delete(n)
    BY <1>1, <1>3, <1>6, DeleteStep
  <1>7. ASSUME NEW g \in grants, PollCancels(s, g)
        PROVE  /\ g = p.grant /\ ~Unbegun(g)' /\ Tolerated
               /\ g.node = n /\ g.session = s /\ g \in grants'
    <2>1. /\ UNCHANGED vars /\ CheckIdentity(n, s)
          /\ \E t \in Outstanding(s, "CancelRequested") : g = GrantOf(t)
      BY <1>4, <1>7 DEF PollCancels
    <2>2. PICK t \in Outstanding(s, "CancelRequested") : g = GrantOf(t)
      BY <2>1
    <2>3. g = p.grant /\ AtFence(g, {"CancelRequested"})
      BY <1>1, <1>2, <1>3, <2>1, <2>2, OwnLease
    <2>4. g.node = n /\ g.session = s
      BY <1>1, <1>2, <1>3, <2>3, AssignmentGranted DEF ClusterInv, NodeOK
    <2>5. UNCHANGED <<tasks, grants>>
      BY <2>1 DEF vars
    <2> QED
      BY <1>4, <2>1, <2>3, <2>4, <2>5, IdleTolerated DEF Unbegun, AtFence
  <1>8. ASSUME NEW g \in grants, PollCancels(s, g),
               Becomes(n, Busy(proc[n], "stopping", g)), UNCHANGED store
        PROVE  ClusterInv'
    <2>1. /\ ~Unbegun(g)' /\ Tolerated /\ g.node = n
          /\ g.session = proc[n].session /\ g \in grants'
      BY <1>1, <1>2, <1>7, <1>8
    <2>2. /\ "stopping" \in InSession \ {"idle", "completing"}
          /\ "stopping" \notin Working
      BY DEF InSession, Reporting, Working
    <2> QED
      BY <1>3, <1>8, <2>1, <2>2, NodeTakesUp
  <1>9. ~PollAssign(s)
    <2> SUFFICES ASSUME PollAssign(s) PROVE FALSE
      OBVIOUS
    <2>1. CheckIdentity(n, s) /\ workers[n].free > 0
      BY <1>4 DEF PollAssign, CanTake
    <2>2. proc[n].grant.task \in AssignedTo(n)
      BY <1>1, <1>2, <1>3, <2>1, WorksOnLease
    <2> QED
      BY <1>4, <2>1, <2>2, OneTask
  <1>10. ASSUME NEW g \in grants PROVE ~PollRepeats(s, g)
    <2> SUFFICES ASSUME PollRepeats(s, g) PROVE FALSE
      OBVIOUS
    <2>1. /\ CheckIdentity(n, s)
          /\ \E t \in Outstanding(s, "Assigned") : g = GrantOf(t)
      BY <1>4 DEF PollRepeats, Unstarted
    <2>2. g = p.grant /\ AtFence(g, {"Assigned"})
      BY <1>1, <1>2, <1>3, <2>1, OwnLease
    <2>3. ~Unbegun(p.grant)
      BY <1>1, <1>3 DEF ClusterInv, NodeOK, AssignmentOK, InSession
    <2> QED
      BY <2>2, <2>3 DEF Unbegun
  <1>11. CASE /\ PollIdle(s) /\ Becomes(n, [p EXCEPT !.again = FALSE])
              /\ UNCHANGED store
    <2>1. PICK q : q = [p EXCEPT !.again = FALSE]
      OBVIOUS
    <2>2. proc' = [proc EXCEPT ![n] = q]
      BY <1>11, <2>1 DEF Becomes
    <2>3. p \in Process' => Like(p, q, p.pc, p.grant)
      BY <2>1, Records
    <2>4. Tolerated
      BY <1>1, <1>2, <1>3, <1>11, QuietTolerated
    <2> QED
      BY <1>1, <1>5, <1>11, <2>2, <2>3, <2>4, NodeGoesOn
  <1>12. CASE PollStale(s) /\ Becomes(n, Reconnect(p)) /\ UNCHANGED store
    <2>1. PICK q : q = Reconnect(p)
      OBVIOUS
    <2>2. proc' = [proc EXCEPT ![n] = q] /\ p.pc # "exited"
      BY <1>3, <1>12, <2>1 DEF Becomes
    <2>3. p \in Process' => Like(p, q, "backoff", NoGrant)
      BY <2>1, Records
    <2>4. Tolerated
      BY <1>4, <1>12, IdleTolerated DEF PollStale
    <2> QED
      BY <1>1, <1>5, <1>12, <2>2, <2>3, <2>4, NodePutsDown
  <1>13. \/ Delete(n)
         \/ \E g \in grants :
              /\ PollCancels(s, g)
              /\ IF g = p.grant
                 THEN /\ Becomes(n, Busy(proc[n], "stopping", g))
                      /\ UNCHANGED store
                 ELSE Exit(n, "stray")
         \/ PollAssign(s) \/ \E g \in grants : PollRepeats(s, g)
         \/ /\ \/ PollIdle(s) /\ Becomes(n, [p EXCEPT !.again = FALSE])
               \/ PollStale(s) /\ Becomes(n, Reconnect(p))
            /\ UNCHANGED store
    BY <1>1, <1>2 DEF BusyPoll
  <1> QED
    BY <1>6, <1>7, <1>8, <1>9, <1>10, <1>11, <1>12, <1>13

\* The step of a process that keeps its grant and its store.
LEMMA NodeWorksOn ==
  ASSUME ClusterInv, UNCHANGED vars, NEW n \in NodeId,
         proc[n].pc \in {"fetching", "running"}, NEW p, p = proc[n],
         NEW pc \in {"running", "failing"}, NEW q,
         proc' = [proc EXCEPT ![n] = q],
         p \in Process' => Like(p, q, pc, p.grant), UNCHANGED <<store, ghosts>>
  PROVE  ClusterInv'
  <1>1. PICK st : st = store[n]
    OBVIOUS
  <1>2. Tolerated
    BY IdleTolerated DEF ClusterInv
  <1>3. NodeOK(n, p, st)' /\ p \in Process' /\ st \in [ObjectId -> Nat]
    BY <1>1, <1>2, NodeNext
  <1>4. LocalsOK(n, p, st)' /\ SessionOK(n, p)' /\ AssignmentOK(n, p)'
    BY <1>3 DEF NodeOK
  <1>5. /\ p.pc \in Working /\ p.pc \in InSession \ {"idle", "starting"}
        /\ p.pc # "exited"
        /\ pc \in InSession \ {"idle", "starting"} /\ pc # "exited"
        /\ pc # "completing"
    BY DEF Working, InSession, Reporting
  <1>6. /\ p.grant # NoGrant /\ p.grant.node = n /\ p.grant.session = p.session
        /\ p.session # 0 /\ ~Unbegun(p.grant)'
        /\ CheckIdentity(n, p.session)' => Held(p.grant)'
    BY <1>4, <1>5 DEF LocalsOK, SessionOK, AssignmentOK
  <1>7. KeepsBytes(n, st, st)
    BY <1>3, BytesKept
  <1>8. NodeOK(n, q, st)' /\ Passes(n, p, q, st, st)
    BY <1>3, <1>5, <1>6, <1>7, Turn
  <1>9. \A r \in ghosts' : GhostOK(r, proc, store)
    BY GhostsStay
  <1> QED
    BY <1>1, <1>2, <1>8, <1>9, SameStore, NodeTurns

LEMMA FetchStep ==
  ASSUME ClusterInv, NEW n \in NodeId, Fetch(n)
  PROVE  ClusterInv'
  <1>1. PICK p : p = proc[n]
    OBVIOUS
  <1>2. /\ UNCHANGED vars /\ UNCHANGED <<store, ghosts>>
        /\ proc[n].pc \in {"fetching", "running"}
    BY DEF Fetch
  <1>3. CASE Becomes(n, [p EXCEPT !.pc = "running"])
    <2>1. PICK q : q = [p EXCEPT !.pc = "running"]
      OBVIOUS
    <2>2. proc' = [proc EXCEPT ![n] = q]
      BY <1>3, <2>1 DEF Becomes
    <2>3. p \in Process' => Like(p, q, "running", p.grant)
      BY <2>1, Records DEF InSession
    <2> QED
      BY <1>1, <1>2, <2>2, <2>3, NodeWorksOn
  <1>4. ASSUME NEW b \in BOOLEAN,
               Becomes(n, [p EXCEPT !.pc = "failing", !.flag = b])
        PROVE  ClusterInv'
    <2>1. PICK q : q = [p EXCEPT !.pc = "failing", !.flag = b]
      OBVIOUS
    <2>2. proc' = [proc EXCEPT ![n] = q]
      BY <1>4, <2>1 DEF Becomes
    <2>3. p \in Process' => Like(p, q, "failing", p.grant)
      BY <2>1, Records DEF InSession, Reporting
    <2> QED
      BY <1>1, <1>2, <2>2, <2>3, NodeWorksOn
  <1> QED
    BY <1>1, <1>3, <1>4 DEF Fetch

LEMMA OperationFailsStep ==
  ASSUME ClusterInv, NEW n \in NodeId, OperationFails(n)
  PROVE  ClusterInv'
  <1>1. PICK p : p = proc[n]
    OBVIOUS
  <1>2. /\ UNCHANGED vars /\ UNCHANGED <<store, ghosts>>
        /\ proc[n].pc \in {"fetching", "running"}
    BY DEF OperationFails
  <1>3. PICK b \in BOOLEAN :
          proc' = [proc EXCEPT ![n] = [p EXCEPT !.pc = "failing", !.flag = b]]
    BY <1>1 DEF OperationFails, Becomes
  <1>4. PICK q : q = [p EXCEPT !.pc = "failing", !.flag = b]
    OBVIOUS
  <1>5. p \in Process' => Like(p, q, "failing", p.grant)
    BY <1>4, Records DEF InSession, Reporting
  <1> QED
    BY <1>1, <1>2, <1>3, <1>4, <1>5, NodeWorksOn

\* An output goes only where none was, so it displaces nothing.
LEMMA OperationSucceedsStep ==
  ASSUME ClusterInv, NEW n \in NodeId, OperationSucceeds(n)
  PROVE  ClusterInv'
  <1>1. PICK p : p = proc[n]
    OBVIOUS
  <1>2. PICK st : st = store[n]
    OBVIOUS
  <1>3. PICK o : o = Output(p.grant.task)
    OBVIOUS
  <1>4. UNCHANGED vars /\ UNCHANGED ghosts /\ p.pc = "running"
    BY <1>1 DEF OperationSucceeds
  <1>5. Tolerated
    BY <1>4, IdleTolerated DEF ClusterInv
  <1>6. /\ NodeOK(n, p, st)' /\ p \in Process' /\ st \in [ObjectId -> Nat]
        /\ CoordInv'
    BY <1>1, <1>2, <1>5, NodeNext
  <1>7. \A r \in ghosts' : GhostOK(r, proc, store)
    BY <1>4, GhostsStay
  <1>8. CASE Exit(n, "conflict")
    BY <1>5, <1>7, <1>8, NodeExits DEF ExitReason
  <1>9. CASE st[o] \in {0, p.grant.attempt}
    <2>1. PICK s2 : s2 = [st EXCEPT ![o] = p.grant.attempt]
      OBVIOUS
    <2>2. DOMAIN store = NodeId
      BY DEF ClusterInv, IsRow
    <2>3. PICK b \in BOOLEAN :
            proc' = [proc EXCEPT ![n] = [p EXCEPT !.pc = "completing",
                                                  !.flag = b]]
      BY <1>1, <1>2, <1>3, <1>9 DEF OperationSucceeds, Becomes
    <2>4. store' = [store EXCEPT ![n] = s2]
      BY <1>1, <1>2, <1>3, <1>9, <2>1, <2>2 DEF OperationSucceeds
    <2>5. PICK q : q = [p EXCEPT !.pc = "completing", !.flag = b]
      OBVIOUS
    <2>6. Like(p, q, "completing", p.grant)
      BY <1>6, <2>5, Records DEF InSession, Reporting
    <2>7. LocalsOK(n, p, st)' /\ SessionOK(n, p)' /\ AssignmentOK(n, p)'
      BY <1>6 DEF NodeOK
    <2>8. /\ p.grant # NoGrant /\ p.grant.node = n
          /\ p.grant.session = p.session /\ p.session # 0
          /\ ~Unbegun(p.grant)' /\ p.grant \in grants'
      BY <1>4, <2>7 DEF LocalsOK, SessionOK, AssignmentOK, InSession, Process
    <2>9. o \in ObjectId /\ p.grant.attempt \in Nat
      BY <1>3, <1>6, <2>8 DEF ObjectId, CoordInv, CoreInv, TypeOK, Grant
    <2>10. /\ s2 \in [ObjectId -> Nat] /\ s2[o] = p.grant.attempt
           /\ \A x \in ObjectId : st[x] # 0 => s2[x] = st[x]
      BY <1>6, <1>9, <2>1, <2>9
    <2>11. KeepsBytes(n, st, s2)
      <3>1. ASSUME NEW x \in ObjectId, objects'[x].state = "Available",
                   objects'[x].location = n, st[x] = objects'[x].version
            PROVE  s2[x] = objects'[x].version
        <4>1. objects'[x].version > 0
          BY <1>6, <3>1 DEF CoordInv, BytesNamed
        <4> QED
          BY <2>10, <3>1, <4>1
      <3>2. ASSUME NEW g \in grants', st[Output(g.task)] = g.attempt
            PROVE  s2[Output(g.task)] = g.attempt
        <4>1. g.attempt > 0 /\ Output(g.task) \in ObjectId
          BY <1>6 DEF CoordInv, GrantsSound, ObjectId, CoreInv, TypeOK, Grant
        <4> QED
          BY <2>10, <3>2, <4>1
      <3> QED
        BY <2>10, <3>1, <3>2 DEF KeepsBytes
    <2>12. NodeOK(n, q, s2)' /\ Passes(n, p, q, st, s2)
      <3>1. /\ "completing" \in InSession \ {"idle"}
            /\ "completing" \notin Working
        BY DEF InSession, Reporting, Working
      <3> QED
        BY <1>3, <1>4, <1>6, <2>6, <2>8, <2>10, <2>11, <3>1, Turn
    <2> QED
      BY <1>1, <1>2, <1>5, <1>7, <2>3, <2>4, <2>5, <2>12, NodeTurns
  <1> QED
    BY <1>1, <1>2, <1>3, <1>8, <1>9 DEF OperationSucceeds

\* A start that is answered has begun the attempt, or the fence had fallen.
LEMMA StartBegins ==
  ASSUME ClusterInv, NEW n \in NodeId, proc[n].pc = "starting",
         Effect(Request(n)), NEW g, g = proc[n].grant
  PROVE  ~Unbegun(g)'
  <1> DEFINE r == Request(n)
  <1>1. r.kind = "starting" /\ r.grant = g
    BY DEF Request, Reporting
  <1>2. g \in grants
    BY AssignmentGranted DEF ClusterInv, NodeOK, InSession, Reporting
  <1>3. CoreInv /\ AttemptsBounded /\ g.task \in TaskId
    BY <1>2, FenceMeans DEF ClusterInv, CoordInv, LifeInv
  <1>4. Applies(r) <=> CheckFence(g) /\ tasks[g.task].state = "Assigned"
    BY <1>1 DEF Applies
  <1>5. CASE Applies(r)
    <2>1. Apply(r)
      BY <1>1, <1>5 DEF Effect
    <2>2. Started(g)
      BY <1>1, <2>1 DEF Apply
    <2>3. tasks[g.task] \in Task /\ g.task \in DOMAIN tasks
      BY <1>3, <1>4, <1>5, KnownTask DEF CoreInv, TypeOK
    <2>4. tasks'[g.task].state = "Running"
      BY <2>2, <2>3 DEF Started, Task
    <2> QED
      BY <2>4 DEF Unbegun, AtFence
  <1>6. CASE ~Applies(r)
    <2>1. UNCHANGED vars
      BY <1>1, <1>6 DEF Effect
    <2>2. ~Unbegun(g)
      <3> SUFFICES ASSUME Unbegun(g) PROVE FALSE
        OBVIOUS
      <3>1. Held(g) /\ tasks[g.task].state = "Assigned"
        BY DEF Unbegun, Held, AtFence, LeasedStates
      <3>2. CheckFence(g)
        BY <1>2, <1>3, <3>1, FenceMeans
      <3> QED
        BY <1>4, <1>6, <3>1, <3>2
    <2>3. UNCHANGED tasks
      BY <2>1 DEF vars
    <2> QED
      BY <2>2, <2>3 DEF Unbegun, AtFence
  <1> QED
    BY <1>5, <1>6

\* The output that is dropped when its completion is refused is one that the
\* coordinator never took and never will.
LEMMA DropIsSafe ==
  ASSUME ClusterInv, NEW n \in NodeId, proc[n].pc = "completing",
         Verdict(Request(n)) = "Refused", Effect(Request(n)),
         NEW st, st = store[n], NEW o, o = Output(proc[n].grant.task),
         NEW s2, s2 = [st EXCEPT ![o] = 0], st \in [ObjectId -> Nat]
  PROVE  KeepsBytes(n, st, s2)
  <1> DEFINE g == proc[n].grant
             r == Request(n)
             t == g.task
  <1>1. r.kind = "completing" /\ r.grant = g
    BY DEF Request, Reporting
  <1>2. g \in grants /\ g.node = n
    BY AssignmentGranted DEF ClusterInv, NodeOK, InSession, Reporting
  <1>3. /\ CoreInv /\ AttemptsBounded /\ BooksBalance /\ OutputMatchesTask
        /\ t \in TaskId /\ o \in ObjectId
    BY <1>2, FenceMeans DEF ClusterInv, CoordInv, LifeInv, CoreInv, ObjectId
  <1>4. st[o] = g.attempt
    BY DEF ClusterInv, NodeOK, StoreOK
  <1>5. /\ tasks[t].state # "Absent" /\ ~Applies(r) /\ ~Repeats(r)
    BY <1>1 DEF Verdict
  <1>6. /\ ~Accepts(g)
        /\ ~(/\ tasks[t].state = "Succeeded" /\ objects[o].state = "Available"
             /\ objects[o].version = g.attempt)
    BY <1>1, <1>5 DEF Applies, Repeats
  <1>7. UNCHANGED vars
    BY <1>1, <1>5 DEF Effect
  <1>8. UNCHANGED <<tasks, objects, grants>>
    BY <1>7 DEF vars
  <1>9. s2 \in [ObjectId -> Nat] /\ \A x \in ObjectId \ {o} : s2[x] = st[x]
    BY <1>3
  <1>10. ASSUME objects[o].state = "Available"
         PROVE  objects[o].version # st[o]
    <2>1. tasks[t].state = "Succeeded"
      <3>1. tasks[t] \in Task
        BY <1>3, <1>5, KnownTask
      <3> QED
        BY <1>3, <1>5, <1>10, <3>1 DEF OutputMatchesTask, Task, TerminalStates
    <2> QED
      BY <1>4, <1>6, <1>10, <2>1
  <1>11. ~Open(g)
    <2> SUFFICES ASSUME Open(g) PROVE FALSE
      OBVIOUS
    <2>1. Held(g) /\ tasks[t].state \in {"Assigned", "Running"}
      BY DEF Open, Held, AtFence, LeasedStates
    <2>2. CheckFence(g)
      BY <1>2, <1>3, <2>1, FenceMeans
    <2>3. t \in AssignedTo(n)
      BY <1>2, <1>3, <2>2 DEF CheckFence, AssignedTo
    <2>4. CanRelease(n, t)
      BY <1>3, <2>3, LeaseCounted
    <2> QED
      BY <1>2, <1>6, <2>1, <2>2, <2>4 DEF Accepts
  <1>12. ASSUME NEW h \in grants, Open(h), st[Output(h.task)] = h.attempt
         PROVE  s2[Output(h.task)] = h.attempt
    <2>1. h.task \in TaskId
      BY <1>3, FenceMeans
    <2>2. CASE Output(h.task) = o
      <3>1. h.task = t
        BY <2>2 DEF Output
      <3>2. h = g
        BY <1>2, <1>3, <1>4, <1>12, <2>2, <3>1 DEF AttemptsBounded
      <3> QED
        BY <1>11, <1>12, <3>2
    <2>3. CASE Output(h.task) # o
      BY <1>9, <1>12, <2>1, <2>3 DEF ObjectId
    <2> QED
      BY <2>2, <2>3
  <1>13. \A h \in grants' : Open(h)' => Open(h)
    BY <1>8 DEF Open, AtFence
  <1> HIDE DEF g, r, t
  <1> QED
    BY <1>8, <1>9, <1>10, <1>12, <1>13 DEF KeepsBytes

LEMMA ReportStep ==
  ASSUME ClusterInv, NEW n \in NodeId, Report(n)
  PROVE  ClusterInv'
  <1>1. PICK p : p = proc[n]
    OBVIOUS
  <1>2. PICK st : st = store[n]
    OBVIOUS
  <1>3. PICK verdict : verdict = Verdict(Request(n))
    OBVIOUS
  <1>4. p.pc \in Reporting /\ Effect(Request(n)) /\ UNCHANGED ghosts
    BY <1>1 DEF Report
  <1>5. Calls(n)
    BY <1>1, <1>4 DEF Calls, InSession, Reporting
  <1>6. Tolerated
    BY <1>4, <1>5, RequestIsOK, EffectTolerated
  <1>7. /\ NodeOK(n, p, st)' /\ p \in Process' /\ st \in [ObjectId -> Nat]
        /\ NodeOK(n, p, st)
    BY <1>1, <1>2, <1>6, NodeNext
  <1>8. \A r \in ghosts' : GhostOK(r, proc, store)
    BY <1>4, GhostsStay
  <1>9. p.pc \in InSession /\ p.pc # "exited" /\ p.pc # "idle"
    BY <1>4 DEF InSession, Reporting
  <1>10. CASE verdict \in {"TaskNotFound", "ObjectConflict"}
    <2>1. Exit(n, verdict)
      BY <1>1, <1>3, <1>10 DEF Report
    <2> QED
      BY <1>6, <1>8, <1>10, <2>1, NodeExits DEF ExitReason
  <1>11. CASE /\ verdict \notin {"TaskNotFound", "ObjectConflict"}
              /\ p.pc = "starting"
    <2>1. /\ Becomes(n, Busy(proc[n], "fetching", proc[n].grant))
          /\ UNCHANGED store
      BY <1>1, <1>3, <1>11 DEF Report
    <2>2. LocalsOK(n, p, st)' /\ AssignmentOK(n, p)'
      BY <1>7 DEF NodeOK
    <2>3. PICK g : g = proc[n].grant
      OBVIOUS
    <2>4. ~Unbegun(g)'
      BY <1>1, <1>4, <1>11, <2>3, StartBegins
    <2>5. /\ g \in grants' /\ g.node = n /\ g.session = proc[n].session
          /\ CheckIdentity(n, g.session)' => Held(g)'
      BY <1>1, <1>9, <1>11, <2>2, <2>3 DEF LocalsOK, AssignmentOK, Process,
         Working
    <2>6. /\ "fetching" \in InSession \ {"idle", "completing"}
          /\ proc[n].pc \in Working /\ proc[n].pc \in InSession
      BY <1>1, <1>11 DEF InSession, Reporting, Working
    <2> QED
      BY <1>4, <1>6, <2>1, <2>3, <2>4, <2>5, <2>6, NodeTakesUp
  <1>12. CASE /\ verdict \notin {"TaskNotFound", "ObjectConflict"}
              /\ p.pc # "starting"
    <2>1. PICK q : q = Idle(p)
      OBVIOUS
    <2>2. proc' = [proc EXCEPT ![n] = q]
      BY <1>1, <1>3, <1>12, <2>1 DEF Report, Becomes
    <2>3. Like(p, q, "idle", NoGrant)
      BY <1>7, <2>1, Records
    <2>4. CASE p.pc = "completing" /\ verdict = "Refused"
      <3>1. PICK o : o = Output(proc[n].grant.task)
        OBVIOUS
      <3>2. PICK s2 : s2 = [st EXCEPT ![o] = 0]
        OBVIOUS
      <3>3. DOMAIN store = NodeId
        BY DEF ClusterInv, IsRow
      <3>4. store' = [store EXCEPT ![n] = s2]
        BY <1>1, <1>2, <1>3, <1>12, <2>4, <3>1, <3>2, <3>3 DEF Report
      <3>5. KeepsBytes(n, st, s2)
        BY <1>1, <1>2, <1>3, <1>4, <1>7, <2>4, <3>1, <3>2, DropIsSafe
      <3>6. NodeOK(n, q, s2)' /\ Passes(n, p, q, st, s2)
        BY <1>7, <1>9, <2>3, <3>5, PutsDown
      <3> QED
        BY <1>1, <1>2, <1>6, <1>8, <2>2, <3>4, <3>6, NodeTurns
    <2>5. CASE ~(p.pc = "completing" /\ verdict = "Refused")
      <3>1. UNCHANGED store
        BY <1>1, <1>3, <1>12, <2>5 DEF Report
      <3> QED
        BY <1>1, <1>6, <1>8, <1>9, <2>2, <2>3, <3>1, NodePutsDown
    <2> QED
      BY <2>4, <2>5
  <1> QED
    BY <1>10, <1>11, <1>12

\* An attempt that fails, beside any step of the coordinator.
LEMMA AfterIoStep ==
  ASSUME ClusterInv, Tolerated, NEW n \in NodeId, Up(n), AfterIo(n),
         \A r \in ghosts' : GhostOK(r, proc, store)
  PROVE  ClusterInv'
  <1>1. PICK p : p = proc[n]
    OBVIOUS
  <1>2. CASE p.pc \in {"registering", "idle", "running"}
    <2>1. PICK q : q = [p EXCEPT !.again = FALSE]
      OBVIOUS
    <2>2. proc' = [proc EXCEPT ![n] = q] /\ UNCHANGED store
      BY <1>1, <1>2, <2>1 DEF AfterIo, Becomes
    <2>3. p \in Process' => Like(p, q, p.pc, p.grant)
      BY <2>1, Records
    <2> QED
      BY <1>1, <2>2, <2>3, NodeGoesOn
  <1>3. CASE p.pc = "acking"
    <2>1. Exit(n, "transport")
      BY <1>1, <1>3 DEF AfterIo
    <2> QED
      BY <2>1, NodeExits DEF ExitReason
  <1>4. CASE p.pc \notin {"registering", "idle", "running", "acking"}
    <2>1. PICK q : q = Reconnect(p)
      OBVIOUS
    <2>2. /\ proc' = [proc EXCEPT ![n] = q] /\ UNCHANGED store
          /\ p.pc # "exited"
      BY <1>1, <1>4, <2>1 DEF AfterIo, Becomes, Up
    <2>3. p \in Process' => Like(p, q, "backoff", NoGrant)
      BY <2>1, Records
    <2> QED
      BY <1>1, <2>2, <2>3, NodePutsDown
  <1> QED
    BY <1>2, <1>3, <1>4

LEMMA HungUpStep ==
  ASSUME ClusterInv, NEW n \in NodeId, HungUp(n)
  PROVE  ClusterInv'
  <1>1. Up(n) /\ AfterIo(n) /\ UNCHANGED vars /\ UNCHANGED ghosts
    BY DEF HungUp, Up, Reporting
  <1>2. Tolerated /\ \A r \in ghosts' : GhostOK(r, proc, store)
    BY <1>1, IdleTolerated, GhostsStay DEF ClusterInv
  <1> QED
    BY <1>1, <1>2, AfterIoStep

\* A request that is not answered has its effect now, or is left behind.
LEMMA UnansweredStep ==
  ASSUME ClusterInv, NEW n \in NodeId, Unanswered(n)
  PROVE  ClusterInv'
  <1>1. Calls(n) /\ Up(n)
    BY DEF Unanswered, Calls, Up, InSession, Reporting
  <1>2. GhostOK(Request(n), proc, store)
    BY <1>1, RequestIsOK
  <1>3. Tolerated /\ \A r \in ghosts' : GhostOK(r, proc, store)
    <2>1. CASE Effect(Request(n)) /\ UNCHANGED ghosts
      BY <1>2, <2>1, EffectTolerated, GhostsStay
    <2>2. CASE UNCHANGED vars /\ ghosts' = ghosts \cup {Request(n)}
      BY <1>2, <2>2, IdleTolerated DEF ClusterInv
    <2> QED
      BY <2>1, <2>2 DEF Unanswered
  <1>4. CASE AfterIo(n)
    BY <1>1, <1>3, <1>4, AfterIoStep
  <1>5. CASE Becomes(n, [proc[n] EXCEPT !.again = TRUE]) /\ UNCHANGED store
    <2>1. PICK p : p = proc[n]
      OBVIOUS
    <2>2. PICK q : q = [p EXCEPT !.again = TRUE]
      OBVIOUS
    <2>3. proc' = [proc EXCEPT ![n] = q] /\ UNCHANGED store
      BY <1>5, <2>1, <2>2 DEF Becomes
    <2>4. p \in Process' => Like(p, q, p.pc, p.grant)
      BY <2>2, Records
    <2> QED
      BY <1>3, <2>1, <2>3, <2>4, NodeGoesOn
  <1> QED
    BY <1>4, <1>5 DEF Unanswered

LEMMA NextSessionStep ==
  ASSUME ClusterInv, NEW n \in NodeId, NextSession(n)
  PROVE  ClusterInv'
  <1>1. PICK p : p = proc[n]
    OBVIOUS
  <1>2. PICK st : st = store[n]
    OBVIOUS
  <1>3. UNCHANGED vars /\ UNCHANGED ghosts /\ p.pc = "backoff"
    BY <1>1 DEF NextSession
  <1>4. Tolerated /\ \A r \in ghosts' : GhostOK(r, proc, store)
    BY <1>3, IdleTolerated, GhostsStay DEF ClusterInv
  <1>5. NodeOK(n, p, st)' /\ p \in Process'
    BY <1>1, <1>2, <1>4, NodeNext
  <1>6. CASE p.drain
    <2>1. Exit(n, "drained")
      BY <1>1, <1>6 DEF NextSession
    <2> QED
      BY <1>4, <2>1, NodeExits DEF ExitReason
  <1>7. CASE ~p.drain
    <2> DEFINE e == p.epoch + 1
    <2>e. p.epoch \in Nat /\ p.first \in Nat
      BY <1>5 DEF Process
    <2>f. e \in Nat /\ p.epoch <= e /\ \A x \in Nat : x <= p.epoch => x <= e
      BY <2>e
    <2>1. PICK q : q = [p EXCEPT !.pc = "registering", !.epoch = e]
      OBVIOUS
    <2>2. /\ e \in WorkerEpoch /\ UNCHANGED store
          /\ proc' = [proc EXCEPT ![n] = q]
      BY <1>1, <1>7, <2>1 DEF NextSession, Becomes
    <2> HIDE DEF e
    <2>3. /\ q \in Process' /\ q.pc = "registering" /\ q.grant = p.grant
          /\ q.epoch = e /\ q.first = p.first
          /\ q.session = p.session /\ q.exit = p.exit
      BY <1>5, <2>1, <2>f DEF Process
    <2>4. LocalsOK(n, p, st)' /\ SessionOK(n, p)' /\ StoreOK(n, p, st)'
      BY <1>5 DEF NodeOK
    <2>5. LocalsOK(n, q, st)'
      BY <1>3, <2>3, <2>4 DEF LocalsOK, InSession, Reporting
    <2>6. SessionOK(n, q)'
      <3>1. Registered(n)' => workers'[n].workerEpoch \in Nat
        BY <1>1, <1>2, <1>4, NodeNext, EpochTypes
      <3>2. Registered(n)' => workers'[n].workerEpoch <= q.epoch
        BY <2>f, <2>3, <2>4, <3>1 DEF SessionOK
      <3>3. p.first <= q.epoch
        BY <2>e, <2>f, <2>3, <2>4 DEF SessionOK
      <3> QED
        BY <2>2, <2>3, <2>4, <3>2, <3>3 DEF SessionOK, InSession, Reporting
    <2>7. AssignmentOK(n, q)'
      BY <2>3 DEF AssignmentOK, Working, InSession, Reporting
    <2>8. StoreOK(n, q, st)'
      <3>1. Answers(n, q)' => Answers(n, p)'
        BY <1>3, <2>3 DEF Answers
      <3> QED
        BY <2>3, <2>4, <3>1 DEF StoreOK
    <2>9. NodeOK(n, q, st)'
      BY <2>5, <2>6, <2>7, <2>8 DEF NodeOK
    <2>10. Passes(n, p, q, st, st)
      BY <1>3, <2>f, <2>3 DEF Passes, Working
    <2> QED
      BY <1>1, <1>2, <1>4, <2>2, <2>9, <2>10, SameStore, NodeTurns
  <1> QED
    BY <1>6, <1>7

\* A process that is started again owes readers nothing: whatever its node
\* owned was registered under an epoch of the one before.
LEMMA StartAgainStep ==
  ASSUME ClusterInv, NEW n \in NodeId, StartAgain(n)
  PROVE  ClusterInv'
  <1>1. PICK p : p = proc[n]
    OBVIOUS
  <1>2. PICK st : st = store[n]
    OBVIOUS
  <1>3. /\ UNCHANGED vars /\ UNCHANGED <<store, ghosts>> /\ p.pc = "exited"
        /\ p.epoch + 1 \in WorkerEpoch
    BY <1>1 DEF StartAgain, Up
  <1>4. Tolerated /\ \A r \in ghosts' : GhostOK(r, proc, store)
    BY <1>3, IdleTolerated, GhostsStay DEF ClusterInv
  <1>5. /\ CoordInv' /\ NodeOK(n, p, st)' /\ p \in Process'
        /\ st \in [ObjectId -> Nat]
    BY <1>1, <1>2, <1>4, NodeNext
  <1>6. p.epoch \in Nat /\ SessionOK(n, p)'
    BY <1>5 DEF NodeOK, Process
  <1> DEFINE e == p.epoch + 1
  <1>e. /\ e \in WorkerEpoch /\ e \in Nat /\ p.epoch <= e /\ e <= e
        /\ \A x \in Nat : x <= p.epoch => x <= e /\ ~(x >= e)
    BY <1>3, <1>6
  <1>7. PICK q : q = Born(e)
    OBVIOUS
  <1>8. proc' = [proc EXCEPT ![n] = q]
    BY <1>1, <1>7 DEF StartAgain, Becomes
  <1> HIDE DEF e
  <1>9. /\ q.pc = "registering" /\ q.grant = NoGrant /\ q.session = 0
        /\ q.epoch = e /\ q.first = e /\ q.exit = "" /\ q \in Process'
    BY <1>7, <1>e DEF Born, Process, ExitReason
  <1>10. ASSUME Registered(n)'
         PROVE  /\ workers'[n].workerEpoch \in Nat
                /\ workers'[n].workerEpoch <= p.epoch
    BY <1>5, <1>6, <1>10, EpochTypes DEF SessionOK
  <1>11. LocalsOK(n, q, st)' /\ SessionOK(n, q)' /\ AssignmentOK(n, q)'
    <2>1. LocalsOK(n, q, st)'
      BY <1>5, <1>9 DEF LocalsOK, InSession, Reporting
    <2>2. Registered(n)' => workers'[n].workerEpoch <= q.epoch
      BY <1>9, <1>10, <1>e
    <2>3. SessionOK(n, q)'
      BY <1>9, <1>e, <2>2 DEF SessionOK, InSession, Reporting
    <2> QED
      BY <1>9, <2>1, <2>3 DEF AssignmentOK, Working, InSession, Reporting
  <1>12. StoreOK(n, q, st)'
    <2>1. ASSUME NEW o \in ObjectId, objects'[o].state = "Available",
                 objects'[o].location = n, Answers(n, q)'
          PROVE  FALSE
      <3>1. Registered(n)'
        BY <1>5, <2>1 DEF CoordInv, LifeInv, AvailableHasHome, Registered
      <3> QED
        BY <1>9, <1>10, <1>e, <2>1, <3>1 DEF Answers
    <2> QED
      BY <1>9, <2>1 DEF StoreOK
  <1>13. NodeOK(n, q, st)' /\ Passes(n, p, q, st, st)
    <2>1. ~(e <= p.epoch)
      BY <1>6, <1>e
    <2> QED
      BY <1>9, <1>11, <1>12, <1>e, <2>1 DEF NodeOK, Passes, Working
  <1> QED
    BY <1>1, <1>2, <1>3, <1>4, <1>8, <1>13, SameStore, NodeTurns

LEMMA BeatStep ==
  ASSUME ClusterInv, NEW n \in NodeId, Beat(n)
  PROVE  ClusterInv'
  <1>1. PICK p : p = proc[n]
    OBVIOUS
  <1>2. /\ proc[n].pc \in InSession /\ UNCHANGED <<store, ghosts>>
        /\ Heartbeat(p.session) \/ UNCHANGED vars
    BY <1>1 DEF Beat
  <1>3. p.session \in DOMAIN sessions
    BY <1>1, <1>2, SessionKnown
  <1>4. Tolerated
    BY <1>2, <1>3, HeartbeatMoves, MovesTolerated, IdleTolerated DEF ClusterInv
  <1>5. \A r \in ghosts' : GhostOK(r, proc, store)
    BY <1>2, GhostsStay
  <1>6. PICK h \in {"sent", "stopped"} :
          proc' = [proc EXCEPT ![n] = [p EXCEPT !.heart = h]]
    BY <1>1 DEF Beat, Becomes
  <1>7. PICK q : q = [p EXCEPT !.heart = h]
    OBVIOUS
  <1>8. p \in Process' => Like(p, q, p.pc, p.grant)
    BY <1>7, Records
  <1> QED
    BY <1>1, <1>2, <1>4, <1>5, <1>6, <1>7, <1>8, NodeGoesOn

LEMMA ClockStep ==
  ASSUME ClusterInv, Clock
  PROVE  ClusterInv'
  <1>1. CoordMoves({}, {})
    BY TimeMoves DEF Clock, ClusterInv
  <1>2. \A m \in NodeId : SafeFor(m, proc[m], store[m], {}, {})
    BY DEF SafeFor
  <1>3. PICK P : P = proc
    OBVIOUS
  <1>4. PICK S : S = store
    OBVIOUS
  <1>5. PICK P2 : P2 = proc'
    OBVIOUS
  <1>6. /\ S = store' /\ IsRow(S) /\ UNCHANGED ghosts
        /\ P2 = [n \in NodeId |-> IF P[n].heart = "sent"
                   THEN [P[n] EXCEPT !.heart = "due"] ELSE P[n]]
    BY <1>3, <1>4, <1>5 DEF Clock, ClusterInv
  <1>7. IsRow(P2)
    BY <1>6 DEF IsRow
  <1>8. ASSUME NEW m \in NodeId
        PROVE  /\ NodeOK(m, P2[m], S[m])'
               /\ Passes(m, P[m], P2[m], S[m], S[m])
    <2>1. PICK p : p = P[m]
      OBVIOUS
    <2>2. PICK st : st = S[m]
      OBVIOUS
    <2>3. PICK q : q = P2[m]
      OBVIOUS
    <2>4. NodeOK(m, p, st)' /\ p \in Process'
      BY <1>1, <1>3, <1>4, <2>1, <2>2, MovesTolerated, NodeNext
    <2>5. q = p \/ q = [p EXCEPT !.heart = "due"]
      BY <1>6, <2>1, <2>3
    <2>6. Like(p, q, p.pc, p.grant)
      <3>1. q = p => Like(p, q, p.pc, p.grant)
        BY <2>4 DEF Like
      <3> QED
        BY <2>4, <2>5, <3>1, Records
    <2>7. NodeOK(m, q, st)' /\ Passes(m, p, q, st, st)
      BY <2>4, <2>6, GoesOn
    <2> QED
      BY <2>1, <2>2, <2>3, <2>7
  <1>9. \A r \in ghosts' : GhostOK(r, proc, store)
    BY <1>6, GhostsStay
  <1> QED
    BY <1>1, <1>2, <1>3, <1>4, <1>5, <1>6, <1>7, <1>8, <1>9, ProcessesStep

LEMMA SignalStep ==
  ASSUME ClusterInv, NEW n \in NodeId, Signal(n)
  PROVE  ClusterInv'
  <1>1. PICK p : p = proc[n]
    OBVIOUS
  <1>2. PICK q : q = [p EXCEPT !.drain = TRUE]
    OBVIOUS
  <1>3. /\ UNCHANGED vars /\ UNCHANGED store
        /\ proc' = [proc EXCEPT ![n] = q]
    BY <1>1, <1>2 DEF Signal, Becomes
  <1>4. Tolerated
    BY <1>3, IdleTolerated DEF ClusterInv
  <1>5. p \in Process' => Like(p, q, p.pc, p.grant)
    BY <1>2, Records
  <1>6. \A r \in ghosts' : GhostOK(r, proc, store)
    <2>1. CASE p.session = 0
      BY <1>1, <2>1, GhostsStay DEF Signal
    <2>2. CASE p.session # 0
      <3>1. PICK r : r = [kind |-> "drain", session |-> p.session]
        OBVIOUS
      <3>2. ghosts' = ghosts \cup {r}
        BY <1>1, <2>2, <3>1 DEF Signal
      <3>3. p.session \in DOMAIN sessions
        BY <1>1, <2>2 DEF ClusterInv, NodeOK, SessionOK
      <3>4. GhostOK(r, proc, store)
        BY <3>1, <3>3 DEF GhostOK
      <3> QED
        BY <3>2, <3>4 DEF ClusterInv
    <2> QED
      BY <2>1, <2>2
  <1> QED
    BY <1>1, <1>3, <1>4, <1>5, <1>6, NodeGoesOn

LEMMA EndStep ==
  ASSUME ClusterInv, NEW n \in NodeId, Drained(n) \/ Killed(n)
  PROVE  ClusterInv'
  <1>1. /\ UNCHANGED vars /\ UNCHANGED ghosts
        /\ Exit(n, "drained") \/ Exit(n, "killed")
    BY DEF Drained, Killed
  <1>2. Tolerated /\ \A r \in ghosts' : GhostOK(r, proc, store)
    BY <1>1, IdleTolerated, GhostsStay DEF ClusterInv
  <1> QED
    BY <1>1, <1>2, NodeExits DEF ExitReason

\* The steps in which no process takes part.
LEMMA OtherStep ==
  ASSUME ClusterInv, \/ Late \/ RestartCoordinator \/ Others
                     \/ UNCHANGED allVars
  PROVE  ClusterInv'
  <1>1. ASSUME Tolerated, UNCHANGED <<proc, store>>, ghosts' \subseteq ghosts
        PROVE  ClusterInv'
    <2>1. PICK F, C : /\ CoordMoves(F, C) /\ C \subseteq grants
                      /\ \A m \in NodeId :
                           SafeFor(m, proc[m], store[m], F, C)
      BY <1>1 DEF Tolerated
    <2>2. \A r \in ghosts' : GhostOK(r, proc, store)
      BY <1>1 DEF ClusterInv
    <2> QED
      BY <1>1, <2>1, <2>2, ProcessesStay
  <1>2. CASE Late
    <2>1. PICK r \in ghosts : Effect(r)
      BY <1>2 DEF Late
    <2>2. Tolerated
      BY <2>1, EffectTolerated DEF ClusterInv
    <2>3. UNCHANGED <<proc, store>> /\ ghosts' \subseteq ghosts
      BY <1>2 DEF Late
    <2> QED
      BY <1>1, <2>2, <2>3
  <1>3. CASE RestartCoordinator
    <2>1. Tolerated
      BY <1>3, RestartMoves, MovesTolerated DEF RestartCoordinator, ClusterInv
    <2> QED
      BY <1>1, <1>3, <2>1 DEF RestartCoordinator
  <1>4. CASE Others
    <2>1. ClientRequest \/ ExpireWorkers \/ ReapTerminalTasks
      BY <1>4 DEF Others
    <2>2. Tolerated
      BY <2>1, ClientMoves, TimeMoves, MovesTolerated DEF ClusterInv
    <2> QED
      BY <1>1, <1>4, <2>2 DEF Others, procVars
  <1>5. CASE UNCHANGED allVars
    <2>1. UNCHANGED vars /\ UNCHANGED <<proc, store, ghosts>>
      BY <1>5 DEF allVars, procVars
    <2>2. Tolerated
      BY <2>1, IdleTolerated DEF ClusterInv
    <2> QED
      BY <1>1, <2>1, <2>2
  <1> QED
    BY <1>2, <1>3, <1>4, <1>5

----------------------------------------------------------------------------
(* The invariant, and what it says of the cluster.                         *)

LEMMA ClusterInitInv == ClusterInit => ClusterInv
  <1> SUFFICES ASSUME ClusterInit PROVE ClusterInv
    OBVIOUS
  <1>1. Init /\ proc = [n \in NodeId |-> Born(1)]
        /\ store = [n \in NodeId |-> Empty] /\ ghosts = {}
    BY DEF ClusterInit
  <1>2. CoordInv
    <2>1. CoreInv /\ LifeInv /\ BooksBalance /\ QueueInv
      BY <1>1, InitCore, InitLife, InitBooks
    <2>2. GrantsSound /\ WorkersSound /\ BytesNamed
      BY <1>1 DEF Init, GrantsSound, WorkersSound, BytesNamed, Registered,
         NoWorker, NoObject
    <2> QED
      BY <2>1, <2>2 DEF CoordInv
  <1>3. IsRow(proc) /\ IsRow(store)
    BY <1>1 DEF IsRow
  <1>4. ASSUME NEW n \in NodeId PROVE NodeOK(n, proc[n], store[n])
    <2> DEFINE p == proc[n]
               st == store[n]
    <2>1. PICK e \in Nat : p = Born(e) /\ e <= e /\ e \in WorkerEpoch
      BY <1>1, WorkerBounds
    <2>2. st \in [ObjectId -> Nat]
      BY <1>1 DEF Empty
    <2> HIDE DEF p, st
    <2>3. /\ p.pc = "registering" /\ p.epoch = e /\ p.first = e
          /\ p.session = 0 /\ p.grant = NoGrant /\ p.exit = ""
          /\ p \in Process
      BY <2>1 DEF Born, Process, ExitReason
    <2>4. ~Registered(n) /\ \A o \in ObjectId : objects[o].state # "Available"
      BY <1>1 DEF Init, Registered, NoWorker, NoObject
    <2>5. LocalsOK(n, p, st)
      BY <2>2, <2>3 DEF LocalsOK, InSession, Reporting
    <2>6. SessionOK(n, p)
      BY <2>1, <2>3, <2>4 DEF SessionOK, InSession, Reporting
    <2>7. AssignmentOK(n, p) /\ StoreOK(n, p, st)
      BY <2>3, <2>4 DEF AssignmentOK, StoreOK, Working, InSession, Reporting
    <2> QED
      BY <2>5, <2>6, <2>7 DEF NodeOK, p, st
  <1> QED
    BY <1>1, <1>2, <1>3, <1>4 DEF ClusterInv

LEMMA ClusterStep == ClusterInv /\ [ClusterNext]_allVars => ClusterInv'
  <1> SUFFICES ASSUME ClusterInv, [ClusterNext]_allVars PROVE ClusterInv'
    OBVIOUS
  <1>1. ASSUME NEW n \in NodeId, Session(n)
        PROVE  ClusterInv'
    BY <1>1, RegisterStep, IdlePollStep, FetchStep, ReportStep, HungUpStep,
       NextSessionStep DEF Session
  <1>2. ASSUME NEW n \in NodeId, BusyPoll(n) \/ Operates(n)
        PROVE  ClusterInv'
    BY <1>2, BusyPollStep, OperationSucceedsStep, OperationFailsStep
       DEF Operates
  <1>3. ASSUME NEW n \in NodeId,
               \/ Unanswered(n) \/ Beat(n) \/ Signal(n) \/ Drained(n)
               \/ Killed(n) \/ StartAgain(n)
        PROVE  ClusterInv'
    BY <1>3, UnansweredStep, BeatStep, SignalStep, EndStep, StartAgainStep
  <1>4. CASE \/ Late \/ Clock \/ RestartCoordinator \/ Others
             \/ UNCHANGED allVars
    BY <1>4, ClockStep, OtherStep
  <1> QED
    BY <1>1, <1>2, <1>3, <1>4 DEF ClusterNext

\* The coordinator and its workers together keep ClusterInv: under lost,
\* repeated and late calls, reconnects, restarts of a worker's process and
\* of the coordinator's (run_worker, request, dispatch).
THEOREM ClusterInvariant == ClusterSpec => []ClusterInv
  BY ClusterInitInv, ClusterStep, PTL DEF ClusterSpec

\* run_worker_session and execute_assignment hold an assignment exactly while
\* they work on one, granted to the identity they report under.
THEOREM ProcessesTyped == ClusterSpec => []ProcTypeOK
  <1>1. ClusterInv => ProcTypeOK
    <2> SUFFICES ASSUME ClusterInv PROVE ProcTypeOK
      OBVIOUS
    <2>1. \A n \in NodeId : LocalsOK(n, proc[n], store[n])
      BY DEF ClusterInv, NodeOK
    <2>2. IsRow(proc) /\ IsRow(store)
      BY DEF ClusterInv
    <2>3. /\ proc \in [NodeId -> Process]
          /\ store \in [NodeId -> [ObjectId -> Nat]]
      BY <2>1, <2>2 DEF IsRow, LocalsOK
    <2> QED
      BY <2>1, <2>3 DEF ProcTypeOK, LocalsOK
  <1> QED
    BY <1>1, ClusterInvariant, PTL

\* Readers that resolve_object sends to a live worker find there the bytes
\* the coordinator recorded, whatever the worker deleted on a refused report
\* or on request, and however late its completions arrived.
THEOREM ReadersFindBytes == ClusterSpec => []StoreBacksOwned
  <1>1. ClusterInv => StoreBacksOwned
    BY DEF ClusterInv, NodeOK, StoreOK, Answers, StoreBacksOwned, Up
  <1> QED
    BY <1>1, ClusterInvariant, PTL

\* The protocol error "worker received assignment while busy" and its twin
\* for cancellations never happen.
THEOREM NeverStray == ClusterSpec => []NoStrayAssignment
  <1>1. ClusterInv => NoStrayAssignment
    BY DEF ClusterInv, NodeOK, LocalsOK, NoStrayAssignment
  <1> QED
    BY <1>1, ClusterInvariant, PTL

\* What Spec promises of the coordinator's tables survives its restarts too,
\* with workers that go on in sessions it no longer knows.
CoordinatorSound ==
  /\ TypeOK /\ IndexesExact /\ OutputMatchesTask /\ LeasesAreCurrent
  /\ AttemptsBounded /\ ArgumentsHeld /\ WaitersArePending /\ QueueExact
  /\ SlotsAccounted /\ ResourcesConserved /\ AvailableHasHome
  /\ DeletesAreDead /\ CatalogueAgrees

\* Of the coordinator's promises none depends on its never being replaced, or
\* on workers that give up when it is.
THEOREM CoordinatorKept == ClusterSpec => []CoordinatorSound
  <1>1. ClusterInv => CoordinatorSound
    <2> SUFFICES ASSUME CoordInv PROVE CoordinatorSound
      BY DEF ClusterInv
    <2>1. /\ TypeOK /\ IndexesExact /\ OutputMatchesTask /\ LeasesAreCurrent
      BY DEF CoordInv, CoreInv
    <2>2. /\ AttemptsBounded /\ WaitersArePending /\ AvailableHasHome
          /\ DeletesAreDead /\ CatalogueAgrees /\ QueueExact
      BY DEF CoordInv, LifeInv, QueueInv
    <2>3. ArgumentsHeld
      BY DEF CoordInv, LifeInv, ArgumentsHeld, WaitersArePending,
         InputsProduced, CodecsFixed, Broken
    <2>4. SlotsAccounted /\ ResourcesConserved
      BY DEF CoordInv, BooksBalance, Balanced, SlotsAccounted,
         ResourcesConserved
    <2> QED
      BY <2>1, <2>2, <2>3, <2>4 DEF CoordinatorSound
  <1> QED
    BY <1>1, ClusterInvariant, PTL

----------------------------------------------------------------------------
(* The coordinator is driven by any request at any time in Coordinator; in *)
(* the cluster it is driven by its workers.  The first covers the second.  *)

LEMMA ApplyIsStep ==
  ASSUME CoordInv, NEW r, r.grant \in grants,
         r.kind \in Final => r.flag \in BOOLEAN, Apply(r)
  PROVE  Next
  <1> DEFINE g == r.grant
             out == operations[tasks[g.task].op].out
  <1>1. CASE r.kind = "completing"
    <2>1. Complete(g, out, r.flag) /\ r.flag \in BOOLEAN
      BY <1>1 DEF Apply, Final
    <2>2. Live(g.task) /\ g.task \in TaskId
      BY <2>1 DEF Complete, Accepts, Live, LiveStates, CoordInv, CoreInv,
         TypeOK, Grant
    <2>3. out \in Codec
      BY <2>2, OutCodec
    <2> QED
      BY <2>1, <2>3 DEF TaskReport, Next
  <1>2. CASE r.kind # "completing"
    BY <1>2 DEF Apply, TaskReport, Next, Final
  <1> QED
    BY <1>1, <1>2

LEMMA EffectIsStep ==
  ASSUME CoordInv, NEW r, GhostOK(r, proc, store), Effect(r)
  PROVE  [Next]_vars
  <1>1. CASE r.kind = "register"
    <2>1. /\ r.node \in NodeId /\ r.epoch \in WorkerEpoch
          /\ WorkerOffer[r.node] \in Offer
      BY <1>1, WorkerBounds DEF GhostOK, Final
    <2>2. UNCHANGED vars \/ Registers(r.node, r.epoch)
      BY <1>1 DEF Effect
    <2> QED
      BY <2>1, <2>2 DEF Registers, Next, WorkerRequest
  <1>2. CASE r.kind \in {"poll", "drain"}
    <2>1. r.session \in DOMAIN sessions /\ sessions[r.session] \in NodeId
      BY <1>2 DEF GhostOK, Final, CoordInv, CoreInv, TypeOK
    <2>2. \/ UNCHANGED vars \/ PollDelete(sessions[r.session])
          \/ PollAssign(r.session) \/ PollEmpty(r.session) \/ Drain(r.session)
      BY <1>2 DEF Effect, PollIdle, PollStale, PollCancels, PollRepeats
    <2> QED
      BY <2>1, <2>2 DEF Next, WorkerRequest
  <1>3. CASE r.kind \in Reporting
    <2>1. r.grant \in grants /\ (r.kind \in Final => r.flag \in BOOLEAN)
      BY <1>3 DEF GhostOK, FinalOK, Reporting, Final
    <2>2. UNCHANGED vars \/ Apply(r)
      BY <1>3 DEF Effect, Reporting
    <2> QED
      BY <2>1, <2>2, ApplyIsStep
  <1> QED
    BY <1>1, <1>2, <1>3 DEF GhostOK, Reporting, Final

LEMMA PollIsStep ==
  ASSUME ClusterInv, NEW n \in NodeId, IdlePoll(n) \/ BusyPoll(n)
  PROVE  [Next]_vars
  <1> DEFINE s == proc[n].session
  <1>1. s \in DOMAIN sessions
    BY SessionKnown DEF IdlePoll, BusyPoll, InSession
  <1>2. \/ UNCHANGED vars \/ PollDelete(n) \/ PollAssign(s) \/ PollEmpty(s)
    BY DEF IdlePoll, BusyPoll, Delete, PollCancels, PollRepeats, PollIdle,
       PollStale
  <1> HIDE DEF s
  <1> QED
    BY <1>1, <1>2 DEF Next, WorkerRequest

LEMMA ClusterStepIs ==
  ASSUME ClusterInv, [ClusterNext]_allVars
  PROVE  [Next]_vars \/ Restart
  <1>1. CoordInv /\ \A r \in ghosts : GhostOK(r, proc, store)
    BY DEF ClusterInv
  <1>2. ASSUME NEW n \in NodeId, Register(n) PROVE [Next]_vars
    <2>1. proc[n].epoch \in WorkerEpoch /\ WorkerOffer[n] \in Offer
      BY WorkerBounds DEF ClusterInv, NodeOK, SessionOK
    <2>2. UNCHANGED vars \/ Registers(n, proc[n].epoch)
      BY <1>2 DEF Register
    <2> QED
      BY <2>1, <2>2 DEF Registers, Next, WorkerRequest
  <1>3. ASSUME NEW n \in NodeId, Report(n) \/ Unanswered(n) PROVE [Next]_vars
    <2>1. Calls(n)
      BY <1>3 DEF Report, Unanswered, Calls, InSession, Reporting
    <2>2. UNCHANGED vars \/ Effect(Request(n))
      BY <1>3 DEF Report, Unanswered
    <2> QED
      BY <1>1, <2>1, <2>2, RequestIsOK, EffectIsStep
  <1>4. ASSUME NEW n \in NodeId, Beat(n) PROVE [Next]_vars
    <2>1. proc[n].session \in DOMAIN sessions
      BY <1>4, SessionKnown DEF Beat
    <2>2. UNCHANGED vars \/ Heartbeat(proc[n].session)
      BY <1>4 DEF Beat
    <2> QED
      BY <2>1, <2>2 DEF Next, WorkerRequest
  <1>5. ASSUME NEW n \in NodeId,
               \/ Fetch(n) \/ HungUp(n) \/ NextSession(n)
               \/ OperationSucceeds(n) \/ OperationFails(n) \/ Signal(n)
               \/ Drained(n) \/ Killed(n) \/ StartAgain(n)
        PROVE  UNCHANGED vars
    BY <1>5 DEF Fetch, HungUp, NextSession, OperationSucceeds,
       OperationFails, Signal, Drained, Killed, StartAgain
  <1>6. CASE Late
    BY <1>1, <1>6, EffectIsStep DEF Late
  <1>7. CASE Clock \/ Others
    BY <1>7 DEF Clock, Others, Next, Reaper
  <1>8. CASE RestartCoordinator
    BY <1>8 DEF RestartCoordinator
  <1>9. CASE UNCHANGED allVars
    BY <1>9 DEF allVars
  <1> QED
    BY <1>2, <1>3, <1>4, <1>5, <1>6, <1>7, <1>8, <1>9, PollIsStep
       DEF ClusterNext, Session, Operates

\* Whatever the workers send, and whenever it arrives, the coordinator makes
\* a step that Coordinator allows, or starts again: the environment that
\* module is checked and proved against leaves out nothing run_worker does.
THEOREM ClusterDrivesCoordinator ==
  ClusterSpec => Init /\ [][Next \/ Restart]_vars
  <1>1. ClusterInit => Init
    BY DEF ClusterInit
  <1>2. ClusterInv /\ [ClusterNext]_allVars => [Next \/ Restart]_vars
    BY ClusterStepIs
  <1> QED
    BY <1>1, <1>2, ClusterInvariant, PTL DEF ClusterSpec

\* Bytes that were published stay what they were until they are gone, also
\* when the coordinator is replaced: it forgets them, and a late completion
\* for the one before does not bring them back changed.
THEOREM PublishedStaysInCluster == ClusterSpec => PublishedIsImmutable
  <1> DEFINE A == \A o \in ObjectId : objects[o].state = "Available" =>
                    \/ objects'[o].state \in {"Lost", "Absent"}
                    \/ /\ objects'[o].state = "Available"
                       /\ objects'[o].version = objects[o].version
                       /\ objects'[o].codec = objects[o].codec
  <1>1. ClusterInv /\ [ClusterNext]_allVars => [A]_vars
    <2> SUFFICES ASSUME ClusterInv, [ClusterNext]_allVars PROVE A
      OBVIOUS
    <2>1. CASE [Next]_vars
      <3>1. \A o \in ObjectId : ObjectMoves(o)
        BY <2>1, NextEffect DEF StepEffect, AllObjectsMove, ClusterInv, CoordInv
      <3> QED
        BY <3>1 DEF ObjectMoves, Stays, PutAway, Promised, Produced, GivenUp,
           Bereft, Deleted, NoObject
    <2>2. CASE Restart
      BY <2>2, RestartTables DEF ClusterInv, CoordInv
    <2> QED
      BY <2>1, <2>2, ClusterStepIs
  <1>2. ClusterSpec => [][A]_vars
    <2> HIDE DEF A
    <2> QED
      BY <1>1, ClusterInvariant, PTL DEF ClusterSpec
  <1> QED
    BY <1>2 DEF PublishedIsImmutable

\* A fence that has fallen stays down: a report the coordinator refused for
\* its fence once is refused for ever, whoever repeats it and whichever
\* process of the coordinator gets it (check_fence).
FallenFencesStay ==
  [][\A g \in grants : CheckFence(g)' => CheckFence(g)]_allVars

\* No late report is accepted by accident: an attempt's fence falls once, with
\* its report, its worker's lease or the coordinator, and for good.
THEOREM FencesStayDown == ClusterSpec => FallenFencesStay
  <1> DEFINE A == \A g \in grants : CheckFence(g)' => CheckFence(g)
  <1>1. ClusterInv /\ ClusterInv' /\ [ClusterNext]_allVars => [A]_allVars
    <2> SUFFICES ASSUME ClusterInv, ClusterInv', [ClusterNext]_allVars,
                        NEW g \in grants, CheckFence(g)'
                 PROVE  CheckFence(g)
      OBVIOUS
    <2>1. /\ CoreInv /\ AttemptsBounded /\ CoreInv' /\ AttemptsBounded'
      BY DEF ClusterInv, CoordInv, LifeInv
    <2>2. g.task \in TaskId /\ g.node \in NodeId
      BY <2>1, FenceMeans
    <2>3. CASE Restart
      <3>1. tasks'[g.task].state = "Absent"
        BY <2>2, <2>3, RestartTables
      <3> QED
        BY <3>1 DEF CheckFence
    <2>4. CASE [Next]_vars
      <3>1. FencesFall
        BY <2>1, <2>4, NextEffect, FencesDoFall DEF StepEffect
      <3>2. Held(g)'
        <4>1. /\ tasks'[g.task].state # "Absent"
              /\ tasks'[g.task].attempt = g.attempt
              /\ tasks'[g.task].assigned = [node |-> g.node,
                                            session |-> g.session]
          BY DEF CheckFence
        <4>2. tasks'[g.task].assigned # Unassigned
          BY <2>2, <4>1, ConstantsDiffer DEF Unassigned
        <4>3. tasks'[g.task].state \in LeasedStates
          BY <2>1, <2>2, <4>1, <4>2 DEF CoreInv, LeasesAreCurrent
        <4> QED
          BY <4>1, <4>3 DEF Held, AtFence
      <3> QED
        BY <2>1, <3>1, <3>2, FenceMeans DEF FencesFall
    <2> QED
      BY <2>3, <2>4, ClusterStepIs
  <1>2. ClusterSpec => [][A]_allVars
    <2> HIDE DEF A
    <2> QED
      BY <1>1, ClusterInvariant, PTL DEF ClusterSpec
  <1> QED
    BY <1>2 DEF FallenFencesStay

\* Two workers whose sessions are current do not work on the same task.
OneWorkerPerTask ==
  \A m, n \in NodeId :
    (/\ InTouch(m) /\ proc[m].pc \in Working
     /\ InTouch(n) /\ proc[n].pc \in Working
     /\ proc[m].grant.task = proc[n].grant.task) => m = n

\* A task is given to a second worker only when the first one's session is
\* over (assign_next, expire_workers), or its report is in: execute_assignment
\* runs it in at most one process that the coordinator still listens to.
THEOREM NoDoubleExecution == ClusterSpec => []OneWorkerPerTask
  <1>1. ClusterInv => OneWorkerPerTask
    <2> SUFFICES ASSUME ClusterInv, NEW m \in NodeId, NEW n \in NodeId,
                        InTouch(m), proc[m].pc \in Working,
                        InTouch(n), proc[n].pc \in Working,
                        proc[m].grant.task = proc[n].grant.task
                 PROVE  m = n
      BY DEF OneWorkerPerTask
    <2>1. /\ proc[m].grant.task \in AssignedTo(m)
          /\ proc[n].grant.task \in AssignedTo(n)
      BY WorksOnLease DEF InTouch
    <2> QED
      BY <2>1 DEF AssignedTo
  <1> QED
    BY <1>1, ClusterInvariant, PTL
=============================================================================
