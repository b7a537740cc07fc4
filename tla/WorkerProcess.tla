--------------------------- MODULE WorkerProcess ---------------------------
(***************************************************************************)
(* The worker process (bin/crayon_cluster.rs, run_worker and what it       *)
(* calls; data_plane.rs, LocalObjectStore) composed with the coordinator.  *)
(*                                                                         *)
(* A process runs one session after the other: it registers, polls, works  *)
(* on one assignment at a time and reports; a heartbeat task renews the    *)
(* lease beside it.  What ends a session decides whether it reconnects or  *)
(* exits.  Its objects outlive its sessions, but not the process.          *)
(*                                                                         *)
(* Each call goes through `request`, which tries twice.  An attempt that   *)
(* is not answered may have had its effect, may have it later, when nobody *)
(* waits for it (`ghosts`), or never.  A step that makes a call and uses   *)
(* the reply is one action: between the two the process does nothing.      *)
(***************************************************************************)
EXTENDS Coordinator

CONSTANTS
  WorkerOffer,      \* what each node registers with
  MaxLosses,        \* bound on unanswered attempts
  MaxStarts         \* bound on processes started again

ASSUME WorkerBounds ==
  /\ WorkerOffer \in [NodeId -> Offer]
  /\ \A n \in NodeId : WorkerOffer[n].slots = 1
  /\ WorkerEpoch \subseteq Nat /\ 1 \in WorkerEpoch
  /\ {MaxLosses, MaxStarts} \subseteq Nat

VARIABLES
  proc,             \* [NodeId -> Process]
  store,            \* [NodeId -> [ObjectId -> attempt whose bytes it holds]]
  ghosts,           \* attempts nobody waits for any more
  losses, starts,   \* how much of the bounds is used up
  restarts          \* the sessions given out before each restart

procVars == <<proc, store, ghosts, losses, starts, restarts>>
allVars == <<vars, procVars>>

\* The program counter says which call the process is in: `starting`,
\* `completing`, `failing` and `stopping` report on its assignment, `acking`
\* acknowledges a cancellation it learned of while idle.
Reporting == {"starting", "completing", "failing", "stopping", "acking"}
InSession == Reporting \cup {"idle", "fetching", "running"}
NoGrant == [node |-> NoNode]
Empty == [o \in ObjectId |-> 0]
ExitReason == {"", "duplicate", "stray", "conflict", "TaskNotFound",
               "ObjectConflict", "transport", "drained", "killed"}

Process == [pc : InSession \cup {"registering", "backoff", "exited"},
            epoch : Nat, first : Nat,   \* this session's; the process's first
            session : Nat,              \* the last one it was registered with
            grant : grants \cup {NoGrant},
            flag : BOOLEAN,             \* of a report: inline, or transient
            again : BOOLEAN,            \* in the second attempt of the call
            heart : {"due", "sent", "stopped"},
            drain : BOOLEAN, exit : ExitReason]

Born(e) == [pc |-> "registering", epoch |-> e, first |-> e, session |-> 0,
            grant |-> NoGrant, flag |-> FALSE, again |-> FALSE,
            heart |-> "stopped", drain |-> FALSE, exit |-> ""]

Up(n) == proc[n].pc # "exited"
Becomes(n, p) == proc' = [proc EXCEPT ![n] = p]

\* Session ends.  Dropping the session aborts the heartbeat task.
Reconnect_KeepsGrant(p) ==
  [p EXCEPT !.pc = "backoff", !.again = FALSE, !.heart = "stopped"]
Reconnect(p) ==
  [p EXCEPT !.pc = "backoff", !.again = FALSE, !.heart = "stopped",
            !.grant = NoGrant, !.flag = FALSE]
Idle(p) == [p EXCEPT !.pc = "idle", !.again = FALSE, !.grant = NoGrant,
                     !.flag = FALSE]
Busy(p, pc, g) ==
  [p EXCEPT !.pc = pc, !.again = FALSE, !.grant = g]

Exit(n, why) ==
  /\ Becomes(n, [Reconnect(proc[n]) EXCEPT !.pc = "exited", !.exit = why,
                                           !.session = 0, !.drain = FALSE])
  /\ store' = [store EXCEPT ![n] = Empty]

----------------------------------------------------------------------------
(* Requests and what the coordinator does with them.                       *)

Request(n) ==
  LET p == proc[n]
  IN IF p.pc = "registering" THEN [kind |-> "register", node |-> n,
                                   epoch |-> p.epoch]
     ELSE IF p.pc \in Reporting THEN [kind |-> p.pc, grant |-> p.grant,
                                      flag |-> p.flag]
     ELSE [kind |-> "poll", session |-> p.session]

\* The reports that change something; the others are refused or repeat what
\* the coordinator already knows.
Applies(r) ==
  CASE r.kind = "starting" ->
         CheckFence(r.grant) /\ tasks[r.grant.task].state = "Assigned"
    [] r.kind \in {"completing", "failing"} -> Accepts(r.grant)
    [] OTHER -> /\ CheckFence(r.grant)
                /\ tasks[r.grant.task].state = "CancelRequested"

Apply(r) ==
  LET g == r.grant
      out == operations[tasks[g.task].op].out
  IN \/ r.kind = "starting" /\ Started(g)
     \/ r.kind = "completing" /\ Complete(g, out, r.flag)
     \/ r.kind = "failing" /\ r.flag /\ FailRetry(g)
     \/ r.kind = "failing" /\ FailFinally(g, r.flag)
     \/ r.kind \in {"stopping", "acking"} /\ AcknowledgeCancel(g)

\* A duplicate is accepted by the state the task is in, before its fence is
\* looked at.
Repeats(r) ==
  LET t == r.grant.task
  IN CASE r.kind = "starting" -> tasks[t].state = "Running"
       [] r.kind = "completing" ->
            /\ tasks[t].state = "Succeeded"
            /\ objects[Output(t)].state = "Available"
            /\ objects[Output(t)].version = r.grant.attempt
       [] r.kind = "failing" -> Terminal(t)
       [] OTHER -> tasks[t].state = "Cancelled"

Verdict_FenceFirst(r) ==
  IF tasks[r.grant.task].state = "Absent" THEN "TaskNotFound"
  ELSE IF Applies(r) THEN "Accepted" ELSE "Refused"
Verdict(r) ==
  LET t == r.grant.task
  IN IF tasks[t].state = "Absent" THEN "TaskNotFound"
     ELSE IF Applies(r) \/ Repeats(r) THEN "Accepted"
     ELSE IF r.kind = "completing" /\ tasks[t].state = "Succeeded"
     THEN "ObjectConflict"
     ELSE "Refused"           \* IllegalTransition or StaleFence

Refuses(n, epoch) ==
  \/ ~NoConflict(WorkerOffer[n].ops)
  \/ Registered(n) /\ (\/ workers[n].workerEpoch # epoch
                       \/ workers[n].offer # WorkerOffer[n])

Registers(n, epoch) == \/ RegisterWorker(n, epoch, WorkerOffer[n])
                       \/ RegisterAgain(n, epoch, WorkerOffer[n])

\* What a poll is answered from once no delete is pending.
Outstanding(s, state) ==
  LET lease == [node |-> sessions[s], session |-> s]
  IN {t \in TaskId : tasks[t].state = state /\ tasks[t].assigned = lease}
Unstarted_Running(s) ==
  Outstanding(s, "Assigned") \cup Outstanding(s, "Running")
Unstarted_None(s) == {}
Unstarted(s) == Outstanding(s, "Assigned")

GrantOf(t) == [task |-> t, attempt |-> tasks[t].attempt,
               node |-> tasks[t].assigned.node,
               session |-> tasks[t].assigned.session]

NoDeletes(s) == pendingDeletes[sessions[s]] = {}
PollCancels(s, g) ==
  /\ NoDeletes(s) /\ CheckIdentity(sessions[s], s)
  /\ \E t \in Outstanding(s, "CancelRequested") : g = GrantOf(t)
  /\ UNCHANGED vars
PollRepeats(s, g) ==
  /\ NoDeletes(s) /\ CheckIdentity(sessions[s], s)
  /\ Outstanding(s, "CancelRequested") = {}
  /\ \E t \in Unstarted(s) : g = GrantOf(t)
  /\ UNCHANGED vars
PollIdle(s) ==
  \/ PollEmpty(s)
  \/ /\ NoDeletes(s) /\ CheckIdentity(sessions[s], s)
     /\ Outstanding(s, "CancelRequested") = {} /\ Unstarted(s) = {}
     /\ ~CanTake(s)
     /\ UNCHANGED vars
PollStale(s) ==
  NoDeletes(s) /\ ~CheckIdentity(sessions[s], s) /\ UNCHANGED vars

\* The effect of an attempt, answered or not.
Effect(r) ==
  CASE r.kind = "register" ->
         IF Refuses(r.node, r.epoch) THEN UNCHANGED vars
         ELSE Registers(r.node, r.epoch)
    [] r.kind = "poll" ->
         \/ PollDelete(sessions[r.session]) \/ PollAssign(r.session)
         \/ PollIdle(r.session) \/ PollStale(r.session)
         \/ \E g \in grants : PollCancels(r.session, g)
                              \/ PollRepeats(r.session, g)
    [] r.kind = "drain" ->
         IF CheckIdentity(sessions[r.session], r.session)
         THEN Drain(r.session) ELSE UNCHANGED vars
    [] OTHER -> IF Applies(r) THEN Apply(r) ELSE UNCHANGED vars

\* Reports and heartbeats carry the epoch of the coordinator the session is
\* with.  One that was started since hangs up on them; it reads no epoch from
\* registrations and polls.
HangsUp(n) == restarts # <<>> /\ proc[n].session <= Last(restarts)

----------------------------------------------------------------------------
(* An attempt fails: `request` tries once more, unless the deadline has    *)
(* passed; then the caller sees Io or DeadlineExceeded.                    *)

AfterIo_TriesOn(n) == Becomes(n, [proc[n] EXCEPT !.again = FALSE])
                        /\ UNCHANGED store
AfterIo(n) ==
  LET p == proc[n]
  IN IF p.pc \in {"registering", "idle", "running"}
     THEN Becomes(n, [p EXCEPT !.again = FALSE]) /\ UNCHANGED store
     ELSE IF p.pc = "acking" THEN Exit(n, "transport")
     ELSE Becomes(n, Reconnect(p)) /\ UNCHANGED store

Calls(n) == /\ proc[n].pc \in InSession \cup {"registering"}
            /\ proc[n].pc # "fetching"
            /\ proc[n].pc = "idle" => ~proc[n].drain \/ proc[n].again

Unanswered(n) ==
  /\ Calls(n)
  /\ losses < MaxLosses /\ losses' = losses + 1
  /\ \/ Effect(Request(n)) /\ UNCHANGED ghosts
     \/ UNCHANGED vars /\ ghosts' = ghosts \cup {Request(n)}
  /\ \/ AfterIo(n)
     \/ /\ ~proc[n].again
        /\ Becomes(n, [proc[n] EXCEPT !.again = TRUE]) /\ UNCHANGED store
  /\ UNCHANGED <<starts, restarts>>

Late ==
  \E r \in ghosts : /\ Effect(r)
                    /\ ghosts' = ghosts \ {r}
                    /\ UNCHANGED <<proc, store, losses, starts, restarts>>

----------------------------------------------------------------------------
(* The session loop.                                                       *)

Register(n) ==
  /\ proc[n].pc = "registering"
  /\ IF Refuses(n, proc[n].epoch)
     THEN Exit(n, "duplicate") /\ UNCHANGED vars
     ELSE /\ Registers(n, proc[n].epoch)
          /\ Becomes(n, [Idle(proc[n]) EXCEPT
                           !.session = workers'[n].session, !.heart = "due"])
          /\ UNCHANGED store
  /\ UNCHANGED <<ghosts, losses, starts, restarts>>

\* objects.delete(id), idle or busy.
Delete(n) ==
  /\ PollDelete(n)
  /\ store' = [store EXCEPT ![n] = [o \in ObjectId |->
       IF o \in pendingDeletes[n] \ pendingDeletes'[n] THEN 0 ELSE @[o]]]
  /\ Becomes(n, [proc[n] EXCEPT !.again = FALSE])

IdlePoll(n) ==
  LET p == proc[n]
      s == p.session
  IN /\ p.pc = "idle" /\ Calls(n)
     /\ \/ Delete(n)
        \/ /\ \/ \E g \in grants : PollCancels(s, g)
                                   /\ Becomes(n, Busy(p, "acking", g))
              \/ \E g \in grants : PollRepeats(s, g)
                                   /\ Becomes(n, Busy(p, "starting", g))
              \/ /\ PollAssign(s)
                 /\ \E g \in grants' \ grants :
                      Becomes(n, Busy(p, "starting", g))
              \/ PollIdle(s) /\ Becomes(n, Idle(p))
              \/ PollStale(s) /\ Becomes(n, Reconnect(p))
           /\ UNCHANGED store
     /\ UNCHANGED <<ghosts, losses, starts, restarts>>

\* While it works the process polls to learn of a cancellation.  Any other
\* assignment or cancellation is a protocol error, which is fatal.
BusyPoll(n) ==
  LET p == proc[n]
      s == p.session
  IN /\ p.pc = "running"
     /\ \/ Delete(n)
        \/ \E g \in grants :
             /\ PollCancels(s, g)
             /\ IF g = p.grant
                THEN Becomes(n, Busy(p, "stopping", g)) /\ UNCHANGED store
                ELSE Exit(n, "stray")
        \/ (PollAssign(s) \/ \E g \in grants : PollRepeats(s, g))
             /\ Exit(n, "stray")
        \/ /\ \/ PollIdle(s) /\ Becomes(n, [p EXCEPT !.again = FALSE])
              \/ PollStale(s) /\ Becomes(n, Reconnect(p))
           /\ UNCHANGED store
     /\ UNCHANGED <<ghosts, losses, starts, restarts>>

\* fetch_inputs: lost, unreachable or garbled arguments fail the attempt
\* with the class of the error.
Fetch(n) ==
  LET p == proc[n]
  IN /\ p.pc = "fetching"
     /\ \/ Becomes(n, [p EXCEPT !.pc = "running"])
        \/ \E transient \in BOOLEAN :
             Becomes(n, [p EXCEPT !.pc = "failing", !.flag = transient])
     /\ UNCHANGED <<vars, store, ghosts, losses, starts, restarts>>

\* The operation ends.  The store takes its output unless it holds other
\* bytes under that id; a small output is sent inline as well.
OperationSucceeds(n) ==
  LET p == proc[n]
      o == Output(p.grant.task)
  IN /\ p.pc = "running" /\ ~p.again
     /\ IF store[n][o] \in {0, p.grant.attempt}
        THEN /\ store' = [store EXCEPT ![n][o] = p.grant.attempt]
             /\ \E inline \in BOOLEAN :
                  Becomes(n, [p EXCEPT !.pc = "completing", !.flag = inline])
        ELSE Exit(n, "conflict")
     /\ UNCHANGED <<vars, ghosts, losses, starts, restarts>>

OperationFails(n) ==
  /\ proc[n].pc = "running" /\ ~proc[n].again
  /\ \E transient \in BOOLEAN :
       Becomes(n, [proc[n] EXCEPT !.pc = "failing", !.flag = transient])
  /\ UNCHANGED <<vars, store, ghosts, losses, starts, restarts>>

\* A report that is answered.  Refused reports end the assignment, not the
\* session; the output of a completion that was not accepted is dropped.
Report(n) ==
  LET p == proc[n]
      r == Request(n)
      verdict == Verdict(r)
  IN /\ p.pc \in Reporting /\ ~HangsUp(n)
     /\ Effect(r)
     /\ IF verdict \in {"TaskNotFound", "ObjectConflict"}
        THEN Exit(n, verdict)
        ELSE /\ Becomes(n, IF p.pc = "starting"
                           THEN Busy(p, "fetching", p.grant) ELSE Idle(p))
             /\ store' = IF p.pc = "completing" /\ verdict = "Refused"
                         THEN [store EXCEPT ![n][Output(p.grant.task)] = 0]
                         ELSE store
     /\ UNCHANGED <<ghosts, losses, starts, restarts>>

\* Both attempts end in a closed connection.
HungUp(n) ==
  /\ proc[n].pc \in Reporting /\ HangsUp(n)
  /\ AfterIo(n)
  /\ UNCHANGED <<vars, ghosts, losses, starts, restarts>>

\* After the delay a session begins anew, unless the process is draining.
NextSession(n) ==
  LET p == proc[n]
  IN /\ p.pc = "backoff"
     /\ IF p.drain THEN Exit(n, "drained")
        ELSE /\ p.epoch + 1 \in WorkerEpoch
             /\ Becomes(n, [p EXCEPT !.pc = "registering", !.epoch = @ + 1])
             /\ UNCHANGED store
     /\ UNCHANGED <<vars, ghosts, losses, starts, restarts>>

----------------------------------------------------------------------------
(* Beside the session loop: heartbeat task, shutdown signal, supervisor.   *)

Beat(n) ==
  LET p == proc[n]
  IN /\ p.pc \in InSession /\ p.heart = "due"
     /\ \/ /\ Heartbeat(p.session)
           /\ Becomes(n, [p EXCEPT !.heart = "sent"]) /\ UNCHANGED losses
        \/ /\ ~CheckIdentity(n, p.session) /\ UNCHANGED <<vars, losses>>
           /\ Becomes(n, [p EXCEPT !.heart = IF HangsUp(n) THEN "sent"
                                             ELSE "stopped"])
        \/ /\ losses < MaxLosses /\ losses' = losses + 1 /\ UNCHANGED vars
           /\ Becomes(n, [p EXCEPT !.heart = "sent"])
     /\ UNCHANGED <<store, ghosts, starts, restarts>>

\* The period is a third of the lease, so no lease runs out between beats.
Clock ==
  /\ \A n \in NodeId : proc[n].heart # "due"
  /\ Tick
  /\ proc' = [n \in NodeId |-> IF proc[n].heart = "sent"
                THEN [proc[n] EXCEPT !.heart = "due"] ELSE proc[n]]
  /\ UNCHANGED <<store, ghosts, losses, starts, restarts>>

Signal(n) ==
  /\ Up(n) /\ ~proc[n].drain
  /\ Becomes(n, [proc[n] EXCEPT !.drain = TRUE])
  /\ ghosts' = IF proc[n].session = 0 THEN ghosts
               ELSE ghosts \cup {[kind |-> "drain",
                                  session |-> proc[n].session]}
  /\ UNCHANGED <<vars, store, losses, starts, restarts>>

\* Between tasks, or when the grace is over.
Drained(n) ==
  /\ Up(n) /\ proc[n].drain
  /\ Exit(n, "drained")
  /\ UNCHANGED <<vars, ghosts, losses, starts, restarts>>

Killed(n) ==
  /\ Up(n) /\ Exit(n, "killed")
  /\ UNCHANGED <<vars, ghosts, losses, starts, restarts>>

StartAgain(n) ==
  /\ ~Up(n)
  /\ starts + Len(restarts) < MaxStarts /\ starts' = starts + 1
  /\ proc[n].epoch + 1 \in WorkerEpoch
  /\ Becomes(n, Born(proc[n].epoch + 1))
  /\ UNCHANGED <<vars, store, ghosts, losses, restarts>>

\* The coordinator's process is replaced; what the workers keep stays.
RestartCoordinator ==
  /\ starts + Len(restarts) < MaxStarts
  /\ restarts' = Append(restarts, Len(sessions))
  /\ Restart
  /\ UNCHANGED <<proc, store, ghosts, losses, starts>>

Others == /\ ClientRequest \/ ExpireWorkers \/ ReapTerminalTasks
          /\ UNCHANGED procVars

----------------------------------------------------------------------------
ClusterInit ==
  /\ Init
  /\ proc = [n \in NodeId |-> Born(1)] /\ store = [n \in NodeId |-> Empty]
  /\ ghosts = {} /\ losses = 0 /\ starts = 0 /\ restarts = <<>>

Session(n) ==
  \/ Register(n) \/ IdlePoll(n) \/ Fetch(n) \/ Report(n) \/ HungUp(n)
  \/ NextSession(n)
Operates(n) == OperationSucceeds(n) \/ OperationFails(n)

ClusterNext ==
  \/ \E n \in NodeId :
       \/ Session(n) \/ BusyPoll(n) \/ Operates(n)
       \/ Unanswered(n) \/ Beat(n)
       \/ Signal(n) \/ Drained(n) \/ Killed(n) \/ StartAgain(n)
  \/ Late \/ Clock \/ RestartCoordinator \/ Others

ClusterSpec == ClusterInit /\ [][ClusterNext]_allVars

\* The process's tasks run, its operations end, and the coordinator's clock
\* and reaper go on.  The network, signals, clients and supervisor owe
\* nothing, but only MaxLosses attempts stay unanswered.
FairCluster ==
  /\ ClusterSpec
  /\ \A n \in NodeId : /\ WF_allVars(Session(n)) /\ WF_allVars(BusyPoll(n))
                       /\ WF_allVars(Operates(n)) /\ WF_allVars(Beat(n))
                       /\ WF_allVars(Drained(n))
  /\ WF_allVars(Clock)
  /\ WF_allVars(ExpireWorkers /\ UNCHANGED procVars)

----------------------------------------------------------------------------
(* Properties.                                                             *)

\* The locals of run_worker_session and execute_assignment: there is an
\* assignment exactly while the process works on one, and it was granted to
\* the identity the process reports under.
ProcTypeOK ==
  /\ proc \in [NodeId -> Process]
  /\ store \in [NodeId -> [ObjectId -> Nat]]
  /\ \A n \in NodeId :
       LET p == proc[n]
       IN /\ (p.grant # NoGrant) <=> p.pc \in InSession \ {"idle"}
          /\ p.grant # NoGrant =>
               p.grant.node = n /\ p.grant.session = p.session

\* The bytes that readers are sent to a worker for are in its store, and are
\* those the coordinator recorded, as long as the process that registered
\* lives: whatever it deleted on a refused report or on request, and in
\* whichever session it is now (Report, Delete, complete, resolve_object).
StoreBacksOwned ==
  \A n \in NodeId, o \in ObjectId :
    (/\ objects[o].state = "Available" /\ objects[o].location = n
     /\ Up(n) /\ workers[n].workerEpoch >= proc[n].first)
      => store[n][o] = objects[o].version

\* A busy worker is never handed another task (the protocol error "worker
\* received assignment while busy" does not happen), although polls and
\* reports are repeated, lost and late.
NoStrayAssignment == \A n \in NodeId : proc[n].exit # "stray"

\* Every task ends while there is a worker that stays up: lost poll replies
\* are repeated, lost reports are made good by the lease, a fenced worker
\* comes back.
Serving == \E n \in NodeId : Up(n) /\ ~proc[n].drain
TasksEnd ==
  <>[]Serving => \A t \in TaskId : Live(t) ~> ~Live(t)

\* A process that stays up is in a session the coordinator accepts again and
\* again, whatever it was doing when its lease ran out, when a call was not
\* answered or when the coordinator was replaced, so that a restart of the
\* coordinator needs no restart of the workers (run_worker's outer loop).
InTouch(n) == proc[n].pc \in InSession /\ CheckIdentity(n, proc[n].session)
WorkersReturn ==
  \A n \in NodeId : <>[](Up(n) /\ ~proc[n].drain) => []<>InTouch(n)

\* CHANGELOG.md: "mid-execution lease loss or transient transport errors
\* reconnect instead of killing it" (the worker): a process that ran a session
\* before is never refused, which would end it, when it registers again.
ReconnectSurvives ==
  \A n \in NodeId :
    proc[n].exit = "duplicate" => proc[n].epoch = proc[n].first
=============================================================================
