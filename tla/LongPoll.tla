------------------------------ MODULE LongPoll ------------------------------
(***************************************************************************)
(* Long polls and their wakeups (cluster.rs: dispatch_and_notify,          *)
(* long_poll, the reaper of serve).                                        *)
(*                                                                         *)
(* A worker's Poll and a client's blocking Get park until there is         *)
(* something for them.  Whoever changes the state compares the revision    *)
(* before and after its dispatch, each read under a lock of its own, and   *)
(* then calls notify_waiters, which wakes the waiters that are enabled at  *)
(* that moment and leaves no permit for later ones.                        *)
(*                                                                         *)
(* Of the coordinator's state this module keeps the revision, how much     *)
(* there is to hand out to polls, by kind, and which awaited objects are   *)
(* resolved.  Module Coordinator has the rest.                             *)
(*                                                                         *)
(* A definition named X_... stands before X and is X with a bug: no module *)
(* uses it.                                                                *)
(***************************************************************************)
EXTENDS Integers, FiniteSets

CONSTANTS
  Worker,        \* worker sessions that poll
  Getter,        \* blocking gets, each of an object of its own
  Mutator,       \* connections that bring other requests
  MaxChanges     \* bound on the changes requests and the reaper make

ASSUME Actors ==
  /\ IsFiniteSet(Worker \cup Getter \cup Mutator)
  /\ Worker \cap Getter = {} /\ (Worker \cup Getter) \cap Mutator = {}
  /\ MaxChanges \in Nat

Waiter == Worker \cup Getter
Dispatcher == Worker \cup Mutator     \* those that notify

\* What a poll may be handed: deletes of released and of reclaimed objects,
\* tasks, and retries whose backoff is over.
Deletes == {"delete", "reclaim"}
Kind == Deletes \cup {"task", "retry"}

VARIABLES
  revision,      \* CoordinatorState.revision
  work,          \* [Kind -> Nat]
  backoff,       \* retries that must wait (not_before_ms)
  resolved,      \* gets whose object is no longer pending
  changes,       \* changes made by requests and the reaper
  pc,            \* where each waiter and mutator is
  before,        \* the revision a dispatcher read first (0 outside)
  late,          \* waiters whose wait_ms is over
  enabled,       \* waiters registered with the Notify
  notified,      \* those of them it woke
  reaper         \* "idle", or "notify" between its unlock and its notify

state == <<revision, work, backoff, resolved, changes>>
vars == <<revision, work, backoff, resolved, changes, pc, before, late,
          enabled, notified, reaper>>

Goes(p, place) == pc' = [pc EXCEPT ![p] = place]

NotifyWaiters == notified' = notified \cup enabled

----------------------------------------------------------------------------
(* What a request or the reaper may do to the state.                       *)

Handed(k) == [work EXCEPT ![k] = @ + 1]

\* Every change calls `changed`, which counts the revision up.
Effect ==
  /\ changes < MaxChanges
  /\ changes' = changes + 1 /\ revision' = revision + 1
  /\ \/ /\ work' \in {Handed("task"), Handed("delete")}
        /\ UNCHANGED <<backoff, resolved>>
     \/ /\ backoff' = backoff + 1
        /\ UNCHANGED <<work, resolved>>
     \/ /\ \E g \in Getter \ resolved : resolved' = resolved \cup {g}
        /\ UNCHANGED <<work, backoff>>

\* Time makes a retry assignable; nobody is told.
BackoffEnds ==
  /\ backoff > 0
  /\ backoff' = backoff - 1 /\ work' = Handed("retry")
  /\ UNCHANGED <<revision, resolved, changes, pc, before, late, enabled,
                 notified, reaper>>

----------------------------------------------------------------------------
(* dispatch_and_notify, by a mutator; a poll shares its first and last     *)
(* step.                                                                   *)

ReadRevision(d) ==
  /\ pc[d] = IF d \in Worker THEN "enabled" ELSE "idle"
  /\ before' = [before EXCEPT ![d] = revision]
  /\ Goes(d, "dispatch")
  /\ UNCHANGED <<state, late, enabled, notified, reaper>>

\* A request that is refused changes nothing.
Dispatch(m) ==
  /\ m \in Mutator /\ pc[m] = "dispatch"
  /\ Effect \/ UNCHANGED state
  /\ Goes(m, "dispatched")
  /\ UNCHANGED <<before, late, enabled, notified, reaper>>

AfterCompare(place) ==
  IF place = "dispatched" THEN "idle"
  ELSE IF place = "took" THEN "ready" ELSE "unready"

CompareAndNotify(d) ==
  /\ pc[d] \in {"dispatched", "took", "found none"}
  /\ IF revision # before[d] THEN NotifyWaiters ELSE UNCHANGED notified
  /\ Goes(d, AfterCompare(pc[d]))
  /\ before' = [before EXCEPT ![d] = 0]
  /\ UNCHANGED <<state, late, enabled, reaper>>

----------------------------------------------------------------------------
(* long_poll.                                                              *)

Arrive(p) ==
  /\ p \in Waiter /\ pc[p] = "idle"
  /\ Goes(p, "start")
  /\ UNCHANGED <<state, before, late, enabled, notified, reaper>>

\* notified().enable(): a new waiter, not woken yet.
Enable_Missing(p) ==
  /\ p \in Waiter /\ pc[p] = "start"
  /\ Goes(p, "enabled")
  /\ UNCHANGED <<state, before, late, enabled, notified, reaper>>
Enable(p) ==
  /\ p \in Waiter /\ pc[p] = "start"
  /\ enabled' = enabled \cup {p} /\ notified' = notified \ {p}
  /\ Goes(p, "enabled")
  /\ UNCHANGED <<state, before, late, reaper>>

\* The poll's dispatch: a delete if there is one, else a task.  Taking a task
\* is a change of state, taking a delete is not.
Offered(k) ==
  work[k] > 0 /\ (k \notin Deletes => \A d \in Deletes : work[d] = 0)

PollTakes(p) ==
  /\ p \in Worker /\ pc[p] = "dispatch"
  /\ \E k \in Kind :
       /\ Offered(k)
       /\ work' = [work EXCEPT ![k] = @ - 1]
       /\ revision' = IF k \in Deletes THEN revision ELSE revision + 1
  /\ Goes(p, "took")
  /\ UNCHANGED <<backoff, resolved, changes, before, late, enabled, notified,
                 reaper>>

PollFindsNone(p) ==
  /\ p \in Worker /\ pc[p] = "dispatch"
  /\ \A k \in Kind : work[k] = 0
  /\ Goes(p, "found none")
  /\ UNCHANGED <<state, before, late, enabled, notified, reaper>>

Get_NeverReady(p) ==
  /\ p \in Getter /\ pc[p] = "enabled"
  /\ Goes(p, "unready")
  /\ UNCHANGED <<state, before, late, enabled, notified, reaper>>
Get(p) ==
  /\ p \in Getter /\ pc[p] = "enabled"
  /\ Goes(p, IF p \in resolved THEN "ready" ELSE "unready")
  /\ UNCHANGED <<state, before, late, enabled, notified, reaper>>

\* The reply is sent, and the caller comes back: a worker polls for more, a
\* get that is still pending is issued again.
AnswersUnready_Never(p) == FALSE
AnswersUnready(p) == late[p]

Return(p) ==
  /\ p \in Waiter
  /\ pc[p] = "ready" \/ (pc[p] = "unready" /\ AnswersUnready(p))
  /\ Goes(p, IF p \in Getter /\ pc[p] = "ready" THEN "done" ELSE "idle")
  /\ late' = [late EXCEPT ![p] = FALSE]
  /\ enabled' = enabled \ {p} /\ notified' = notified \ {p}
  /\ UNCHANGED <<state, before, reaper>>

Park(p) ==
  /\ p \in Waiter /\ pc[p] = "unready" /\ ~AnswersUnready(p)
  /\ Goes(p, "parked")
  /\ UNCHANGED <<state, before, late, enabled, notified, reaper>>

\* Woken by the Notify, or by the slice.
Again(p) ==
  /\ Goes(p, "start")
  /\ enabled' = enabled \ {p} /\ notified' = notified \ {p}
  /\ UNCHANGED <<state, before, late, reaper>>

Wakes(p) == p \in notified
Woken(p) == p \in Waiter /\ pc[p] = "parked" /\ Wakes(p) /\ Again(p)

SliceEnds(p) == p \in Waiter /\ pc[p] = "parked"
Slice(p) == SliceEnds(p) /\ Again(p)

WaitEnds(p) ==
  /\ p \in Waiter /\ pc[p] \notin {"idle", "done"} /\ ~late[p]
  /\ late' = [late EXCEPT ![p] = TRUE]
  /\ UNCHANGED <<state, pc, before, enabled, notified, reaper>>

----------------------------------------------------------------------------
(* The reaper expires workers and, now and then, reclaims terminal tasks,  *)
(* under one lock; afterwards it notifies if a worker expired.             *)

Expires ==
  /\ reaper = "idle"
  /\ Effect
  /\ reaper' = "notify"
  /\ UNCHANGED <<pc, before, late, enabled, notified>>

Reclaims ==
  /\ reaper = "idle" /\ changes < MaxChanges
  /\ changes' = changes + 1 /\ revision' = revision + 1
  /\ work' = Handed("reclaim")
  /\ UNCHANGED <<backoff, resolved, pc, before, late, enabled, notified,
                 reaper>>

ReaperNotifies ==
  /\ reaper = "notify"
  /\ reaper' = "idle" /\ NotifyWaiters
  /\ UNCHANGED <<state, pc, before, late, enabled>>

----------------------------------------------------------------------------
Init ==
  /\ revision = 0 /\ work = [k \in Kind |-> 0] /\ backoff = 0
  /\ resolved = {} /\ changes = 0
  /\ pc = [p \in Waiter \cup Mutator |-> "idle"]
  /\ before = [d \in Dispatcher |-> 0]
  /\ late = [p \in Waiter |-> FALSE]
  /\ enabled = {} /\ notified = {} /\ reaper = "idle"

WaiterStep(p) ==
  \/ Arrive(p) \/ Enable(p) \/ PollTakes(p) \/ PollFindsNone(p) \/ Get(p)
  \/ Return(p) \/ Park(p) \/ Woken(p) \/ Slice(p)

DispatcherStep(d) == ReadRevision(d) \/ CompareAndNotify(d)

Next ==
  \/ \E p \in Waiter : WaiterStep(p) \/ WaitEnds(p)
  \/ \E d \in Dispatcher : DispatcherStep(d)
  \/ \E m \in Mutator : Dispatch(m)
  \/ BackoffEnds \/ Expires \/ Reclaims \/ ReaperNotifies

Spec == Init /\ [][Next]_vars

\* The runtime runs every task that can run, timers fire, and a worker polls
\* as long as its session lives.  Requests need not come.
FairSpec ==
  /\ Spec
  /\ \A p \in Waiter : WF_vars(WaiterStep(p))
  /\ \A d \in Worker : WF_vars(DispatcherStep(d))
  /\ WF_vars(BackoffEnds) /\ WF_vars(ReaperNotifies)

----------------------------------------------------------------------------
(* Properties.                                                             *)

\* Types of the counters, the places and the sets of waiters.
TypeOK ==
  /\ revision \in Nat /\ work \in [Kind -> Nat] /\ backoff \in Nat
  /\ resolved \subseteq Getter /\ changes \in 0..MaxChanges
  /\ pc \in [Waiter \cup Mutator ->
       {"idle", "start", "enabled", "dispatch", "dispatched", "took",
        "found none", "ready", "unready", "parked", "done"}]
  /\ before \in [Dispatcher -> Nat] /\ late \in [Waiter -> BOOLEAN]
  /\ enabled \subseteq Waiter /\ notified \subseteq enabled
  /\ reaper \in {"idle", "notify"}

FoundNothing(p) == pc[p] \in {"unready", "parked"}

\* Somebody has changed the state and is about to notify.
WillNotify ==
  \/ reaper = "notify"
  \/ \E d \in Dispatcher :
       /\ pc[d] \in {"dispatched", "took", "found none"}
       /\ revision # before[d]

\* No wakeup is lost: a waiter that found nothing although a request or an
\* expiry has meanwhile produced something for it has been notified, or will
\* be, without the help of the slice.
WakeupNotLost ==
  \A p \in Waiter :
    /\ FoundNothing(p)
    /\ IF p \in Worker THEN work["task"] + work["delete"] > 0
       ELSE p \in resolved
    => p \in notified \/ WillNotify

\* Whatever there is for workers is handed out, also what nobody announced,
\* and every get whose object is resolved returns it.
EverythingArrives ==
  /\ \A k \in Kind : work[k] > 0 ~> work[k] = 0
  /\ \A g \in Getter : g \in resolved ~> pc[g] = "done"

\* Blocking is bounded: a caller whose wait is over is answered.
BlockingIsBounded == \A p \in Waiter : late[p] ~> ~late[p]
=============================================================================
