# Crayon in TLA+

A formal model of Crayon, a small single-coordinator cluster for tasks and
immutable objects (`src/src/*.rs`): TLA+ modules, TLC configurations that check
them on small instances, and TLAPS proofs of the invariants that matter most.

## 1. The system

| Part | State | Operations | Talks to |
|---|---|---|---|
| Coordinator state machine (`coordinator.rs`) | workers with leases, tasks, object records, operation catalogue, pending deletes, run queue, two indexes | register, heartbeat, drain, poll, five task reports, put, submit, cancel, release, expiry, terminal reclaim | called under one mutex by the RPC server |
| Resources (`resources.rs`) | - | can_fit, subtract, add_capped | coordinator |
| Arena (`arena.rs`) | bump pointer, exact-size free lists, live entries, one mapped file | reserve, commit, rollback, put, chunks, read, release, lazy reap | RPC server; same-host clients write and read the mapping without a lock |
| RPC server (`cluster.rs`) | replay cache, `Notify`, epoch, connection permits | serve with its drain, handle, dispatch_once, dispatch_and_notify, long_poll, reaper task | all of the above |
| Client (`client.rs`) | known epoch, mappings; `request`'s pool of idle connections (`cluster.rs`) | put (inline, arena, chunked), get, submit, wait, cancel, release | RPC server, workers' object ports |
| Worker process (`bin/crayon_cluster.rs`, `worker.rs`, `data_plane.rs`) | session identity, drain flag, object store | session loop, execute, report, serve objects | RPC server |
| Launcher, Python binding, benchmarks | - | - | wrappers and measurement |

What is hard about it:

* Requests are retried, so reports, chunks, commits and mutations arrive twice,
  late, or after the sender's session, reservation or coordinator is gone.
  Sessions, fences, reservation tokens, request ids and epochs guard against it.
* A worker's death, a cancel and a report race for one task; each must free the
  slot and the resources once and decide the task once.
* Failure and loss propagate down chains of waiting tasks.
* The queue and the indexes are maintained incrementally next to the tables.
* Arena slots are recycled under clients that write and read without a lock.
* Polls park, and must be woken by whoever changes the state, or by a timer.
* Connections are reused, replies carry no name, and a pooled connection may be
  dead; a server has a limited number of permits and drains on a signal.
* One call of a client reads the coordinator several times (the output, then
  the task's status) while tasks end and are forgotten in between.
* The coordinator keeps nothing across a restart; workers and clients go on.

The hazards are listed one by one, with their lines, in `PROJECT.json`.

## 2. Modules

| Module | Models |
|---|---|
| `Resources` | resource sets by kind |
| `Coordinator` | `CoordinatorState` |
| `TaskLifecycle` | what a client is promised about tasks (abstract) |
| `Arena` | `ArenaStore`, the requests that use it, writers and readers |
| `Rpc` | request with its retry, handlers, replay cache, restarts |
| `LongPoll` | parked polls and gets, notifications, the reaper's part in them |
| `Connections` | `request`'s pool, dial and retry; `serve`'s permits and drain; the object server |
| `ClientReads` | how a client awaits outputs (result, results, wait, get, many), composed with `Coordinator` |
| `WorkerProcess` | the worker process with its object store, composed with `Coordinator` |
| `MC...` | small instances |
| `CoordinatorProofs` | theorems: types, indexes, outputs, leases |
| `LifecycleProofs` | theorems: the other invariants of tasks and objects, the refinement of `TaskLifecycle`, slots, resources and the queue |
| `WorkerProofs` | theorems about `WorkerProcess`, on top of the two before |
| `ArenaProofs`, `RpcProofs`, `LongPollProofs`, `ConnectionsProofs`, `ClientReadsProofs` | theorems about the module of that name |

A definition named `X_Something` stands before `X` and is `X` with a bug. No
module uses these; each property of each passing run is tried against one of
them and must fail.

### Coordinator

All operations run under `state.lock()`, so an operation is one action. Errors
and duplicates accepted without effect are stuttering steps: they show up only
as guards. A record is absent or a TLA+ record with the fields the code
branches on. Times are kept as what is left of them (`lease`, `wait`) or as an
age; `Tick` moves all of them, so no run needs a bound on a clock.

The outside world is three history variables: minted task ids, session ids
handed out, and `grants`, every fence ever handed out. A report may be made at
any time with any grant, which covers delayed, reordered, duplicated and lost
reports and workers that live on after they were declared dead. A lease id is
minted together with an attempt, so the attempt stands for it.

`reconcile_dependencies` iterates to a fixed point over a hash set. The model
states the result: the failed waiters are the least set closed under "has a
broken argument, or the output of a failed waiter", the ready ones are queued
in any order. `assign_next`'s scan is stated by the positions it can serve,
where it stops (local input or look-ahead), what it picks and how what it
passed over is re-queued.

`Restart` is what a new coordinator starts from: empty tables. It is no step of
`Coordinator` itself, whose invariants are about one coordinator; `ClientReads`
and `WorkerProcess` take it as one.

`TaskLifecycle` has per task a phase, the attempt, the tasks it takes input
from and the attempt its result is from; `ImplementsLifecycle` maps the tables
onto it. It says, for instance, that only the running attempt can succeed, a
task is leased only when all its inputs have been produced, a task that was
never leased fails only because of an input, a cancelled task is not retried,
and a task is forgotten only when nobody unended takes its output.

### Arena

Bytes are modelled: the k-th byte of object `id` is `<<id, k>>`, memory is a
function of offsets, and slots have their real geometry (`max(1)`, rounded up
to `Granule`). ArenaReserve, Put, Get and Release are atomic because the state
guard lives as long as the `match`/`if let` it is taken in (edition 2021).
ArenaCommit is two actions, since it takes the state lock only after the commit
in the arena. Same-host writers and readers move one byte per step.

Content-derived ids (`Hashed`) may be put by anyone at any time; ids of
unhashed puts (`Random`) are new for every put. Requests that were retried may
come after nobody waits for them: a reserve (`c = None`), and chunks and commits
that stay in `sent` after they arrive.

### Rpc

A handler has three moments that matter: the clock reading of
`Envelope::validate`, the reading in `dispatch_once` before the lock, and the
critical section. The client's two attempts have a handler each; the first
lives on after its connection broke. A restart ends all handlers, empties the
cache and starts a new epoch. The request body's hash is left out, since a
client never sends two bodies under one id. `MaxCalls` bounds the requests that
are made.

### LongPoll

Of the state it keeps the revision, how much there is to hand out by kind
(released and reclaimed deletes, tasks, retries that became due), and which
awaited objects are resolved. `enable`, the two readings of the revision, the
dispatch, the comparison with the notification, and the park are separate
steps. `Notify` is modelled from its documented behaviour: `notify_waiters`
wakes those enabled at that moment and leaves no permit.

### Connections

A stream has a client end (owned by a call, in the pool, or gone) and a server
end (in the backlog, read by a task, busy with a request, closed), and between
them the requests and replies on the way. Both are named by the call that made
them, which the code cannot see: `RepliesMatch` says that it need not. The same
module is either server; the object server answers one request and hangs up, so
everything the client pools of it is dead. Times are not counted: a timer may
fire whenever it is armed, be it the sleep before the retry, the read or write
timeout, or the grace period. The bytes of a frame and what a request does are
not here.

### ClientReads

A call is a loop of asking, parking, being answered, and then working off the
answer slot by slot. Every one of these is a step, and any step of the
coordinator, its clock, or a restart may come in between. `GetBatch`'s frame
budget is modelled with sizes per kind of slot; the serialized errors have the
order of sizes the assumption states. `verify_object` compares with the version
the coordinator told, and a worker may hold the bytes of any attempt it was
given, or none. An answer that never comes is `RpcFails`. Reads carry no epoch
that would be checked, so that a call lives on through a restart.

### WorkerProcess

Extends `Coordinator`, so its steps are the coordinator's operations with what
the process does around them. `proc` holds the locals of the session loop and of
`execute_assignment`, `store` the attempt whose bytes `LocalObjectStore` has
under each id (the attempts of a task are taken to produce different bytes, the
hard case), both per node. A process runs session after session, each with a new
worker epoch; `Exit` ends it and empties the store.

A call and the use of its reply are one action, because in between the process
does nothing and only the reply carries the coordinator's state. The calls that
are not answered are `Unanswered`: their effect happens now, or later as one of
the `ghosts`, while the process goes to its second attempt or on to what the
code does on `Io` and `DeadlineExceeded`. The replay cache is not in between
(that is `Rpc`): a second attempt reaches the coordinator again, which is worse
for the properties. `Report` decides by `Verdict` what the coordinator answers:
accepted, accepted as a duplicate, or refused with an error that the worker
forgives (`IllegalTransition`, `StaleFence`) or dies of (`TaskNotFound`,
`ObjectConflict`).

The heartbeat task is `Beat`: a beat is due after each tick, since the period is
a third of the lease. `Signal` sets the drain flag and sends `Drain` beside the
loop; `Drained` is the exit between tasks or at the end of the grace. `Fetch` may
fail for a task without arguments too, which the code would not do; the report
that follows is one an operation can cause as well.

The coordinator may be replaced (`RestartCoordinator`). Its successor does not
know the epoch of the sessions before it: reports and heartbeats of theirs are
refused by `validate_epoch`, whose error closes the connection, so that both
attempts end in `Io` (`HungUp`) and a heartbeat goes on unanswered. Polls and
registrations carry no epoch that is checked, so a poll learns `StaleFence` and
the process registers anew. The time a coordinator is down is a number of
unanswered calls, which are there without it.

## 3. Runs

| Run | Bounds | Checks |
|---|---|---|
| `leases` | 2 nodes, 2 tasks of 2 attempts, 2 sessions | LeasesAreCurrent, AttemptsBounded, SlotsAccounted, OutputMatchesTask, refinement of TaskLifecycle |
| `dependencies` | 1 node of 2 slots and 2 units, 3 light or heavy tasks with up to 2 arguments, 2 sessions, look-ahead 2, no terminal TTL | TypeOK, IndexesExact, WaitersArePending, DeletesAreDead, AvailableHasHome, QueueExact, ResourcesConserved, ArgumentsHeld |
| `expiry` | 2 nodes that disagree on an operation, 2 codecs, a put object, 1 task of 2 attempts | SilentWorkerLosesTasks (liveness), CatalogueAgrees, PublishedIsImmutable |
| `slots` | objects of 0, 2 and 3 bytes, granule 2, arena of 4 bytes, 3 reservations, 1 record | TypeOK, SlotsTile, BytesStayWithRecord |
| `streamed` | 2 streamed objects of one slot size, 3 reservations, 1 reader | CommittedIsWhole, ReadsAreWhole |
| `replay` | 2 cached requests and 1 that is not, 2 attempts each, 2 calls in all, byte limit 3, clock to 3, 2 epochs | BudgetExact, AnswersAreTrue, RepeatsOnlyLate |
| `wakeups` | 1 worker, 1 get, 1 other connection, 2 changes | WakeupNotLost, EverythingArrives and BlockingIsBounded (liveness), no deadlock |
| `pool` | either server, 2 callers, 2 streams, 1 permit, pool of 1 | RepliesMatch, IdleIsHarmless, DrainIsClean, AbandonedAreFreed (liveness), no deadlock |
| `reads` | 1 node, 2 tasks of 2 attempts, 1 call of any kind with up to 3 handles, timeout 2, long poll 1, frame of 8, 1 restart | ResultsAreTrue, EnoughEnded, BatchFits, LoopEnds |
| `sessions` | 1 process, 1 restart of it or of the coordinator, 1 task of 2 attempts, 3 sessions, 1 unanswered call or beat | ProcTypeOK, StoreBacksOwned, NoStrayAssignment, TasksEnd and WorkersReturn (liveness) |

The type invariants of `Rpc`, `LongPoll`, `Connections` and `ClientReads` are not
in the runs: they are proved for every value of the constants (section 4).
The run `sessions` has one task, so that its `NoStrayAssignment` is about the same
task handed out again; that a busy worker is not handed another task either is
`NeverStray`, proved for any number of tasks. Likewise the jobs of `dependencies`
have one attempt: that a retried task is queued once and keeps its units straight
is left to `QueueIsExact` and `ResourcesAreConserved`, which are proved.

Why these are enough: two nodes let a session be superseded while another works;
two attempts let a stale report meet its successor; three tasks make a chain in
which a failure must run on; two slots of shared resources let a heavy task be
passed over for a light one; a four-byte arena is full with one large or two
small slots; two requests fill the byte limit; two callers and one permit let a
caller meet a full server, a stream another one gave up on, and a pool that is
full or dead (the proof covers any number); three handles of unequal slots fill
the frame in every order; a waiter, a changer and the reaper
make the window between a look and a park (the proof covers any number); one
lost call at any point, two attempts and three sessions let a late report meet
the next session, and a session outlive its coordinator. The numbers of
sessions, reservations, calls, changes, losses, restarts and clock values are
bounds of the model, named as constants.

Deadlock is not checked for `Coordinator`, `Arena`, `Rpc`, `ClientReads` and
`WorkerProcess`: a cluster whose sessions, ids or reservations (bounded in the
model) are used up, whose calls have returned, or whose processes have all
exited, may stop. It is checked for `LongPoll` and `Connections`, where everyone
waiting is what could go wrong.

Fairness. `Coordinator!FairSpec`: the clock and the reaper, a timer task of its
own; nothing of workers and clients. `LongPoll!FairSpec`: the runtime runs each
task that can run and timers fire; other requests need not come.
`Connections!FairSpec`: a connection's task runs while it can and its timers
fire; the network, callers and signals owe nothing. (That a call ends by its
deadline, and a drain by its grace period, is one timer each and no property.) `Rpc` and `ClientReads` are checked for safety only:
`LoopEnds` says as an invariant that a call's loop comes to its end.
`WorkerProcess!FairCluster`: the runtime runs the process's tasks, operations
end, and the coordinator's clock and reaper go on; clients, signals, the network
and the supervisor owe nothing, but only `MaxLosses` calls stay unanswered.
`TasksEnd` is claimed only when from some point on a process is up and not
draining; a process that stops because its bound on epochs is used up counts as
up, so the run has as many epochs and sessions as one loss and one restart use.
`WorkersReturn` asks the same of the process alone: one that stays up ends in a
session the coordinator of the day knows.

### Where the code and its documentation disagree

These runs state what a comment or document says and TLC shows it violated.

| Run | Statement | What happens |
|---|---|---|
| `latewriter` | `arena.rs:13`, a committed region is never rewritten while readable | a direct writer slower than `RESERVE_TTL` writes into a slot that was reaped, recycled and committed |
| `reconnect` | `CHANGELOG.md:182`, transient transport errors reconnect instead of killing the worker | an unanswered report ends the session; the next one registers with a new worker epoch before the old lease has run out, is refused as a duplicate node, and the process exits |

Others of the kind, and surprises the documents are silent on, were met and have
no run:

* A release or a roll-back between the two halves of ArenaCommit frees the slot;
  `put_meta` then makes a record without bytes (`coordinator.rs:380` says they
  are in the arena). `BytesStayWithRecord` exempts this case and no other.
* GetBatch answers with the plain `resolve_object` and does not annotate an
  object in the arena (`coordinator.rs:435`), so that `payload_bytes` takes its
  place for a worker's address and ends in `Io` (`client.rs:352`). Outputs of
  tasks, which `ClientReads` is about, are never in the arena.
* `get_bytes_within` asks once and the server caps the wait, so that a caller
  with a longer timeout is told `ObjectPending` early; `client.rs:343` calls it
  the twin of `TaskHandle::result`, which does ask again. The binding's
  `get` inherits this (`crayon-py/src/lib.rs:110`).
* A batch that runs into its deadline returns `DeadlineExceeded` and not the
  slots that were ready by then, also with a timeout of 0
  (`crayon-py/src/lib.rs:144`: "or `timeout_ms` elapses, then returns
  `(index, bytes)` for every ready slot").
* `shutdown_signal` is created anew in every round of the accept loop
  (`cluster.rs:246`); whether a signal between two rounds is kept is the
  runtime's matter, and the model delivers every one.
* `local.rs:47` returns before the value exists whose drop kills the children,
  when a later one cannot be started.
* A Poll takes a delete out of the table before its reply is delivered
  (`cluster.rs:476`): a lost reply leaves the bytes in the worker's store.
* A completion that was not answered leaves its bytes in the store; when the
  task is retried there with another result the put conflicts
  (`data_plane.rs:29`), which ends the process. So does an unanswered
  acknowledgement of a cancel while idle (`crayon_cluster.rs:741`), where the same
  `Io` makes a busy worker reconnect.
* A request whose retry was refused for capacity may still be applied by the
  first attempt's handler (`cluster.rs:383`).
* A busy worker whose session went stale drops the handle of its operation,
  which runs on beside the next session's task (`crayon_cluster.rs:835`).
* A retry validated just before its deadline reads the clock again in
  `dispatch_once`, can find the first attempt's entry expired, and is applied a
  second time (`cluster.rs:17`: "a retry cannot double-apply").
  `RepeatsOnlyLate` states what does hold; it exempts this case.
* `validate_epoch`'s error closes the connection without a reply, so the client
  of a restarted coordinator ends with `Io` (`client.rs:49`: "rejects them with
  `Error::StaleEpoch`").
* When `put_meta` refuses a commit because the id was put inline under another
  codec meanwhile, the roll-back frees the slot although gets of that id are sent
  to it (`arena.rs:425`: "slots are recycled only after the owner releases").
* The reaper notifies only when a worker expired, so the terminal reclaim, which
  queues deletes, wakes nobody (`cluster.rs:120`: "fires on every state change");
  the 250 ms slice finds them, which is what `EverythingArrives` shows.
* A report for a task that was reclaimed is answered `TaskNotFound`, which
  `report` does not forgive: the worker exits (`crayon_cluster.rs:950`: "a single
  task cannot terminate the worker session").

## 4. Proofs

For every value of the constants that satisfies the named assumptions (ids are
finite sets and distinct from the markers, offers and jobs are well-typed,
bounds are natural numbers, the replay cache may hold at least a byte, the
replay TTL covers the RPC timeout, the error that says a batch overflowed is
the longest of its errors):

* `CoordinatorProofs`: `TypeOK`, `IndexesExact`, `OutputMatchesTask` and
  `LeasesAreCurrent`. The four are proved together, as `CoreInv`, because each
  needs the others: a report is accepted for a task in a leased state, so its
  lease is current, so its worker is registered and its output is Reserved;
  reconciliation touches only waiting tasks, which it finds by the index.
  `CoreInv` adds that every task in the table was minted. The lemmas
  `ReconcileEffect` and `EndTask` say once what the end of a task does to all
  tables; then there is one lemma per action.
* `LifecycleProofs`: `AttemptsBounded`, `WaitersArePending`, `ArgumentsHeld`,
  `AvailableHasHome`, `DeletesAreDead`, `CatalogueAgrees`, `PublishedIsImmutable`
  and `ImplementsLifecycle`. `StepEffect` is the disjunction of what any step
  may do to a task (born, leased, advanced, queued again, readied, stopped,
  forgotten), to an object and to a worker; one lemma per action shows that it
  does no more than that. The invariants, as `LifeInv`, and the refinement then
  follow from the moves alone. The properties are not inductive: that attempts
  are bounded needs that a task still to be leased has one left; that arguments
  are held needs that what a task waits for is still to come, and that what a
  task past Waiting was given was once produced (it can only have been lost
  since); that deletes are dead needs that they are of outputs of minted tasks,
  whose ids are never used again. For the refinement, each move of a task is a
  move of `TaskLifecycle`, whose step moves all tasks at once, as a
  reconciliation does; the waiters that fail in one do so for an input that
  ended, because the set of failed waiters is the least closed one.
* `LifecycleProofs`, second part: `SlotsAccounted`, `ResourcesConserved` and
  `QueueExact`. A step changes no account, or one lease begins or ends on one node
  (`AccountsMove`). The units a node has lent are counted as pairs of a task
  and a number, so that one lease more or less is a union or a difference of
  finite sets. The queue grows by tasks that became runnable in this step, or
  is what `assign_next`'s scan leaves of it. `ReleaseNeverRefuses` says
  that an error path is dead: `release` checks that it hands back no more than
  was taken, and after a fence that passed this check never fails.
* `ArenaProofs`: `TypeOK`, `SlotsTile` and `BytesStayWithRecord`, for any sizes,
  granule and arena. The allocator moves slots in three ways: a live slot is
  dropped onto its free list, the newest free one is taken, one is cut from the
  top. Each keeps the slots a tiling; `reap` is a loop of drops in any order,
  and is an induction over that loop. For the bytes of a record the invariant
  adds that reservations are numbered once, and that a commit which is on its
  way to `put_meta` knows the entry it committed, or that entry is gone.
* `ArenaProofs`, where clients send chunks (`StreamedOnly`): `CommittedIsWhole`,
  `ReadsAreWhole` and `NeverRewritten`. What is written of a reservation is
  right up to its `written` mark, chunks on the way are inside the object, what
  is known of an id has one codec, and a reader that nobody released the object
  of has the offset where it still is. The tiling turns "another slot" into "other
  bytes". The restriction is the code's, not the prover's: with direct writers
  all three are false, as the run `latewriter` shows of the last.
* `RpcProofs`: `TypeOK`, `RepeatsOnlyLate`, `AnswersAreTrue` and `BudgetExact`, and
  `Remembered`, which says why: an applied mutation stays cached until its
  deadline. The strengthening is that an entry made in time expires at the
  deadline and not earlier, and that every clock reading a handler holds is not
  in the future, so that nothing is dropped too early however long it waited for
  the lock. For the budget the cached bytes are counted one by one, so that
  `remove`, `sweep` and `insert` are set operations with a known cardinality and
  the counter never goes below zero.
* `LongPollProofs`: `TypeOK` and `WakeupNotLost`. The strengthening is that a
  waiter is registered from before its look to its return, that revisions only
  grow, and that the property already holds from the look on.
* `ConnectionsProofs`: `TypeOK`, `RepliesMatch`, `IdleIsHarmless` and
  `DrainIsClean`. The strengthening is that a stream owned by a call carries
  that call's request, or the work on it, or its reply, and nothing else; that a
  pooled stream carries nothing; that a retry's stream is one it dialled; and
  that the permits taken are as many as the connections being handled, which
  turns `acquire_many` into "nobody is cut off".
* `ClientReadsProofs`: `ReadTypeOK`, `ResultsAreTrue`, `LoopEnds`, `EnoughEnded`
  and `BatchFits`, on top of `CoreInv`. `EndedIsFinal` says first what no step of
  the coordinator undoes: a task that ended keeps its state and attempt or is
  forgotten, a forgotten id is not minted again, lost bytes do not come back.
  Then every slot of a reply that is still being worked off, and every result
  made of one, stays true of its task however much later the next read is, and
  with it the number of ended slots a `wait` was told. `LoopEnds` needs the pace
  of the loop: requests so far and time left together do not exceed the timeout,
  except for the wait that is parked. `BatchFits` is an induction over the slots
  of a batch: what is used so far and an error for each slot to come fit the
  frame.

* `WorkerProofs`: `ProcTypeOK`, `StoreBacksOwned` and `NoStrayAssignment`, and of
  the coordinator in the cluster `CoordinatorSound` (its invariants, restarts
  included), `PublishedIsImmutable`, `FallenFencesStay` and `OneWorkerPerTask`.
  `ClusterInv` says of each process: while its session is current, the task it
  works on is leased under its grant, and the attempt is not begun only while
  the process is about to start it; if it is completing, its store has the
  output. Of each late call: a report that ends an attempt is not of an attempt
  not yet begun, nor of one its process still works on; the output of a late
  completion that could still be accepted is in the store, unless the process
  that made it is gone. And of the tables: worker epochs never run ahead of
  their processes, attempts count from one.
  With one slot, and a lease that is the process's own, the books leave room for
  no second task, so nothing stray is handed out. A completion that is refused
  although its fence is in force does not exist, because `release` has room, so
  the output the worker then drops is one nobody will ask for. A process that is
  started again has an epoch above all that its node was registered with, so it
  owes readers nothing.
  The proof has two layers. `CoordMoves` is what any step of the coordinator, or
  its restart, may do to all this (fences only fall, a lease ends with its
  session or its report, published bytes stay); `NodeKept` and `GhostKept` show
  that no process and no late call minds. `Turn` and `Passes` then say when a
  process may go on, and each of its steps is one lemma.
  `ClusterDrivesCoordinator` is the link back: a cluster's step is a step of
  `Coordinator`, a restart or none, so the freer environment of that module
  (any report at any time) covers what workers really send.
  The assumptions are that a worker offers one slot, as `run_worker` does, and
  that worker epochs are numbered from one in the order they are minted (the
  code draws a fresh `WorkerEpoch` for every session; only freshness matters).

The inductions (over `reap`'s loop and over a batch) are on a set of indexes,
by the least-number principle: the set of indexes at which the claim fails has
a smallest element, since `<` is well-founded on the naturals. That the
recursive functions in the model exist is proved in the same way.

The inductive invariants were checked with TLC before they were proved, on
instances of the size of the runs.

Only model-checked: the liveness properties, which are out of the prover's
reach (`SilentWorkerLosesTasks`, `EverythingArrives`, `BlockingIsBounded`,
`AbandonedAreFreed`, `TasksEnd`, `WorkersReturn`). Every invariant and every
action property that a passing run checks is proved as well.

## 5. Not modelled, and the plan

Left out for good: the wire encoding and the bytes of a frame, logging and
health counters, file handling of the arena and the sweep of dead processes'
files, what an operation computes, process launching (its only state is a list
of children), the Python binding (a wrapper), benchmarks. A batch of submits is
a sequence of `Submit` steps under one lock and has no action of its own.

Next, in this order:

1. Two worker processes that fetch inputs from each other, and the operation
   that runs on, detached, after its session ended.
2. Scheduling over time: whether the head of the queue can be passed over for
   ever.
