---------------------------- MODULE ClientReads ----------------------------
(***************************************************************************)
(* How a client awaits the outputs of its tasks (client.rs: TaskHandle,    *)
(* results, wait, fetch_batch, payload_bytes; cluster.rs: the requests Get *)
(* GetBatch and Status), beside everything the coordinator does meanwhile. *)
(*                                                                         *)
(* A call asks in a loop: a request parks at the coordinator until it is   *)
(* ready or its time is up, and is repeated until the caller's deadline.   *)
(* What it answers is then worked off slot by slot: bytes that are not in  *)
(* the reply are fetched from the worker that has them, and for an output  *)
(* that will never come the task's status is read for the reason.  So one  *)
(* call reads the coordinator twice or more, at different times.           *)
(*                                                                         *)
(* LongPoll shows that a parked request is woken; here it may look at the  *)
(* tables at any time.  A request or a reply that is late is a step that   *)
(* is taken late.  Reads are not fenced by the coordinator's epoch, so a   *)
(* call outlives a restart of the coordinator.  Outputs are never in the   *)
(* arena: what a get of a put object does is in Arena.                     *)
(***************************************************************************)
EXTENDS Coordinator

CONSTANTS
  Caller,           \* a call each: a client keeps nothing from call to call
  Handles,          \* the handle lists calls are made with
  Wanted,           \* the numbers of ready slots batches ask for
  MaxTimeout,       \* bound on a caller's timeout
  LongPollMs,       \* MAX_LONG_POLL_MS
  Frame,            \* MAX_FRAME_BYTES
  BaseSize,         \* of a reply with no slot
  InlineSize, RedirectSize, ErrorSize, OverflowSize,   \* of a slot
  MaxRestarts       \* bound on restarts of the coordinator

\* The serialized errors ObjectPending and ObjectLost have 24 bytes and
\* "object unavailable" 34; "get batch response too large" has 44.
ASSUME ReadBounds ==
  /\ Handles \subseteq Seq(TaskId) /\ Wanted \subseteq Nat
  /\ {MaxTimeout, Frame, BaseSize, InlineSize, RedirectSize, ErrorSize,
      OverflowSize, MaxRestarts} \subseteq Nat
  /\ LongPollMs \in Nat \ {0}
  /\ ErrorSize <= OverflowSize

VARIABLES
  calls,            \* [Caller -> Call]
  restarts          \* restarts so far

readVars == <<calls, restarts>>
allVars == <<vars, readVars>>

\* What a slot of a reply holds, and what the caller gets for it.
Payload == [tag : {"Object"}, version : Nat, inline : BOOLEAN, at : Places]
Unresolved == [tag : {"Pending", "Lost", "Unavailable", "Overflow"}]
Slot == Payload \cup Unresolved
Result ==
  [tag : {"Value"}, version : Nat] \cup
  [tag : {"TaskFailed", "TaskCancelled", "TaskNotFound", "ObjectLost",
          "ObjectConflict", "NotTerminal", "Pending", "Unavailable",
          "CapacityExceeded", "Io"}]
Is(tag) == [tag |-> tag]

\* TaskHandle::result, results and wait, get_bytes and get_bytes_within,
\* get_bytes_many and wait_bytes_many.
Kind == {"result", "wait", "get", "many"}
Batched(kind) == kind \in {"wait", "many"}
Loops(kind) == kind # "get"
Typed(kind) == kind \in {"result", "wait"}

Call == [pc : {"idle", "asking", "waiting", "resolving", "returned"},
         kind : Kind,
         handles : Seq(TaskId),
         min : Nat,                   \* min_ready
         left : 0..MaxTimeout,        \* until the caller's deadline
         asked : Nat,                 \* requests so far
         park : 0..LongPollMs,        \* until the request must be answered
         slots : Seq(Slot),           \* the last reply
         out : Seq(Result),           \* what was made of its first slots
         error : {"", "DeadlineExceeded", "CapacityExceeded", "Io"}]

NoCall == [pc |-> "idle", kind |-> "get", handles |-> <<>>, min |-> 0,
           left |-> 0, asked |-> 0, park |-> 0, slots |-> <<>>,
           out |-> <<>>, error |-> ""]

Becomes(c, call) == calls' = [calls EXCEPT ![c] = call]

\* The call is over: with one result per slot, or with an error.
Returns(call, out) ==
  [call EXCEPT !.pc = "returned", !.out = out, !.slots = <<>>, !.left = 0,
               !.asked = 0, !.park = 0]
Fails(call, error) == [Returns(call, <<>>) EXCEPT !.error = error]

----------------------------------------------------------------------------
(* The coordinator's side.                                                 *)

\* resolve_object.
Resolve(o) ==
  CASE objects[o].state = "Available" ->
         [tag |-> "Object", version |-> objects[o].version,
          inline |-> objects[o].inline, at |-> objects[o].location]
    [] objects[o].state = "Lost" -> Is("Lost")
    [] objects[o].state = "Reserved" -> Is("Pending")
    [] OTHER -> Is("Unavailable")

SizeOf(slot) ==
  IF slot.tag = "Object"
  THEN IF slot.inline THEN InlineSize ELSE RedirectSize
  ELSE IF slot.tag = "Overflow" THEN OverflowSize ELSE ErrorSize

\* GetBatch keeps, for every slot that is still to come, the room that the
\* refusal of its payload would take.
Room_NoReserve(used, size, remaining) == used + size <= Frame
Room(used, size, remaining) ==
  used + size + remaining * OverflowSize <= Frame

TooLong(ids) == BaseSize + OverflowSize * Len(ids) > Frame

\* Every id gets its slot, or the refusal of it if that would not fit.
Keep(id, used, remaining) ==
  IF Room(used, SizeOf(Resolve(id)), remaining) THEN Resolve(id)
  ELSE Is("Overflow")
Batch(ids) ==
  LET used[i \in 0..Len(ids)] ==
        IF i = 0 THEN BaseSize
        ELSE used[i - 1] + SizeOf(Keep(ids[i], used[i - 1], Len(ids) - i))
  IN [i \in 1..Len(ids) |-> Keep(ids[i], used[i - 1], Len(ids) - i)]

Outputs(handles) == [i \in DOMAIN handles |-> Output(handles[i])]
Answer(call) ==
  IF Batched(call.kind) THEN Batch(Outputs(call.handles))
  ELSE <<Resolve(Output(call.handles[1]))>>

\* A slot counts as ready unless it is pending.
ReadySlots(slots) == {i \in DOMAIN slots : slots[i].tag # "Pending"}

\* client_get_ready and client_get_batch_ready.
IsReady(call, slots) ==
  Cardinality(ReadySlots(slots)) >= IF Batched(call.kind) THEN call.min ELSE 1

\* long_poll looks and answers: when ready, or when the time is up.
Answers(call, slots) == IsReady(call, slots) \/ call.park = 0

----------------------------------------------------------------------------
(* The client's side.                                                      *)

\* A batch takes no more ready slots than it has handles; result goes on
\* until its only one is ready, and a get takes what it is told.
MinReady(kind, handles, min) ==
  IF Batched(kind) THEN MinOf(min, Len(handles))
  ELSE IF Loops(kind) THEN 1 ELSE 0

Begin(c, kind, handles, min, timeout) ==
  /\ calls[c].pc = "idle"
  /\ \A i \in DOMAIN handles : handles[i] \in minted
  /\ ~Batched(kind) => Len(handles) = 1
  /\ Becomes(c, [NoCall EXCEPT !.pc = "asking", !.kind = kind,
       !.handles = handles, !.min = MinReady(kind, handles, min),
       !.left = timeout])
  /\ UNCHANGED <<vars, restarts>>

\* remaining_wait_ms, and the request with what is left as its wait.
Remaining_Never(call) == TRUE
Remaining(call) == Loops(call.kind) => call.left > 0

Ask(c) ==
  LET call == calls[c]
  IN /\ call.pc = "asking"
     /\ Becomes(c, IF Remaining(call)
                   THEN [call EXCEPT !.pc = "waiting", !.asked = @ + 1,
                                     !.park = MinOf(call.left, LongPollMs)]
                   ELSE Fails(call, "DeadlineExceeded"))
     /\ UNCHANGED <<vars, restarts>>

\* The reply: too few ready slots, or a pending output, and the loop goes on.
Enough_Unchecked(call, slots) == TRUE
Enough(call, slots) == Cardinality(ReadySlots(slots)) >= call.min

Works(call, slots) ==
  IF slots = <<>> THEN Returns(call, <<>>)
  ELSE [call EXCEPT !.pc = "resolving", !.left = 0, !.asked = 0,
                    !.park = 0, !.slots = slots]

Dispatch(c) ==
  LET call == calls[c]
      slots == Answer(call)
  IN /\ call.pc = "waiting"
     /\ IF Batched(call.kind) /\ TooLong(call.handles)
        THEN Becomes(c, Fails(call, "CapacityExceeded"))
        ELSE /\ Answers(call, slots)
             /\ Becomes(c, IF Enough(call, slots)
                           THEN Works(call, slots)
                           ELSE [call EXCEPT !.pc = "asking", !.park = 0])
     /\ UNCHANGED <<vars, restarts>>

\* No answer in time, or none at all.
RpcFails(c) ==
  /\ calls[c].pc = "waiting"
  /\ Becomes(c, Fails(calls[c], "Io"))
  /\ UNCHANGED <<vars, restarts>>

\* verify_object: the bytes must have the checksum the coordinator told.
Verified_SizeOnly(told, held) == TRUE
Verified(told, held) == held = told

\* payload_bytes.  A worker may hold the bytes of any attempt it was ever
\* given, or have dropped them, or be gone.
Held(t, n) == {g.attempt : g \in {h \in grants : h.task = t /\ h.node = n}}
Fetched(t, slot) ==
  IF slot.inline THEN {[tag |-> "Value", version |-> slot.version]}
  ELSE {IF Verified(slot.version, v) THEN [tag |-> "Value", version |-> v]
        ELSE Is("ObjectConflict") : v \in Held(t, slot.at)}
         \cup {Is("ObjectConflict"), Is("Io")}

\* terminal_error reads the task's status.
TerminalError(t) ==
  CASE tasks[t].state = "Failed" -> Is("TaskFailed")
    [] tasks[t].state = "Cancelled" -> Is("TaskCancelled")
    [] tasks[t].state = "Absent" -> Is("TaskNotFound")
    [] OTHER -> Is("NotTerminal")

\* Only the typed calls know the task an output belongs to.
Results(kind, t, slot) ==
  CASE slot.tag = "Object" -> Fetched(t, slot)
    [] slot.tag = "Unavailable" ->
         IF Typed(kind) THEN {TerminalError(t), Is("Io")}
         ELSE {Is("Unavailable")}
    [] slot.tag = "Pending" -> {Is("Pending")}
    [] slot.tag = "Lost" -> {Is("ObjectLost")}
    [] OTHER -> {Is("CapacityExceeded")}

\* The next slot, which may take a request of its own.
ResolveSlot(c) ==
  LET call == calls[c]
      i == Len(call.out) + 1
  IN /\ call.pc = "resolving"
     /\ i <= Len(call.slots)
     /\ \E r \in Results(call.kind, call.handles[i], call.slots[i]) :
          Becomes(c, IF i < Len(call.slots)
                     THEN [call EXCEPT !.out = Append(@, r)]
                     ELSE Returns(call, Append(call.out, r)))
     /\ UNCHANGED <<vars, restarts>>

----------------------------------------------------------------------------
(* The rest of the system.                                                 *)

RestartCoordinator ==
  /\ restarts < MaxRestarts
  /\ restarts' = restarts + 1
  /\ Restart
  /\ UNCHANGED calls

\* Time passes for the callers and the parked requests as well.
ClockTick ==
  /\ Tick
  /\ calls' = [c \in Caller |->
       [calls[c] EXCEPT !.left = Down(@), !.park = Down(@)]]
  /\ UNCHANGED restarts

Cluster ==
  /\ WorkerRequest \/ TaskReport \/ ClientRequest \/ ExpireWorkers
       \/ ReapTerminalTasks
  /\ UNCHANGED readVars

ReadInit == Init /\ calls = [c \in Caller |-> NoCall] /\ restarts = 0

Starts(c) ==
  \E kind \in Kind, handles \in Handles, min \in Wanted,
     timeout \in 0..MaxTimeout : Begin(c, kind, handles, min, timeout)
Proceeds(c) == Ask(c) \/ Dispatch(c) \/ RpcFails(c) \/ ResolveSlot(c)

ReadNext ==
  \/ \E c \in Caller : Starts(c) \/ Proceeds(c)
  \/ Cluster \/ ClockTick \/ RestartCoordinator

ReadSpec == ReadInit /\ [][ReadNext]_allVars

----------------------------------------------------------------------------
(* Properties.                                                             *)

\* The calls keep their types (fetch_batch, TaskHandle::result).
ReadTypeOK == calls \in [Caller -> Call] /\ restarts \in 0..MaxRestarts

\* What a call returns for a task is what became of it, although it is put
\* together from several reads with cancellation, expiry, release, reclaim,
\* retries and a restart in between: a value is that of the attempt that
\* succeeded, never of an earlier one a worker still holds, a failure or a
\* cancellation did happen, and a status read after an output was found
\* unavailable never shows a task that is live or succeeded.
TrueOf(t, r) ==
  CASE r.tag = "Value" ->
         tasks[t].state = "Succeeded" /\ tasks[t].attempt = r.version
    [] r.tag = "TaskFailed" -> tasks[t].state = "Failed"
    [] r.tag = "Unavailable" -> tasks[t].state \in {"Failed", "Cancelled"}
    [] r.tag = "TaskCancelled" -> tasks[t].state = "Cancelled"
    [] r.tag = "ObjectLost" -> objects[Output(t)].state = "Lost"
    [] r.tag = "ObjectConflict" -> tasks[t].state = "Succeeded"
    [] r.tag \in {"NotTerminal", "TaskNotFound"} -> FALSE
    [] OTHER -> TRUE

ResultsAreTrue ==
  \A c \in Caller : \A i \in DOMAIN calls[c].out :
    LET t == calls[c].handles[i]
    IN IF tasks[t].state = "Absent" THEN calls[c].out[i].tag # "NotTerminal"
       ELSE TrueOf(t, calls[c].out[i])

\* A batch that returns has at least min_ready tasks that ended: a slot that
\* was refused for its size is not one that is still to come.
EnoughEnded ==
  \A c \in Caller :
    LET call == calls[c]
        ended == {i \in DOMAIN call.handles : ~Live(call.handles[i])}
    IN call.pc = "returned" /\ call.error = "" =>
         Cardinality(ended) >= call.min

\* The bytes of the slots of a reply, one by one.
SlotBytes(slots) ==
  UNION {{i} \X (1..SizeOf(slots[i])) : i \in DOMAIN slots}

\* A reply to GetBatch has a slot for every id and fits the frame, whatever
\* the order of large and small slots, so that write_frame never refuses it.
BatchFits ==
  \A c \in Caller :
    LET call == calls[c]
    IN Batched(call.kind) /\ call.pc = "resolving" =>
         /\ DOMAIN call.slots = DOMAIN call.handles
         /\ BaseSize + Cardinality(SlotBytes(call.slots)) <= Frame

\* The loops of fetch_batch and result come to an end without a busy spin:
\* every request that is answered too early to be of use has parked for some
\* of the caller's time, so there are never more of them than that time.
LoopEnds ==
  \A c \in Caller : Loops(calls[c].kind) => calls[c].asked <= MaxTimeout
=============================================================================
