-------------------------------- MODULE Rpc --------------------------------
(***************************************************************************)
(* Requests, retries and the replay cache (cluster.rs).                    *)
(*                                                                         *)
(* `request` sends an envelope on a connection, waits for the reply until  *)
(* the envelope's deadline, and on a transport error sends the same        *)
(* envelope once more on another connection.  The server's handler of the  *)
(* first connection does not know that it was given up.  Handlers are      *)
(* concurrent tasks: each reads the clock when it validates the envelope,  *)
(* reads it again in dispatch_once, and only then takes the replay lock,   *)
(* under which it looks the request up, dispatches it and remembers the    *)
(* reply.  A coordinator that restarts has a new epoch and no memory.      *)
(*                                                                         *)
(* An envelope is sent twice unchanged under a fresh id, so the branch for *)
(* an id that comes with another body is never taken and is left out.      *)
(*                                                                         *)
(* A definition named X_... stands before X and is X with a bug: no module *)
(* uses it.                                                                *)
(***************************************************************************)
EXTENDS Integers, FiniteSets, FiniteSetsExt

CONSTANTS
  Req,           \* mutations the clients will request, each with its id
  Cached,        \* those should_cache names: Submit, Cancel, Release
  Bytes,         \* [Req -> Nat]: size of the reply
  Overhead,      \* REPLAY_ENTRY_OVERHEAD
  MaxEntries,    \* MAX_REPLAY_ENTRIES
  MaxBytes,      \* MAX_REPLAY_BYTES
  Timeout,       \* DEFAULT_RPC_TIMEOUT_MS
  Ttl,           \* MAX_REPLAY_TTL_MS
  MaxClock,      \* bound on time
  MaxCalls,      \* bound on the requests that are made
  MaxEpoch       \* bound on coordinator incarnations

ASSUME ReqAssumption == IsFiniteSet(Req) /\ Cached \subseteq Req
ASSUME SizeAssumption ==
  /\ Bytes \in [Req -> Nat] /\ Overhead \in Nat
  /\ MaxEntries \in Nat /\ MaxBytes \in Nat \ {0} /\ MaxCalls \in Nat
ASSUME TimeAssumption ==
  /\ Timeout \in Nat \ {0} /\ MaxClock \in Nat /\ MaxEpoch \in Nat \ {0}
  /\ Ttl \in Nat
\* 5 seconds and 30 seconds.
ASSUME TtlCoversTimeout == Timeout <= Ttl

VARIABLES
  clock,
  epoch,         \* the running coordinator's epoch
  cache,         \* ReplayCache.entries: [Cached -> expiry or NotCached]
  usedBytes,     \* ReplayCache.used_bytes
  applied,       \* how often each epoch's state was changed by a request
  known,         \* the epoch the clients connected to
  calls,         \* the clients' side of each request
  handlers       \* the server's connections

server == <<epoch, cache, usedBytes, applied>>
vars == <<clock, epoch, cache, usedBytes, applied, known, calls, handlers>>

NotCached == -1
NoReply == "none"

Waiting == {"waiting", "paused"}
Outcomes == {"ok", "CapacityExceeded", "Io", "DeadlineExceeded"}
Call == [phase : {"new"} \cup Waiting \cup Outcomes, attempt : 0..1,
         deadline : Nat, epoch : 0..MaxEpoch]
Handler == [req : Req, attempt : 0..1, now : Nat,
            stage : {"sent", "valid", "locking", "replied"},
            reply : {NoReply, "ok", "CapacityExceeded"}]

Entries(C) == {r \in Cached : C[r] # NotCached}
SizeOf(r) == Bytes[r] + Overhead

\* The bytes of a set of entries, one by one: to add sizes up is to count.
BytesOf(S) == UNION {{r} \X (1..SizeOf(r)) : r \in S}

----------------------------------------------------------------------------
(* The client: request.                                                    *)

ConnectEpoch ==
  /\ known # epoch
  /\ known' = epoch
  /\ UNCHANGED <<clock, server, calls, handlers>>

Sent(r, n) ==
  [req |-> r, attempt |-> n, now |-> 0, stage |-> "sent", reply |-> NoReply]

Issue(r) ==
  /\ calls[r].phase = "new" /\ known # 0
  /\ clock + Timeout <= MaxClock
  /\ Cardinality({q \in Req : calls[q].phase # "new"}) < MaxCalls
  /\ calls' = [calls EXCEPT ![r] =
       [phase |-> "waiting", attempt |-> 0, deadline |-> clock + Timeout,
        epoch |-> known]]
  /\ handlers' = handlers \cup {Sent(r, 0)}
  /\ UNCHANGED <<clock, server, known>>

\* The connection fails, at any point: before the server reads the request,
\* while it works on it, or under the reply.
Break(r) ==
  /\ calls[r].phase = "waiting"
  /\ calls' = [calls EXCEPT ![r].phase =
                 IF calls[r].attempt = 0 THEN "paused" ELSE "Io"]
  /\ UNCHANGED <<clock, server, known, handlers>>

Retry(r) ==
  /\ calls[r].phase = "paused" /\ clock < calls[r].deadline
  /\ calls' = [calls EXCEPT ![r].phase = "waiting", ![r].attempt = 1]
  /\ handlers' = handlers \cup {Sent(r, 1)}
  /\ UNCHANGED <<clock, server, known>>

GiveUp(r) ==
  /\ calls[r].phase \in Waiting /\ clock >= calls[r].deadline
  /\ calls' = [calls EXCEPT ![r].phase = "DeadlineExceeded"]
  /\ UNCHANGED <<clock, server, known, handlers>>

----------------------------------------------------------------------------
(* The server: handle, dispatch_once.                                      *)

Moves(h, stage, now, reply) ==
  handlers' = (handlers \ {h}) \cup
    {[h EXCEPT !.stage = stage, !.now = now, !.reply = reply]}

\* Errors of handle close the connection, without a reply.
Closes(h) == handlers' = handlers \ {h}

\* Envelope::validate
Validate(h) ==
  /\ h.stage = "sent"
  /\ IF clock < calls[h.req].deadline THEN Moves(h, "valid", 0, NoReply)
     ELSE Closes(h)
  /\ UNCHANGED <<clock, server, known, calls>>

InEpoch_Any(h) == TRUE
InEpoch(h) == calls[h.req].epoch = epoch

AwaitsReply(h) ==
  calls[h.req].phase = "waiting" /\ calls[h.req].attempt = h.attempt

StaleEpoch(h) ==
  /\ h.stage = "valid" /\ ~InEpoch(h)
  /\ Closes(h)
  /\ UNCHANGED <<clock, server, known, calls>>

Applied(r) == [applied EXCEPT ![epoch][r] = @ + 1]

DispatchUncached(h) ==
  /\ h.stage = "valid" /\ InEpoch(h) /\ h.req \notin Cached
  /\ applied' = Applied(h.req)
  /\ Moves(h, "replied", 0, "ok")
  /\ UNCHANGED <<clock, epoch, cache, usedBytes, known, calls>>

\* let now = now_ms(), before the replay lock
ReadClock(h) ==
  /\ h.stage = "valid" /\ InEpoch(h) /\ h.req \in Cached
  /\ Moves(h, "locking", clock, NoReply)
  /\ UNCHANGED <<clock, server, known, calls>>

\* From here on under the replay lock.
Fresh_RetryOnly(h) ==
  h.attempt = 1 /\ cache[h.req] # NotCached /\ cache[h.req] > h.now
Fresh(h) == cache[h.req] # NotCached /\ cache[h.req] > h.now

Replay(h) ==
  /\ h.stage = "locking" /\ Fresh(h)
  /\ Moves(h, "replied", 0, "ok")
  /\ UNCHANGED <<clock, server, known, calls>>

\* What is left after the stale entry of the request itself is dropped and,
\* at capacity, all stale entries are swept.
AtCapacity(C, used) == Cardinality(Entries(C)) >= MaxEntries \/ used >= MaxBytes
Without(C, S) == [r \in Cached |-> IF r \in S THEN NotCached ELSE C[r]]
UsedWithout_Kept(C, used, S) == used
UsedWithout(C, used, S) ==
  used - Cardinality(BytesOf(S \cap Entries(C)))
Stale(C, now) == {r \in Entries(C) : C[r] <= now}

Looked(h) == Without(cache, {h.req})
LookedUsed(h) == UsedWithout(cache, usedBytes, {h.req})
Swept(h) ==
  IF AtCapacity(Looked(h), LookedUsed(h))
  THEN Without(Looked(h), Stale(Looked(h), h.now)) ELSE Looked(h)
SweptUsed(h) ==
  IF AtCapacity(Looked(h), LookedUsed(h))
  THEN UsedWithout(Looked(h), LookedUsed(h), Stale(Looked(h), h.now))
  ELSE LookedUsed(h)

Full(h) ==
  /\ h.stage = "locking" /\ ~Fresh(h)
  /\ AtCapacity(Swept(h), SweptUsed(h))
  /\ cache' = Swept(h) /\ usedBytes' = SweptUsed(h)
  /\ Moves(h, "replied", 0, "CapacityExceeded")
  /\ UNCHANGED <<clock, epoch, applied, known, calls>>

\* The entry lives until the deadline, or for Ttl when that is sooner.
Expiry(h) ==
  h.now + Min({Ttl, IF calls[h.req].deadline > h.now
                    THEN calls[h.req].deadline - h.now ELSE 0})

DispatchCached(h) ==
  /\ h.stage = "locking" /\ ~Fresh(h)
  /\ ~AtCapacity(Swept(h), SweptUsed(h))
  /\ applied' = Applied(h.req)
  /\ cache' = [Swept(h) EXCEPT ![h.req] = Expiry(h)]
  /\ usedBytes' = SweptUsed(h) + SizeOf(h.req)
  /\ Moves(h, "replied", 0, "ok")
  /\ UNCHANGED <<clock, epoch, known, calls>>

\* The reply goes to whoever still waits on this connection.
Reply(h) ==
  /\ h.stage = "replied"
  /\ Closes(h)
  /\ calls' = IF AwaitsReply(h)
              THEN [calls EXCEPT ![h.req].phase = h.reply] ELSE calls
  /\ UNCHANGED <<clock, server, known>>

Restart ==
  /\ epoch < MaxEpoch
  /\ epoch' = epoch + 1
  /\ cache' = [r \in Cached |-> NotCached] /\ usedBytes' = 0
  /\ handlers' = {}
  /\ UNCHANGED <<clock, applied, known, calls>>

Tick ==
  /\ clock < MaxClock
  /\ clock' = clock + 1
  /\ UNCHANGED <<server, known, calls, handlers>>

----------------------------------------------------------------------------
Init ==
  /\ clock = 0 /\ epoch = 1 /\ known = 0
  /\ cache = [r \in Cached |-> NotCached] /\ usedBytes = 0
  /\ applied = [e \in 1..MaxEpoch |-> [r \in Req |-> 0]]
  /\ calls = [r \in Req |->
       [phase |-> "new", attempt |-> 0, deadline |-> 0, epoch |-> 0]]
  /\ handlers = {}

Handle(h) ==
  \/ Validate(h) \/ StaleEpoch(h) \/ DispatchUncached(h) \/ ReadClock(h)
  \/ Replay(h) \/ Full(h) \/ DispatchCached(h) \/ Reply(h)

Next ==
  \/ ConnectEpoch
  \/ \E r \in Req : Issue(r) \/ Break(r) \/ Retry(r) \/ GiveUp(r)
  \/ \E h \in handlers : Handle(h)
  \/ Restart \/ Tick

Spec == Init /\ [][Next]_vars

----------------------------------------------------------------------------
(* Properties.                                                             *)

\* Types of the cache, the calls and the connections; the running total is
\* BudgetExact's.
TypeOK ==
  /\ clock \in Nat /\ epoch \in 1..MaxEpoch /\ known \in 0..MaxEpoch
  /\ cache \in [Cached -> Nat \cup {NotCached}]
  /\ applied \in [1..MaxEpoch -> [Req -> Nat]]
  /\ calls \in [Req -> Call] /\ handlers \subseteq Handler

\* A cached mutation that was applied is remembered until its deadline,
\* through expiry, sweeps under pressure and handlers that read the clock
\* long before they get the replay lock.
Remembered ==
  \A r \in Cached : applied[epoch][r] > 0 /\ clock < calls[r].deadline =>
    cache[r] # NotCached

\* So before its deadline a mutation is never applied a second time by one
\* coordinator, whichever of the two handlers comes first.
RepeatsOnlyLate ==
  [][\A r \in Cached :
       applied[epoch][r] > 0 /\ applied'[epoch][r] > applied[epoch][r] =>
         clock >= calls[r].deadline]_vars

\* The running total is the size of the entries, through single removals,
\* sweeps and insertions, there are never more entries than allowed, and the
\* soft byte limit is exceeded by no more than one of the entries.
BudgetExact ==
  /\ usedBytes = Cardinality(BytesOf(Entries(cache)))
  /\ Cardinality(Entries(cache)) <= MaxEntries
  /\ \/ usedBytes < MaxBytes
     \/ \E r \in Entries(cache) : usedBytes < MaxBytes + SizeOf(r)

\* A caller that was told "ok" has been served by the epoch it named, and no
\* other epoch was changed on its behalf: not by a handler that outlived its
\* caller, not by a retry that reaches the restarted coordinator.
AnswersAreTrue ==
  \A r \in Req :
    /\ calls[r].phase = "ok" => applied[calls[r].epoch][r] > 0
    /\ \A e \in 1..MaxEpoch : applied[e][r] > 0 => e = calls[r].epoch
=============================================================================
