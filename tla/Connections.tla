---------------------------- MODULE Connections ----------------------------
(***************************************************************************)
(* Connections between `request` and the two servers that answer it: the   *)
(* coordinator's serve/handle (cluster.rs) and a worker's serve_objects    *)
(* (crayon_cluster.rs).                                                    *)
(*                                                                         *)
(* A call takes an idle connection out of the pool or dials; when that     *)
(* attempt ends in a transport error it sleeps and dials once more.  The   *)
(* stream goes back to the pool only with its reply.  The server spends a  *)
(* permit on every connection it accepts, drops the ones it has no permit  *)
(* for, and closes without a reply whatever it cannot serve.  The          *)
(* coordinator reads the next request from the same connection until the   *)
(* read timeout; the object server answers one request and hangs up, so    *)
(* what the client pools of it is dead.  On a signal the coordinator stops *)
(* accepting, but keeps listening, until every permit is back or the grace *)
(* period is over.                                                         *)
(*                                                                         *)
(* What a request does is Rpc's matter; time is not counted here, so a     *)
(* timer may fire whenever it is armed.  A definition named X_... stands   *)
(* before X and is X with a bug: no module uses it.                        *)
(***************************************************************************)
EXTENDS Naturals, Sequences, FiniteSets

CONSTANTS
  Call,            \* callers of `request`, each one call after the other
  Conn,            \* streams; one is dialled anew once both ends are gone
  MaxConnections,  \* MAX_CONNECTIONS, OBJECT_CONNECTIONS
  PoolMax          \* POOL_MAX_PER_ADDR

ASSUME SizesAssumption == MaxConnections \in Nat \ {0} /\ PoolMax \in Nat
ASSUME FiniteAssumption == IsFiniteSet(Conn)

VARIABLES
  server,    \* which server this is; does not change
  phase,     \* serve: accepting, draining, or how the process ended
  permits,   \* free permits of the semaphore
  call,      \* the callers
  conn       \* the streams

vars == <<server, phase, permits, call, conn>>

Servers == {"coordinator", "objects"}
Listening == {"accepting", "draining"}
Ended == {"drained", "cut"}
Outcomes == {"ok", "Io", "DeadlineExceeded", "Protocol"}

\* Ends of a stream that no call and no handler hold.
Pool == "pool"
Gone == "gone"
Lost == "lost"        \* gone, and the server is not told
Orphan == "orphan"    \* stands for a request whose call is over
ASSUME NamesAssumption == Call \cap {Pool, Gone, Lost, Orphan, "none"} = {}

CallRecord == [stage : {"new", "waiting", "paused"} \cup Outcomes,
               attempt : 0..1, got : Call \cup {Orphan, "none"}, cut : BOOLEAN]
\* `handler` is what the server does with its end; `up` and `down` are the
\* requests and replies on the way, named by the call that made them.
Stream == [owner : Call \cup {Pool, Gone, Lost},
           handler : {"backlog", "reading", "busy", "closed"},
           fresh : BOOLEAN,
           up : Seq(Call \cup {Orphan}), work : Call \cup {Orphan, "none"},
           down : Seq(Call \cup {Orphan})]

Unused == [owner |-> Gone, handler |-> "closed", fresh |-> FALSE,
           up |-> <<>>, work |-> "none", down |-> <<>>]
Left == {Gone, Lost}
Free(k) == conn[k].owner \in Left /\ conn[k].handler = "closed"
Pooled == {k \in Conn : conn[k].owner = Pool}
Handled == {"reading", "busy"}

----------------------------------------------------------------------------
(* The client: request.                                                    *)

\* The kernel completes the handshake as long as the listener exists, also
\* while the server drains and will never accept.
Dialled(c) ==
  [Unused EXCEPT !.owner = c, !.handler = "backlog", !.fresh = TRUE,
                 !.up = <<c>>]

Waits(c, n) == [call[c] EXCEPT !.stage = "waiting", !.attempt = n]

\* An Io error: the first attempt is repeated, the second is the outcome.
\* `cut` tells whether the connection was one dialled for this call.
Failed(c, cut) ==
  [call[c] EXCEPT !.stage = IF @ # "paused" /\ call[c].attempt = 0
                            THEN "paused" ELSE "Io",
                  !.cut = cut]

\* What is written to a closed peer is discarded.
Reuses_Again == {"new", "paused"}
Reuses == {"new"}
Reuse(c, k) ==
  /\ call[c].stage \in Reuses /\ conn[k].owner = Pool
  /\ conn' = [conn EXCEPT ![k].owner = c,
       ![k].up = IF conn[k].handler = "closed" THEN @ ELSE Append(@, c)]
  /\ call' = [call EXCEPT ![c] = Waits(c, IF @.stage = "new" THEN 0 ELSE 1)]
  /\ UNCHANGED <<server, phase, permits>>

\* Whether the call may dial: a first attempt that finds the pool empty, or
\* the retry, which does not look at the pool.
Dials(c) ==
  \/ call[c].stage = "new" /\ Pooled = {}
  \/ call[c].stage = "paused"

Dial(c, k) ==
  /\ Dials(c) /\ phase \in Listening /\ Free(k)
  /\ conn' = [conn EXCEPT ![k] = Dialled(c)]
  /\ call' = [call EXCEPT ![c] =
                Waits(c, IF @.stage = "new" THEN 0 ELSE 1)]
  /\ UNCHANGED <<server, phase, permits>>

\* Nobody listens.
Refused(c) ==
  /\ Dials(c) /\ phase \in Ended
  /\ call' = [call EXCEPT ![c] = Failed(c, TRUE)]
  /\ UNCHANGED <<server, phase, permits, conn>>

\* write_frame refuses an envelope that exceeds MAX_FRAME_BYTES; the stream
\* taken from the pool goes with it.
TooLarge(c) ==
  /\ call[c].stage = "new"
  /\ call' = [call EXCEPT ![c].stage = "Protocol"]
  /\ IF Pooled = {} THEN conn' = conn
     ELSE \E k \in Pooled : conn' = [conn EXCEPT ![k].owner = Gone]
  /\ UNCHANGED <<server, phase, permits>>

\* The reply is read, and the stream pooled unless the pool is full.
Receive(c, k) ==
  /\ conn[k].owner = c /\ conn[k].down # <<>>
  /\ call' = [call EXCEPT ![c].stage = "ok", ![c].got = Head(conn[k].down)]
  /\ conn' = [conn EXCEPT ![k].down = Tail(@), ![k].fresh = FALSE,
       ![k].owner = IF Cardinality(Pooled) < PoolMax THEN Pool ELSE Gone]
  /\ UNCHANGED <<server, phase, permits>>

\* Everything the server sent is read and it has closed its end.
EndOfStream(c, k) ==
  /\ conn[k].owner = c /\ conn[k].down = <<>> /\ conn[k].handler = "closed"
  /\ conn' = [conn EXCEPT ![k].owner = Gone, ![k].fresh = FALSE]
  /\ call' = [call EXCEPT ![c] = Failed(c, conn[k].fresh)]
  /\ UNCHANGED <<server, phase, permits>>

\* The timeout around the attempt, or the check after the sleep: the stream
\* is dropped with whatever is still on it.
DropsStream_Keeps(c) ==
  [k \in Conn |-> IF conn[k].owner = c THEN [conn[k] EXCEPT !.owner = Pool]
                  ELSE conn[k]]
DropsStream(c) ==
  [k \in Conn |-> IF conn[k].owner = c
                  THEN [conn[k] EXCEPT !.owner = Gone, !.fresh = FALSE,
                                       !.down = <<>>]
                  ELSE conn[k]]

GiveUp(c) ==
  /\ call[c].stage \in {"waiting", "paused"}
  /\ call' = [call EXCEPT ![c].stage = "DeadlineExceeded"]
  /\ conn' = DropsStream(c)
  /\ UNCHANGED <<server, phase, permits>>

\* The caller's next call.  What is left of the last one is nobody's.
Orphaned(c, s) == [i \in DOMAIN s |-> IF s[i] = c THEN Orphan ELSE s[i]]
NextCall(c) ==
  /\ call[c].stage \in Outcomes
  /\ call' = [call EXCEPT ![c] = [stage |-> "new", attempt |-> 0,
                                  got |-> "none", cut |-> FALSE]]
  /\ conn' = [k \in Conn |->
       [conn[k] EXCEPT !.up = Orphaned(c, @), !.down = Orphaned(c, @),
                       !.work = IF @ = c THEN Orphan ELSE @]]
  /\ UNCHANGED <<server, phase, permits>>

----------------------------------------------------------------------------
(* The server: the accept loop and the connection's task.                  *)

\* The task ends and drops its stream and its permit.
Closed(k) ==
  [conn EXCEPT ![k].handler = "closed", ![k].work = "none", ![k].up = <<>>]
ReleasesPermit == permits + 1
Closes(k) == conn' = Closed(k) /\ permits' = ReleasesPermit

AcquiresPermit == permits - 1

Accept(k) ==
  /\ phase = "accepting" /\ conn[k].handler = "backlog"
  /\ IF permits > 0
     THEN /\ permits' = AcquiresPermit
          /\ conn' = [conn EXCEPT ![k].handler = "reading"]
     ELSE conn' = Closed(k) /\ UNCHANGED permits
  /\ UNCHANGED <<server, phase, call>>

Read(k) ==
  /\ conn[k].handler = "reading" /\ conn[k].up # <<>>
  /\ conn' = [conn EXCEPT ![k].handler = "busy", ![k].up = Tail(@),
                          ![k].work = Head(conn[k].up)]
  /\ UNCHANGED <<server, phase, permits, call>>

\* The reply of a request is written; the coordinator reads on, the object
\* server hangs up.
Answered(k) ==
  [conn[k] EXCEPT !.work = "none",
     !.down = IF conn[k].owner \in Left THEN @ ELSE Append(@, conn[k].work)]
Answer(k) ==
  /\ conn[k].handler = "busy"
  /\ IF server = "coordinator"
     THEN /\ conn' = [conn EXCEPT ![k] = [Answered(k) EXCEPT
                        !.handler = "reading"]]
          /\ UNCHANGED permits
     ELSE /\ conn' = [conn EXCEPT ![k] = [Answered(k) EXCEPT
                        !.handler = "closed", !.up = <<>>]]
          /\ permits' = ReleasesPermit
  /\ UNCHANGED <<server, phase, call>>

\* A frame that does not decode, an envelope that does not validate, an epoch
\* that is not the coordinator's, a reply that is too large or not taken off
\* the wire in time: handle returns an error and the stream is closed.
\* serve_objects replies to what it cannot serve, so there it is only the
\* reply that fails.
Refuse(k) ==
  /\ conn[k].handler = "busy"
  /\ Closes(k)
  /\ UNCHANGED <<server, phase, call>>

\* read_frame sees the end of the stream.
HangUp(k) ==
  /\ conn[k].handler = "reading" /\ conn[k].owner = Gone /\ conn[k].up = <<>>
  /\ Closes(k)
  /\ UNCHANGED <<server, phase, call>>

\* The read timeout runs from the last reply; the next request may be on its
\* way and is lost.  A caller writes its first request as it connects, so
\* that a connection does not time out before it is read.
IdleTimeout_Never(k) == FALSE
IdleTimeout(k) ==
  /\ conn[k].handler = "reading"
  /\ conn[k].fresh => conn[k].up = <<>>
  /\ Closes(k)
  /\ UNCHANGED <<server, phase, call>>

\* The network loses a connection; the server may not hear of it.
Break(k, end) ==
  /\ conn[k].owner \in Call /\ conn[k].handler # "closed"
  /\ call' = [call EXCEPT ![conn[k].owner] =
                Failed(conn[k].owner, conn[k].fresh)]
  /\ conn' = [conn EXCEPT ![k].owner = end, ![k].fresh = FALSE,
                          ![k].up = <<>>, ![k].down = <<>>]
  /\ UNCHANGED <<server, phase, permits>>

----------------------------------------------------------------------------
(* The process: shutdown_signal, the drain, and the next incarnation.      *)

Signal ==
  /\ server = "coordinator" /\ phase = "accepting"
  /\ phase' = "draining"
  /\ UNCHANGED <<server, permits, call, conn>>

\* The process is gone: its ends of all streams are closed.
Severed ==
  [k \in Conn |-> [conn[k] EXCEPT !.handler = "closed", !.work = "none",
                                  !.up = <<>>]]

\* acquire_many(MAX_CONNECTIONS)
Wanted_OneLess == MaxConnections - 1
Wanted == MaxConnections
Drained ==
  /\ phase = "draining" /\ permits >= Wanted
  /\ phase' = "drained" /\ conn' = Severed
  /\ UNCHANGED <<server, permits, call>>

\* The 10 seconds are over.
GraceOver ==
  /\ phase = "draining"
  /\ phase' = "cut" /\ conn' = Severed
  /\ UNCHANGED <<server, permits, call>>

Crash ==
  /\ phase = "accepting"
  /\ phase' = "cut" /\ conn' = Severed
  /\ UNCHANGED <<server, permits, call>>

Restart ==
  /\ phase \in Ended
  /\ phase' = "accepting" /\ permits' = MaxConnections
  /\ UNCHANGED <<server, call, conn>>

----------------------------------------------------------------------------
Init ==
  /\ server \in Servers /\ phase = "accepting" /\ permits = MaxConnections
  /\ call = [c \in Call |-> [stage |-> "new", attempt |-> 0, got |-> "none",
                             cut |-> FALSE]]
  /\ conn = [k \in Conn |-> Unused]

Client(c) ==
  \/ Refused(c) \/ TooLarge(c) \/ GiveUp(c) \/ NextCall(c)
  \/ \E k \in Conn :
       Reuse(c, k) \/ Dial(c, k) \/ Receive(c, k) \/ EndOfStream(c, k)
Task(k) == Read(k) \/ Answer(k) \/ Refuse(k) \/ HangUp(k) \/ IdleTimeout(k)

Next ==
  \/ \E c \in Call : Client(c)
  \/ \E k \in Conn :
       Accept(k) \/ Task(k) \/ \E end \in Left : Break(k, end)
  \/ Signal \/ Drained \/ GraceOver \/ Crash \/ Restart

Spec == Init /\ [][Next]_vars

\* A connection's task runs while it can, and its timers fire; the handlers
\* come to an end, since a long poll is capped.  Callers, the network and
\* signals owe nothing.
FairSpec == Spec /\ \A k \in Conn : WF_vars(Task(k))

----------------------------------------------------------------------------
(* Properties.                                                             *)

\* Types of the callers and the streams.
TypeOK ==
  /\ server \in Servers /\ phase \in Listening \cup Ended
  /\ permits \in 0..MaxConnections
  /\ call \in [Call -> CallRecord] /\ conn \in [Conn -> Stream]

\* A call is answered with the reply to its own request, however its stream
\* was used before and whichever call gave up on it: nothing on the wire says
\* which request a reply belongs to.
RepliesMatch == \A c \in Call : call[c].stage = "ok" => call[c].got = c

\* A call that fails with Io lost a connection it dialled itself: neither
\* the read timeout of the coordinator nor the hang-up of the object server
\* ever fails a call, though both leave dead streams in the pool.
IdleIsHarmless == \A c \in Call : call[c].stage = "Io" => call[c].cut

\* A server that ends because its permits are back cuts off no connection it
\* accepted: "exit cleanly instead of being hard-killed mid-request".
DrainIsClean ==
  [][phase' = "drained" /\ phase # "drained" =>
       \A k \in Conn : conn[k].handler \notin Handled]_vars

\* A connection whose client has gone away gives its permit back, also when
\* the server never hears of it.
AbandonedAreFreed ==
  \A k \in Conn : conn[k].owner \in Left /\ conn[k].handler \in Handled
                     ~> conn[k].handler = "closed"
=============================================================================
