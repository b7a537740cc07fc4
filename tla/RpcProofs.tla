----------------------------- MODULE RpcProofs -----------------------------
(***************************************************************************)
(* The replay cache keeps its promise, for any number of requests, any     *)
(* limits of the cache and any interleaving of handlers and restarts: a    *)
(* mutation that was applied is remembered until its deadline, so it is    *)
(* not applied again before.                                               *)
(*                                                                         *)
(* The argument: the entry of a mutation that was applied in time expires  *)
(* at the deadline and not earlier, because the Ttl covers the timeout.  A *)
(* handler drops an entry only if it is stale at the time the handler      *)
(* read, and that time is not later than now, however long the handler     *)
(* waited for the replay lock.                                             *)
(***************************************************************************)
EXTENDS Rpc, FiniteSetTheorems, TLAPS

\* Times that were read or promised, seen from now.
TimesArePast ==
  /\ \A r \in Req : calls[r].phase # "new" =>
       calls[r].deadline <= clock + Timeout
  /\ \A h \in handlers :
       /\ h.now <= clock
       /\ h.stage = "locking" => calls[h.req].deadline <= h.now + Timeout

\* What the handlers stand for.
HandlersAreSound ==
  \A h \in handlers :
    /\ calls[h.req].phase # "new"
    /\ h.stage = "locking" => h.req \in Cached /\ calls[h.req].epoch = epoch
    /\ h.stage = "replied" => h.reply # NoReply
    /\ h.reply = "ok" => applied[calls[h.req].epoch][h.req] > 0

\* The cache and the answers tell of requests that were applied.
OnlyApplied ==
  /\ \A r \in Req : calls[r].phase # "new" => calls[r].epoch \in 1..MaxEpoch
  /\ \A r \in Req, e \in 1..MaxEpoch :
       applied[e][r] > 0 => calls[r].phase # "new" /\ e <= epoch
  /\ \A r \in Cached : cache[r] # NotCached => applied[epoch][r] > 0

KeptToDeadline ==
  \A r \in Cached : applied[epoch][r] > 0 =>
    clock >= calls[r].deadline \/ cache[r] >= calls[r].deadline

Inv ==
  /\ TypeOK /\ TimesArePast /\ HandlersAreSound /\ OnlyApplied
  /\ KeptToDeadline /\ AnswersAreTrue

----------------------------------------------------------------------------
(* The operators of the cache.                                             *)

\* The smaller of two numbers.
LEMMA MinOfTwo ==
  ASSUME NEW a \in Nat, NEW b \in Nat
  PROVE  Min({a, b}) \in {a, b} /\ Min({a, b}) <= a /\ Min({a, b}) <= b
  <1>1. \E x \in {a, b} : \A y \in {a, b} : x <= y
    <2>1. CASE a <= b
      BY <2>1
    <2>2. CASE b <= a
      BY <2>2
    <2> QED BY <2>1, <2>2
  <1> QED BY <1>1 DEF Min

\* An entry made in time lives until the deadline.
LEMMA ExpiryIsDeadline ==
  ASSUME Inv, NEW h \in handlers, h.stage = "locking"
  PROVE  /\ Expiry(h) \in Nat
         /\ h.now < calls[h.req].deadline => Expiry(h) = calls[h.req].deadline
  <1> DEFINE d == calls[h.req].deadline
             left == IF d > h.now THEN d - h.now ELSE 0
  <1>1. h.now \in Nat /\ d \in Nat /\ Ttl \in Nat /\ Timeout \in Nat
    BY TimeAssumption DEF Inv, TypeOK, Handler, Call
  <1>2. d <= h.now + Timeout
    BY DEF Inv, TimesArePast
  <1>3. left \in Nat /\ left <= Ttl
    BY <1>1, <1>2, TtlCoversTimeout
  <1> HIDE DEF left
  <1>4. Min({Ttl, left}) = left
    <2>1. Min({Ttl, left}) \in {Ttl, left} /\ Min({Ttl, left}) <= left
      BY <1>1, <1>3, MinOfTwo
    <2> QED BY <1>1, <1>3, <2>1
  <1>5. Expiry(h) = h.now + left
    BY <1>4 DEF Expiry, left
  <1> QED BY <1>1, <1>5 DEF left

\* A sweep drops stale entries only, and the request's own.
LEMMA SweptFacts ==
  ASSUME Inv, NEW h \in handlers, h.stage = "locking"
  PROVE  /\ Swept(h) \in [Cached -> Nat \cup {NotCached}]
         /\ \A r \in Cached : r # h.req =>
              \/ Swept(h)[r] = cache[r]
              \/ Swept(h)[r] = NotCached /\ cache[r] <= h.now
         /\ h.req \in Cached => Swept(h)[h.req] = NotCached
  BY DEF Inv, TypeOK, Swept, Looked, Without, Stale, Entries, NotCached

\* The entry a handler does not find fresh is stale, or was never there.
LEMMA OwnEntryStale ==
  ASSUME Inv, NEW h \in handlers, h.stage = "locking", ~Fresh(h)
  PROVE  h.req \in Cached /\ cache[h.req] <= h.now
  <1>1. h.req \in Cached /\ h.now \in Nat
    BY DEF Inv, TypeOK, Handler, HandlersAreSound
  <1>2. cache[h.req] \in Nat \cup {NotCached}
    BY <1>1 DEF Inv, TypeOK
  <1> QED BY <1>1, <1>2 DEF Fresh, NotCached

\* An entry that lasts to the deadline and is stale is past the deadline.
LEMMA DroppedIsLate ==
  ASSUME Inv, NEW h \in handlers, NEW r \in Cached,
         cache[r] <= h.now, cache[r] >= calls[r].deadline
  PROVE  clock >= calls[r].deadline
  <1>1. /\ h.now \in Nat /\ h.now <= clock /\ clock \in Nat
        /\ calls[r].deadline \in Nat /\ cache[r] \in Nat \cup {NotCached}
    BY ReqAssumption DEF Inv, TypeOK, Handler, Call, TimesArePast
  <1> QED BY <1>1 DEF NotCached

\* A handler that moves on stays a handler of the same request.
LEMMA MovedHandler ==
  ASSUME Inv, NEW h \in handlers,
         NEW stage \in {"sent", "valid", "locking", "replied"}, NEW now \in Nat,
         NEW reply \in {NoReply, "ok", "CapacityExceeded"},
         Moves(h, stage, now, reply)
  PROVE  /\ handlers' \subseteq Handler
         /\ \A x \in handlers' :
              \/ x \in handlers
              \/ /\ x.req = h.req /\ x.now = now /\ x.stage = stage
                 /\ x.reply = reply
  <1> DEFINE g == [h EXCEPT !.stage = stage, !.now = now, !.reply = reply]
  <1>1. h \in Handler
    BY DEF Inv, TypeOK
  <1>2. g \in Handler
    BY <1>1 DEF Handler
  <1>3. /\ g.req = h.req /\ g.now = now /\ g.stage = stage
        /\ g.reply = reply
    BY <1>1 DEF Handler
  <1>4. handlers' = (handlers \ {h}) \cup {g}
    BY DEF Moves
  <1> HIDE DEF g
  <1> QED BY <1>2, <1>3, <1>4 DEF Inv, TypeOK

\* Applying a request counts it for the running epoch and no other.
LEMMA AppliedFacts ==
  ASSUME Inv, NEW r \in Req
  PROVE  /\ Applied(r) \in [1..MaxEpoch -> [Req -> Nat]]
         /\ Applied(r)[epoch][r] > 0
         /\ \A e \in 1..MaxEpoch, q \in Req :
              /\ Applied(r)[e][q] = applied[e][q] \/ (e = epoch /\ q = r)
              /\ applied[e][q] > 0 => Applied(r)[e][q] > 0
  <1>1. applied \in [1..MaxEpoch -> [Req -> Nat]] /\ epoch \in 1..MaxEpoch
    BY DEF Inv, TypeOK
  <1>2. applied[epoch][r] + 1 \in Nat /\ applied[epoch][r] + 1 > 0
    BY <1>1
  <1>3. Applied(r) =
          [applied EXCEPT ![epoch] =
             [applied[epoch] EXCEPT ![r] = applied[epoch][r] + 1]]
    BY <1>1 DEF Applied
  <1> QED BY <1>1, <1>2, <1>3

\* An attempt that is sent is a handler to be.
LEMMA SentHandler ==
  ASSUME NEW r \in Req, NEW n \in 0..1
  PROVE  /\ Sent(r, n) \in Handler
         /\ Sent(r, n).req = r /\ Sent(r, n).now = 0
         /\ Sent(r, n).stage = "sent" /\ Sent(r, n).reply = NoReply
  BY DEF Sent, Handler

----------------------------------------------------------------------------
(* Every action keeps the invariant.                                       *)

\* Learning the epoch touches no request.
LEMMA ConnectEpochKeeps ==
  ASSUME Inv, ConnectEpoch
  PROVE  Inv'
  <1>1. TypeOK'
    BY TimeAssumption, ReqAssumption DEF Inv, TypeOK, ConnectEpoch, Handler,
       Call, server, NoReply, Waiting, Outcomes
  <1>2. TimesArePast'
    BY TimeAssumption DEF Inv, TypeOK, TimesArePast, ConnectEpoch, Handler,
       Call, server, NoReply, Waiting, Outcomes
  <1>3. HandlersAreSound'
    BY ReqAssumption DEF Inv, TypeOK, HandlersAreSound, OnlyApplied,
       ConnectEpoch, Handler, Call, server, NoReply, Waiting, Outcomes
  <1>4. OnlyApplied'
    BY ReqAssumption DEF Inv, TypeOK, HandlersAreSound, OnlyApplied,
       ConnectEpoch, Handler, Call, server, NoReply, Waiting, Outcomes
  <1>5. KeptToDeadline'
    BY ReqAssumption DEF Inv, TypeOK, KeptToDeadline, OnlyApplied,
       ConnectEpoch, Handler, Call, server, NoReply, Waiting, Outcomes
  <1>6. AnswersAreTrue'
    BY ReqAssumption DEF Inv, TypeOK, AnswersAreTrue, OnlyApplied,
       HandlersAreSound, ConnectEpoch, Handler, Call, server, NoReply,
       Waiting, Outcomes
  <1> QED BY <1>1, <1>2, <1>3, <1>4, <1>5, <1>6 DEF Inv

\* A request that is issued has a deadline one timeout from now and was not
\* applied before.
LEMMA IssueKeeps ==
  ASSUME Inv, NEW r \in Req, Issue(r)
  PROVE  Inv'
  <1>s. /\ Sent(r, 0) \in Handler /\ handlers' = handlers \cup {Sent(r, 0)}
        /\ Sent(r, 0).req = r /\ Sent(r, 0).now = 0
        /\ Sent(r, 0).stage = "sent"
    BY SentHandler DEF Issue
  <1>u. UNCHANGED <<clock, epoch, cache, applied, known>>
    BY DEF Issue, server
  <1>1. TypeOK'
    BY TimeAssumption, ReqAssumption DEF Inv, TypeOK, Issue, Handler, Call,
       Sent, server, NoReply, Waiting, Outcomes
  <1>2. TimesArePast'
    <2>1. \A q \in Req : \/ calls'[q] = calls[q]
                         \/ q = r /\ calls'[q].deadline = clock + Timeout
      BY DEF Inv, TypeOK, Issue
    <2>2. \A x \in handlers : x.req \in Req /\ calls'[x.req] = calls[x.req]
      BY DEF Inv, TypeOK, Handler, HandlersAreSound, Issue
    <2>3. clock \in Nat /\ clock + Timeout <= clock + Timeout
      BY TimeAssumption DEF Inv, TypeOK
    <2> QED BY <1>s, <1>u, <2>1, <2>2, <2>3 DEF Inv, TimesArePast
  <1>3. HandlersAreSound'
    BY ReqAssumption DEF Inv, TypeOK, HandlersAreSound, OnlyApplied, Issue,
       Handler, Call, Sent, server, NoReply, Waiting, Outcomes
  <1>4. OnlyApplied'
    BY ReqAssumption DEF Inv, TypeOK, HandlersAreSound, OnlyApplied, Issue,
       Handler, Call, Sent, server, NoReply, Waiting, Outcomes
  <1>5. KeptToDeadline'
    BY ReqAssumption DEF Inv, TypeOK, KeptToDeadline, OnlyApplied, Issue,
       Handler, Call, Sent, server, NoReply, Waiting, Outcomes
  <1>6. AnswersAreTrue'
    BY ReqAssumption DEF Inv, TypeOK, AnswersAreTrue, OnlyApplied,
       HandlersAreSound, Issue, Handler, Call, Sent, server, NoReply, Waiting,
       Outcomes
  <1> QED BY <1>1, <1>2, <1>3, <1>4, <1>5, <1>6 DEF Inv

\* A broken connection is the client's affair.
LEMMA BreakKeeps ==
  ASSUME Inv, NEW r \in Req, Break(r)
  PROVE  Inv'
  <1>1. TypeOK'
    BY TimeAssumption, ReqAssumption DEF Inv, TypeOK, Break, Handler, Call,
       server, NoReply, Waiting, Outcomes
  <1>2. TimesArePast'
    BY TimeAssumption DEF Inv, TypeOK, TimesArePast, Break, Handler, Call,
       server, NoReply, Waiting, Outcomes
  <1>3. HandlersAreSound'
    BY ReqAssumption DEF Inv, TypeOK, HandlersAreSound, OnlyApplied, Break,
       Handler, Call, server, NoReply, Waiting, Outcomes
  <1>4. OnlyApplied'
    BY ReqAssumption DEF Inv, TypeOK, HandlersAreSound, OnlyApplied, Break,
       Handler, Call, server, NoReply, Waiting, Outcomes
  <1>5. KeptToDeadline'
    BY ReqAssumption DEF Inv, TypeOK, KeptToDeadline, OnlyApplied, Break,
       Handler, Call, server, NoReply, Waiting, Outcomes
  <1>6. AnswersAreTrue'
    BY ReqAssumption DEF Inv, TypeOK, AnswersAreTrue, OnlyApplied,
       HandlersAreSound, Break, Handler, Call, server, NoReply, Waiting,
       Outcomes
  <1> QED BY <1>1, <1>2, <1>3, <1>4, <1>5, <1>6 DEF Inv

\* The retry carries the same deadline and epoch.
LEMMA RetryKeeps ==
  ASSUME Inv, NEW r \in Req, Retry(r)
  PROVE  Inv'
  <1>s. /\ Sent(r, 1) \in Handler /\ handlers' = handlers \cup {Sent(r, 1)}
        /\ Sent(r, 1).req = r /\ Sent(r, 1).now = 0
        /\ Sent(r, 1).stage = "sent"
    BY SentHandler DEF Retry
  <1>u. UNCHANGED <<clock, epoch, cache, applied, known>>
    BY DEF Retry, server
  <1>1. TypeOK'
    <2>1. calls' \in [Req -> Call]
      <3>1. calls \in [Req -> Call]
        BY DEF Inv, TypeOK
      <3>2. [calls[r] EXCEPT !.phase = "waiting", !.attempt = 1] \in Call
        <4>1. calls[r] \in Call /\ 1 \in 0..1
          BY <3>1
        <4>2. "waiting" \in {"new"} \cup Waiting \cup Outcomes
          BY DEF Waiting
        <4> QED BY <4>1, <4>2 DEF Call
      <3>3. calls' = [calls EXCEPT ![r] =
              [calls[r] EXCEPT !.phase = "waiting", !.attempt = 1]]
        BY <3>1 DEF Retry
      <3> QED BY <3>1, <3>2, <3>3
    <2> QED BY <1>s, <1>u, <2>1 DEF Inv, TypeOK
  <1>2. TimesArePast'
    <2>1. \A q \in Req : /\ calls'[q].deadline = calls[q].deadline
                         /\ calls'[q].phase # "new" => calls[q].phase # "new"
      BY DEF Inv, TypeOK, Retry, Call
    <2>2. \A x \in handlers : x.req \in Req
      BY DEF Inv, TypeOK, Handler
    <2>3. clock \in Nat
      BY DEF Inv, TypeOK
    <2> QED BY <1>s, <1>u, <2>1, <2>2, <2>3 DEF Inv, TimesArePast
  <1>3. HandlersAreSound'
    BY ReqAssumption DEF Inv, TypeOK, HandlersAreSound, OnlyApplied, Retry,
       Handler, Call, Sent, server, NoReply, Waiting, Outcomes
  <1>4. OnlyApplied'
    BY ReqAssumption DEF Inv, TypeOK, HandlersAreSound, OnlyApplied, Retry,
       Handler, Call, Sent, server, NoReply, Waiting, Outcomes
  <1>5. KeptToDeadline'
    BY ReqAssumption DEF Inv, TypeOK, KeptToDeadline, OnlyApplied, Retry,
       Handler, Call, Sent, server, NoReply, Waiting, Outcomes
  <1>6. AnswersAreTrue'
    BY ReqAssumption DEF Inv, TypeOK, AnswersAreTrue, OnlyApplied,
       HandlersAreSound, Retry, Handler, Call, Sent, server, NoReply, Waiting,
       Outcomes
  <1> QED BY <1>1, <1>2, <1>3, <1>4, <1>5, <1>6 DEF Inv

\* And so is the end of the client's patience.
LEMMA GiveUpKeeps ==
  ASSUME Inv, NEW r \in Req, GiveUp(r)
  PROVE  Inv'
  <1>1. TypeOK'
    BY TimeAssumption, ReqAssumption DEF Inv, TypeOK, GiveUp, Handler,
       Call, server, NoReply, Waiting, Outcomes
  <1>2. TimesArePast'
    BY TimeAssumption DEF Inv, TypeOK, TimesArePast, GiveUp, Handler,
       Call, server, NoReply, Waiting, Outcomes
  <1>3. HandlersAreSound'
    BY ReqAssumption DEF Inv, TypeOK, HandlersAreSound, OnlyApplied, GiveUp,
       Handler, Call, server, NoReply, Waiting, Outcomes
  <1>4. OnlyApplied'
    BY ReqAssumption DEF Inv, TypeOK, HandlersAreSound, OnlyApplied, GiveUp,
       Handler, Call, server, NoReply, Waiting, Outcomes
  <1>5. KeptToDeadline'
    BY ReqAssumption DEF Inv, TypeOK, KeptToDeadline, OnlyApplied, GiveUp,
       Handler, Call, server, NoReply, Waiting, Outcomes
  <1>6. AnswersAreTrue'
    BY ReqAssumption DEF Inv, TypeOK, AnswersAreTrue, OnlyApplied,
       HandlersAreSound, GiveUp, Handler, Call, server, NoReply,
       Waiting, Outcomes
  <1> QED BY <1>1, <1>2, <1>3, <1>4, <1>5, <1>6 DEF Inv

\* Validation lets a handler pass or closes it.
LEMMA ValidateKeeps ==
  ASSUME Inv, NEW h \in handlers, Validate(h)
  PROVE  Inv'
  <1>m. /\ handlers' \subseteq Handler
        /\ \A x \in handlers' :
             \/ x \in handlers
             \/ /\ x.req = h.req /\ x.now = 0 /\ x.stage = "valid"
                /\ x.reply = NoReply
    <2>1. CASE Moves(h, "valid", 0, NoReply)
      BY <2>1, MovedHandler
    <2>2. CASE Closes(h)
      BY <2>2 DEF Closes, Inv, TypeOK
    <2> QED BY <2>1, <2>2 DEF Validate
  <1>u. UNCHANGED <<clock, epoch, cache, applied, known, calls>>
    BY DEF Validate, server
  <1>1. TypeOK'
    BY <1>m, <1>u DEF Inv, TypeOK
  <1>2. TimesArePast'
    BY <1>m, <1>u DEF Inv, TimesArePast, TypeOK
  <1>3. HandlersAreSound'
    BY <1>m, <1>u DEF Inv, HandlersAreSound, NoReply
  <1>4. OnlyApplied'
    BY ReqAssumption DEF Inv, TypeOK, HandlersAreSound, OnlyApplied, Validate,
       Moves, Closes, Handler, Call, server, NoReply, Waiting, Outcomes
  <1>5. KeptToDeadline'
    BY ReqAssumption DEF Inv, TypeOK, KeptToDeadline, OnlyApplied, Validate,
       Moves, Closes, Handler, Call, server, NoReply, Waiting, Outcomes
  <1>6. AnswersAreTrue'
    BY ReqAssumption DEF Inv, TypeOK, AnswersAreTrue, OnlyApplied,
       HandlersAreSound, Validate, Moves, Closes, Handler, Call, server,
       NoReply, Waiting, Outcomes
  <1> QED BY <1>1, <1>2, <1>3, <1>4, <1>5, <1>6 DEF Inv

\* A handler that is turned away leaves no trace in the cache.
LEMMA StaleEpochKeeps ==
  ASSUME Inv, NEW h \in handlers, StaleEpoch(h)
  PROVE  Inv'
  <1>1. TypeOK'
    BY TimeAssumption, ReqAssumption DEF Inv, TypeOK, StaleEpoch, server, Closes,
       Handler, Call, NoReply, Waiting, Outcomes
  <1>2. TimesArePast'
    BY TimeAssumption DEF Inv, TypeOK, TimesArePast, StaleEpoch, server, Closes,
       Handler, Call, NoReply, Waiting, Outcomes
  <1>3. HandlersAreSound'
    BY ReqAssumption DEF Inv, TypeOK, HandlersAreSound, OnlyApplied,
       StaleEpoch, server, Closes, Handler, Call, NoReply, Waiting, Outcomes
  <1>4. OnlyApplied'
    BY ReqAssumption DEF Inv, TypeOK, HandlersAreSound, OnlyApplied,
       StaleEpoch, server, Closes, Handler, Call, NoReply, Waiting, Outcomes
  <1>5. KeptToDeadline'
    BY ReqAssumption DEF Inv, TypeOK, KeptToDeadline, OnlyApplied, StaleEpoch,
       server, Closes, Handler, Call, NoReply, Waiting, Outcomes
  <1>6. AnswersAreTrue'
    BY ReqAssumption DEF Inv, TypeOK, AnswersAreTrue, OnlyApplied,
       HandlersAreSound, StaleEpoch, server, Closes, Handler, Call, NoReply, Waiting,
       Outcomes
  <1> QED BY <1>1, <1>2, <1>3, <1>4, <1>5, <1>6 DEF Inv

\* A request that is not cached is applied in the epoch it names.
LEMMA DispatchUncachedKeeps ==
  ASSUME Inv, NEW h \in handlers, DispatchUncached(h)
  PROVE  Inv'
  <1>m. /\ handlers' \subseteq Handler
        /\ \A x \in handlers' :
             \/ x \in handlers
             \/ /\ x.req = h.req /\ x.now = 0 /\ x.stage = "replied"
                /\ x.reply = "ok"
    BY MovedHandler DEF DispatchUncached, Inv, TypeOK
  <1>u. UNCHANGED <<clock, epoch, cache, known, calls>>
    BY DEF DispatchUncached, server
  <1>a. h.req \in Req /\ applied' = Applied(h.req) /\ calls[h.req].epoch = epoch
    BY DEF DispatchUncached, Inv, TypeOK, Handler, InEpoch
  <1>1. TypeOK'
    BY <1>a, <1>m, <1>u, AppliedFacts DEF Inv, TypeOK
  <1>2. TimesArePast'
    BY <1>m, <1>u DEF Inv, TimesArePast, TypeOK
  <1>3. HandlersAreSound'
    <2> SUFFICES ASSUME NEW x \in handlers'
                 PROVE  /\ calls[x.req].phase # "new"
                        /\ x.stage = "locking" =>
                             x.req \in Cached /\ calls[x.req].epoch = epoch
                        /\ x.stage = "replied" => x.reply # NoReply
                        /\ x.reply = "ok" =>
                             applied'[calls[x.req].epoch][x.req] > 0
      BY <1>u DEF HandlersAreSound
    <2>1. CASE x \in handlers
      <3>1. x.req \in Req /\ calls[x.req].epoch \in 1..MaxEpoch
        BY <2>1 DEF Inv, TypeOK, Handler, HandlersAreSound, OnlyApplied
      <3> QED BY <2>1, <3>1, <1>a, AppliedFacts DEF Inv, HandlersAreSound
    <2>2. CASE x.req = h.req /\ x.stage = "replied" /\ x.reply = "ok"
      BY <2>2, <1>a, AppliedFacts DEF Inv, HandlersAreSound, NoReply
    <2> QED BY <2>1, <2>2, <1>m
  <1>4. OnlyApplied'
    BY ReqAssumption DEF Inv, TypeOK, HandlersAreSound, OnlyApplied,
       DispatchUncached, InEpoch, Applied, Moves, Handler, Call, NoReply,
       Waiting, Outcomes
  <1>5. KeptToDeadline'
    BY ReqAssumption DEF Inv, TypeOK, KeptToDeadline, OnlyApplied,
       DispatchUncached, InEpoch, Applied, Moves, Handler, Call, NoReply,
       Waiting, Outcomes
  <1>6. AnswersAreTrue'
    BY ReqAssumption DEF Inv, TypeOK, AnswersAreTrue, OnlyApplied,
       HandlersAreSound, DispatchUncached, InEpoch, Applied, Moves, Handler,
       Call, NoReply, Waiting, Outcomes
  <1> QED BY <1>1, <1>2, <1>3, <1>4, <1>5, <1>6 DEF Inv

\* The time a handler reads is not later than now, from then on.
LEMMA ReadClockKeeps ==
  ASSUME Inv, NEW h \in handlers, ReadClock(h)
  PROVE  Inv'
  <1>m. /\ handlers' \subseteq Handler
        /\ \A x \in handlers' :
             \/ x \in handlers
             \/ /\ x.req = h.req /\ x.now = clock /\ x.stage = "locking"
                /\ x.reply = NoReply
    BY MovedHandler DEF ReadClock, Inv, TypeOK
  <1>u. UNCHANGED <<clock, epoch, cache, applied, known, calls>>
    BY DEF ReadClock, server
  <1>1. TypeOK'
    BY TimeAssumption, ReqAssumption DEF Inv, TypeOK, ReadClock, InEpoch,
       Moves, Handler, Call, server, NoReply, Waiting, Outcomes
  <1>2. TimesArePast'
    <2>1. h.req \in Req /\ calls[h.req].phase # "new" /\ clock \in Nat
      BY DEF Inv, TypeOK, Handler, HandlersAreSound
    <2>2. calls[h.req].deadline <= clock + Timeout
      BY <2>1 DEF Inv, TimesArePast
    <2> QED BY <1>m, <1>u, <2>1, <2>2 DEF Inv, TimesArePast
  <1>3. HandlersAreSound'
    BY ReqAssumption DEF Inv, TypeOK, HandlersAreSound, OnlyApplied, ReadClock,
       InEpoch, Moves, Handler, Call, server, NoReply, Waiting, Outcomes
  <1>4. OnlyApplied'
    BY ReqAssumption DEF Inv, TypeOK, HandlersAreSound, OnlyApplied, ReadClock,
       InEpoch, Moves, Handler, Call, server, NoReply, Waiting, Outcomes
  <1>5. KeptToDeadline'
    BY ReqAssumption DEF Inv, TypeOK, KeptToDeadline, OnlyApplied, ReadClock,
       InEpoch, Moves, Handler, Call, server, NoReply, Waiting, Outcomes
  <1>6. AnswersAreTrue'
    BY ReqAssumption DEF Inv, TypeOK, AnswersAreTrue, OnlyApplied,
       HandlersAreSound, ReadClock, InEpoch, Moves, Handler, Call, server,
       NoReply, Waiting, Outcomes
  <1> QED BY <1>1, <1>2, <1>3, <1>4, <1>5, <1>6 DEF Inv

\* A replayed answer is the answer to something that was applied.
LEMMA ReplayKeeps ==
  ASSUME Inv, NEW h \in handlers, Replay(h)
  PROVE  Inv'
  <1>m. /\ handlers' \subseteq Handler
        /\ \A x \in handlers' :
             \/ x \in handlers
             \/ /\ x.req = h.req /\ x.now = 0 /\ x.stage = "replied"
                /\ x.reply = "ok"
    BY MovedHandler DEF Replay, Inv, TypeOK
  <1>u. UNCHANGED <<clock, epoch, cache, applied, known, calls>>
    BY DEF Replay, server
  <1>1. TypeOK'
    BY <1>m, <1>u DEF Inv, TypeOK
  <1>2. TimesArePast'
    BY <1>m, <1>u DEF Inv, TimesArePast, TypeOK
  <1>3. HandlersAreSound'
    BY <1>m, <1>u DEF Inv, HandlersAreSound, OnlyApplied, Replay, Fresh,
       NoReply
  <1>4. OnlyApplied'
    BY ReqAssumption DEF Inv, TypeOK, HandlersAreSound, OnlyApplied, Replay,
       Fresh, Moves, Handler, Call, server, NoReply, Waiting, Outcomes
  <1>5. KeptToDeadline'
    BY ReqAssumption DEF Inv, TypeOK, KeptToDeadline, OnlyApplied, Replay,
       Fresh, Moves, Handler, Call, server, NoReply, Waiting, Outcomes
  <1>6. AnswersAreTrue'
    BY ReqAssumption DEF Inv, TypeOK, AnswersAreTrue, OnlyApplied,
       HandlersAreSound, Replay, Fresh, Moves, Handler, Call, server, NoReply,
       Waiting, Outcomes
  <1> QED BY <1>1, <1>2, <1>3, <1>4, <1>5, <1>6 DEF Inv

\* A reply that arrives is true when it arrives.
LEMMA ReplyKeeps ==
  ASSUME Inv, NEW h \in handlers, Reply(h)
  PROVE  Inv'
  <1>1. TypeOK'
    <2>1. h \in Handler /\ handlers' \subseteq handlers
      BY DEF Inv, TypeOK, Reply, Closes
    <2>2. h.reply \in {"ok", "CapacityExceeded"} /\ h.req \in Req
      BY <2>1 DEF Reply, Handler, Inv, HandlersAreSound, NoReply
    <2>3. calls' \in [Req -> Call]
      BY <2>2 DEF Inv, TypeOK, Reply, Call, Outcomes
    <2> QED BY <2>1, <2>3 DEF Inv, TypeOK, Reply, server
  <1>2. TimesArePast'
    BY TimeAssumption DEF Inv, TypeOK, TimesArePast, Reply, AwaitsReply,
       Closes, Handler, Call, server, NoReply, Waiting, Outcomes
  <1>3. HandlersAreSound'
    BY ReqAssumption DEF Inv, TypeOK, HandlersAreSound, OnlyApplied, Reply,
       AwaitsReply, Closes, Handler, Call, server, NoReply, Waiting, Outcomes
  <1>4. OnlyApplied'
    BY ReqAssumption DEF Inv, TypeOK, HandlersAreSound, OnlyApplied, Reply,
       AwaitsReply, Closes, Handler, Call, server, NoReply, Waiting, Outcomes
  <1>5. KeptToDeadline'
    BY ReqAssumption DEF Inv, TypeOK, KeptToDeadline, OnlyApplied, Reply,
       AwaitsReply, Closes, Handler, Call, server, NoReply, Waiting, Outcomes
  <1>6. AnswersAreTrue'
    BY ReqAssumption DEF Inv, TypeOK, AnswersAreTrue, OnlyApplied,
       HandlersAreSound, Reply, AwaitsReply, Closes, Handler, Call, server,
       NoReply, Waiting, Outcomes
  <1> QED BY <1>1, <1>2, <1>3, <1>4, <1>5, <1>6 DEF Inv

\* A new epoch has applied nothing and remembers nothing.
LEMMA RestartKeeps ==
  ASSUME Inv, Restart
  PROVE  Inv'
  <1>1. TypeOK'
    BY TimeAssumption, ReqAssumption DEF Inv, TypeOK, Restart, Handler, Call,
       NoReply, Waiting, Outcomes
  <1>2. TimesArePast'
    BY TimeAssumption DEF Inv, TypeOK, TimesArePast, Restart, Handler, Call,
       NoReply, Waiting, Outcomes
  <1>3. HandlersAreSound'
    BY ReqAssumption DEF Inv, TypeOK, HandlersAreSound, OnlyApplied, Restart,
       Handler, Call, NoReply, Waiting, Outcomes
  <1>4. OnlyApplied'
    BY ReqAssumption DEF Inv, TypeOK, HandlersAreSound, OnlyApplied, Restart,
       Handler, Call, NoReply, Waiting, Outcomes
  <1>5. KeptToDeadline'
    <2>1. /\ epoch' = epoch + 1 /\ epoch' \in 1..MaxEpoch /\ epoch \in Nat
          /\ applied' = applied
      BY TimeAssumption DEF Inv, TypeOK, Restart
    <2>2. ASSUME NEW r \in Cached PROVE ~(applied'[epoch'][r] > 0)
      <3>1. applied[epoch'][r] > 0 => epoch' <= epoch
        BY <2>1, ReqAssumption DEF Inv, OnlyApplied
      <3> QED BY <2>1, <3>1
    <2> QED BY <2>2 DEF KeptToDeadline
  <1>6. AnswersAreTrue'
    BY ReqAssumption DEF Inv, TypeOK, AnswersAreTrue, OnlyApplied,
       HandlersAreSound, Restart, Handler, Call, NoReply, Waiting, Outcomes
  <1> QED BY <1>1, <1>2, <1>3, <1>4, <1>5, <1>6 DEF Inv

\* Time only makes deadlines pass.
LEMMA TickKeeps ==
  ASSUME Inv, Tick
  PROVE  Inv'
  <1>1. TypeOK'
    BY TimeAssumption, ReqAssumption DEF Inv, TypeOK, Tick, Handler, Call,
       server, NoReply, Waiting, Outcomes
  <1>2. TimesArePast'
    BY TimeAssumption DEF Inv, TypeOK, TimesArePast, Tick, Handler, Call,
       server, NoReply, Waiting, Outcomes
  <1>3. HandlersAreSound'
    BY ReqAssumption DEF Inv, TypeOK, HandlersAreSound, OnlyApplied, Tick,
       Handler, Call, server, NoReply, Waiting, Outcomes
  <1>4. OnlyApplied'
    BY ReqAssumption DEF Inv, TypeOK, HandlersAreSound, OnlyApplied, Tick,
       Handler, Call, server, NoReply, Waiting, Outcomes
  <1>5. KeptToDeadline'
    BY ReqAssumption DEF Inv, TypeOK, KeptToDeadline, OnlyApplied, Tick,
       Handler, Call, server, NoReply, Waiting, Outcomes
  <1>6. AnswersAreTrue'
    BY ReqAssumption DEF Inv, TypeOK, AnswersAreTrue, OnlyApplied,
       HandlersAreSound, Tick, Handler, Call, server, NoReply, Waiting,
       Outcomes
  <1> QED BY <1>1, <1>2, <1>3, <1>4, <1>5, <1>6 DEF Inv

\* A refused request leaves the cache without some stale entries.
LEMMA FullKeeps ==
  ASSUME Inv, NEW h \in handlers, Full(h)
  PROVE  Inv'
  <1>m. /\ handlers' \subseteq Handler
        /\ \A x \in handlers' :
             \/ x \in handlers
             \/ /\ x.req = h.req /\ x.now = 0 /\ x.stage = "replied"
                /\ x.reply = "CapacityExceeded"
    BY MovedHandler DEF Full
  <1>u. UNCHANGED <<clock, epoch, applied, known, calls>>
    BY DEF Full
  <1>s. /\ cache' \in [Cached -> Nat \cup {NotCached}]
        /\ \A r \in Cached : \/ cache'[r] = cache[r]
                             \/ cache'[r] = NotCached /\ cache[r] <= h.now
    BY SweptFacts, OwnEntryStale DEF Full
  <1>1. TypeOK'
    BY <1>m, <1>u, <1>s DEF Inv, TypeOK
  <1>2. TimesArePast'
    BY <1>m, <1>u DEF Inv, TimesArePast, TypeOK
  <1>3. HandlersAreSound'
    BY <1>m, <1>u DEF Inv, HandlersAreSound, NoReply
  <1>4. OnlyApplied'
    BY <1>u, <1>s DEF Inv, OnlyApplied
  <1>5. KeptToDeadline'
    BY <1>u, <1>s, DroppedIsLate DEF Inv, KeptToDeadline
  <1>6. AnswersAreTrue'
    BY <1>u DEF Inv, AnswersAreTrue
  <1> QED BY <1>1, <1>2, <1>3, <1>4, <1>5, <1>6 DEF Inv

\* A request that is applied is remembered until its deadline.
LEMMA DispatchCachedKeeps ==
  ASSUME Inv, NEW h \in handlers, DispatchCached(h)
  PROVE  Inv'
  <1>m. /\ handlers' \subseteq Handler
        /\ \A x \in handlers' :
             \/ x \in handlers
             \/ /\ x.req = h.req /\ x.now = 0 /\ x.stage = "replied"
                /\ x.reply = "ok"
    BY MovedHandler DEF DispatchCached
  <1>u. UNCHANGED <<clock, epoch, known, calls>>
    BY DEF DispatchCached
  <1>a. /\ h.req \in Req /\ h.req \in Cached /\ applied' = Applied(h.req)
        /\ calls[h.req].epoch = epoch /\ calls[h.req].phase # "new"
    BY DEF DispatchCached, Inv, TypeOK, Handler, HandlersAreSound
  <1>s. /\ cache' \in [Cached -> Nat \cup {NotCached}]
        /\ cache'[h.req] = Expiry(h)
        /\ \A r \in Cached : \/ r = h.req
                             \/ cache'[r] = cache[r]
                             \/ cache'[r] = NotCached /\ cache[r] <= h.now
    BY <1>a, SweptFacts, ExpiryIsDeadline DEF DispatchCached
  <1>1. TypeOK'
    BY <1>m, <1>u, <1>a, <1>s, AppliedFacts DEF Inv, TypeOK
  <1>2. TimesArePast'
    BY <1>m, <1>u DEF Inv, TimesArePast, TypeOK
  <1>3. HandlersAreSound'
    <2> SUFFICES ASSUME NEW x \in handlers'
                 PROVE  /\ calls[x.req].phase # "new"
                        /\ x.stage = "locking" =>
                             x.req \in Cached /\ calls[x.req].epoch = epoch
                        /\ x.stage = "replied" => x.reply # NoReply
                        /\ x.reply = "ok" =>
                             applied'[calls[x.req].epoch][x.req] > 0
      BY <1>u DEF HandlersAreSound
    <2>1. CASE x \in handlers
      <3>1. x.req \in Req /\ calls[x.req].epoch \in 1..MaxEpoch
        BY <2>1 DEF Inv, TypeOK, Handler, HandlersAreSound, OnlyApplied
      <3> QED BY <2>1, <3>1, <1>a, AppliedFacts DEF Inv, HandlersAreSound
    <2>2. CASE x.req = h.req /\ x.stage = "replied" /\ x.reply = "ok"
      BY <2>2, <1>a, AppliedFacts DEF NoReply
    <2> QED BY <2>1, <2>2, <1>m
  <1>4. OnlyApplied'
    <2>1. epoch \in 1..MaxEpoch /\ epoch <= epoch
      BY TimeAssumption DEF Inv, TypeOK
    <2>2. \A q \in Req, e \in 1..MaxEpoch :
            applied'[e][q] > 0 => calls[q].phase # "new" /\ e <= epoch
      <3> SUFFICES ASSUME NEW q \in Req, NEW e \in 1..MaxEpoch,
                          applied'[e][q] > 0
                   PROVE  calls[q].phase # "new" /\ e <= epoch
        OBVIOUS
      <3>1. applied'[e][q] = applied[e][q] \/ (e = epoch /\ q = h.req)
        BY <1>a, AppliedFacts
      <3>2. applied[e][q] > 0 => calls[q].phase # "new" /\ e <= epoch
        BY DEF Inv, OnlyApplied
      <3> QED BY <1>a, <2>1, <3>1, <3>2
    <2>3. \A q \in Cached : cache'[q] # NotCached => applied'[epoch][q] > 0
      BY <1>a, <1>s, <2>1, ReqAssumption, AppliedFacts DEF Inv, OnlyApplied
    <2> QED BY <1>u, <2>2, <2>3 DEF Inv, OnlyApplied
  <1>5. KeptToDeadline'
    <2> SUFFICES ASSUME NEW r \in Cached, applied'[epoch][r] > 0
                 PROVE  clock >= calls[r].deadline \/ cache'[r] >= calls[r].deadline
      BY <1>u DEF KeptToDeadline
    <2>1. CASE r = h.req
      <3>1. /\ h.now \in Nat /\ h.now <= clock /\ clock \in Nat
            /\ calls[r].deadline \in Nat
        BY ReqAssumption DEF Inv, TypeOK, Handler, Call, TimesArePast
      <3>2. CASE h.now < calls[r].deadline
        <4>1. cache'[r] = calls[r].deadline
          BY <1>s, <2>1, <3>2, ExpiryIsDeadline DEF DispatchCached
        <4> QED BY <3>1, <4>1
      <3>3. CASE h.now >= calls[r].deadline
        BY <3>1, <3>3
      <3> QED BY <3>1, <3>2, <3>3
    <2>2. CASE r # h.req
      <3>1. applied[epoch][r] > 0
        BY <2>2, <1>a, ReqAssumption, AppliedFacts DEF Inv, TypeOK
      <3>2. cache'[r] = cache[r] \/ (cache'[r] = NotCached /\ cache[r] <= h.now)
        BY <1>s, <2>2
      <3> QED BY <3>1, <3>2, DroppedIsLate DEF Inv, KeptToDeadline
    <2> QED BY <2>1, <2>2
  <1>6. AnswersAreTrue'
    <2>1. \A q \in Req : calls[q].phase = "ok" => applied'[calls[q].epoch][q] > 0
      BY <1>a, AppliedFacts DEF Inv, AnswersAreTrue, OnlyApplied
    <2>2. \A q \in Req, e \in 1..MaxEpoch :
            applied'[e][q] > 0 => e = calls[q].epoch
      <3> SUFFICES ASSUME NEW q \in Req, NEW e \in 1..MaxEpoch,
                          applied'[e][q] > 0
                   PROVE  e = calls[q].epoch
        OBVIOUS
      <3>1. applied'[e][q] = applied[e][q] \/ (e = epoch /\ q = h.req)
        BY <1>a, AppliedFacts
      <3>2. applied[e][q] > 0 => e = calls[q].epoch
        BY DEF Inv, AnswersAreTrue
      <3> QED BY <1>a, <3>1, <3>2
    <2> QED BY <1>u, <2>1, <2>2 DEF AnswersAreTrue
  <1> QED BY <1>1, <1>2, <1>3, <1>4, <1>5, <1>6 DEF Inv

----------------------------------------------------------------------------
(* The theorems.                                                           *)

\* Initially no request was made.
LEMMA InitInv == Init => Inv
  <1> SUFFICES ASSUME Init PROVE Inv
    OBVIOUS
  <1>1. TypeOK
    BY TimeAssumption, ReqAssumption DEF Init, TypeOK, Call, NotCached
  <1>2. TimesArePast /\ HandlersAreSound /\ KeptToDeadline
    BY TimeAssumption, ReqAssumption
       DEF Init, TimesArePast, HandlersAreSound, KeptToDeadline
  <1>3. OnlyApplied /\ AnswersAreTrue
    BY TimeAssumption, ReqAssumption DEF Init, OnlyApplied, AnswersAreTrue
  <1> QED BY <1>1, <1>2, <1>3 DEF Inv

\* Every step keeps the invariant.
LEMMA StepInv == Inv /\ [Next]_vars => Inv'
  <1> SUFFICES ASSUME Inv, [Next]_vars PROVE Inv'
    OBVIOUS
  <1>1. CASE UNCHANGED vars
    BY <1>1 DEF vars, Inv, TypeOK, TimesArePast, HandlersAreSound, OnlyApplied,
       KeptToDeadline, AnswersAreTrue
  <1>2. ASSUME NEW r \in Req, Issue(r) \/ Break(r) \/ Retry(r) \/ GiveUp(r)
        PROVE  Inv'
    BY <1>2, IssueKeeps, BreakKeeps, RetryKeeps, GiveUpKeeps
  <1>3. ASSUME NEW h \in handlers, Handle(h) PROVE Inv'
    BY <1>3, ValidateKeeps, StaleEpochKeeps, DispatchUncachedKeeps,
       ReadClockKeeps, ReplayKeeps, FullKeeps, DispatchCachedKeeps, ReplyKeeps
       DEF Handle
  <1>4. CASE ConnectEpoch \/ Restart \/ Tick
    BY <1>4, ConnectEpochKeeps, RestartKeeps, TickKeeps
  <1> QED BY <1>1, <1>2, <1>3, <1>4 DEF Next

\* The inductive invariant holds.
THEOREM InvHolds == Spec => []Inv
  BY InitInv, StepInv, PTL DEF Spec

\* The cache, the calls and the handlers keep their types.
THEOREM TypeCorrect == Spec => []TypeOK
  <1>1. Inv => TypeOK
    BY DEF Inv
  <1> QED BY <1>1, InvHolds, PTL

\* dispatch_once remembers a mutation it applied until the envelope's
\* deadline, whatever the capacity and however handlers interleave.
THEOREM AppliedIsRemembered == Spec => []Remembered
  <1>1. Inv => Remembered
    <2> SUFFICES ASSUME Inv, NEW r \in Cached, applied[epoch][r] > 0,
                        clock < calls[r].deadline
                 PROVE  cache[r] # NotCached
      BY DEF Remembered
    <2>1. calls[r].deadline \in Nat /\ clock \in Nat
      BY ReqAssumption DEF Inv, TypeOK, Call
    <2>2. cache[r] >= calls[r].deadline
      BY <2>1 DEF Inv, KeptToDeadline
    <2> QED BY <2>1, <2>2 DEF NotCached
  <1> QED BY <1>1, InvHolds, PTL

\* So a retry that is handled before the deadline cannot double-apply.
THEOREM NoEarlyRepeat == Spec => RepeatsOnlyLate
  <1>1. Inv /\ [Next]_vars =>
          [\A r \in Cached :
             applied[epoch][r] > 0 /\ applied'[epoch][r] > applied[epoch][r] =>
               clock >= calls[r].deadline]_vars
    <2> SUFFICES ASSUME Inv, Next, NEW r \in Cached, applied[epoch][r] > 0,
                        applied'[epoch][r] > applied[epoch][r]
                 PROVE  clock >= calls[r].deadline
      OBVIOUS
    <2>1. applied \in [1..MaxEpoch -> [Req -> Nat]] /\ r \in Req
          /\ epoch \in 1..MaxEpoch /\ clock \in Nat
          /\ calls[r].deadline \in Nat
      BY ReqAssumption DEF Inv, TypeOK, Call
    <2>2. applied' # applied
      <3>1. applied[epoch][r] \in Nat /\ ~(applied[epoch][r] > applied[epoch][r])
        BY <2>1
      <3> QED BY <3>1
    <2>3. PICK h \in handlers : DispatchUncached(h) \/ DispatchCached(h)
      BY <2>2 DEF Next, ConnectEpoch, Issue, Break, Retry, GiveUp, Handle,
         Validate, StaleEpoch, ReadClock, Replay, Full, Reply, Restart, Tick,
         server
    <2>4. h.req = r
      <3>1. h.req \in Req
        BY DEF Inv, TypeOK, Handler
      <3>2. applied' = Applied(h.req)
        BY <2>3 DEF DispatchUncached, DispatchCached
      <3> QED BY <2>1, <3>1, <3>2, AppliedFacts
    <2>5. h.stage = "locking" /\ ~Fresh(h)
      BY <2>3, <2>4 DEF DispatchUncached, DispatchCached
    <2>6. cache[r] <= h.now
      BY <2>4, <2>5, OwnEntryStale
    <2>7. cache[r] >= calls[r].deadline => clock >= calls[r].deadline
      BY <2>1, <2>6, DroppedIsLate
    <2> QED BY <2>7 DEF Inv, KeptToDeadline
  <1> QED BY <1>1, InvHolds, PTL DEF Spec, RepeatsOnlyLate

\* A caller is told the truth, and an epoch is changed only for callers that
\* named it (validate_epoch), across restarts.
THEOREM AnswersTrue == Spec => []AnswersAreTrue
  <1>1. Inv => AnswersAreTrue
    BY DEF Inv
  <1> QED BY <1>1, InvHolds, PTL

----------------------------------------------------------------------------
(* The budget.  The bytes of the entries are a finite set of pairs; a      *)
(* removal or a sweep takes those of the entries it drops out of it, and   *)
(* an insertion adds those of one entry that was not there.                *)

\* The bytes of one entry.
LEMMA OneEntry ==
  ASSUME NEW r \in Req
  PROVE  /\ SizeOf(r) \in Nat
         /\ IsFiniteSet({r} \X (1..SizeOf(r)))
         /\ Cardinality({r} \X (1..SizeOf(r))) = SizeOf(r)
  <1> DEFINE n == SizeOf(r)
             I == 1..n
             one == {r}
  <1>1. n \in Nat
    BY SizeAssumption DEF SizeOf
  <1> HIDE DEF n
  <1>2. IsFiniteSet(I) /\ Cardinality(I) = n
    BY <1>1, FS_Interval
  <1>3. IsFiniteSet(one) /\ Cardinality(one) = 1
    BY FS_Singleton
  <1> HIDE DEF I, one
  <1>4. IsFiniteSet(one \X I) /\ Cardinality(one \X I) = 1 * n
    BY <1>2, <1>3, FS_Product
  <1>5. 1 * n = n
    BY <1>1
  <1> QED
    BY <1>1, <1>4, <1>5 DEF n, I, one

\* The running total of a cache is exact.
Exact(C, used) ==
  /\ IsFiniteSet(BytesOf(Entries(C)))
  /\ used = Cardinality(BytesOf(Entries(C)))

\* Removing entries keeps the total exact.
LEMMA WithoutExact ==
  ASSUME NEW C, NEW used, NEW S, Exact(C, used)
  PROVE  /\ Exact(Without(C, S), UsedWithout(C, used, S))
         /\ Entries(Without(C, S)) = Entries(C) \ S
         /\ UsedWithout(C, used, S) \in Nat /\ used \in Nat
         /\ UsedWithout(C, used, S) <= used
  <1> DEFINE E == Entries(C)
             A == BytesOf(E)
             B == BytesOf(S \cap E)
             D == BytesOf(E \ S)
  <1>1. Entries(Without(C, S)) = E \ S
    BY DEF Entries, Without
  <1>2. D = A \ B /\ A \cap B = B /\ B \subseteq A
    BY DEF BytesOf
  <1>3. IsFiniteSet(A) /\ used = Cardinality(A)
    BY DEF Exact
  <1>4. UsedWithout(C, used, S) = used - Cardinality(B)
    BY DEF UsedWithout
  <1> HIDE DEF A, B, D, E
  <1>5. IsFiniteSet(D) /\ Cardinality(D) = used - Cardinality(B)
    BY <1>2, <1>3, FS_Difference
  <1>6. IsFiniteSet(B)
    BY <1>2, <1>3, FS_Subset
  <1>7. Cardinality(D) \in Nat /\ Cardinality(B) \in Nat /\ used \in Nat
    BY <1>3, <1>5, <1>6, FS_CardinalityType
  <1>8. Exact(Without(C, S), UsedWithout(C, used, S))
    BY <1>1, <1>4, <1>5 DEF Exact, D
  <1> QED
    BY <1>1, <1>4, <1>5, <1>7, <1>8 DEF E

\* A cache with one entry more.
LEMMA AddedExact ==
  ASSUME NEW C, NEW used, Exact(C, used), NEW D, NEW r \in Req,
         r \notin Entries(C), Entries(D) = Entries(C) \cup {r}
  PROVE  Exact(D, used + SizeOf(r))
  <1> DEFINE A == BytesOf(Entries(C))
             B == {r} \X (1..SizeOf(r))
             V == BytesOf(Entries(D))
  <1>1. V = A \cup B /\ A \cap B = {}
    BY DEF BytesOf
  <1>2. IsFiniteSet(A) /\ used = Cardinality(A)
    BY DEF Exact
  <1>3. IsFiniteSet(B) /\ Cardinality(B) = SizeOf(r) /\ SizeOf(r) \in Nat
    BY OneEntry
  <1> HIDE DEF A, B, V
  <1>4. Cardinality({}) = 0 /\ used \in Nat
    BY <1>2, FS_EmptySet, FS_CardinalityType
  <1>5. IsFiniteSet(V) /\ Cardinality(V) = used + SizeOf(r)
    <2>1. /\ IsFiniteSet(A \cup B)
          /\ Cardinality(A \cup B)
               = Cardinality(A) + Cardinality(B) - Cardinality(A \cap B)
      BY <1>2, <1>3, FS_Union
    <2>2. Cardinality(V) = used + SizeOf(r) - 0
      BY <1>1, <1>2, <1>3, <1>4, <2>1, Zenon
    <2> QED
      BY <1>1, <1>3, <1>4, <2>1, <2>2
  <1> QED
    BY <1>5 DEF Exact, V

\* A cache with fewer entries has that much less to its account.
LEMMA DroppedBytes ==
  ASSUME NEW C, NEW used, Exact(C, used), NEW D, NEW less, Exact(D, less),
         NEW r \in Req, r \in Entries(C), Entries(D) \subseteq Entries(C) \ {r}
  PROVE  less + SizeOf(r) <= used
  <1> DEFINE A == BytesOf(Entries(D))
             B == {r} \X (1..SizeOf(r))
             V == BytesOf(Entries(C))
             W == A \cup B
  <1>1. W \subseteq V /\ A \cap B = {} /\ W = A \cup B
    BY DEF BytesOf
  <1>2. /\ IsFiniteSet(A) /\ less = Cardinality(A)
        /\ IsFiniteSet(V) /\ used = Cardinality(V)
    BY DEF Exact
  <1>3. IsFiniteSet(B) /\ Cardinality(B) = SizeOf(r) /\ SizeOf(r) \in Nat
    BY OneEntry
  <1> HIDE DEF A, B, V, W
  <1>4. /\ Cardinality({}) = 0 /\ less \in Nat /\ used \in Nat
        /\ Cardinality(W) <= Cardinality(V)
    BY <1>1, <1>2, FS_EmptySet, FS_CardinalityType, FS_Subset
  <1>5. Cardinality(W) = less + SizeOf(r)
    BY <1>1, <1>2, <1>3, <1>4, FS_Union
  <1> QED
    BY <1>2, <1>4, <1>5

\* What dispatch_once does to the cache before it looks at the limits.
LEMMA SweptExact ==
  ASSUME Exact(cache, usedBytes), NEW h
  PROVE  /\ Exact(Swept(h), SweptUsed(h))
         /\ Entries(Swept(h)) \subseteq Entries(cache) \ {h.req}
         /\ SweptUsed(h) \in Nat /\ usedBytes \in Nat
         /\ SweptUsed(h) <= usedBytes
  <1> DEFINE C == Looked(h)
             u == LookedUsed(h)
             S == Stale(Looked(h), h.now)
  <1>1. /\ Exact(C, u) /\ Entries(C) = Entries(cache) \ {h.req}
        /\ u \in Nat /\ usedBytes \in Nat /\ u <= usedBytes
    BY WithoutExact DEF Looked, LookedUsed
  <1>2. /\ Swept(h) = IF AtCapacity(C, u) THEN Without(C, S) ELSE C
        /\ SweptUsed(h) = IF AtCapacity(C, u) THEN UsedWithout(C, u, S) ELSE u
    BY DEF Swept, SweptUsed
  <1> HIDE DEF C, u, S
  <1>3. /\ Exact(Without(C, S), UsedWithout(C, u, S))
        /\ Entries(Without(C, S)) = Entries(C) \ S
        /\ UsedWithout(C, u, S) \in Nat /\ UsedWithout(C, u, S) <= u
    BY <1>1, WithoutExact
  <1>4. CASE AtCapacity(C, u)
    BY <1>1, <1>2, <1>3, <1>4
  <1>5. CASE ~AtCapacity(C, u)
    BY <1>1, <1>2, <1>5
  <1> QED
    BY <1>4, <1>5

\* The limits: of the entries, and of all bytes but those of one entry.
Limited(C, used) ==
  /\ Cardinality(Entries(C)) <= MaxEntries
  /\ \/ used < MaxBytes
     \/ \E r \in Entries(C) : used < MaxBytes + SizeOf(r)

Budget == Exact(cache, usedBytes) /\ Limited(cache, usedBytes)

\* There are finitely many entries.
LEMMA EntriesFinite ==
  ASSUME NEW C
  PROVE  IsFiniteSet(Entries(C)) /\ Cardinality(Entries(C)) \in Nat
  <1>1. Entries(C) \subseteq Req /\ IsFiniteSet(Req)
    BY ReqAssumption DEF Entries
  <1> HIDE DEF Entries
  <1>2. IsFiniteSet(Entries(C))
    BY <1>1, FS_Subset
  <1> QED
    BY <1>2, FS_CardinalityType

\* Fewer entries are within the limits as well.
LEMMA SweptLimited ==
  ASSUME Budget, NEW h
  PROVE  Limited(Swept(h), SweptUsed(h))
  <1> DEFINE D == Swept(h)
             v == SweptUsed(h)
             E == Entries(D)
             F == Entries(cache)
  <1>1. /\ Exact(D, v) /\ E \subseteq F /\ v \in Nat /\ usedBytes \in Nat
        /\ v <= usedBytes
    BY SweptExact DEF Budget
  <1>2. MaxBytes \in Nat /\ MaxEntries \in Nat
    BY SizeAssumption
  <1>3. IsFiniteSet(F) /\ Cardinality(E) \in Nat /\ Cardinality(F) \in Nat
    BY EntriesFinite
  <1>4. Cardinality(F) <= MaxEntries
    BY DEF Budget, Limited
  <1>5. F \subseteq Req
    BY ReqAssumption DEF Entries
  <1> HIDE DEF D, v
  <1>6. Cardinality(E) <= MaxEntries
    <2> HIDE DEF E, F
    <2>1. Cardinality(E) <= Cardinality(F)
      BY <1>1, <1>3, FS_Subset
    <2> QED
      BY <1>2, <1>3, <1>4, <2>1
  <1>7. CASE usedBytes < MaxBytes
    <2>1. v < MaxBytes
      BY <1>1, <1>2, <1>7
    <2> QED
      BY <1>6, <2>1 DEF Limited, D, v
  <1>8. ASSUME NEW r \in F, usedBytes < MaxBytes + SizeOf(r)
        PROVE  Limited(D, v)
    <2>1. r \in Req /\ SizeOf(r) \in Nat
      BY <1>5, OneEntry
    <2>2. CASE r \in E
      <3>1. v < MaxBytes + SizeOf(r)
        BY <1>1, <1>2, <1>8, <2>1
      <3> QED
        BY <1>6, <2>2, <3>1 DEF Limited
    <2>3. CASE r \notin E
      <3>1. v + SizeOf(r) <= usedBytes
        BY <1>1, <2>1, <2>3, DroppedBytes DEF Budget
      <3>2. v < MaxBytes
        BY <1>1, <1>2, <1>8, <2>1, <3>1
      <3> QED
        BY <1>6, <3>2 DEF Limited
    <2> QED
      BY <2>2, <2>3
  <1> QED
    BY <1>7, <1>8 DEF Budget, Limited, D, v

\* The step that remembers a reply.
LEMMA DispatchCachedBudget ==
  ASSUME Inv, Budget, NEW h \in handlers, DispatchCached(h)
  PROVE  Budget'
  <1> DEFINE r == h.req
             C == Swept(h)
             u == SweptUsed(h)
             D == [Swept(h) EXCEPT ![h.req] = Expiry(h)]
  <1>1. r \in Req /\ r \in Cached
    BY DEF DispatchCached, Inv, TypeOK, Handler, HandlersAreSound
  <1>2. Expiry(h) \in Nat
    BY ExpiryIsDeadline DEF DispatchCached
  <1>3. C \in [Cached -> Nat \cup {NotCached}]
    BY SweptFacts DEF DispatchCached
  <1>4. cache' = D /\ usedBytes' = u + SizeOf(r) /\ ~AtCapacity(C, u)
    BY DEF DispatchCached
  <1>5. Exact(C, u) /\ r \notin Entries(C) /\ u \in Nat
    BY SweptExact DEF Budget
  <1>6. Entries(D) = Entries(C) \cup {r}
    BY <1>1, <1>2, <1>3 DEF Entries, NotCached
  <1> HIDE DEF r, C, u, D
  <1>7. Exact(D, u + SizeOf(r))
    BY <1>1, <1>5, <1>6, AddedExact
  <1>8. Cardinality(Entries(D)) <= MaxEntries
    <2>1. Cardinality(Entries(D)) = Cardinality(Entries(C)) + 1
      BY <1>5, <1>6, EntriesFinite, FS_AddElement
    <2>2. ~(Cardinality(Entries(C)) >= MaxEntries)
      BY <1>4 DEF AtCapacity
    <2> QED
      BY <2>1, <2>2, EntriesFinite, SizeAssumption
  <1>9. u + SizeOf(r) < MaxBytes + SizeOf(r)
    <2>1. ~(u >= MaxBytes)
      BY <1>4 DEF AtCapacity
    <2>2. SizeOf(r) \in Nat /\ MaxBytes \in Nat
      BY <1>1, OneEntry, SizeAssumption
    <2> QED
      BY <1>5, <2>1, <2>2
  <1>10. Limited(D, u + SizeOf(r))
    BY <1>6, <1>8, <1>9 DEF Limited
  <1>11. Exact(cache', usedBytes') /\ Limited(cache', usedBytes')
    BY <1>4, <1>7, <1>10
  <1> QED
    BY <1>11 DEF Budget, Exact, Limited, BytesOf, Entries, SizeOf

\* An empty cache.
LEMMA EmptyBudget ==
  ASSUME NEW C, C = [r \in Cached |-> NotCached]
  PROVE  Exact(C, 0) /\ Limited(C, 0)
  <1>1. Entries(C) = {} /\ BytesOf({}) = {}
    BY DEF Entries, BytesOf
  <1>2. IsFiniteSet({}) /\ Cardinality({}) = 0
    BY FS_EmptySet
  <1> QED
    BY <1>1, <1>2, SizeAssumption DEF Exact, Limited

\* Every step keeps the budget.
LEMMA StepBudget == Inv /\ Budget /\ [Next]_vars => Budget'
  <1> SUFFICES ASSUME Inv, Budget, [Next]_vars PROVE Budget'
    OBVIOUS
  <1>1. CASE UNCHANGED <<cache, usedBytes>>
    BY <1>1 DEF Budget, Exact, Limited, Entries, BytesOf, SizeOf
  <1>2. ASSUME NEW h \in handlers, Full(h) PROVE Budget'
    <2>1. cache' = Swept(h) /\ usedBytes' = SweptUsed(h)
      BY <1>2 DEF Full
    <2>2. Exact(cache', usedBytes') /\ Limited(cache', usedBytes')
      BY <2>1, SweptExact, SweptLimited DEF Budget
    <2> QED
      BY <2>2 DEF Budget, Exact, Limited, BytesOf, Entries, SizeOf
  <1>3. ASSUME NEW h \in handlers, DispatchCached(h) PROVE Budget'
    BY <1>3, DispatchCachedBudget
  <1>4. CASE Restart
    <2>1. cache' = [r \in Cached |-> NotCached] /\ usedBytes' = 0
      BY <1>4 DEF Restart
    <2>2. Exact(cache', usedBytes') /\ Limited(cache', usedBytes')
      BY <2>1, EmptyBudget
    <2> QED
      BY <2>2 DEF Budget, Exact, Limited, BytesOf, Entries, SizeOf
  <1>5. \/ UNCHANGED <<cache, usedBytes>> \/ Restart
        \/ \E h \in handlers : Full(h) \/ DispatchCached(h)
    BY DEF Next, ConnectEpoch, Issue, Break, Retry, GiveUp, Handle, Validate,
       StaleEpoch, DispatchUncached, ReadClock, Replay, Reply, Tick, server,
       vars
  <1> QED
    BY <1>1, <1>2, <1>3, <1>4, <1>5

\* ReplayCache.used_bytes never drifts, and MAX_REPLAY_ENTRIES is a hard
\* limit, MAX_REPLAY_BYTES one that a single reply may exceed.
THEOREM BudgetIsExact == Spec => []BudgetExact
  <1>1. Init => Budget
    BY EmptyBudget DEF Init, Budget
  <1>2. Budget => BudgetExact
    BY DEF Budget, Exact, Limited, BudgetExact
  <1> QED
    BY <1>1, <1>2, StepBudget, InvHolds, PTL DEF Spec
=============================================================================
