------------------------- MODULE ConnectionsProofs -------------------------
(***************************************************************************)
(* Every reply reaches its own call, dead streams in the pool fail nobody  *)
(* and a clean drain cuts off nobody, for any number of callers, streams,  *)
(* permits and any size of the pool.                                       *)
(*                                                                         *)
(* The argument: a stream that a call owns carries that call's request, or *)
(* the work on it, or its reply, and nothing else; a pooled stream carries *)
(* nothing.  A stream is given back only with the reply read, and dropped  *)
(* otherwise, so that this survives reuse.  And the permits that are not   *)
(* free are as many as the connections that are being handled.             *)
(***************************************************************************)
EXTENDS Connections, FiniteSetTheorems, SequenceTheorems, TLAPS

\* What a stream carries.
Carries(s) ==
  /\ s.owner \in Call =>
       /\ s.up \in {<<>>, <<s.owner>>} /\ s.down \in {<<>>, <<s.owner>>}
       /\ s.work \in {"none", s.owner}
       /\ s.down # <<>> => s.up = <<>> /\ s.work = "none"
       /\ s.work # "none" => s.up = <<>>
  /\ s.owner = Pool => s.up = <<>> /\ s.down = <<>> /\ s.work = "none"
  /\ s.handler = "busy" <=> s.work # "none"
StreamsAreClean == \A k \in Conn : Carries(conn[k])

\* A stream belongs to a call that waits for it, and to the retry only if it
\* was dialled for it.
OwnersWait ==
  \A c \in Call, k \in Conn : conn[k].owner = c =>
    call[c].stage = "waiting" /\ (call[c].attempt = 1 => conn[k].fresh)
OneStreamEach ==
  \A c \in Call, k, l \in Conn : conn[k].owner = c /\ conn[l].owner = c => k = l

CallsAreSound ==
  \A c \in Call :
    /\ call[c].stage = "ok" => call[c].got = c
    /\ call[c].stage = "Io" => call[c].cut
    /\ call[c].stage \in {"new", "paused"} => call[c].attempt = 0

InHand == {k \in Conn : conn[k].handler \in Handled}
PermitsExact ==
  IF phase \in Listening THEN permits + Cardinality(InHand) = MaxConnections
  ELSE InHand = {}

Inv ==
  /\ TypeOK /\ StreamsAreClean /\ OwnersWait /\ OneStreamEach /\ CallsAreSound
  /\ PermitsExact

USE DEF Pool, Gone, Lost, Orphan, Left

LEMMA InitInv == Init => Inv
  <1> SUFFICES ASSUME Init PROVE Inv
    OBVIOUS
  <1>1. TypeOK
    BY SizesAssumption DEF Init, TypeOK, Servers, Listening, CallRecord, Stream,
       Unused
  <1>2. StreamsAreClean /\ OwnersWait /\ OneStreamEach
    BY NamesAssumption DEF Init, StreamsAreClean, OwnersWait, OneStreamEach,
       Carries, Unused
  <1>3. CallsAreSound
    BY DEF Init, CallsAreSound
  <1>4. InHand = {}
    BY DEF Init, InHand, Handled, Unused
  <1>5. PermitsExact
    BY <1>4, FS_EmptySet, SizesAssumption DEF Init, PermitsExact, Listening
  <1> QED BY <1>1, <1>2, <1>3, <1>5 DEF Inv

\* Nothing changes for the permits when no handler starts or ends.
LEMMA PermitsStay ==
  ASSUME PermitsExact, UNCHANGED <<phase, permits>>, InHand' = InHand
  PROVE  PermitsExact'
  BY DEF PermitsExact

LEMMA HandIsFinite == IsFiniteSet(InHand)
  BY FiniteAssumption, FS_Subset DEF InHand

\* The callers' names are none of the words.
LEMMA Names == \A c \in Call : c \notin {"pool", "gone", "lost", "orphan", "none"}
  BY NamesAssumption

Stages == {"new", "waiting", "paused"} \cup Outcomes

\* Records keep their types when fields of theirs change.
LEMMA StageType ==
  ASSUME TypeOK, NEW c \in Call, NEW st \in Stages
  PROVE  [call[c] EXCEPT !.stage = st] \in CallRecord
  <1>1. call[c] \in CallRecord
    BY DEF TypeOK
  <1> QED BY <1>1 DEF CallRecord, Stages

LEMMA WaitsType ==
  ASSUME TypeOK, NEW c \in Call, NEW n \in 0..1
  PROVE  Waits(c, n) \in CallRecord
  <1>1. call[c] \in CallRecord
    BY DEF TypeOK
  <1> QED BY <1>1 DEF CallRecord, Waits

LEMMA FailedType ==
  ASSUME TypeOK, NEW c \in Call, NEW b \in BOOLEAN
  PROVE  Failed(c, b) \in CallRecord
  <1>1. call[c] \in CallRecord
    BY DEF TypeOK
  <1> QED BY <1>1 DEF CallRecord, Failed, Outcomes

LEMMA GotType ==
  ASSUME TypeOK, NEW c \in Call
  PROVE  [call[c] EXCEPT !.stage = "ok", !.got = c] \in CallRecord
  <1>1. call[c] \in CallRecord
    BY DEF TypeOK
  <1> QED BY <1>1 DEF CallRecord, Outcomes

LEMMA OwnerType ==
  ASSUME TypeOK, NEW k \in Conn, NEW o \in Call \cup {Pool, Gone, Lost}
  PROVE  [conn[k] EXCEPT !.owner = o] \in Stream
  <1>1. conn[k] \in Stream
    BY DEF TypeOK
  <1> QED BY <1>1 DEF Stream

LEMMA DroppedType ==
  ASSUME TypeOK, NEW k \in Conn
  PROVE  [conn[k] EXCEPT !.owner = Gone, !.fresh = FALSE, !.down = <<>>] \in Stream
  <1>1. conn[k] \in Stream /\ <<>> \in Seq(Call \cup {Orphan})
    BY DEF TypeOK
  <1> QED BY <1>1 DEF Stream

\* The types of one call and of one stream that change.
LEMMA TypesStay ==
  ASSUME TypeOK, UNCHANGED server, phase' \in Listening \cup Ended,
         permits' \in 0..MaxConnections,
         NEW c \in Call, NEW v \in CallRecord, call' \in {call, [call EXCEPT ![c] = v]},
         NEW k \in Conn, NEW s \in Stream, conn' \in {conn, [conn EXCEPT ![k] = s]}
  PROVE  TypeOK'
  BY DEF TypeOK

LEMMA ReuseInv ==
  ASSUME NEW c \in Call, NEW k \in Conn, Inv, Reuse(c, k)
  PROVE  Inv'
  <1> USE Names DEF Inv, Reuse, Reuses, Waits
  <1>1. TypeOK'
    <2> DEFINE s == [conn[k] EXCEPT !.owner = c, !.up =
                       IF conn[k].handler = "closed" THEN @ ELSE Append(@, c)]
               v == Waits(c, 0)
    <2>1. conn[k].up \in Seq(Call \cup {Orphan}) /\ Append(conn[k].up, c) \in Seq(Call \cup {Orphan})
      BY DEF TypeOK, Stream
    <2>2. s \in Stream
      BY <2>1 DEF TypeOK, Stream
    <2> HIDE DEF Waits
    <2>3. v \in CallRecord
      BY WaitsType
    <2>4. conn' = [conn EXCEPT ![k] = s] /\ call' = [call EXCEPT ![c] = v]
      BY DEF TypeOK
    <2> QED BY <2>2, <2>3, <2>4, TypesStay DEF TypeOK
  <1>2. StreamsAreClean'
    BY DEF TypeOK, StreamsAreClean, Carries, Stream
  <1>3. OwnersWait' /\ OneStreamEach'
    BY DEF TypeOK, OwnersWait, OneStreamEach, Stream, CallRecord, CallsAreSound
  <1>4. CallsAreSound'
    BY DEF TypeOK, CallsAreSound, CallRecord
  <1>5. InHand' = InHand
    BY DEF TypeOK, InHand, Stream
  <1> QED BY <1>1, <1>2, <1>3, <1>4, <1>5, PermitsStay DEF Inv

LEMMA DialInv ==
  ASSUME NEW c \in Call, NEW k \in Conn, Inv, Dial(c, k)
  PROVE  Inv'
  <1> USE Names DEF Inv, Dial, Dials, Dialled, Waits, Free
  <1>1. TypeOK'
    <2>0. <<c>> \in Seq(Call \cup {Orphan}) /\ <<>> \in Seq(Call \cup {Orphan})
      OBVIOUS
    <2>1. Dialled(c) \in Stream
      BY <2>0 DEF Stream, Unused
    <2> HIDE DEF Dialled, Waits
    <2>2. Waits(c, IF call[c].stage = "new" THEN 0 ELSE 1) \in CallRecord
      BY WaitsType
    <2> QED BY <2>1, <2>2, TypesStay DEF TypeOK
  <1>2. StreamsAreClean'
    BY DEF TypeOK, StreamsAreClean, Carries, Stream, Unused
  <1>3. OwnersWait' /\ OneStreamEach'
    BY DEF TypeOK, OwnersWait, OneStreamEach, Stream, CallRecord, CallsAreSound, Unused
  <1>4. CallsAreSound'
    BY DEF TypeOK, CallsAreSound, CallRecord
  <1>5. InHand' = InHand
    BY DEF TypeOK, InHand, Stream, Unused, Handled
  <1> QED BY <1>1, <1>2, <1>3, <1>4, <1>5, PermitsStay DEF Inv

LEMMA RefusedInv ==
  ASSUME NEW c \in Call, Inv, Refused(c)
  PROVE  Inv'
  <1> USE Names DEF Inv, Refused, Failed
  <1>1. TypeOK'
    <2> HIDE DEF Failed
    <2>1. Failed(c, TRUE) \in CallRecord
      BY FailedType
    <2> QED BY <2>1 DEF TypeOK
  <1>2. StreamsAreClean' /\ OneStreamEach'
    BY DEF StreamsAreClean, Carries, OneStreamEach
  <1>3. OwnersWait'
    BY DEF TypeOK, OwnersWait, Dials, Stream, CallRecord
  <1>4. CallsAreSound'
    BY DEF TypeOK, CallsAreSound, CallRecord
  <1> QED BY <1>1, <1>2, <1>3, <1>4, PermitsStay DEF Inv, InHand

LEMMA TooLargeInv ==
  ASSUME NEW c \in Call, Inv, TooLarge(c)
  PROVE  Inv'
  <1> USE Names DEF Inv, TooLarge, Pooled
  <1>1. call' \in [Call -> CallRecord] /\ CallsAreSound'
    <2>1. [call[c] EXCEPT !.stage = "Protocol"] \in CallRecord
      BY StageType DEF Stages, Outcomes
    <2>2. call' \in [Call -> CallRecord]
      BY <2>1 DEF TypeOK
    <2> QED BY <2>2 DEF TypeOK, CallsAreSound, CallRecord
  <1>2. CASE conn' = conn
    <2>1. OwnersWait'
      BY <1>2 DEF TypeOK, OwnersWait, CallRecord
    <2> QED BY <1>1, <1>2, <2>1, PermitsStay
            DEF TypeOK, StreamsAreClean, Carries, OneStreamEach, InHand
  <1>3. CASE conn' # conn
    <2>1. PICK k \in Conn : conn[k].owner = Pool /\ conn' = [conn EXCEPT ![k].owner = Gone]
      BY <1>3
    <2>2. [conn[k] EXCEPT !.owner = Gone] \in Stream
      BY OwnerType
    <2>3. TypeOK'
      BY <1>1, <2>1, <2>2 DEF TypeOK
    <2>4. StreamsAreClean'
      BY <2>1 DEF TypeOK, StreamsAreClean, Carries, Stream
    <2>5. OwnersWait' /\ OneStreamEach'
      BY <2>1 DEF TypeOK, OwnersWait, OneStreamEach, Stream, CallRecord
    <2>6. InHand' = InHand
      BY <2>1 DEF TypeOK, InHand, Stream
    <2> QED BY <1>1, <2>3, <2>4, <2>5, <2>6, PermitsStay
  <1> QED BY <1>2, <1>3

LEMMA ReceiveInv ==
  ASSUME NEW c \in Call, NEW k \in Conn, Inv, Receive(c, k)
  PROVE  Inv'
  <1> USE Names DEF Inv, Receive
  <1>a. conn[k].down = <<c>> /\ conn[k].up = <<>> /\ conn[k].work = "none"
    BY DEF StreamsAreClean, Carries
  <1>b. Head(<<c>>) = c /\ Tail(<<c>>) = <<>>
    OBVIOUS
  <1>0. /\ conn[k].down = <<c>> /\ conn[k].up = <<>> /\ conn[k].work = "none"
        /\ Head(conn[k].down) = c /\ Tail(conn[k].down) = <<>>
    BY <1>a, <1>b
  <1>1. TypeOK'
    <2> DEFINE s == [conn[k] EXCEPT !.down = <<>>, !.fresh = FALSE, !.owner =
                       IF Cardinality(Pooled) < PoolMax THEN Pool ELSE Gone]
               v == [call[c] EXCEPT !.stage = "ok", !.got = c]
    <2>1. s \in Stream
      BY DEF TypeOK, Stream
    <2>2. v \in CallRecord
      BY GotType
    <2>3. conn' = [conn EXCEPT ![k] = s] /\ call' = [call EXCEPT ![c] = v]
      BY <1>0 DEF TypeOK
    <2> HIDE DEF s, v
    <2> QED BY <2>1, <2>2, <2>3, TypesStay DEF TypeOK
  <1>2. StreamsAreClean'
    BY <1>0 DEF TypeOK, StreamsAreClean, Carries, Stream
  <1>3. OwnersWait' /\ OneStreamEach'
    BY DEF TypeOK, OwnersWait, OneStreamEach, Stream, CallRecord
  <1>4. CallsAreSound'
    BY <1>0 DEF TypeOK, CallsAreSound, CallRecord
  <1>5. InHand' = InHand
    BY DEF TypeOK, InHand, Stream
  <1> QED BY <1>1, <1>2, <1>3, <1>4, <1>5, PermitsStay DEF Inv

LEMMA EndOfStreamInv ==
  ASSUME NEW c \in Call, NEW k \in Conn, Inv, EndOfStream(c, k)
  PROVE  Inv'
  <1> USE Names DEF Inv, EndOfStream, Failed
  <1>1. TypeOK'
    <2>1. [conn[k] EXCEPT !.owner = Gone, !.fresh = FALSE] \in Stream
      BY DEF TypeOK, Stream
    <2> HIDE DEF Failed
    <2>2. Failed(c, conn[k].fresh) \in CallRecord
      BY FailedType DEF TypeOK, Stream
    <2>3. conn' = [conn EXCEPT ![k] = [conn[k] EXCEPT !.owner = Gone, !.fresh = FALSE]]
      BY DEF TypeOK
    <2> QED BY <2>1, <2>2, <2>3, TypesStay DEF TypeOK
  <1>2. StreamsAreClean'
    BY DEF TypeOK, StreamsAreClean, Carries, Stream
  <1>3. OwnersWait' /\ OneStreamEach'
    BY DEF TypeOK, OwnersWait, OneStreamEach, Stream, CallRecord
  <1>4. CallsAreSound'
    BY DEF TypeOK, CallsAreSound, CallRecord, OwnersWait, Stream
  <1>5. InHand' = InHand
    BY DEF TypeOK, InHand, Stream
  <1> QED BY <1>1, <1>2, <1>3, <1>4, <1>5, PermitsStay DEF Inv

LEMMA GiveUpInv ==
  ASSUME NEW c \in Call, Inv, GiveUp(c)
  PROVE  Inv'
  <1> DEFINE s(k) == [conn[k] EXCEPT !.owner = Gone, !.fresh = FALSE, !.down = <<>>]
  <1>0. /\ \A k \in Conn : conn'[k] = IF conn[k].owner = c THEN s(k) ELSE conn[k]
        /\ call' = [call EXCEPT ![c].stage = "DeadlineExceeded"]
        /\ UNCHANGED <<server, phase, permits>>
        /\ conn' = [k \in Conn |-> conn'[k]]
    BY DEF GiveUp, DropsStream
  <1>1. TypeOK /\ StreamsAreClean /\ OwnersWait /\ OneStreamEach /\ CallsAreSound
        /\ PermitsExact
    BY DEF Inv
  <1>2. TypeOK'
    <2>1. [call[c] EXCEPT !.stage = "DeadlineExceeded"] \in CallRecord
      BY <1>1, StageType DEF Stages, Outcomes
    <2>2. call' \in [Call -> CallRecord]
      BY <1>0, <1>1, <2>1 DEF TypeOK
    <2>3. \A k \in Conn : conn[k] \in Stream /\ s(k) \in Stream
      BY <1>1, DroppedType DEF TypeOK
    <2> HIDE DEF s
    <2>4. conn' \in [Conn -> Stream]
      BY <1>0, <2>3
    <2> QED BY <1>0, <1>1, <2>2, <2>4 DEF TypeOK
  <1>3. \A k \in Conn :
          /\ conn[k].owner # c => conn'[k] = conn[k]
          /\ conn[k].owner = c => conn'[k].owner = Gone /\ conn'[k].work = conn[k].work
          /\ conn'[k].handler = conn[k].handler
    BY <1>0, <1>1 DEF TypeOK, Stream
  <1>4. StreamsAreClean'
    BY <1>1, <1>3, Names DEF StreamsAreClean, Carries
  <1>5. OwnersWait' /\ OneStreamEach'
    <2>1. \A d \in Call : d # c => call'[d] = call[d]
      BY <1>0, <1>1 DEF TypeOK
    <2>2. \A k \in Conn : conn'[k].owner # c
      BY <1>3, Names
    <2>3. \A d \in Call, k \in Conn : conn'[k].owner = d => d # c /\ conn'[k] = conn[k]
      BY <1>3, <2>2, Names
    <2> QED BY <1>1, <2>1, <2>3 DEF OwnersWait, OneStreamEach
  <1>6. CallsAreSound'
    BY <1>0, <1>1 DEF TypeOK, CallsAreSound, CallRecord
  <1>7. InHand' = InHand
    BY <1>3 DEF InHand
  <1> QED BY <1>0, <1>1, <1>2, <1>4, <1>5, <1>6, <1>7, PermitsStay DEF Inv

\* What another call's stream carries keeps its name.
LEMMA OrphanedType ==
  ASSUME NEW c \in Call, NEW s \in Seq(Call \cup {Orphan})
  PROVE  Orphaned(c, s) \in Seq(Call \cup {Orphan})
  BY DEF Orphaned

LEMMA OrphanedSame ==
  ASSUME NEW c \in Call, NEW s \in Seq(Call \cup {Orphan}),
         \A i \in 1..Len(s) : s[i] # c
  PROVE  Orphaned(c, s) = s
  <1>1. DOMAIN s = 1..Len(s) /\ s = [i \in 1..Len(s) |-> s[i]]
    BY LenProperties
  <1>2. Orphaned(c, s) = [i \in 1..Len(s) |-> s[i]]
    BY <1>1 DEF Orphaned
  <1> QED BY <1>1, <1>2

LEMMA OrphanedNone ==
  ASSUME NEW c \in Call
  PROVE  Orphaned(c, <<>>) = <<>>
  <1>1. <<>> \in Seq(Call \cup {Orphan}) /\ Len(<<>>) = 0
    BY EmptySeq
  <1>2. \A i \in 1..Len(<<>>) : <<>>[i] # c
    BY <1>1
  <1> QED BY <1>1, <1>2, OrphanedSame

LEMMA OrphanedOne ==
  ASSUME NEW c \in Call, NEW d \in Call, d # c, NEW s \in {<<>>, <<d>>}
  PROVE  Orphaned(c, s) = s
  <1>1. CASE s = <<>>
    BY <1>1, OrphanedNone
  <1>2. CASE s = <<d>>
    <2>1. <<d>> \in Seq(Call \cup {Orphan}) /\ Len(<<d>>) = 1 /\ <<d>>[1] = d
      OBVIOUS
    <2>2. \A i \in 1..Len(<<d>>) : <<d>>[i] # c
      BY <2>1
    <2> QED BY <1>2, <2>1, <2>2, OrphanedSame
  <1> QED BY <1>1, <1>2

LEMMA NextCallInv ==
  ASSUME NEW c \in Call, Inv, NextCall(c)
  PROVE  Inv'
  <1> DEFINE s(k) == [conn[k] EXCEPT !.up = Orphaned(c, @), !.down = Orphaned(c, @),
                                     !.work = IF @ = c THEN Orphan ELSE @]
             v == [stage |-> "new", attempt |-> 0, got |-> "none", cut |-> FALSE]
  <1>0. /\ conn' = [k \in Conn |-> s(k)] /\ call' = [call EXCEPT ![c] = v]
        /\ UNCHANGED <<server, phase, permits>> /\ call[c].stage \in Outcomes
    BY DEF NextCall
  <1>1. TypeOK /\ StreamsAreClean /\ OwnersWait /\ OneStreamEach /\ CallsAreSound
        /\ PermitsExact
    BY DEF Inv
  <1>2. TypeOK'
    <2>1. v \in CallRecord
      BY DEF CallRecord
    <2>3. \A k \in Conn : s(k) \in Stream
      <3> TAKE k \in Conn
      <3>1. conn[k] \in Stream
        BY <1>1 DEF TypeOK
      <3>2. /\ Orphaned(c, conn[k].up) \in Seq(Call \cup {Orphan})
            /\ Orphaned(c, conn[k].down) \in Seq(Call \cup {Orphan})
        BY <3>1, OrphanedType DEF Stream
      <3> QED BY <3>1, <3>2 DEF Stream
    <2> HIDE DEF s, v
    <2> QED BY <1>0, <1>1, <2>1, <2>3 DEF TypeOK
  <1>3. \A k \in Conn :
          /\ conn'[k].owner = conn[k].owner /\ conn'[k].handler = conn[k].handler
          /\ conn'[k].fresh = conn[k].fresh
          /\ conn'[k].up = Orphaned(c, conn[k].up) /\ conn'[k].down = Orphaned(c, conn[k].down)
          /\ conn'[k].work = IF conn[k].work = c THEN Orphan ELSE conn[k].work
    BY <1>0, <1>1 DEF TypeOK, Stream
  <1>4. \A k \in Conn : conn[k].owner # c
    BY <1>0, <1>1 DEF OwnersWait, Outcomes
  <1>5. StreamsAreClean'
    <2> SUFFICES ASSUME NEW k \in Conn PROVE Carries(conn'[k])
      BY DEF StreamsAreClean, Carries
    <2>1. Carries(conn[k]) /\ conn[k].owner \in Call \cup {Pool, Gone, Lost}
      BY <1>1 DEF StreamsAreClean, TypeOK, Stream
    <2>3. CASE conn[k].owner \in Call
      <3>1. Orphaned(c, conn[k].up) = conn[k].up /\ Orphaned(c, conn[k].down) = conn[k].down
        BY <1>4, <2>1, <2>3, OrphanedOne DEF Carries
      <3>2. conn'[k].up = conn[k].up /\ conn'[k].down = conn[k].down
            /\ conn'[k].work = conn[k].work
        BY <1>3, <1>4, <2>1, <2>3, <3>1, Names DEF Carries
      <3> QED BY <1>3, <2>1, <2>3, <3>2 DEF Carries
    <2>4. CASE conn[k].owner = Pool
      <3>1. Orphaned(c, <<>>) = <<>>
        BY OrphanedNone
      <3>2. conn'[k].up = <<>> /\ conn'[k].down = <<>> /\ conn'[k].work = conn[k].work
        BY <1>3, <2>1, <2>4, <3>1, Names DEF Carries
      <3> QED BY <1>3, <2>1, <2>4, <3>2 DEF Carries
    <2>5. CASE conn[k].owner \in Left
      BY <1>3, <2>1, <2>5, Names DEF Carries
    <2> QED BY <2>1, <2>3, <2>4, <2>5
  <1>6. OwnersWait' /\ OneStreamEach'
    <2>1. \A d \in Call : d # c => call'[d] = call[d]
      BY <1>0, <1>1 DEF TypeOK
    <2> QED BY <1>1, <1>3, <1>4, <2>1 DEF OwnersWait, OneStreamEach
  <1>7. CallsAreSound'
    BY <1>0, <1>1 DEF TypeOK, CallsAreSound, CallRecord
  <1>8. InHand' = InHand
    BY <1>3 DEF InHand
  <1> QED BY <1>0, <1>1, <1>2, <1>5, <1>6, <1>7, <1>8, PermitsStay DEF Inv

\* A handler that starts takes a permit, one that ends gives it back.
LEMMA HandTakes ==
  ASSUME PermitsExact, phase \in Listening, phase' = phase, permits \in Nat,
         NEW k \in Conn, k \notin InHand, InHand' = InHand \cup {k},
         permits' = permits - 1
  PROVE  PermitsExact'
  <1>1. permits + Cardinality(InHand) = MaxConnections
    BY DEF PermitsExact
  <1>2. Cardinality(InHand) \in Nat
        /\ Cardinality(InHand \cup {k}) = Cardinality(InHand) + 1
    BY HandIsFinite, FS_AddElement, FS_CardinalityType
  <1>3. Cardinality(InHand)' = Cardinality(InHand) + 1
    BY <1>2
  <1> QED BY <1>1, <1>2, <1>3, SizesAssumption DEF PermitsExact

LEMMA HandGives ==
  ASSUME PermitsExact, phase' = phase, permits \in Nat,
         NEW k \in InHand, InHand' = InHand \ {k}, permits' = permits + 1
  PROVE  PermitsExact' /\ permits' \in 0..MaxConnections
  <1>1. phase \in Listening /\ permits + Cardinality(InHand) = MaxConnections
    BY DEF PermitsExact
  <1>2. Cardinality(InHand) \in Nat /\ IsFiniteSet(InHand \ {k})
        /\ Cardinality(InHand \ {k}) = Cardinality(InHand) - 1
        /\ Cardinality(InHand \ {k}) \in Nat
    BY HandIsFinite, FS_RemoveElement, FS_CardinalityType
  <1> QED BY <1>1, <1>2, SizesAssumption DEF PermitsExact

\* What a step of the server changes of one stream leaves the callers alone.
LEMMA ServerStep ==
  ASSUME Inv, NEW k \in Conn, NEW s \in Stream, conn' = [conn EXCEPT ![k] = s],
         UNCHANGED <<server, phase, call>>, permits' \in 0..MaxConnections,
         s.owner = conn[k].owner, s.fresh = conn[k].fresh, Carries(s), PermitsExact'
  PROVE  Inv'
  <1>1. TypeOK /\ StreamsAreClean /\ OwnersWait /\ OneStreamEach /\ CallsAreSound
    BY DEF Inv
  <1>2. TypeOK'
    BY <1>1 DEF TypeOK
  <1>3. conn'[k] = s /\ \A l \in Conn : l # k => conn'[l] = conn[l]
    BY <1>1 DEF TypeOK
  <1>4. StreamsAreClean'
    <2> SUFFICES ASSUME NEW l \in Conn PROVE Carries(conn'[l])
      BY DEF StreamsAreClean, Carries
    <2> QED BY <1>1, <1>3 DEF StreamsAreClean
  <1>5. \A l \in Conn : conn'[l].owner = conn[l].owner /\ conn'[l].fresh = conn[l].fresh
    BY <1>3
  <1>6. OwnersWait' /\ OneStreamEach'
    BY <1>1, <1>5 DEF OwnersWait, OneStreamEach
  <1>7. CallsAreSound'
    BY <1>1 DEF CallsAreSound
  <1> QED BY <1>2, <1>4, <1>6, <1>7 DEF Inv

\* The stream of a handler that ends.
Ends(s) == [s EXCEPT !.handler = "closed", !.work = "none", !.up = <<>>]

LEMMA EndsType ==
  ASSUME NEW s \in Stream
  PROVE  /\ Ends(s) \in Stream /\ Ends(s).owner = s.owner /\ Ends(s).fresh = s.fresh
         /\ Ends(s).handler = "closed"
         /\ Carries(s) => Carries(Ends(s))
  <1>1. <<>> \in Seq(Call \cup {Orphan})
    BY EmptySeq
  <1>2. Ends(s) \in Stream
    BY <1>1 DEF Stream, Ends
  <1>3. /\ Ends(s).owner = s.owner /\ Ends(s).fresh = s.fresh
        /\ Ends(s).handler = "closed" /\ Ends(s).work = "none" /\ Ends(s).up = <<>>
        /\ Ends(s).down = s.down
    BY DEF Stream, Ends
  <1> QED BY <1>2, <1>3 DEF Carries

LEMMA ClosedIsEnds ==
  ASSUME TypeOK, NEW k \in Conn
  PROVE  Closed(k) = [conn EXCEPT ![k] = Ends(conn[k])]
  BY DEF TypeOK, Closed, Ends

LEMMA ClosesInv ==
  ASSUME Inv, NEW k \in Conn, conn[k].handler \in Handled, Closes(k),
         UNCHANGED <<server, phase, call>>
  PROVE  Inv'
  <1>1. TypeOK /\ PermitsExact /\ Carries(conn[k]) /\ conn[k] \in Stream
    BY DEF Inv, StreamsAreClean, TypeOK
  <1>2. conn' = [conn EXCEPT ![k] = Ends(conn[k])] /\ permits' = permits + 1
    BY <1>1, ClosedIsEnds DEF Closes, ReleasesPermit
  <1>3. k \in InHand /\ InHand' = InHand \ {k}
    BY <1>1, <1>2, EndsType DEF TypeOK, InHand, Handled
  <1>4. PermitsExact' /\ permits' \in 0..MaxConnections
    BY <1>1, <1>2, <1>3, HandGives DEF TypeOK
  <1> QED BY <1>1, <1>2, <1>4, EndsType, ServerStep

LEMMA AcceptInv ==
  ASSUME Inv, NEW k \in Conn, Accept(k)
  PROVE  Inv'
  <1>1. TypeOK /\ PermitsExact /\ Carries(conn[k]) /\ conn[k] \in Stream
        /\ k \notin InHand /\ phase \in Listening /\ conn[k].handler = "backlog"
        /\ UNCHANGED <<server, phase, call>>
    BY DEF Inv, StreamsAreClean, TypeOK, Accept, InHand, Handled, Listening
  <1>2. CASE permits > 0
    <2> DEFINE s == [conn[k] EXCEPT !.handler = "reading"]
    <2>1. conn' = [conn EXCEPT ![k] = s] /\ permits' = permits - 1
      BY <1>1, <1>2 DEF Accept, AcquiresPermit, TypeOK
    <2>2. s \in Stream /\ s.owner = conn[k].owner /\ s.fresh = conn[k].fresh
          /\ s.handler = "reading" /\ s.work = conn[k].work /\ s.up = conn[k].up
          /\ s.down = conn[k].down
      BY <1>1 DEF Stream
    <2>3. Carries(s)
      BY <1>1, <2>2 DEF Carries
    <2> HIDE DEF s
    <2>4. InHand' = InHand \cup {k}
      BY <1>1, <2>1, <2>2 DEF TypeOK, InHand, Handled
    <2>5. PermitsExact'
      BY <1>1, <2>1, <2>4, HandTakes DEF TypeOK
    <2>6. permits' \in 0..MaxConnections
      BY <1>1, <1>2, <2>1, SizesAssumption DEF TypeOK
    <2> QED BY <1>1, <2>1, <2>2, <2>3, <2>5, <2>6, ServerStep
  <1>3. CASE ~(permits > 0)
    <2>1. conn' = [conn EXCEPT ![k] = Ends(conn[k])] /\ permits' = permits
      BY <1>1, <1>3, ClosedIsEnds DEF Accept
    <2>2. InHand' = InHand
      BY <1>1, <2>1, EndsType DEF TypeOK, InHand, Handled
    <2>3. PermitsExact'
      BY <1>1, <2>1, <2>2, PermitsStay
    <2> QED BY <1>1, <2>1, <2>3, EndsType, ServerStep DEF TypeOK
  <1> QED BY <1>2, <1>3

LEMMA ReadInv ==
  ASSUME Inv, NEW k \in Conn, Read(k)
  PROVE  Inv'
  <1>1. TypeOK /\ PermitsExact /\ Carries(conn[k]) /\ conn[k] \in Stream
        /\ UNCHANGED <<server, phase, permits, call>>
        /\ conn[k].handler = "reading" /\ conn[k].up # <<>>
    BY DEF Inv, StreamsAreClean, TypeOK, Read
  <1> DEFINE s == [conn[k] EXCEPT !.handler = "busy", !.up = Tail(@),
                                  !.work = Head(conn[k].up)]
  <1>2. conn' = [conn EXCEPT ![k] = s]
    BY <1>1 DEF Read, TypeOK
  <1>3. Head(conn[k].up) \in Call \cup {Orphan}
        /\ Tail(conn[k].up) \in Seq(Call \cup {Orphan})
    BY <1>1 DEF Stream
  <1>4. s \in Stream /\ s.owner = conn[k].owner /\ s.fresh = conn[k].fresh
        /\ s.handler = "busy" /\ s.work = Head(conn[k].up)
        /\ s.up = Tail(conn[k].up) /\ s.down = conn[k].down
    BY <1>1, <1>3 DEF Stream
  <1>5. \A c \in Call : Head(<<c>>) = c /\ Tail(<<c>>) = <<>>
    OBVIOUS
  <1>6. Carries(s)
    BY <1>1, <1>3, <1>4, <1>5, Names DEF Carries
  <1> HIDE DEF s
  <1>7. InHand' = InHand
    BY <1>1, <1>2, <1>4 DEF TypeOK, InHand, Handled
  <1>8. PermitsExact'
    BY <1>1, <1>7, PermitsStay
  <1> QED BY <1>1, <1>2, <1>4, <1>6, <1>8, ServerStep DEF TypeOK

LEMMA AnswerInv ==
  ASSUME Inv, NEW k \in Conn, Answer(k)
  PROVE  Inv'
  <1>1. TypeOK /\ PermitsExact /\ Carries(conn[k]) /\ conn[k] \in Stream
        /\ UNCHANGED <<server, phase, call>>
        /\ conn[k].handler = "busy" /\ conn[k].work # "none"
    BY DEF Inv, StreamsAreClean, TypeOK, Answer, Carries
  <1> DEFINE a == Answered(k)
             s == [a EXCEPT !.handler = "reading"]
             t == [a EXCEPT !.handler = "closed", !.up = <<>>]
  <1>2. Append(conn[k].down, conn[k].work) \in Seq(Call \cup {Orphan})
        /\ <<>> \in Seq(Call \cup {Orphan})
    BY <1>1 DEF Stream
  <1>3. a \in Stream /\ a.owner = conn[k].owner /\ a.fresh = conn[k].fresh
        /\ a.work = "none" /\ a.up = conn[k].up
        /\ a.down = IF conn[k].owner \in Left THEN conn[k].down
                    ELSE Append(conn[k].down, conn[k].work)
    BY <1>1, <1>2 DEF Stream, Answered
  <1>4. \A c \in Call : Append(<<>>, c) = <<c>>
    OBVIOUS
  <1>5. /\ a.owner \in Call => a.down = <<a.owner>> /\ a.up = <<>>
        /\ a.owner # Pool
    BY <1>1, <1>3, <1>4, Names DEF Carries
  <1> HIDE DEF a
  <1>6. /\ s \in Stream /\ s.owner = a.owner /\ s.fresh = a.fresh /\ s.up = a.up
        /\ s.down = a.down /\ s.work = a.work /\ s.handler = "reading"
        /\ t \in Stream /\ t.owner = a.owner /\ t.fresh = a.fresh /\ t.up = <<>>
        /\ t.down = a.down /\ t.work = a.work /\ t.handler = "closed"
    BY <1>2, <1>3 DEF Stream
  <1>7. Carries(s) /\ Carries(t)
    BY <1>3, <1>5, <1>6 DEF Carries
  <1>8. CASE server = "coordinator"
    <2>1. conn' = [conn EXCEPT ![k] = s] /\ permits' = permits
      BY <1>8 DEF Answer, a
    <2> HIDE DEF s, t
    <2>2. InHand' = InHand
      BY <1>1, <1>6, <2>1 DEF TypeOK, InHand, Handled
    <2>3. PermitsExact'
      BY <1>1, <2>1, <2>2, PermitsStay
    <2> QED BY <1>1, <1>3, <1>6, <1>7, <2>1, <2>3, ServerStep DEF TypeOK
  <1>9. CASE server # "coordinator"
    <2>1. conn' = [conn EXCEPT ![k] = t] /\ permits' = permits + 1
      BY <1>9 DEF Answer, ReleasesPermit, a
    <2> HIDE DEF s, t
    <2>2. k \in InHand /\ InHand' = InHand \ {k}
      BY <1>1, <1>6, <2>1 DEF TypeOK, InHand, Handled
    <2>3. PermitsExact' /\ permits' \in 0..MaxConnections
      BY <1>1, <2>1, <2>2, HandGives DEF TypeOK
    <2> QED BY <1>1, <1>3, <1>6, <1>7, <2>1, <2>3, ServerStep
  <1> QED BY <1>8, <1>9

LEMMA BreakInv ==
  ASSUME Inv, NEW k \in Conn, NEW end \in Left, Break(k, end)
  PROVE  Inv'
  <1> DEFINE c == conn[k].owner
             s == [conn[k] EXCEPT !.owner = end, !.fresh = FALSE, !.up = <<>>,
                                  !.down = <<>>]
             v == Failed(c, conn[k].fresh)
  <1>1. /\ TypeOK /\ StreamsAreClean /\ OwnersWait /\ OneStreamEach /\ CallsAreSound
        /\ PermitsExact /\ conn[k] \in Stream /\ c \in Call
        /\ UNCHANGED <<server, phase, permits>>
        /\ call' = [call EXCEPT ![c] = v] /\ conn' = [conn EXCEPT ![k] = s]
    BY DEF Inv, TypeOK, Break
  <1>2. s \in Stream /\ s.owner = end /\ s.handler = conn[k].handler
        /\ s.work = conn[k].work /\ s.up = <<>> /\ s.down = <<>>
    BY <1>1, EmptySeq DEF Stream
  <1>3. v \in CallRecord
    BY <1>1, FailedType DEF Stream
  <1>4. /\ v.stage = (IF call[c].stage # "paused" /\ call[c].attempt = 0
                      THEN "paused" ELSE "Io")
        /\ v.attempt = call[c].attempt /\ v.cut = conn[k].fresh /\ v.got = call[c].got
    BY <1>1 DEF Failed, TypeOK, CallRecord
  <1> HIDE DEF s, v, c
  <1>5. TypeOK'
    BY <1>1, <1>2, <1>3, TypesStay DEF TypeOK
  <1>6. /\ conn'[k] = s /\ \A l \in Conn : l # k => conn'[l] = conn[l]
        /\ call'[c] = v /\ \A d \in Call : d # c => call'[d] = call[d]
    BY <1>1 DEF TypeOK
  <1>7. StreamsAreClean'
    BY <1>1, <1>2, <1>6, Names DEF StreamsAreClean, Carries
  <1>8. \A d \in Call, l \in Conn : conn'[l].owner = d =>
          l # k /\ conn[l].owner = d /\ d # c
    BY <1>1, <1>2, <1>6, Names DEF OneStreamEach, c
  <1>9. OwnersWait' /\ OneStreamEach'
    BY <1>1, <1>6, <1>8 DEF OwnersWait, OneStreamEach
  <1>10. call[c].stage = "waiting" /\ (call[c].attempt = 1 => conn[k].fresh)
         /\ call[c].attempt \in 0..1
    BY <1>1 DEF OwnersWait, c, TypeOK, CallRecord
  <1>11. CallsAreSound'
    BY <1>1, <1>4, <1>6, <1>10 DEF CallsAreSound
  <1>12. InHand' = InHand
    BY <1>1, <1>2, <1>6 DEF InHand
  <1> QED BY <1>1, <1>5, <1>7, <1>9, <1>11, <1>12, PermitsStay DEF Inv

\* The end of the process.
LEMMA SeveredInv ==
  ASSUME Inv, conn' = Severed, phase' \in Ended, UNCHANGED <<server, permits, call>>
  PROVE  Inv'
  <1>1. TypeOK /\ StreamsAreClean /\ OwnersWait /\ OneStreamEach /\ CallsAreSound
    BY DEF Inv
  <1>2. \A k \in Conn : conn'[k] = Ends(conn[k])
    BY DEF Severed, Ends
  <1>3. \A k \in Conn : conn[k] \in Stream
    BY <1>1 DEF TypeOK
  <1>4. \A k \in Conn : /\ conn'[k] \in Stream /\ conn'[k].owner = conn[k].owner
                        /\ conn'[k].fresh = conn[k].fresh
                        /\ conn'[k].handler = "closed" /\ Carries(conn'[k])
    BY <1>1, <1>2, <1>3, EndsType DEF StreamsAreClean
  <1>5. TypeOK'
    <2>1. conn' \in [Conn -> Stream]
      BY <1>4 DEF Severed
    <2> QED BY <1>1, <2>1 DEF TypeOK
  <1>6. StreamsAreClean'
    BY <1>4 DEF StreamsAreClean, Carries
  <1>7. OwnersWait' /\ OneStreamEach'
    BY <1>1, <1>4 DEF OwnersWait, OneStreamEach
  <1>8. CallsAreSound'
    BY <1>1 DEF CallsAreSound
  <1>9. PermitsExact'
    BY <1>4 DEF PermitsExact, InHand, Handled, Listening, Ended
  <1> QED BY <1>5, <1>6, <1>7, <1>8, <1>9 DEF Inv

LEMMA ProcessInv ==
  ASSUME Inv, Signal \/ Drained \/ GraceOver \/ Crash \/ Restart
  PROVE  Inv'
  <1>1. CASE Drained \/ GraceOver \/ Crash
    BY <1>1, SeveredInv DEF Drained, GraceOver, Crash, Ended
  <1>2. CASE Signal \/ Restart
    <2>1. TypeOK /\ StreamsAreClean /\ OwnersWait /\ OneStreamEach /\ CallsAreSound
          /\ PermitsExact
      BY DEF Inv
    <2>2. UNCHANGED <<server, call, conn>> /\ InHand' = InHand
      BY <1>2 DEF Signal, Restart, InHand
    <2>3. TypeOK'
      BY <1>2, <2>1, <2>2, SizesAssumption DEF TypeOK, Signal, Restart, Listening
    <2>4. StreamsAreClean' /\ OwnersWait' /\ OneStreamEach' /\ CallsAreSound'
      BY <2>1, <2>2 DEF StreamsAreClean, Carries, OwnersWait, OneStreamEach,
         CallsAreSound
    <2>5. PermitsExact'
      <3>1. CASE Signal
        BY <2>1, <2>2, <3>1 DEF PermitsExact, Signal, Listening
      <3>2. CASE Restart
        <4>1. InHand = {} /\ phase' \in Listening /\ permits' = MaxConnections
          BY <2>1, <3>2 DEF PermitsExact, Restart, Listening, Ended
        <4>2. Cardinality(InHand') = 0
          BY <2>2, <4>1, FS_EmptySet
        <4> QED BY <4>1, <4>2, SizesAssumption DEF PermitsExact
      <3> QED BY <1>2, <3>1, <3>2
    <2> QED BY <2>3, <2>4, <2>5 DEF Inv
  <1> QED BY <1>1, <1>2

LEMMA StepInv == Inv /\ [Next]_vars => Inv'
  <1> SUFFICES ASSUME Inv, [Next]_vars PROVE Inv'
    OBVIOUS
  <1>1. ASSUME NEW c \in Call, Client(c) PROVE Inv'
    BY <1>1, RefusedInv, TooLargeInv, GiveUpInv, NextCallInv, ReuseInv, DialInv,
       ReceiveInv, EndOfStreamInv DEF Client
  <1>2. ASSUME NEW k \in Conn, Accept(k) \/ Task(k) \/ \E end \in Left : Break(k, end)
        PROVE Inv'
    <2>1. CASE Refuse(k) \/ HangUp(k) \/ IdleTimeout(k)
      BY <2>1, ClosesInv DEF Refuse, HangUp, IdleTimeout, Handled
    <2> QED BY <1>2, <2>1, AcceptInv, ReadInv, AnswerInv, BreakInv DEF Task
  <1>3. CASE UNCHANGED vars
    BY <1>3 DEF vars, Inv, TypeOK, StreamsAreClean, Carries, OwnersWait,
       OneStreamEach, CallsAreSound, PermitsExact, InHand
  <1> QED BY <1>1, <1>2, <1>3, ProcessInv DEF Next

\* The inductive invariant: what streams carry, who owns them, and the
\* permits that are out.
THEOREM InvHolds == Spec => []Inv
  BY InitInv, StepInv, PTL DEF Spec

\* `request` and the two servers keep the types of their tables.
THEOREM TypeCorrect == Spec => []TypeOK
  <1>1. Inv => TypeOK
    BY DEF Inv
  <1> QED BY InvHolds, <1>1, PTL

\* `request` returns the reply to the envelope it was given, although replies
\* carry no request id and streams are reused.
THEOREM RepliesAlwaysMatch == Spec => []RepliesMatch
  <1>1. Inv => RepliesMatch
    BY DEF Inv, CallsAreSound, RepliesMatch
  <1> QED BY InvHolds, <1>1, PTL

\* A stream that the server closed while it was idle in the pool never makes
\* `request` fail: the retry dials.
THEOREM IdleAlwaysHarmless == Spec => []IdleIsHarmless
  <1>1. Inv => IdleIsHarmless
    BY DEF Inv, CallsAreSound, IdleIsHarmless
  <1> QED BY InvHolds, <1>1, PTL

\* When acquire_many succeeds in `serve`, no accepted connection is left.
THEOREM DrainAlwaysClean == Spec => DrainIsClean
  <1>1. Inv /\ [Next]_vars =>
          [phase' = "drained" /\ phase # "drained" =>
             \A k \in Conn : conn[k].handler \notin Handled]_vars
    <2> SUFFICES ASSUME Inv, Next, phase' = "drained", phase # "drained"
                 PROVE  \A k \in Conn : conn[k].handler \notin Handled
      OBVIOUS
    <2>1. Drained
      BY DEF Next, Client, Task, Refused, TooLarge, GiveUp, NextCall, Reuse, Dial,
         Receive, EndOfStream, Accept, Read, Answer, Refuse, HangUp, IdleTimeout,
         Break, Signal, GraceOver, Crash, Restart
    <2>2. permits >= MaxConnections /\ permits \in Nat
          /\ permits + Cardinality(InHand) = MaxConnections
      BY <2>1 DEF Drained, Wanted, Inv, TypeOK, PermitsExact, Listening
    <2>3. Cardinality(InHand) = 0
      BY <2>2, HandIsFinite, FS_CardinalityType, SizesAssumption
    <2>4. InHand = {}
      BY <2>3, HandIsFinite, FS_EmptySet
    <2> QED BY <2>4 DEF InHand
  <1> QED BY InvHolds, <1>1, PTL DEF Spec, DrainIsClean
=============================================================================
