------------------------------- MODULE Arena -------------------------------
(***************************************************************************)
(* The shared-memory object arena (arena.rs) with the coordinator's        *)
(* requests that use it (cluster.rs) and the clients that write and read   *)
(* it (client.rs): one mapped file, an allocator of exact-size slots, and  *)
(* puts that reserve a slot, fill it and commit it.                        *)
(*                                                                         *)
(* The coordinator's state lock is held over ArenaReserve, Put, Get and    *)
(* Release as a whole (the guard lives as long as the `match` or `if let`  *)
(* it is taken in), so each is one action.  ArenaCommit commits in the     *)
(* arena first and takes the state lock afterwards: two actions.  Chunks   *)
(* take only the allocator's lock.  A same-host client writes and reads    *)
(* the mapping with no lock at all, a byte at a time.                      *)
(*                                                                         *)
(* Memory is bytes; the k-th byte of object id is <<id, k>>.  A definition *)
(* named X_... stands before X and is X with a bug: no module uses it.     *)
(***************************************************************************)
EXTENDS Integers, Sequences, FiniteSets, SequencesExt

CONSTANTS
  Hashed,        \* ids derived from the content: any client may put them
  Random,        \* ids of unhashed (large) puts: each is put once
  Size,          \* [Object -> Nat], in bytes
  Codec,
  Mode,          \* the write modes clients use: "Direct", "Streamed"
  Client,        \* clients that put
  Reader,        \* clients that get
  Granule,       \* slots are multiples of it (8)
  ArenaBytes,    \* ARENA_BYTES
  ReserveTtl,    \* RESERVE_TTL
  MaxObjects,    \* MAX_OBJECTS
  MaxReservations, \* bound on reservations
  None           \* no entry, no record, no request in progress

Object == Hashed \cup Random

\* size.max(1).div_ceil(8) * 8
Slot(id) ==
  LET n == IF Size[id] < 1 THEN 1 ELSE Size[id]
  IN ((n + Granule - 1) \div Granule) * Granule
Slots == {Slot(id) : id \in Object}
Offsets == 0..(ArenaBytes - 1)

ASSUME Parameters ==
  /\ Hashed \cap Random = {} /\ IsFiniteSet(Object)
  /\ Size \in [Object -> Nat]
  /\ Mode \subseteq {"Direct", "Streamed"}
  /\ {Granule, ArenaBytes, MaxReservations} \subseteq Nat \ {0}
  /\ {ReserveTtl, MaxObjects} \subseteq Nat

VARIABLES
  top,           \* Alloc.top
  free,          \* Alloc.free: [Slots -> stack of offsets]
  live,          \* Alloc.live: [Object -> Entry or NoEntry]
  mem,           \* the mapped file: [Offsets -> byte]
  records,       \* the coordinator's records of put objects
  committing,    \* ArenaCommit requests between the arena and the record
  \* The outside world.
  issued,        \* reservations handed out so far
  spent,         \* the puts of random ids that were begun
  writers,       \* [Client -> put in progress or Idle]
  sent,          \* chunk and commit requests that are on their way
  readers        \* [Reader -> get in progress or Idle]

server == <<top, free, live, records>>
vars == <<top, free, live, mem, records, committing, issued, spent, writers,
          sent, readers>>

Blank == <<>>
Idle == None
NoEntry == None
NoRecord == None
NoBase == -1
Committed == -1      \* reserved_at = None

Entry == [offset : Offsets, codec : Codec, mode : {"Direct", "Streamed"},
          reservation : Nat, written : Nat, age : {Committed} \cup Nat]
Record == [codec : Codec, inline : BOOLEAN]

\* A put and a get in progress.
Putting == [id : Object, mode : Mode, offset : Offsets, reservation : Nat,
            next : Nat]
Getting == [kind : {"mapped", "chunked"}, id : Object,
            base : Offsets \cup {NoBase}, pos : Nat, good : BOOLEAN,
            released : BOOLEAN]

ASSUME NoneIsNothing ==
  /\ None \notin Entry /\ None \notin Record /\ None \notin Putting
  /\ None \notin Getting /\ None \notin Client

IsLive(L, id) == L[id] # NoEntry
IsCommitted(id) == IsLive(live, id) /\ live[id].age = Committed
Present == {id \in Object : records[id] # NoRecord}

----------------------------------------------------------------------------
(* The allocator.                                                          *)

Push_Lost(F, id, offset) == F
Push(F, id, offset) == [F EXCEPT ![Slot(id)] = Append(@, offset)]

\* Alloc::reap, which every reserve runs first: the reservations that were
\* neither committed nor written to for ReserveTtl are dropped, their slots
\* pushed in the order the hash map yields them.
Expired_CommittedToo ==
  {id \in Object : IsLive(live, id) /\ live[id].age \notin 0..(ReserveTtl - 1)}
Expired == {id \in Object : IsLive(live, id) /\ live[id].age >= ReserveTtl}
LiveAfterReap == [id \in Object |-> IF id \in Expired THEN NoEntry ELSE live[id]]
FreeAfterReap(order) ==
  LET F[i \in 0..Len(order)] ==
        IF i = 0 THEN free
        ELSE Push(F[i - 1], order[i], live[order[i]].offset)
  IN F[Len(order)]

NewEntry(offset, codec, mode) ==
  [offset |-> offset, codec |-> codec, mode |-> mode,
   reservation |-> issued + 1, written |-> 0, age |-> 0]

\* A slot for id from its free list, newest first, else cut from the top.
Fits_Unchecked(id) == TRUE
Fits(id) == top + Slot(id) <= ArenaBytes
Allocate(F, id, offset) ==
  \/ /\ F[Slot(id)] # <<>>
     /\ offset = Last(F[Slot(id)])
     /\ free' = [F EXCEPT ![Slot(id)] = Front(@)]
     /\ top' = top
  \/ /\ F[Slot(id)] = <<>>
     /\ Fits(id)
     /\ offset = top
     /\ free' = F
     /\ top' = top + Slot(id)
Exhausted(F, id) == F[Slot(id)] = <<>> /\ ~Fits(id)

Same(entry, codec, mode) == entry.codec = codec /\ entry.mode = mode

----------------------------------------------------------------------------
(* A put in three requests.                                                *)

\* What a client may put: random ids are new for every put and the only ones
\* that are streamed.  c = None is a request that was repeated and comes when
\* nobody waits for the answer any more.
MayReserve(c, id, codec, mode) ==
  /\ mode = "Streamed" => id \in Random
  /\ IF c = None THEN <<id, codec, mode>> \in spent
     ELSE writers[c] = Idle /\ \A p \in spent : p[1] # id
  /\ records[id] = NoRecord

Begun(c, id, mode, offset, reservation) ==
  IF c = None THEN writers
  ELSE [writers EXCEPT ![c] =
          [id |-> id, mode |-> mode, offset |-> offset,
           reservation |-> reservation, next |-> 0]]

\* A reserve of an id that is already reserved joins the reservation.
ReserveJoins(c, id, codec, mode) ==
  /\ MayReserve(c, id, codec, mode)
  /\ IsLive(LiveAfterReap, id) /\ Same(live[id], codec, mode)
  /\ \E order \in SetToSeqs(Expired) : free' = FreeAfterReap(order)
  /\ live' = LiveAfterReap
  /\ writers' = Begun(c, id, mode, live[id].offset, live[id].reservation)
  /\ UNCHANGED <<top, mem, records, committing, issued, spent, sent, readers>>

ReserveNew(c, id, codec, mode) ==
  /\ MayReserve(c, id, codec, mode)
  /\ issued < MaxReservations
  /\ ~IsLive(LiveAfterReap, id)
  /\ \E order \in SetToSeqs(Expired), offset \in Offsets :
       /\ Allocate(FreeAfterReap(order), id, offset)
       /\ live' = [LiveAfterReap EXCEPT ![id] = NewEntry(offset, codec, mode)]
       /\ writers' = Begun(c, id, mode, offset, issued + 1)
  /\ issued' = issued + 1
  /\ spent' = IF id \in Random THEN spent \cup {<<id, codec, mode>>}
              ELSE spent
  /\ UNCHANGED <<mem, records, committing, sent, readers>>

\* A reserve that is refused has reaped all the same.
ReserveRefused(c, id, codec, mode) ==
  /\ MayReserve(c, id, codec, mode)
  /\ \E order \in SetToSeqs(Expired) :
       /\ IF IsLive(LiveAfterReap, id) THEN ~Same(live[id], codec, mode)
          ELSE Exhausted(FreeAfterReap(order), id)
       /\ free' = FreeAfterReap(order)
  /\ live' = LiveAfterReap
  /\ UNCHANGED <<top, mem, records, committing, issued, spent, writers, sent,
                 readers>>

\* put_arena copies straight into the mapping.
WriteDirect(c) ==
  LET w == writers[c]
  IN /\ w # Idle /\ w.mode = "Direct" /\ w.next < Size[w.id]
     /\ mem' = [mem EXCEPT ![w.offset + w.next] = <<w.id, w.next>>]
     /\ writers' = [writers EXCEPT ![c].next = @ + 1]
     /\ UNCHANGED <<server, committing, issued, spent, sent, readers>>

\* A request is tried twice when the connection fails, and chunks and commits
\* are not in the replay cache: they may arrive again.
Arrives(m) == sent' \in {sent, sent \ {m}}

\* put_chunked sends a chunk and waits for the answer before the next one.
SendChunk(c) ==
  LET w == writers[c]
  IN /\ w # Idle /\ w.mode = "Streamed" /\ w.next < Size[w.id]
     /\ sent' = sent \cup {[kind |-> "PutChunk", id |-> w.id,
                            reservation |-> w.reservation, at |-> w.next]}
     /\ sent' # sent
     /\ UNCHANGED <<server, mem, committing, issued, spent, writers, readers>>

ChunkAnswered(c) ==
  LET w == writers[c]
  IN /\ w # Idle /\ w.mode = "Streamed"
     /\ IsLive(live, w.id) /\ live[w.id].reservation = w.reservation
     /\ live[w.id].written > w.next
     /\ writers' = [writers EXCEPT ![c].next = @ + 1]
     /\ UNCHANGED <<server, mem, committing, issued, spent, sent, readers>>

\* write_chunk.  A chunk that was written before changes nothing, whatever
\* its bytes; one that is out of turn is refused.
ChunkFence(m) ==
  /\ IsLive(live, m.id)
  /\ live[m.id].reservation = m.reservation /\ live[m.id].age # Committed
  /\ live[m.id].mode = "Streamed"

PutChunk(m) ==
  /\ m.kind = "PutChunk" /\ Arrives(m)
  /\ ChunkFence(m) /\ m.at = live[m.id].written
  /\ mem' = [mem EXCEPT ![live[m.id].offset + m.at] = <<m.id, m.at>>]
  /\ live' = [live EXCEPT ![m.id].written = m.at + 1, ![m.id].age = 0]
  /\ UNCHANGED <<top, free, records, committing, issued, spent, writers,
                 readers>>

ChunkRefused(m) ==
  /\ m.kind = "PutChunk" /\ Arrives(m)
  /\ ~(ChunkFence(m) /\ m.at = live[m.id].written)
  /\ UNCHANGED <<server, mem, committing, issued, spent, writers, readers>>

SendCommit(c) ==
  LET w == writers[c]
  IN /\ w # Idle /\ w.next = Size[w.id]
     /\ sent' = sent \cup {[kind |-> "ArenaCommit", id |-> w.id,
                            reservation |-> w.reservation, at |-> c]}
     /\ writers' = [writers EXCEPT ![c] = Idle]
     /\ UNCHANGED <<server, mem, committing, issued, spent, readers>>

\* A client may die or give up at any point of its put.
Abandon(c) ==
  /\ writers[c] # Idle
  /\ writers' = [writers EXCEPT ![c] = Idle]
  /\ UNCHANGED <<server, mem, committing, issued, spent, sent, readers>>

MayCommit_ById(m) == IsLive(live, m.id)
MayCommit(m) ==
  /\ IsLive(live, m.id) /\ live[m.id].reservation = m.reservation
  /\ live[m.id].mode = "Streamed" => live[m.id].written = Size[m.id]

\* ArenaCommit, first half: ArenaStore::commit.
CommitArena(m) ==
  /\ m.kind = "ArenaCommit" /\ Arrives(m)
  /\ MayCommit(m)
  /\ live' = [live EXCEPT ![m.id].age = Committed]
  /\ committing' = committing \cup
       {[id |-> m.id, reservation |-> m.reservation,
         codec |-> live[m.id].codec, client |-> m.at]}
  /\ UNCHANGED <<top, free, mem, records, issued, spent, writers, readers>>

CommitRefused(m) ==
  /\ m.kind = "ArenaCommit" /\ Arrives(m)
  /\ ~MayCommit(m)
  /\ UNCHANGED <<server, mem, committing, issued, spent, writers, readers>>

\* admit_object: a record that exists must agree, and stays as it is.
Admits(id, codec) ==
  IF records[id] = NoRecord THEN Cardinality(Present) < MaxObjects
  ELSE records[id].codec = codec
Admitted(id, codec, inline) ==
  IF records[id] # NoRecord THEN records
  ELSE [records EXCEPT ![id] = [codec |-> codec, inline |-> inline]]

\* Second half: put_meta admits the record, or the commit is rolled back.
CommitRecord(k) ==
  /\ committing' = committing \ {k}
  /\ Admits(k.id, k.codec)
  /\ records' = Admitted(k.id, k.codec, FALSE)
  /\ UNCHANGED <<top, free, live, mem, issued, spent, writers, sent, readers>>

\* ArenaStore::rollback drops the entry if it is still this reservation's.
RollsBack_ById(k) == IsLive(live, k.id) /\ live[k.id].age = Committed
RollsBack(k) ==
  IsLive(live, k.id) /\ live[k.id].reservation = k.reservation
                     /\ live[k.id].age = Committed

CommitRolledBack(k) ==
  /\ committing' = committing \ {k}
  /\ ~Admits(k.id, k.codec)
  /\ IF RollsBack(k)
     THEN /\ live' = [live EXCEPT ![k.id] = NoEntry]
          /\ free' = Push(free, k.id, live[k.id].offset)
     ELSE UNCHANGED <<live, free>>
  /\ UNCHANGED <<top, mem, records, issued, spent, writers, sent, readers>>

----------------------------------------------------------------------------
(* Put in one request, get and release.                                    *)

Filled(id, offset) ==
  [x \in Offsets |-> IF x \in offset..(offset + Size[id] - 1)
                     THEN <<id, x - offset>> ELSE mem[x]]

\* The bytes go into the record, unless there is one, and are published in
\* the arena as well: a reserve, a copy and a commit, unless the arena
\* refuses.  (Only commits and chunks, which do not disturb it, could come
\* between these three.)
PutInline(id, codec) ==
  /\ Admits(id, codec)
  /\ records' = Admitted(id, codec, TRUE)
  /\ \E order \in SetToSeqs(Expired) :
       LET F == FreeAfterReap(order)
       IN \/ /\ IsLive(LiveAfterReap, id) /\ Same(live[id], codec, "Direct")
             /\ mem' = IF live[id].age = Committed THEN mem
                       ELSE Filled(id, live[id].offset)
             /\ live' = [LiveAfterReap EXCEPT ![id].age = Committed]
             /\ free' = F /\ UNCHANGED <<top, issued>>
          \/ /\ ~IsLive(LiveAfterReap, id) /\ issued < MaxReservations
             /\ \E offset \in Offsets :
                  /\ Allocate(F, id, offset)
                  /\ mem' = Filled(id, offset)
                  /\ live' = [LiveAfterReap EXCEPT ![id] =
                       [NewEntry(offset, codec, "Direct")
                          EXCEPT !.age = Committed]]
             /\ issued' = issued + 1
          \/ /\ IF IsLive(LiveAfterReap, id) THEN ~Same(live[id], codec, "Direct")
                ELSE Exhausted(F, id)
             /\ live' = LiveAfterReap /\ free' = F
             /\ UNCHANGED <<top, mem, issued>>
  /\ UNCHANGED <<committing, spent, writers, sent, readers>>

\* A get of an object whose bytes are in the arena is answered with their
\* place (arena_annotate).  A reader on the same host copies from there; any
\* other fetches chunk by chunk.
Reading(kind, id, base) ==
  [kind |-> kind, id |-> id, base |-> base, pos |-> 0, good |-> TRUE,
   released |-> FALSE]

GetMapped(r, id) ==
  /\ readers[r] = Idle /\ records[id] # NoRecord /\ IsCommitted(id)
  /\ readers' = [readers EXCEPT ![r] =
                   Reading("mapped", id, live[id].offset)]
  /\ UNCHANGED <<server, mem, committing, issued, spent, writers, sent>>

GetRemote(r, id) ==
  /\ readers[r] = Idle /\ records[id] # NoRecord /\ IsCommitted(id)
  /\ readers' = [readers EXCEPT ![r] = Reading("chunked", id, NoBase)]
  /\ UNCHANGED <<server, mem, committing, issued, spent, writers, sent>>

\* read_chunk takes the place under the lock and copies after it.
GetChunk(r) ==
  /\ readers[r] # Idle /\ readers[r].base = NoBase
  /\ readers[r].pos < Size[readers[r].id]
  /\ IsCommitted(readers[r].id)
  /\ readers' = [readers EXCEPT ![r].base = live[readers[r].id].offset]
  /\ UNCHANGED <<server, mem, committing, issued, spent, writers, sent>>

CopyByte(r) ==
  LET d == readers[r]
  IN /\ d # Idle /\ d.base # NoBase /\ d.pos < Size[d.id]
     /\ readers' = [readers EXCEPT
          ![r].good = @ /\ mem[d.base + d.pos] = <<d.id, d.pos>>,
          ![r].pos = @ + 1,
          ![r].base = IF d.kind = "chunked" THEN NoBase ELSE @]
     /\ UNCHANGED <<server, mem, committing, issued, spent, writers, sent>>

\* The get is over, with all bytes or with an error.
GetEnds(r) ==
  /\ readers[r] # Idle
  /\ readers' = [readers EXCEPT ![r] = Idle]
  /\ UNCHANGED <<server, mem, committing, issued, spent, writers, sent>>

\* To release what has no record is no error, and reaches the arena too: one
\* who holds the id of a content from an earlier put may end a reservation
\* of the same content.
Release(id) ==
  /\ records[id] # NoRecord \/ (id \in Hashed /\ IsLive(live, id))
  /\ records' = [records EXCEPT ![id] = NoRecord]
  /\ IF IsLive(live, id)
     THEN /\ live' = [live EXCEPT ![id] = NoEntry]
          /\ free' = Push(free, id, live[id].offset)
     ELSE UNCHANGED <<live, free>>
  /\ readers' = [r \in Reader |->
       IF readers[r] # Idle /\ readers[r].id = id
       THEN [readers[r] EXCEPT !.released = TRUE] ELSE readers[r]]
  /\ UNCHANGED <<top, mem, committing, issued, spent, writers, sent>>

\* Time passes for the reservations.
Tick ==
  /\ \E id \in Object : IsLive(live, id) /\ live[id].age \in 0..(ReserveTtl - 1)
  /\ live' = [id \in Object |->
       IF IsLive(live, id) /\ live[id].age \in 0..(ReserveTtl - 1)
       THEN [live[id] EXCEPT !.age = @ + 1] ELSE live[id]]
  /\ UNCHANGED <<top, free, mem, records, committing, issued, spent, writers,
                 sent, readers>>

----------------------------------------------------------------------------
Init ==
  /\ top = 0 /\ free = [k \in Slots |-> <<>>]
  /\ live = [id \in Object |-> NoEntry]
  /\ mem = [x \in Offsets |-> Blank]
  /\ records = [id \in Object |-> NoRecord] /\ committing = {}
  /\ issued = 0 /\ spent = {} /\ sent = {}
  /\ writers = [c \in Client |-> Idle] /\ readers = [r \in Reader |-> Idle]

Reserve(c) ==
  \E id \in Object, codec \in Codec, mode \in Mode :
    \/ ReserveJoins(c, id, codec, mode) \/ ReserveNew(c, id, codec, mode)
    \/ ReserveRefused(c, id, codec, mode)

Writer(c) ==
  \/ WriteDirect(c) \/ SendChunk(c) \/ ChunkAnswered(c) \/ SendCommit(c)
  \/ Abandon(c)

Request ==
  \/ \E m \in sent :
       PutChunk(m) \/ ChunkRefused(m) \/ CommitArena(m) \/ CommitRefused(m)
  \/ \E k \in committing : CommitRecord(k) \/ CommitRolledBack(k)
  \/ \E id \in Hashed, codec \in Codec : PutInline(id, codec)
  \/ \E id \in Object : Release(id)

Read(r) ==
  \/ \E id \in Object : GetMapped(r, id) \/ GetRemote(r, id)
  \/ GetChunk(r) \/ CopyByte(r) \/ GetEnds(r)

Next ==
  \/ \E c \in Client \cup {None} : Reserve(c)
  \/ \E c \in Client : Writer(c)
  \/ Request
  \/ \E r \in Reader : Read(r)
  \/ Tick

Spec == Init /\ [][Next]_vars

----------------------------------------------------------------------------
(* Properties.                                                             *)

\* The allocator's tables and the mapping keep their types.
TypeOK ==
  /\ top \in 0..ArenaBytes
  /\ free \in [Slots -> Seq(Offsets)]
  /\ live \in [Object -> Entry \cup {NoEntry}]
  /\ mem \in [Offsets -> (Object \X Nat) \cup {Blank}]
  /\ records \in [Object -> Record \cup {NoRecord}]
  /\ spent \subseteq Random \X Codec \X Mode /\ issued \in 0..MaxReservations

\* The slots in use and the slots on the free lists tile the arena up to
\* `top`: none overlap ("disjoint from every other live object"), none is
\* handed out twice and none leaks, through reserve, reap, roll-back, release
\* and requests that come late.
Covers(offset, size, x) == offset <= x /\ x < offset + size
Owners(x) ==
  {<<0, id>> : id \in {o \in Object : /\ IsLive(live, o)
                                     /\ Covers(live[o].offset, Slot(o), x)}}
    \cup
  UNION {{<<k, i>> : i \in {j \in DOMAIN free[k] : Covers(free[k][j], k, x)}}
         : k \in Slots}

SlotsTile ==
  \A x \in Offsets : Cardinality(Owners(x)) = IF x < top THEN 1 ELSE 0

\* A committed object is whole: its slot holds its bytes and no others,
\* although chunks come late and slots are recycled.
Whole(id) ==
  \A k \in 0..(Size[id] - 1) : mem[live[id].offset + k] = <<id, k>>
CommittedIsWhole == \A id \in Object : IsCommitted(id) => Whole(id)

\* A reader gets the object's own bytes, as long as nobody releases it
\* meanwhile (the documented duty of the application).
ReadsAreWhole ==
  \A r \in Reader : readers[r] # Idle =>
    (readers[r].released \/ readers[r].good)

\* A record whose bytes are in the arena alone keeps them: no reap, release,
\* roll-back or repeated request takes the slot from under it.  Only the
\* second half of a commit whose own entry went since the first half leaves
\* such a record without bytes.
Bare(id) ==
  /\ records[id] # NoRecord /\ ~records[id].inline
  /\ ~(IsCommitted(id) /\ live[id].codec = records[id].codec)
Ours(k) == IsLive(live, k.id) /\ live[k.id].reservation = k.reservation
BytesStayWithRecord ==
  [][\A id \in Object : Bare(id)' => \/ Bare(id)
       \/ /\ records[id] = NoRecord
          /\ \E k \in committing \ committing' : k.id = id /\ ~Ours(k)]_vars

\* arena.rs: "a committed region is never rewritten while readable".
Readable(id) == IsCommitted(id) /\ records[id] # NoRecord
NeverRewritten ==
  [][\A id \in Object : Readable(id) /\ Readable(id)' =>
       \A k \in 0..(Size[id] - 1) :
         mem'[live[id].offset + k] = mem[live[id].offset + k]]_vars
=============================================================================
