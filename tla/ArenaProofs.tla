---------------------------- MODULE ArenaProofs ----------------------------
(***************************************************************************)
(* Proofs about Arena, for any objects, sizes, arena and granule, any      *)
(* clients and readers, and any time to live of a reservation.             *)
(*                                                                         *)
(* The allocator moves slots one at a time: a live slot is dropped onto    *)
(* its free list, the newest free one is taken, or one is cut from the     *)
(* top.  Each move keeps the slots a tiling; a reap is a loop of drops,    *)
(* and is dealt with by induction over the loop.  What is disjoint is then *)
(* what keeps one object's chunks out of another's bytes.                  *)
(***************************************************************************)
EXTENDS Arena, SequenceTheorems, FiniteSetTheorems, WellFoundedInduction, TLAPS

----------------------------------------------------------------------------
(* Numbers.                                                                *)

\* A set of naturals has a smallest element: < is well-founded on them.
LEMMA SmallestOf ==
  ASSUME NEW S \in SUBSET Nat, S # {}
  PROVE  \E m \in S : \A k \in S : m <= k
  <1> DEFINE R == {ss \in Nat \X Nat : ss[1] < ss[2]}
  <1>1. R = OpToRel(<, Nat)
    BY Zenon DEF OpToRel
  <1>2. IsWellFoundedOn(R, Nat)
    BY <1>1, NatLessThanWellFounded, Zenon
  <1>3. \A k, m \in Nat : k < m => <<k, m>> \in R
    OBVIOUS
  <1> HIDE DEF R
  <1>4. \E m \in S : \A k \in S : ~(<<k, m>> \in R)
    BY <1>2, WFMin
  <1>5. PICK m \in S : \A k \in S : ~(<<k, m>> \in R)
    BY <1>4
  <1>6. ASSUME NEW k \in S PROVE m <= k
    <2>1. k \in Nat /\ m \in Nat
      OBVIOUS
    <2>2. ~(k < m)
      BY <1>3, <1>5, <2>1
    <2> QED
      BY <2>1, <2>2
  <1> QED
    BY <1>6

\* What holds of 0 and is passed on from i to i + 1 holds up to n.
LEMMA UpTo ==
  ASSUME NEW n \in Nat, NEW S, 0 \in S,
         \A i \in 0..(n - 1) : i \in S => i + 1 \in S
  PROVE  \A i \in 0..n : i \in S
  <1> DEFINE bad == {i \in 0..n : i \notin S}
  <1> SUFFICES ASSUME bad # {} PROVE FALSE
    OBVIOUS
  <1>1. bad \in SUBSET Nat
    OBVIOUS
  <1>2. PICK m \in bad : \A k \in bad : m <= k
    <2> HIDE DEF bad
    <2> QED
      BY <1>1, SmallestOf
  <1>3. m \in 0..n /\ m \notin S /\ m # 0
    OBVIOUS
  <1>4. m - 1 \in 0..(n - 1) /\ ~(m <= m - 1) /\ m - 1 + 1 = m
    BY <1>3
  <1>5. m - 1 \in S
    BY <1>2, <1>4
  <1> QED
    BY <1>3, <1>4, <1>5

\* Rounding up to a multiple of g.
LEMMA RoundUp ==
  ASSUME NEW n \in Nat, NEW g \in Nat \ {0}
  PROVE  /\ ((n + g - 1) \div g) * g \in Nat
         /\ ((n + g - 1) \div g) * g >= n
  <1> DEFINE a == n + g - 1
             q == a \div g
  <1>1. a \in Nat
    OBVIOUS
  <1>2. q \in Nat /\ a = g * q + (a % g) /\ a % g \in 0..(g - 1)
    BY <1>1
  <1> HIDE DEF q
  <1>3. q * g = g * q /\ q * g \in Nat
    BY <1>2
  <1>4. q * g >= n
    BY <1>2, <1>3
  <1> QED
    BY <1>3, <1>4 DEF q

\* A slot has room for its object, and for at least one byte.
LEMMA SlotFits ==
  ASSUME NEW id \in Object
  PROVE  /\ Slot(id) \in Nat /\ Slot(id) >= 1 /\ Slot(id) >= Size[id]
         /\ Size[id] \in Nat /\ Slot(id) \in Slots
  <1> DEFINE n == IF Size[id] < 1 THEN 1 ELSE Size[id]
  <1>1. Size[id] \in Nat /\ Granule \in Nat \ {0}
    BY Parameters
  <1>2. n \in Nat /\ n >= 1 /\ n >= Size[id]
    BY <1>1
  <1>3. Slot(id) = ((n + Granule - 1) \div Granule) * Granule
    BY DEF Slot
  <1> HIDE DEF n
  <1>4. Slot(id) \in Nat /\ Slot(id) >= n
    BY <1>1, <1>2, <1>3, RoundUp
  <1> QED
    BY <1>1, <1>2, <1>4 DEF Slots

LEMMA SlotSizes ==
  \A k \in Slots : k \in Nat /\ k >= 1
  BY SlotFits DEF Slots

----------------------------------------------------------------------------
(* The tiling.                                                             *)

LiveOwners(L, x) ==
  {<<0, id>> : id \in {o \in Object : /\ IsLive(L, o)
                                     /\ Covers(L[o].offset, Slot(o), x)}}
FreeOwners(F, x) ==
  UNION {{<<k, i>> : i \in {j \in DOMAIN F[k] : Covers(F[k][j], k, x)}}
         : k \in Slots}
OwnersIn(L, F, x) == LiveOwners(L, x) \cup FreeOwners(F, x)

Tables(L, F, t) ==
  /\ t \in 0..ArenaBytes
  /\ F \in [Slots -> Seq(Offsets)]
  /\ L \in [Object -> Entry \cup {NoEntry}]
Below(L, F, t) ==
  /\ \A id \in Object : IsLive(L, id) => L[id].offset + Slot(id) <= t
  /\ \A k \in Slots : \A j \in DOMAIN F[k] : F[k][j] + k <= t

\* Every byte below t has one owner; slots end at t.
Tiled(L, F, t) ==
  /\ Tables(L, F, t) /\ Below(L, F, t)
  /\ \A x \in 0..(t - 1) : \E o : OwnersIn(L, F, x) = {o}

\* Live slots and free ones are told apart.
LEMMA OwnersApart ==
  ASSUME NEW F, NEW x, NEW id, NEW L
  PROVE  /\ <<0, id>> \notin FreeOwners(F, x)
         /\ \A k \in Slots : \A i : <<k, i>> \notin LiveOwners(L, x)
  BY SlotSizes DEF FreeOwners, LiveOwners

\* A set with one element, of which it loses one and gains another.
LEMMA OneForOne ==
  ASSUME NEW A, NEW o, A = {o}, NEW p, NEW q, NEW B, NEW in \in BOOLEAN,
         p \in A <=> in, B = IF in THEN (A \ {p}) \cup {q} ELSE A
  PROVE  \E r : B = {r}
  OBVIOUS

\* The entry e, with its slot at y, enters the table; a free list grows.
Puts(M, L, id, y) ==
  /\ IsLive(M, id) /\ M[id].offset = y /\ ~IsLive(L, id)
  /\ \A o \in Object \ {id} : M[o] = L[o]
Grows(G, F, k, y) == G = [F EXCEPT ![k] = Append(F[k], y)]

\* Removing a live entry, and putting one where there was none.
LEMMA LiveOwnersDrop ==
  ASSUME NEW L \in [Object -> Entry \cup {NoEntry}], NEW id \in Object,
         IsLive(L, id), NEW x
  PROVE  /\ LiveOwners([L EXCEPT ![id] = NoEntry], x)
              = LiveOwners(L, x) \ {<<0, id>>}
         /\ <<0, id>> \in LiveOwners(L, x)
              <=> Covers(L[id].offset, Slot(id), x)
  <1> DEFINE M == [L EXCEPT ![id] = NoEntry]
  <1>1. \A o \in Object : M[o] = IF o = id THEN NoEntry ELSE L[o]
    OBVIOUS
  <1>2. ~IsLive(M, id) /\ \A o \in Object \ {id} : M[o] = L[o]
    BY <1>1 DEF IsLive
  <1> HIDE DEF M
  <1>3. LiveOwners(M, x) = LiveOwners(L, x) \ {<<0, id>>}
    BY <1>2 DEF LiveOwners, IsLive
  <1>4. <<0, id>> \in LiveOwners(L, x) <=> Covers(L[id].offset, Slot(id), x)
    BY DEF LiveOwners
  <1> QED
    BY <1>3, <1>4 DEF M

Adds(M, L, id, y, x) ==
  /\ Covers(y, Slot(id), x)
       => LiveOwners(M, x) = LiveOwners(L, x) \cup {<<0, id>>}
  /\ ~Covers(y, Slot(id), x) => LiveOwners(M, x) = LiveOwners(L, x)
  /\ <<0, id>> \notin LiveOwners(L, x)

LEMMA LiveOwnersAdd ==
  ASSUME NEW id \in Object, NEW L, NEW M, NEW y, NEW x, Puts(M, L, id, y)
  PROVE  Adds(M, L, id, y, x)
  BY DEF Adds, LiveOwners, IsLive, Puts

LEMMA PutsEntry ==
  ASSUME NEW L \in [Object -> Entry \cup {NoEntry}], NEW id \in Object,
         ~IsLive(L, id), NEW e \in Entry
  PROVE  Puts([L EXCEPT ![id] = e], L, id, e.offset)
  BY NoneIsNothing DEF IsLive, NoEntry, Puts

\* The same for the free lists.
LEMMA FreeOwnersPush ==
  ASSUME NEW F \in [Slots -> Seq(Offsets)], NEW k \in Slots,
         NEW y \in Offsets, NEW x,
         NEW G, Grows(G, F, k, y)
  PROVE  /\ Covers(y, k, x) => FreeOwners(G, x)
              = FreeOwners(F, x) \cup {<<k, Len(F[k]) + 1>>}
         /\ ~Covers(y, k, x) => FreeOwners(G, x) = FreeOwners(F, x)
  <1> DEFINE n == Len(F[k])
             s == Append(F[k], y)
  <1>1. /\ s \in Seq(Offsets) /\ DOMAIN s = DOMAIN F[k] \cup {n + 1}
        /\ n + 1 \notin DOMAIN F[k] /\ s[n + 1] = y
        /\ \A j \in DOMAIN F[k] : s[j] = F[k][j]
    OBVIOUS
  <1>3. G[k] = s /\ \A m \in Slots \ {k} : G[m] = F[m]
    BY DEF Grows
  <1> HIDE DEF s, n
  <1>4. /\ Covers(y, k, x) => FreeOwners(G, x)
             = FreeOwners(F, x) \cup {<<k, n + 1>>}
        /\ ~Covers(y, k, x) => FreeOwners(G, x) = FreeOwners(F, x)
    BY <1>1, <1>3 DEF FreeOwners
  <1> QED
    BY <1>4 DEF n

LEMMA FreeOwnersPop ==
  ASSUME NEW F \in [Slots -> Seq(Offsets)], NEW k \in Slots, F[k] # <<>>,
         NEW x
  PROVE  /\ [F EXCEPT ![k] = Front(F[k])] \in [Slots -> Seq(Offsets)]
         /\ FreeOwners([F EXCEPT ![k] = Front(F[k])], x)
              = FreeOwners(F, x) \ {<<k, Len(F[k])>>}
         /\ <<k, Len(F[k])>> \in FreeOwners(F, x)
              <=> Covers(Last(F[k]), k, x)
  <1> DEFINE n == Len(F[k])
             s == Front(F[k])
             G == [F EXCEPT ![k] = s]
  <1>1. F[k] \in Seq(Offsets) /\ n \in Nat /\ n >= 1
    OBVIOUS
  <1>2. /\ s \in Seq(Offsets) /\ DOMAIN s = (DOMAIN F[k]) \ {n}
        /\ n \in DOMAIN F[k] /\ Last(F[k]) = F[k][n]
        /\ \A j \in DOMAIN s : s[j] = F[k][j]
    BY <1>1 DEF Front, Last
  <1> HIDE DEF s, n
  <1>3. G \in [Slots -> Seq(Offsets)]
    BY <1>2
  <1>4. G[k] = s /\ \A m \in Slots \ {k} : G[m] = F[m]
    OBVIOUS
  <1> HIDE DEF G
  <1>5. FreeOwners(G, x) = FreeOwners(F, x) \ {<<k, n>>}
    BY <1>2, <1>4 DEF FreeOwners
  <1>6. <<k, n>> \in FreeOwners(F, x) <=> Covers(Last(F[k]), k, x)
    BY <1>2 DEF FreeOwners
  <1> QED
    BY <1>3, <1>5, <1>6 DEF G, s, n

\* A live slot goes to its free list: release, rollback and reap.
LEMMA DropTiled ==
  ASSUME NEW L, NEW F, NEW t, Tiled(L, F, t), NEW id \in Object,
         IsLive(L, id)
  PROVE  Tiled([L EXCEPT ![id] = NoEntry], Push(F, id, L[id].offset), t)
  <1> DEFINE M == [L EXCEPT ![id] = NoEntry]
             k == Slot(id)
             y == L[id].offset
             s == Append(F[k], y)
             G == [F EXCEPT ![k] = s]
             n == Len(F[k])
  <1>1. /\ L \in [Object -> Entry \cup {NoEntry}] /\ t \in 0..ArenaBytes
        /\ F \in [Slots -> Seq(Offsets)] /\ Below(L, F, t)
    BY DEF Tiled, Tables
  <1>2. k \in Slots /\ y \in Offsets /\ y + k <= t
    BY <1>1, SlotFits DEF IsLive, Entry, Below
  <1>3. G = Push(F, id, y)
    BY DEF Push
  <1>k. k # 0
    BY <1>2, SlotSizes
  <1> HIDE DEF k
  <1>4. M \in [Object -> Entry \cup {NoEntry}]
    BY <1>1
  <1>5. G \in [Slots -> Seq(Offsets)]
    BY <1>1, <1>2
  <1>6. Below(M, G, t)
    <2>1. \A o \in Object : IsLive(M, o) => o # id /\ M[o] = L[o]
      BY <1>1 DEF IsLive
    <2>2. \A m \in Slots \ {k} : G[m] = F[m]
      BY <1>1
    <2>3. \A j \in DOMAIN G[k] : \/ j \in DOMAIN F[k] /\ G[k][j] = F[k][j]
                                 \/ G[k][j] = y
      BY <1>1, <1>2
    <2> HIDE DEF M, G
    <2> QED
      BY <1>1, <1>2, <2>1, <2>2, <2>3 DEF Below, IsLive
  <1>7. ASSUME NEW x \in 0..(t - 1)
        PROVE  \E r : OwnersIn(M, G, x) = {r}
    <2> DEFINE A == OwnersIn(L, F, x)
               B == OwnersIn(M, G, x)
               in == Covers(y, k, x)
               p == <<0, id>>
               q == <<k, n + 1>>
    <2>1. PICK o : A = {o}
      BY DEF Tiled
    <2>2. /\ LiveOwners(M, x) = LiveOwners(L, x) \ {p}
          /\ p \in LiveOwners(L, x) <=> in
      BY <1>1, LiveOwnersDrop DEF k
    <2>3. /\ in => FreeOwners(G, x) = FreeOwners(F, x) \cup {q}
          /\ ~in => FreeOwners(G, x) = FreeOwners(F, x)
      <3>1. /\ k \in Slots /\ y \in Offsets /\ F \in [Slots -> Seq(Offsets)]
            /\ Grows(G, F, k, y)
        BY <1>1, <1>2 DEF Grows
      <3> HIDE DEF y, G
      <3> QED
        BY <3>1, FreeOwnersPush
    <2>4. p \notin FreeOwners(F, x) /\ p # q
      BY <1>k, OwnersApart
    <2>5. in \in BOOLEAN
      BY DEF Covers
    <2> HIDE DEF p, q, in, M, G
    <2>6. p \in A <=> in
      BY <2>2, <2>4 DEF OwnersIn
    <2>7. B = IF in THEN (A \ {p}) \cup {q} ELSE A
      BY <2>2, <2>3, <2>4 DEF OwnersIn
    <2> HIDE DEF A, B
    <2>8. \E r : B = {r}
      BY <2>1, <2>5, <2>6, <2>7, OneForOne
    <2> QED
      BY <2>8 DEF B
  <1> HIDE DEF M, G
  <1>8. Tiled(M, G, t)
    BY <1>1, <1>4, <1>5, <1>6, <1>7 DEF Tiled, Tables
  <1> QED
    BY <1>3, <1>8 DEF M, y

\* The newest free slot becomes the slot of id.
LEMMA TakeTiled ==
  ASSUME NEW L, NEW F, NEW t, Tiled(L, F, t), NEW id \in Object,
         ~IsLive(L, id), F[Slot(id)] # <<>>, NEW e \in Entry,
         e.offset = Last(F[Slot(id)])
  PROVE  Tiled([L EXCEPT ![id] = e],
               [F EXCEPT ![Slot(id)] = Front(F[Slot(id)])], t)
  <1> DEFINE M == [L EXCEPT ![id] = e]
             k == Slot(id)
             y == e.offset
             s == Front(F[k])
             G == [F EXCEPT ![k] = s]
             n == Len(F[k])
  <1>1. /\ L \in [Object -> Entry \cup {NoEntry}] /\ t \in 0..ArenaBytes
        /\ F \in [Slots -> Seq(Offsets)] /\ Below(L, F, t)
    BY DEF Tiled, Tables
  <1>2. k \in Slots /\ k # 0
    BY SlotFits
  <1>k. ~IsLive(L, id) /\ F[k] # <<>> /\ y = Last(F[k])
    OBVIOUS
  <1> HIDE DEF k, y
  <1>3. F[k] \in Seq(Offsets) /\ n \in DOMAIN F[k] /\ y = F[k][n]
    BY <1>1, <1>2, <1>k DEF Last
  <1>4. y + k <= t
    BY <1>1, <1>2, <1>3 DEF Below
  <1>5. M \in [Object -> Entry \cup {NoEntry}]
    BY <1>1
  <1>6. G \in [Slots -> Seq(Offsets)]
    BY <1>1, <1>2, <1>k, FreeOwnersPop
  <1>7. Below(M, G, t)
    <2>1. M[id] = e /\ \A o \in Object \ {id} : M[o] = L[o]
      BY <1>1
    <2>2. G[k] = s /\ \A m \in Slots \ {k} : G[m] = F[m]
      BY <1>1, <1>2
    <2>3. \A j \in DOMAIN s : j \in DOMAIN F[k] /\ s[j] = F[k][j]
      BY <1>3 DEF Front
    <2> HIDE DEF M, G, s
    <2>4. \A o \in Object : IsLive(M, o) => M[o].offset + Slot(o) <= t
      BY <1>1, <1>4, <2>1 DEF Below, IsLive, k, y
    <2>5. \A m \in Slots : \A j \in DOMAIN G[m] : G[m][j] + m <= t
      BY <1>1, <1>2, <2>2, <2>3 DEF Below
    <2> QED
      BY <2>4, <2>5 DEF Below
  <1>8. ASSUME NEW x \in 0..(t - 1)
        PROVE  \E r : OwnersIn(M, G, x) = {r}
    <2> DEFINE A == OwnersIn(L, F, x)
               B == OwnersIn(M, G, x)
               in == Covers(y, k, x)
               q == <<0, id>>
               p == <<k, n>>
    <2>1. PICK o : A = {o}
      BY DEF Tiled
    <2>2. /\ in => LiveOwners(M, x) = LiveOwners(L, x) \cup {q}
          /\ ~in => LiveOwners(M, x) = LiveOwners(L, x)
          /\ q \notin LiveOwners(L, x)
      <3>1. Puts(M, L, id, y)
        BY <1>1, PutsEntry DEF y
      <3> HIDE DEF M
      <3> QED
        BY <3>1, LiveOwnersAdd DEF Adds, k
    <2>3. /\ FreeOwners(G, x) = FreeOwners(F, x) \ {p}
          /\ p \in FreeOwners(F, x) <=> in
      BY <1>1, <1>2, <1>k, FreeOwnersPop
    <2>4. p \notin LiveOwners(L, x) /\ q \notin FreeOwners(F, x) /\ p # q
      BY <1>2, OwnersApart
    <2>5. in \in BOOLEAN
      BY DEF Covers
    <2> HIDE DEF p, q, in, M, G
    <2>6. p \in A <=> in
      BY <2>3, <2>4 DEF OwnersIn
    <2>7. B = IF in THEN (A \ {p}) \cup {q} ELSE A
      BY <2>2, <2>3, <2>4 DEF OwnersIn
    <2> HIDE DEF A, B
    <2>8. \E r : B = {r}
      BY <2>1, <2>5, <2>6, <2>7, OneForOne
    <2> QED
      BY <2>8 DEF B
  <1> HIDE DEF M, G
  <1>9. Tiled(M, G, t)
    BY <1>1, <1>5, <1>6, <1>7, <1>8 DEF Tiled, Tables
  <1> QED
    BY <1>9 DEF M, G, k, s

\* Above the top nothing is owned.
LEMMA AboveTop ==
  ASSUME NEW L, NEW F, NEW t, Tiled(L, F, t), NEW x \in Nat, t <= x
  PROVE  OwnersIn(L, F, x) = {}
  <1>1. /\ L \in [Object -> Entry \cup {NoEntry}] /\ t \in Nat
        /\ F \in [Slots -> Seq(Offsets)] /\ Below(L, F, t)
    BY Parameters DEF Tiled, Tables
  <1>2. LiveOwners(L, x) = {}
    <2>1. ASSUME NEW o \in Object, IsLive(L, o)
          PROVE  ~Covers(L[o].offset, Slot(o), x)
      <3>1. L[o].offset \in Nat /\ Slot(o) \in Nat /\ L[o].offset + Slot(o) <= t
        BY <1>1, <2>1, SlotFits DEF Below, IsLive, Entry, Offsets
      <3> QED
        BY <1>1, <3>1 DEF Covers
    <2> QED
      BY <2>1 DEF LiveOwners
  <1>3. FreeOwners(F, x) = {}
    <2>1. ASSUME NEW k \in Slots, NEW j \in DOMAIN F[k]
          PROVE  ~Covers(F[k][j], k, x)
      <3>1. F[k] \in Seq(Offsets) /\ k \in Nat /\ F[k][j] + k <= t
        BY <1>1, SlotSizes DEF Below
      <3>2. F[k][j] \in Offsets
        BY <3>1
      <3>3. F[k][j] \in Nat
        BY <3>2 DEF Offsets
      <3> QED
        BY <1>1, <3>1, <3>3 DEF Covers
    <2> QED
      BY <2>1 DEF FreeOwners
  <1> QED
    BY <1>2, <1>3 DEF OwnersIn

\* A slot for id is cut from the top.
LEMMA CutTiled ==
  ASSUME NEW L, NEW F, NEW t, Tiled(L, F, t), NEW id \in Object,
         t + Slot(id) <= ArenaBytes,
         NEW M \in [Object -> Entry \cup {NoEntry}], Puts(M, L, id, t)
  PROVE  Tiled(M, F, t + Slot(id))
  <1> DEFINE k == Slot(id)
             u == t + k
  <1>1. /\ L \in [Object -> Entry \cup {NoEntry}] /\ t \in Nat
        /\ F \in [Slots -> Seq(Offsets)] /\ Below(L, F, t)
        /\ ArenaBytes \in Nat
    BY Parameters DEF Tiled, Tables
  <1>2. k \in Nat /\ k >= 1
    BY SlotFits
  <1>3. u \in 0..ArenaBytes
    BY <1>1, <1>2
  <1>4. Below(M, F, u)
    <2>1. M[id].offset = t /\ \A o \in Object \ {id} : M[o] = L[o]
      BY DEF Puts
    <2>2. ASSUME NEW o \in Object, IsLive(M, o)
          PROVE  M[o].offset + Slot(o) <= u
      <3>1. CASE o = id
        BY <1>1, <1>2, <2>1, <3>1
      <3>2. CASE o # id
        <4>1. IsLive(L, o) /\ M[o] = L[o]
          BY <2>1, <2>2, <3>2 DEF IsLive
        <4>2. L[o].offset \in Nat /\ Slot(o) \in Nat
          BY <1>1, <4>1, SlotFits DEF IsLive, Entry, Offsets
        <4>3. L[o].offset + Slot(o) <= t
          BY <1>1, <4>1 DEF Below
        <4> QED
          BY <1>1, <1>2, <4>1, <4>2, <4>3
      <3> QED
        BY <3>1, <3>2
    <2>3. ASSUME NEW m \in Slots, NEW j \in DOMAIN F[m]
          PROVE  F[m][j] + m <= u
      <3>1. F[m][j] \in Nat /\ m \in Nat /\ F[m][j] + m <= t
        BY <1>1, SlotSizes DEF Below, Offsets
      <3> QED
        BY <1>1, <1>2, <3>1
    <2> QED
      BY <2>2, <2>3 DEF Below
  <1>5. ASSUME NEW x \in 0..(u - 1)
        PROVE  \E r : OwnersIn(M, F, x) = {r}
    <2> DEFINE q == <<0, id>>
               in == Covers(t, Slot(id), x)
    <2>1. /\ in => LiveOwners(M, x) = LiveOwners(L, x) \cup {q}
          /\ ~in => LiveOwners(M, x) = LiveOwners(L, x)
      <3>1. Adds(M, L, id, t, x)
        BY LiveOwnersAdd
      <3> QED
        BY <3>1 DEF Adds
    <2>2. /\ in => OwnersIn(M, F, x) = OwnersIn(L, F, x) \cup {q}
          /\ ~in => OwnersIn(M, F, x) = OwnersIn(L, F, x)
      <3> HIDE DEF q, in
      <3> QED
        BY <2>1 DEF OwnersIn
    <2>3. in <=> t <= x
      BY <1>1, <1>2 DEF Covers
    <2> HIDE DEF q, in
    <2>4. CASE t <= x
      <3>1. OwnersIn(L, F, x) = {}
        BY <1>1, <2>4, AboveTop
      <3> QED
        BY <2>2, <2>3, <2>4, <3>1
    <2>5. CASE ~(t <= x)
      <3>1. x \in 0..(t - 1)
        BY <1>1, <2>5
      <3>2. PICK o : OwnersIn(L, F, x) = {o}
        BY <3>1 DEF Tiled
      <3> QED
        BY <2>2, <2>3, <2>5, <3>2
    <2> QED
      BY <2>4, <2>5
  <1> HIDE DEF u
  <1>6. Tiled(M, F, u)
    BY <1>1, <1>3, <1>4, <1>5 DEF Tiled, Tables
  <1> QED
    BY <1>6 DEF u, k

\* An entry that stays where it is.
LEMMA TouchTiled ==
  ASSUME NEW L, NEW F, NEW t, Tiled(L, F, t),
         NEW M \in [Object -> Entry \cup {NoEntry}],
         \A o \in Object : /\ IsLive(M, o) <=> IsLive(L, o)
                           /\ IsLive(L, o) => M[o].offset = L[o].offset
  PROVE  Tiled(M, F, t)
  <1>1. Tables(M, F, t) /\ Below(M, F, t)
    BY DEF Tiled, Tables, Below
  <1>2. \A x : OwnersIn(M, F, x) = OwnersIn(L, F, x)
    BY DEF OwnersIn, LiveOwners
  <1> QED
    BY <1>1, <1>2 DEF Tiled

\* Two objects that are live never share a byte.
LEMMA Disjoint ==
  ASSUME NEW L, NEW F, NEW t, Tiled(L, F, t), NEW a \in Object,
         NEW b \in Object, IsLive(L, a), IsLive(L, b), NEW x,
         Covers(L[a].offset, Slot(a), x), Covers(L[b].offset, Slot(b), x),
         x \in Nat
  PROVE  a = b
  <1>1. /\ L \in [Object -> Entry \cup {NoEntry}] /\ t \in Nat
        /\ Below(L, F, t)
    BY Parameters DEF Tiled, Tables
  <1>2. x \in 0..(t - 1)
    <2>1. L[a].offset \in Nat /\ Slot(a) \in Nat /\ L[a].offset + Slot(a) <= t
      BY <1>1, SlotFits DEF Below, IsLive, Entry, Offsets
    <2> QED
      BY <1>1, <2>1 DEF Covers
  <1>3. PICK o : OwnersIn(L, F, x) = {o}
    BY <1>2 DEF Tiled
  <1>4. <<0, a>> \in OwnersIn(L, F, x) /\ <<0, b>> \in OwnersIn(L, F, x)
    BY DEF OwnersIn, LiveOwners
  <1>5. <<0, a>> = <<0, b>>
    BY <1>3, <1>4
  <1> QED
    BY <1>5

----------------------------------------------------------------------------
(* Reap is a loop of drops.                                                *)

\* The loop's free lists g, up to the n-th reservation dropped.
Pushes(order, g, n) ==
  g = [i \in 0..n |-> IF i = 0 THEN free
                      ELSE Push(g[i - 1], order[i], live[order[i]].offset)]

LEMMA PushesExist ==
  ASSUME NEW order, Len(order) \in Nat
  PROVE  \E g : Pushes(order, g, Len(order))
  <1> DEFINE n == Len(order)
             More(g, i) == Push(g[i - 1], order[i], live[order[i]].offset)
             S == {k \in Nat : \E g : Pushes(order, g, k)}
  <1>1. 0 \in S
    <2> DEFINE g == [i \in 0..0 |-> free]
    <2>1. g = [i \in 0..0 |-> IF i = 0 THEN free ELSE More(g, i)]
      OBVIOUS
    <2>2. Pushes(order, g, 0)
      BY <2>1 DEF Pushes
    <2> QED
      BY <2>2
  <1>2. ASSUME NEW k \in 0..(n - 1), k \in S
        PROVE  k + 1 \in S
    <2>1. PICK g : Pushes(order, g, k)
      BY <1>2
    <2>2. \A i \in 0..k : g[i] = IF i = 0 THEN free ELSE More(g, i)
      BY <2>1 DEF Pushes
    <2> DEFINE f == [i \in 0..(k + 1) |-> IF i = k + 1 THEN More(g, i) ELSE g[i]]
    <2>3. k \in Nat /\ k + 1 \in Nat
      OBVIOUS
    <2>4. \A i \in 0..(k + 1) : f[i] = IF i = 0 THEN free ELSE More(f, i)
      <3> SUFFICES ASSUME NEW i \in 0..(k + 1)
                   PROVE  f[i] = IF i = 0 THEN free ELSE More(f, i)
        OBVIOUS
      <3>1. CASE i = 0
        BY <2>2, <2>3, <3>1
      <3>2. CASE i # 0
        <4>1. i - 1 \in 0..k /\ f[i - 1] = g[i - 1]
          BY <2>3, <3>2
        <4>2. f[i] = More(g, i)
          BY <2>2, <2>3, <3>2
        <4> QED
          BY <3>2, <4>1, <4>2
      <3> QED
        BY <3>1, <3>2
    <2>5. f = [i \in 0..(k + 1) |-> IF i = 0 THEN free ELSE More(f, i)]
      BY <2>4
    <2>6. Pushes(order, f, k + 1)
      BY <2>5 DEF Pushes
    <2> QED
      BY <2>3, <2>6
  <1>3. \A k \in 0..(n - 1) : k \in S => k + 1 \in S
    BY <1>2
  <1>4. n \in Nat
    OBVIOUS
  <1> HIDE DEF S, n
  <1>5. \A k \in 0..n : k \in S
    BY <1>1, <1>3, <1>4, UpTo
  <1>6. n \in S
    BY <1>4, <1>5
  <1> QED
    BY <1>6 DEF S, n

\* The reservations that have expired, each once, in some order.
LEMMA OrderOf ==
  ASSUME NEW order \in SetToSeqs(Expired)
  PROVE  /\ Len(order) \in Nat
         /\ \A i \in 1..Len(order) : order[i] \in Expired
         /\ \A i, j \in 1..Len(order) : i # j => order[i] # order[j]
         /\ \A id \in Expired : \E i \in 1..Len(order) : order[i] = id
  <1> DEFINE n == Cardinality(Expired)
             D == 1..n
  <1>1. IsFiniteSet(Expired)
    <2>1. Expired \subseteq Object /\ IsFiniteSet(Object)
      BY Parameters DEF Expired
    <2> QED
      BY <2>1, FS_Subset
  <1>2. n \in Nat
    BY <1>1, FS_CardinalityType
  <1>3. order \in [D -> Expired] /\ \A i, j \in D : i # j => order[i] # order[j]
    BY DEF SetToSeqs
  <1>4. Cardinality(D) = n
    <2> HIDE DEF n
    <2>1. IsFiniteSet(1..n) /\ Cardinality(1..n) = IF 1 > n THEN 0 ELSE n - 1 + 1
      BY <1>2, FS_Interval
    <2> QED
      BY <1>2, <2>1
  <1>5. order \in Injection(D, Expired)
    <2> HIDE DEF D
    <2> QED
      BY <1>3 DEF Injection, IsInjective
  <1>6. order \in Surjection(D, Expired)
    <2> HIDE DEF D
    <2> QED
      BY <1>1, <1>4, <1>5, FS_Injection DEF n
  <1>7. \A id \in Expired : \E i \in D : order[i] = id
    BY <1>6 DEF Surjection
  <1>8. Len(order) = n
    <2>1. DOMAIN order = 1..n
      BY <1>3
    <2> HIDE DEF n
    <2> QED
      BY <1>2, <2>1
  <1> HIDE DEF n
  <1> QED
    BY <1>2, <1>3, <1>7, <1>8

LEMMA ReapTiled ==
  ASSUME Tiled(live, free, top), NEW order \in SetToSeqs(Expired)
  PROVE  Tiled(LiveAfterReap, FreeAfterReap(order), top)
  <1> DEFINE n == Len(order)
             u == CHOOSE g : Pushes(order, g, n)
             Left(i) == [id \in Object |->
               IF \E j \in 1..i : order[j] = id THEN NoEntry ELSE live[id]]
             S == {i \in Nat : Tiled(Left(i), u[i], top)}
  <1>1. /\ n \in Nat /\ \A i \in 1..n : order[i] \in Expired
        /\ \A i, j \in 1..n : i # j => order[i] # order[j]
        /\ \A id \in Expired : \E i \in 1..n : order[i] = id
    BY OrderOf
  <1>2. Pushes(order, u, n)
    BY <1>1, PushesExist
  <1>3. FreeAfterReap(order) = u[n]
    BY DEF FreeAfterReap, Pushes
  <1> HIDE DEF u, n
  <1>4. /\ u[0] = free
        /\ \A i \in 0..(n - 1) :
             u[i + 1] = Push(u[i], order[i + 1], live[order[i + 1]].offset)
    BY <1>1, <1>2 DEF Pushes
  <1>5. live \in [Object -> Entry \cup {NoEntry}]
    BY DEF Tiled, Tables
  <1>6. 0 \in S
    <2>1. Left(0) = live
      BY <1>5
    <2> QED
      BY <1>4, <2>1
  <1>7. ASSUME NEW i \in 0..(n - 1), i \in S
        PROVE  i + 1 \in S
    <2> DEFINE o == order[i + 1]
    <2>1. i \in Nat /\ i + 1 \in 1..n /\ Tiled(Left(i), u[i], top)
      BY <1>1, <1>7
    <2>2. o \in Expired /\ o \in Object /\ IsLive(live, o)
      BY <1>1, <2>1 DEF Expired
    <2>3. \A j \in 1..i : order[j] # o
      BY <1>1, <2>1
    <2>4. Left(i)[o] = live[o] /\ IsLive(Left(i), o)
      BY <2>2, <2>3 DEF IsLive
    <2>5. Left(i + 1) = [Left(i) EXCEPT ![o] = NoEntry]
      <3>1. \A id : (\E j \in 1..(i + 1) : order[j] = id)
                      <=> (\E j \in 1..i : order[j] = id) \/ id = o
        BY <2>1
      <3> QED
        BY <3>1
    <2>6. u[i + 1] = Push(u[i], o, Left(i)[o].offset)
      BY <1>4, <2>4
    <2> HIDE DEF Left, o
    <2>7. Tiled(Left(i + 1), u[i + 1], top)
      BY <2>1, <2>2, <2>4, <2>5, <2>6, DropTiled
    <2> QED
      BY <2>1, <2>7
  <1>8. \A i \in 0..(n - 1) : i \in S => i + 1 \in S
    BY <1>7
  <1>9. Left(n) = LiveAfterReap
    <2>1. \A id \in Object : id \in Expired <=> \E j \in 1..n : order[j] = id
      BY <1>1
    <2> QED
      BY <2>1 DEF LiveAfterReap
  <1> HIDE DEF S, Left
  <1>10. \A i \in 0..n : i \in S
    BY <1>1, <1>6, <1>8, UpTo
  <1>11. n \in S
    BY <1>1, <1>10
  <1> QED
    BY <1>3, <1>9, <1>11 DEF S

----------------------------------------------------------------------------
(* The invariant, whatever modes the clients use.                          *)

Message ==
  [kind : {"PutChunk"}, id : Object, reservation : Nat, at : Nat] \cup
  [kind : {"ArenaCommit"}, id : Object, reservation : Nat, at : Client]
Commit == [id : Object, reservation : Nat, codec : Codec, client : Client]

\* The types of what is not in the allocator's tables.
Stored ==
  /\ mem \in [Offsets -> (Object \X Nat) \cup {Blank}]
  /\ records \in [Object -> Record \cup {NoRecord}]
  /\ spent \subseteq Random \X Codec \X Mode /\ issued \in 0..MaxReservations
Outside ==
  /\ writers \in [Client -> Putting \cup {Idle}]
  /\ readers \in [Reader -> Getting \cup {Idle}]
  /\ sent \subseteq Message /\ committing \subseteq Commit

\* A reservation's number is never used again, so that a commit between its
\* two halves knows its own entry, and finds it committed.
Numbered ==
  /\ \A id \in Object : IsLive(live, id) => live[id].reservation <= issued
  /\ \A k \in committing : k.reservation <= issued
CommitsMatch ==
  \A k \in committing :
    Ours(k) => live[k.id].age = Committed /\ live[k.id].codec = k.codec

Inv ==
  /\ Tiled(live, free, top) /\ Stored /\ Outside
  /\ Numbered /\ CommitsMatch


\* Steps that leave the allocator and the commits alone.
LEMMA Still ==
  ASSUME Inv, top' = top, free' = free, live' = live, issued' = issued,
         committing' = committing
  PROVE  Tiled(live', free', top') /\ Numbered' /\ CommitsMatch'
  BY DEF Inv, Numbered, CommitsMatch, IsLive, Ours

LEMMA WriterType ==
  ASSUME Outside, NEW c \in Client, writers[c] # Idle
  PROVE  /\ writers[c] \in Putting
         /\ writers[c].id \in Object /\ writers[c].mode \in Mode
         /\ writers[c].offset \in Offsets /\ writers[c].reservation \in Nat
         /\ writers[c].next \in Nat
  BY DEF Outside, Putting

\* A client's put goes on, or ends.
LEMMA WriterMoves ==
  ASSUME Outside, NEW c \in Client, writers[c] # Idle
  PROVE  /\ [writers EXCEPT ![c].next = @ + 1]
              \in [Client -> Putting \cup {Idle}]
         /\ [writers EXCEPT ![c] = Idle] \in [Client -> Putting \cup {Idle}]
  <1>1. writers \in [Client -> Putting \cup {Idle}]
    BY DEF Outside
  <1>2. writers[c] \in Putting /\ writers[c].next \in Nat
    BY WriterType
  <1> DEFINE w == [writers[c] EXCEPT !.next = @ + 1]
  <1>3. w \in Putting
    BY <1>2 DEF Putting
  <1>4. [writers EXCEPT ![c].next = @ + 1] = [writers EXCEPT ![c] = w]
    OBVIOUS
  <1> HIDE DEF w
  <1>5. [writers EXCEPT ![c] = w] \in [Client -> Putting \cup {Idle}]
    BY <1>1, <1>3
  <1>6. [writers EXCEPT ![c] = Idle] \in [Client -> Putting \cup {Idle}]
    BY <1>1
  <1> QED
    BY <1>4, <1>5, <1>6

LEMMA WriterInv ==
  ASSUME Inv, NEW c \in Client, Writer(c)
  PROVE  Inv'
  <1>1. Stored /\ Outside
    BY DEF Inv
  <1>2. CASE WriteDirect(c)
    <2>1. /\ writers[c] # Idle
          /\ mem' = [mem EXCEPT ![writers[c].offset + writers[c].next]
                       = <<writers[c].id, writers[c].next>>]
          /\ writers' = [writers EXCEPT ![c].next = @ + 1]
      BY <1>2 DEF WriteDirect
    <2>2. UNCHANGED <<top, free, live, records, committing, issued, spent, sent,
                      readers>>
      BY <1>2 DEF WriteDirect, server
    <2>3. <<writers[c].id, writers[c].next>> \in Object \X Nat
      BY <1>1, <2>1, WriterType
    <2>4. Stored'
      BY <1>1, <2>1, <2>2, <2>3 DEF Stored
    <2>5. Outside'
      BY <1>1, <2>1, <2>2, WriterMoves DEF Outside
    <2> QED
      BY <2>2, <2>4, <2>5, Still DEF Inv
  <1>3. CASE SendChunk(c)
    <2>1. /\ writers[c] # Idle
          /\ sent' = sent \cup
               {[kind |-> "PutChunk", id |-> writers[c].id,
                 reservation |-> writers[c].reservation,
                 at |-> writers[c].next]}
      BY <1>3 DEF SendChunk
    <2>2. UNCHANGED <<top, free, live, records, mem, committing, issued, spent,
                      writers, readers>>
      BY <1>3 DEF SendChunk, server
    <2>3. [kind |-> "PutChunk", id |-> writers[c].id,
           reservation |-> writers[c].reservation, at |-> writers[c].next]
            \in Message
      BY <1>1, <2>1, WriterType DEF Message
    <2>4. Stored' /\ Outside'
      BY <1>1, <2>1, <2>2, <2>3 DEF Stored, Outside
    <2> QED
      BY <2>2, <2>4, Still DEF Inv
  <1>4. CASE ChunkAnswered(c)
    <2>1. writers[c] # Idle /\ writers' = [writers EXCEPT ![c].next = @ + 1]
      BY <1>4 DEF ChunkAnswered
    <2>2. UNCHANGED <<top, free, live, records, mem, committing, issued, spent,
                      sent, readers>>
      BY <1>4 DEF ChunkAnswered, server
    <2>3. Stored' /\ Outside'
      BY <1>1, <2>1, <2>2, WriterMoves DEF Stored, Outside
    <2> QED
      BY <2>2, <2>3, Still DEF Inv
  <1>5. CASE SendCommit(c)
    <2>1. /\ writers[c] # Idle /\ writers' = [writers EXCEPT ![c] = Idle]
          /\ sent' = sent \cup
               {[kind |-> "ArenaCommit", id |-> writers[c].id,
                 reservation |-> writers[c].reservation, at |-> c]}
      BY <1>5 DEF SendCommit
    <2>2. UNCHANGED <<top, free, live, records, mem, committing, issued, spent,
                      readers>>
      BY <1>5 DEF SendCommit, server
    <2>3. [kind |-> "ArenaCommit", id |-> writers[c].id,
           reservation |-> writers[c].reservation, at |-> c] \in Message
      BY <1>1, <2>1, WriterType DEF Message
    <2>4. Stored' /\ Outside'
      BY <1>1, <2>1, <2>2, <2>3, WriterMoves DEF Stored, Outside
    <2> QED
      BY <2>2, <2>4, Still DEF Inv
  <1>6. CASE Abandon(c)
    <2>1. writers[c] # Idle /\ writers' = [writers EXCEPT ![c] = Idle]
      BY <1>6 DEF Abandon
    <2>2. UNCHANGED <<top, free, live, records, mem, committing, issued, spent,
                      sent, readers>>
      BY <1>6 DEF Abandon, server
    <2>3. Stored' /\ Outside'
      BY <1>1, <2>1, <2>2, WriterMoves DEF Stored, Outside
    <2> QED
      BY <2>2, <2>3, Still DEF Inv
  <1> QED
    BY <1>2, <1>3, <1>4, <1>5, <1>6 DEF Writer

LEMMA ReaderType ==
  ASSUME Outside, NEW r \in Reader, readers[r] # Idle
  PROVE  /\ readers[r] \in Getting
         /\ readers[r].kind \in {"mapped", "chunked"}
         /\ readers[r].id \in Object
         /\ readers[r].base \in Offsets \cup {NoBase} /\ readers[r].pos \in Nat
         /\ readers[r].good \in BOOLEAN /\ readers[r].released \in BOOLEAN
  BY DEF Outside, Getting

LEMMA EntryType ==
  ASSUME Inv, NEW id \in Object, IsLive(live, id)
  PROVE  /\ live[id] \in Entry /\ live[id].offset \in Offsets
         /\ live[id].offset \in Nat /\ live[id].codec \in Codec
         /\ live[id].mode \in {"Direct", "Streamed"}
         /\ live[id].reservation \in Nat /\ live[id].written \in Nat
         /\ live[id].age \in {Committed} \cup Nat
         /\ live[id].offset + Slot(id) <= top /\ top \in 0..ArenaBytes
  <1>1. live \in [Object -> Entry \cup {NoEntry}] /\ Below(live, free, top)
        /\ top \in 0..ArenaBytes
    BY DEF Inv, Tiled, Tables
  <1>2. live[id] \in Entry /\ live[id].offset + Slot(id) <= top
    BY <1>1 DEF IsLive, Below
  <1> QED
    BY <1>1, <1>2 DEF Entry, Offsets

\* A get makes a step.
LEMMA ReaderMoves ==
  ASSUME Inv, NEW r \in Reader, Read(r)
  PROVE  /\ readers' \in [Reader -> Getting \cup {Idle}]
         /\ UNCHANGED <<top, free, live, records, mem, committing, issued, spent,
                        writers, sent>>
  <1>1. Outside /\ readers \in [Reader -> Getting \cup {Idle}]
    BY DEF Inv, Outside
  <1>2. ASSUME NEW id \in Object, GetMapped(r, id) \/ GetRemote(r, id)
        PROVE  readers' \in [Reader -> Getting \cup {Idle}]
    <2>1. IsLive(live, id)
      BY <1>2 DEF GetMapped, GetRemote, IsCommitted
    <2>2. live[id].offset \in Offsets
      BY <2>1, EntryType
    <2>3. \A b \in Offsets \cup {NoBase} :
            \A k \in {"mapped", "chunked"} : Reading(k, id, b) \in Getting
      BY DEF Reading, Getting
    <2>4. \E d \in Getting : readers' = [readers EXCEPT ![r] = d]
      BY <1>2, <2>2, <2>3 DEF GetMapped, GetRemote
    <2> QED
      BY <1>1, <2>4
  <1>3. ASSUME GetChunk(r)
        PROVE  readers' \in [Reader -> Getting \cup {Idle}]
    <2> DEFINE b == live[readers[r].id].offset
               d == [readers[r] EXCEPT !.base = b]
    <2>1. readers[r] # Idle /\ IsLive(live, readers[r].id)
      BY <1>3 DEF GetChunk, IsCommitted
    <2>2. readers' = [readers EXCEPT ![r].base = b]
      BY <1>3 DEF GetChunk
    <2>3. readers[r] \in Getting /\ readers[r].id \in Object
      BY <1>1, <2>1, ReaderType
    <2>4. b \in Offsets
      BY <2>1, <2>3, EntryType
    <2> HIDE DEF b
    <2>5. d \in Getting
      BY <2>3, <2>4 DEF Getting
    <2>6. readers' = [readers EXCEPT ![r] = d]
      BY <2>2
    <2> HIDE DEF d
    <2> QED
      BY <1>1, <2>5, <2>6
  <1>4. ASSUME CopyByte(r)
        PROVE  readers' \in [Reader -> Getting \cup {Idle}]
    <2> DEFINE g == readers[r].good /\ mem[readers[r].base + readers[r].pos]
                      = <<readers[r].id, readers[r].pos>>
               b == IF readers[r].kind = "chunked" THEN NoBase
                    ELSE readers[r].base
               d == [readers[r] EXCEPT !.good = g, !.pos = readers[r].pos + 1,
                                       !.base = b]
    <2>1. readers[r] # Idle
      BY <1>4 DEF CopyByte
    <2>2. /\ readers[r] \in Getting /\ g \in BOOLEAN
          /\ b \in Offsets \cup {NoBase} /\ readers[r].pos + 1 \in Nat
      BY <1>1, <2>1, ReaderType
    <2>3. readers' = [readers EXCEPT ![r] = d]
      BY <1>4 DEF CopyByte
    <2> HIDE DEF g, b
    <2>4. d \in Getting
      BY <2>2 DEF Getting
    <2> HIDE DEF d
    <2> QED
      BY <1>1, <2>3, <2>4
  <1>5. ASSUME GetEnds(r)
        PROVE  readers' \in [Reader -> Getting \cup {Idle}]
    BY <1>1, <1>5 DEF GetEnds
  <1>6. UNCHANGED <<top, free, live, records, mem, committing, issued, spent,
                    writers, sent>>
    BY DEF Read, GetMapped, GetRemote, GetChunk, CopyByte, GetEnds, server
  <1> QED
    BY <1>2, <1>3, <1>4, <1>5, <1>6 DEF Read

LEMMA ReadInv ==
  ASSUME Inv, NEW r \in Reader, Read(r)
  PROVE  Inv'
  <1>1. Stored /\ Outside
    BY DEF Inv
  <1>2. Stored' /\ Outside'
    BY <1>1, ReaderMoves DEF Stored, Outside
  <1>3. Tiled(live', free', top') /\ Numbered' /\ CommitsMatch'
    BY ReaderMoves, Still
  <1> QED
    BY <1>2, <1>3 DEF Inv

\* What a step of the allocator makes of the entry of id: it keeps its
\* number and codec and stays committed, or it is new.
Follows(id) ==
  \/ /\ IsLive(live, id) /\ live'[id].reservation = live[id].reservation
     /\ live'[id].codec = live[id].codec
     /\ live[id].age = Committed => live'[id].age = Committed
  \/ live'[id].reservation = issued + 1 /\ issued' = issued + 1

LEMMA NumbersStay ==
  ASSUME Inv, issued' \in {issued, issued + 1},
         NEW id \in Object, Follows(id)
  PROVE  live'[id].reservation <= issued'
  <1>1. issued \in Nat /\ Numbered
    BY DEF Inv, Stored
  <1>2. CASE live'[id].reservation = issued + 1 /\ issued' = issued + 1
    BY <1>1, <1>2
  <1>3. CASE IsLive(live, id) /\ live'[id].reservation = live[id].reservation
    <2>1. live[id].reservation \in Nat /\ live[id].reservation <= issued
      BY <1>1, <1>3, EntryType DEF Numbered
    <2> QED
      BY <1>1, <1>3, <2>1
  <1> QED
    BY <1>2, <1>3 DEF Follows

Matches(k) ==
  /\ k.reservation <= issued
  /\ Ours(k) => live[k.id].age = Committed /\ live[k.id].codec = k.codec

LEMMA CommitStays ==
  ASSUME Inv, issued' \in {issued, issued + 1}, NEW k \in committing,
         IsLive(live', k.id) => Follows(k.id)
  PROVE  Matches(k)'
  <1>1. issued \in Nat /\ Numbered /\ CommitsMatch /\ committing \subseteq Commit
    BY DEF Inv, Stored, Outside
  <1>2. k.reservation \in Nat /\ k.id \in Object /\ k.reservation <= issued
    BY <1>1 DEF Commit, Numbered
  <1>3. k.reservation <= issued' /\ k.reservation # issued + 1
    BY <1>1, <1>2
  <1>4. ASSUME IsLive(live', k.id), live'[k.id].reservation = k.reservation
        PROVE  live'[k.id].age = Committed /\ live'[k.id].codec = k.codec
    <2>1. Follows(k.id)
      BY <1>4
    <2>2. IsLive(live, k.id) /\ live[k.id].reservation = k.reservation
      BY <1>3, <1>4, <2>1 DEF Follows
    <2>3. live[k.id].age = Committed /\ live[k.id].codec = k.codec
      BY <1>1, <2>2 DEF CommitsMatch, Ours
    <2> QED
      BY <1>3, <1>4, <2>1, <2>3 DEF Follows
  <1> QED
    BY <1>3, <1>4 DEF Matches, Ours

LEMMA CommitsStay ==
  ASSUME Inv, committing' \subseteq committing, issued' \in {issued, issued + 1},
         \A id \in Object : IsLive(live', id) => Follows(id)
  PROVE  Numbered' /\ CommitsMatch'
  <1>1. committing \subseteq Commit
    BY DEF Inv, Outside
  <1>2. \A k \in committing' : Matches(k)'
    BY <1>1, CommitStays DEF Commit
  <1>3. \A id \in Object : IsLive(live', id) => live'[id].reservation <= issued'
    BY NumbersStay
  <1> QED
    BY <1>2, <1>3 DEF Numbered, CommitsMatch, Matches

\* What is committed is never reaped, and what is not reaped stays.
LEMMA ReapKeeps ==
  ASSUME Inv, NEW id \in Object
  PROVE  /\ IsLive(LiveAfterReap, id)
              => IsLive(live, id) /\ LiveAfterReap[id] = live[id]
         /\ IsCommitted(id) => LiveAfterReap[id] = live[id]
         /\ LiveAfterReap \in [Object -> Entry \cup {NoEntry}]
  <1>1. live \in [Object -> Entry \cup {NoEntry}]
    BY DEF Inv, Tiled, Tables
  <1>2. LiveAfterReap[id] = IF id \in Expired THEN NoEntry ELSE live[id]
    BY DEF LiveAfterReap
  <1>3. IsCommitted(id) => id \notin Expired
    <2>1. ReserveTtl \in Nat
      BY Parameters
    <2> QED
      BY <2>1 DEF IsCommitted, Expired, Committed
  <1>4. LiveAfterReap \in [Object -> Entry \cup {NoEntry}]
    BY <1>1 DEF LiveAfterReap
  <1> QED
    BY <1>2, <1>3, <1>4 DEF IsLive

LEMMA ReapStep ==
  ASSUME Inv, live' = LiveAfterReap, top' = top, committing' = committing,
         issued' = issued,
         \E order \in SetToSeqs(Expired) : free' = FreeAfterReap(order)
  PROVE  Tiled(live', free', top') /\ Numbered' /\ CommitsMatch'
  <1>1. Tiled(live, free, top)
    BY DEF Inv
  <1>2. Tiled(live', free', top')
    BY <1>1, ReapTiled
  <1>3. \A id \in Object : IsLive(live', id) => Follows(id)
    BY ReapKeeps DEF Follows, IsLive
  <1>4. Numbered' /\ CommitsMatch'
    BY <1>3, CommitsStay
  <1> QED
    BY <1>2, <1>4

LEMMA AllocateTiled ==
  ASSUME NEW L, NEW F, Tiled(L, F, top), NEW id \in Object, ~IsLive(L, id),
         NEW e \in Entry, Allocate(F, id, e.offset)
  PROVE  Tiled([L EXCEPT ![id] = e], free', top')
  <1> DEFINE k == Slot(id)
             M == [L EXCEPT ![id] = e]
  <1>1. L \in [Object -> Entry \cup {NoEntry}] /\ F \in [Slots -> Seq(Offsets)]
    BY DEF Tiled, Tables
  <1>2. CASE /\ F[k] # <<>> /\ e.offset = Last(F[k])
             /\ free' = [F EXCEPT ![k] = Front(@)] /\ top' = top
    <2>1. free' = [F EXCEPT ![k] = Front(F[k])]
      BY <1>2
    <2>2. Tiled(M, [F EXCEPT ![k] = Front(F[k])], top)
      BY <1>2, TakeTiled
    <2> HIDE DEF M
    <2>3. Tiled(M, free', top')
      BY <1>2, <2>1, <2>2
    <2> QED
      BY <2>3 DEF M
  <1>3. CASE Fits(id) /\ e.offset = top /\ free' = F /\ top' = top + k
    <2>1. Puts(M, L, id, top)
      BY <1>1, <1>3, PutsEntry
    <2>2. M \in [Object -> Entry \cup {NoEntry}] /\ top + k <= ArenaBytes
      BY <1>1, <1>3 DEF Fits
    <2> HIDE DEF M
    <2>3. Tiled(M, F, top + k)
      BY <2>1, <2>2, CutTiled
    <2> QED
      BY <1>3, <2>3 DEF M
  <1> QED
    BY <1>2, <1>3 DEF Allocate

LEMMA NewStep ==
  ASSUME Inv, NEW order \in SetToSeqs(Expired), NEW id \in Object,
         ~IsLive(LiveAfterReap, id), NEW e \in Entry,
         e.reservation = issued + 1,
         Allocate(FreeAfterReap(order), id, e.offset),
         live' = [LiveAfterReap EXCEPT ![id] = e],
         committing' = committing, issued' = issued + 1
  PROVE  Tiled(live', free', top') /\ Numbered' /\ CommitsMatch'
  <1>1. Tiled(live, free, top)
    BY DEF Inv
  <1>2. Tiled(LiveAfterReap, FreeAfterReap(order), top)
    BY <1>1, ReapTiled
  <1>3. Tiled(live', free', top')
    BY <1>2, AllocateTiled
  <1>4. LiveAfterReap \in [Object -> Entry \cup {NoEntry}]
    BY ReapKeeps
  <1>5. live'[id] = e /\ \A o \in Object \ {id} : live'[o] = LiveAfterReap[o]
    BY <1>4
  <1>6. \A o \in Object : IsLive(live', o) => Follows(o)
    BY <1>5, ReapKeeps DEF Follows, IsLive
  <1>7. Numbered' /\ CommitsMatch'
    BY <1>6, CommitsStay
  <1> QED
    BY <1>3, <1>7

LEMMA NewEntryType ==
  ASSUME Inv, NEW offset \in Offsets, NEW codec \in Codec,
         NEW mode \in {"Direct", "Streamed"}, issued < MaxReservations
  PROVE  /\ NewEntry(offset, codec, mode) \in Entry
         /\ NewEntry(offset, codec, mode).offset = offset
         /\ NewEntry(offset, codec, mode).reservation = issued + 1
         /\ issued + 1 \in 0..MaxReservations
  BY Parameters DEF Inv, Stored, NewEntry, Entry

\* The put that a reserve's answer begins.
LEMMA BegunType ==
  ASSUME Outside, NEW c \in Client \cup {None}, NEW id \in Object,
         NEW mode \in Mode, NEW offset \in Offsets, NEW reservation \in Nat
  PROVE  Begun(c, id, mode, offset, reservation)
           \in [Client -> Putting \cup {Idle}]
  <1> DEFINE w == [id |-> id, mode |-> mode, offset |-> offset,
                   reservation |-> reservation, next |-> 0]
  <1>1. w \in Putting
    BY DEF Putting
  <1>2. Begun(c, id, mode, offset, reservation)
          = IF c = None THEN writers ELSE [writers EXCEPT ![c] = w]
    BY DEF Begun
  <1> HIDE DEF w
  <1> QED
    BY <1>1, <1>2 DEF Outside

LEMMA ReserveJoinsInv ==
  ASSUME Inv, NEW c \in Client \cup {None}, NEW id \in Object,
         NEW codec \in Codec, NEW mode \in Mode,
         ReserveJoins(c, id, codec, mode)
  PROVE  Inv'
  <1>1. Stored /\ Outside
    BY DEF Inv
  <1>2. /\ live' = LiveAfterReap /\ IsLive(LiveAfterReap, id)
        /\ \E order \in SetToSeqs(Expired) : free' = FreeAfterReap(order)
        /\ writers' = Begun(c, id, mode, live[id].offset, live[id].reservation)
    BY DEF ReserveJoins
  <1>3. UNCHANGED <<top, mem, records, committing, issued, spent, sent, readers>>
    BY DEF ReserveJoins
  <1>4. Tiled(live', free', top') /\ Numbered' /\ CommitsMatch'
    BY <1>2, <1>3, ReapStep
  <1>5. live[id].offset \in Offsets /\ live[id].reservation \in Nat
    BY <1>2, ReapKeeps, EntryType
  <1>6. writers' \in [Client -> Putting \cup {Idle}]
    BY <1>1, <1>2, <1>5, BegunType
  <1>7. Stored' /\ Outside'
    BY <1>1, <1>3, <1>6 DEF Stored, Outside
  <1> QED
    BY <1>4, <1>7 DEF Inv

LEMMA ReserveNewInv ==
  ASSUME Inv, NEW c \in Client \cup {None}, NEW id \in Object,
         NEW codec \in Codec, NEW mode \in Mode,
         ReserveNew(c, id, codec, mode)
  PROVE  Inv'
  <1>1. Stored /\ Outside
    BY DEF Inv
  <1>2. /\ issued < MaxReservations /\ ~IsLive(LiveAfterReap, id)
        /\ issued' = issued + 1
        /\ spent' = IF id \in Random THEN spent \cup {<<id, codec, mode>>}
                    ELSE spent
    BY DEF ReserveNew
  <1>3. UNCHANGED <<mem, records, committing, sent, readers>>
    BY DEF ReserveNew
  <1>4. PICK order \in SetToSeqs(Expired), offset \in Offsets :
          /\ Allocate(FreeAfterReap(order), id, offset)
          /\ live' = [LiveAfterReap EXCEPT ![id] = NewEntry(offset, codec, mode)]
          /\ writers' = Begun(c, id, mode, offset, issued + 1)
    BY DEF ReserveNew
  <1> DEFINE e == NewEntry(offset, codec, mode)
  <1>5. mode \in {"Direct", "Streamed"}
    BY Parameters
  <1>6. /\ e \in Entry /\ e.offset = offset /\ e.reservation = issued + 1
        /\ issued + 1 \in 0..MaxReservations
    BY <1>2, <1>5, NewEntryType
  <1>7. live' = [LiveAfterReap EXCEPT ![id] = e]
    BY <1>4
  <1> HIDE DEF e
  <1>8. Tiled(live', free', top') /\ Numbered' /\ CommitsMatch'
    BY <1>2, <1>3, <1>4, <1>6, <1>7, NewStep
  <1>9. writers' \in [Client -> Putting \cup {Idle}]
    <2> DEFINE n == issued + 1
    <2>1. n \in Nat /\ writers' = Begun(c, id, mode, offset, n)
      BY <1>4, <1>6
    <2> HIDE DEF n
    <2> QED
      BY <1>1, <2>1, BegunType
  <1>10. Stored'
    BY <1>1, <1>2, <1>3, <1>6 DEF Stored
  <1>11. Outside'
    BY <1>1, <1>3, <1>9 DEF Outside
  <1> QED
    BY <1>8, <1>10, <1>11 DEF Inv

LEMMA ReserveRefusedInv ==
  ASSUME Inv, NEW c, NEW id, NEW codec, NEW mode,
         ReserveRefused(c, id, codec, mode)
  PROVE  Inv'
  <1>1. Stored /\ Outside
    BY DEF Inv
  <1>2. /\ live' = LiveAfterReap
        /\ \E order \in SetToSeqs(Expired) : free' = FreeAfterReap(order)
    BY DEF ReserveRefused
  <1>3. UNCHANGED <<top, mem, records, committing, issued, spent, writers, sent,
                    readers>>
    BY DEF ReserveRefused
  <1>4. Tiled(live', free', top') /\ Numbered' /\ CommitsMatch'
    BY <1>2, <1>3, ReapStep
  <1>5. Stored' /\ Outside'
    BY <1>1, <1>3 DEF Stored, Outside
  <1> QED
    BY <1>4, <1>5 DEF Inv

\* An entry is written to, committed or grows older.
LEMMA TouchStep ==
  ASSUME Inv, live' \in [Object -> Entry \cup {NoEntry}], free' = free,
         top' = top,
         \A id \in Object : /\ IsLive(live', id) <=> IsLive(live, id)
                            /\ IsLive(live, id) =>
                                 live'[id].offset = live[id].offset
  PROVE  Tiled(live', free', top')
  <1>1. Tiled(live, free, top)
    BY DEF Inv
  <1> QED
    BY <1>1, TouchTiled

LEMMA PutChunkInv ==
  ASSUME Inv, NEW m \in sent, PutChunk(m)
  PROVE  Inv'
  <1>1. Stored /\ Outside
    BY DEF Inv
  <1>2. /\ m.id \in Object /\ IsLive(live, m.id) /\ live[m.id].age # Committed
        /\ m.at = live[m.id].written
    BY <1>1 DEF PutChunk, ChunkFence, Outside, Message
  <1>3. live[m.id] \in Entry /\ m.at \in Nat
    BY <1>2, EntryType
  <1>4. /\ mem' = [mem EXCEPT ![live[m.id].offset + m.at] = <<m.id, m.at>>]
        /\ live' = [live EXCEPT ![m.id].written = m.at + 1, ![m.id].age = 0]
        /\ sent' \in {sent, sent \ {m}}
    BY DEF PutChunk, Arrives
  <1>5. UNCHANGED <<top, free, records, committing, issued, spent, writers,
                    readers>>
    BY DEF PutChunk
  <1> DEFINE e == [live[m.id] EXCEPT !.written = m.at + 1, !.age = 0]
  <1>6. /\ e \in Entry /\ e.offset = live[m.id].offset
        /\ e.reservation = live[m.id].reservation
        /\ e.codec = live[m.id].codec
    <2> DEFINE z == live[m.id]
               w == m.at + 1
    <2>1. z \in Entry /\ w \in Nat /\ e = [z EXCEPT !.written = w, !.age = 0]
      BY <1>3
    <2> HIDE DEF z, w, e
    <2>2. e \in Entry /\ e.offset = z.offset /\ e.reservation = z.reservation
          /\ e.codec = z.codec
      BY <2>1 DEF Entry
    <2> QED
      BY <2>2 DEF z
  <1>7. live \in [Object -> Entry \cup {NoEntry}]
    BY DEF Inv, Tiled, Tables
  <1>8. live' = [live EXCEPT ![m.id] = e]
    BY <1>2, <1>4, <1>7
  <1> HIDE DEF e
  <1>9. e # NoEntry
    BY <1>6, NoneIsNothing DEF NoEntry
  <1>10. /\ live' \in [Object -> Entry \cup {NoEntry}] /\ live'[m.id] = e
         /\ \A o \in Object \ {m.id} : live'[o] = live[o]
    BY <1>2, <1>6, <1>7, <1>8
  <1>11. \A o \in Object : /\ IsLive(live', o) <=> IsLive(live, o)
                           /\ IsLive(live, o) =>
                                live'[o].offset = live[o].offset
    BY <1>2, <1>6, <1>9, <1>10 DEF IsLive
  <1>12. Tiled(live', free', top')
    BY <1>5, <1>10, <1>11, TouchStep
  <1>13. \A o \in Object : IsLive(live', o) => Follows(o)
    BY <1>2, <1>6, <1>10 DEF Follows, IsLive
  <1>14. Numbered' /\ CommitsMatch'
    BY <1>5, <1>13, CommitsStay
  <1>15. Stored'
    BY <1>1, <1>2, <1>3, <1>4, <1>5 DEF Stored
  <1>16. Outside'
    BY <1>1, <1>4, <1>5 DEF Outside
  <1> QED
    BY <1>12, <1>14, <1>15, <1>16 DEF Inv

LEMMA RefusedInv ==
  ASSUME Inv, NEW m \in sent, ChunkRefused(m) \/ CommitRefused(m)
  PROVE  Inv'
  <1>1. Stored /\ Outside
    BY DEF Inv
  <1>2. sent' \subseteq sent
    BY DEF ChunkRefused, CommitRefused, Arrives
  <1>3. UNCHANGED <<top, free, live, records, mem, committing, issued, spent,
                    writers, readers>>
    BY DEF ChunkRefused, CommitRefused, server
  <1>4. Stored' /\ Outside'
    BY <1>1, <1>2, <1>3 DEF Stored, Outside
  <1> QED
    BY <1>3, <1>4, Still DEF Inv

LEMMA CommitArenaInv ==
  ASSUME Inv, NEW m \in sent, CommitArena(m)
  PROVE  Inv'
  <1> DEFINE k == [id |-> m.id, reservation |-> m.reservation,
                   codec |-> live[m.id].codec, client |-> m.at]
             e == [live[m.id] EXCEPT !.age = Committed]
  <1>1. Stored /\ Outside
    BY DEF Inv
  <1>2. /\ m.id \in Object /\ m.reservation \in Nat /\ m.at \in Client
        /\ IsLive(live, m.id) /\ live[m.id].reservation = m.reservation
    BY <1>1 DEF CommitArena, MayCommit, Outside, Message
  <1>3. live[m.id] \in Entry /\ live[m.id].codec \in Codec
    BY <1>2, EntryType
  <1>4. /\ live' = [live EXCEPT ![m.id].age = Committed]
        /\ committing' = committing \cup {k} /\ sent' \subseteq sent
    BY DEF CommitArena, Arrives
  <1>5. UNCHANGED <<top, free, mem, records, issued, spent, writers, readers>>
    BY DEF CommitArena
  <1>6. /\ e \in Entry /\ e.offset = live[m.id].offset
        /\ e.reservation = live[m.id].reservation
        /\ e.codec = live[m.id].codec /\ e.age = Committed
    BY <1>3 DEF Entry
  <1>7. live \in [Object -> Entry \cup {NoEntry}]
    BY DEF Inv, Tiled, Tables
  <1>8. live' = [live EXCEPT ![m.id] = e]
    BY <1>2, <1>4, <1>7
  <1>9. /\ k \in Commit /\ k.id = m.id /\ k.reservation = m.reservation
        /\ k.codec = live[m.id].codec
    BY <1>2, <1>3 DEF Commit
  <1> HIDE DEF e, k
  <1>10. e # NoEntry
    BY <1>6, NoneIsNothing DEF NoEntry
  <1>11. /\ live' \in [Object -> Entry \cup {NoEntry}] /\ live'[m.id] = e
         /\ \A o \in Object \ {m.id} : live'[o] = live[o]
    BY <1>2, <1>6, <1>7, <1>8
  <1>12. \A o \in Object : /\ IsLive(live', o) <=> IsLive(live, o)
                           /\ IsLive(live, o) =>
                                live'[o].offset = live[o].offset
    BY <1>2, <1>6, <1>10, <1>11 DEF IsLive
  <1>13. Tiled(live', free', top')
    BY <1>5, <1>11, <1>12, TouchStep
  <1>14. \A o \in Object : IsLive(live', o) => Follows(o)
    BY <1>2, <1>6, <1>11 DEF Follows, IsLive
  <1>15. \A o \in Object : IsLive(live', o) => live'[o].reservation <= issued'
    BY <1>5, <1>14, NumbersStay
  <1>16. ASSUME NEW j \in committing' PROVE Matches(j)'
    <2>1. CASE j \in committing
      <3>1. j.id \in Object
        BY <1>1, <2>1 DEF Outside, Commit
      <3> QED
        BY <1>5, <1>14, <2>1, <3>1, CommitStays
    <2>2. CASE j = k
      <3>1. k.reservation <= issued'
        BY <1>2, <1>5, <1>9 DEF Inv, Numbered
      <3>2. live'[k.id].age = Committed /\ live'[k.id].codec = k.codec
        BY <1>6, <1>9, <1>11
      <3> QED
        BY <2>2, <3>1, <3>2 DEF Matches
    <2> QED
      BY <1>4, <2>1, <2>2
  <1>17. Numbered' /\ CommitsMatch'
    BY <1>15, <1>16 DEF Numbered, CommitsMatch, Matches
  <1>18. Stored' /\ Outside'
    BY <1>1, <1>4, <1>5, <1>9 DEF Stored, Outside
  <1> QED
    BY <1>13, <1>17, <1>18 DEF Inv

LEMMA AdmittedType ==
  ASSUME Stored, NEW id \in Object, NEW codec \in Codec, NEW inline \in BOOLEAN
  PROVE  Admitted(id, codec, inline) \in [Object -> Record \cup {NoRecord}]
  <1> DEFINE d == [codec |-> codec, inline |-> inline]
  <1>1. d \in Record
    BY DEF Record
  <1>2. Admitted(id, codec, inline)
          = IF records[id] # NoRecord THEN records ELSE [records EXCEPT ![id] = d]
    BY DEF Admitted
  <1> HIDE DEF d
  <1> QED
    BY <1>1, <1>2 DEF Stored

LEMMA CommitRecordInv ==
  ASSUME Inv, NEW k \in committing, CommitRecord(k)
  PROVE  Inv'
  <1>1. Stored /\ Outside
    BY DEF Inv
  <1>2. /\ committing' \subseteq committing
        /\ records' = Admitted(k.id, k.codec, FALSE)
    BY DEF CommitRecord
  <1>3. UNCHANGED <<top, free, live, mem, issued, spent, writers, sent, readers>>
    BY DEF CommitRecord
  <1>4. k.id \in Object /\ k.codec \in Codec
    BY <1>1 DEF Outside, Commit
  <1>5. records' \in [Object -> Record \cup {NoRecord}]
    BY <1>1, <1>2, <1>4, AdmittedType
  <1>6. Tiled(live', free', top')
    BY <1>3 DEF Inv
  <1>7. Numbered' /\ CommitsMatch'
    BY <1>2, <1>3, CommitsStay DEF Follows
  <1>8. Stored' /\ Outside'
    BY <1>1, <1>2, <1>3, <1>5 DEF Stored, Outside
  <1> QED
    BY <1>6, <1>7, <1>8 DEF Inv

\* One entry goes: a rollback or a release.
LEMMA DropStep ==
  ASSUME Inv, NEW id \in Object, IsLive(live, id),
         live' = [live EXCEPT ![id] = NoEntry],
         free' = Push(free, id, live[id].offset), top' = top,
         issued' = issued, committing' \subseteq committing
  PROVE  Tiled(live', free', top') /\ Numbered' /\ CommitsMatch'
  <1>1. Tiled(live, free, top) /\ live \in [Object -> Entry \cup {NoEntry}]
    BY DEF Inv, Tiled, Tables
  <1>2. Tiled(live', free', top')
    BY <1>1, DropTiled
  <1>3. \A o \in Object : IsLive(live', o) => o # id /\ live'[o] = live[o]
    BY <1>1 DEF IsLive
  <1>4. \A o \in Object : IsLive(live', o) => Follows(o)
    BY <1>3 DEF Follows, IsLive
  <1>5. Numbered' /\ CommitsMatch'
    BY <1>4, CommitsStay
  <1> QED
    BY <1>2, <1>5

LEMMA CommitRolledBackInv ==
  ASSUME Inv, NEW k \in committing, CommitRolledBack(k)
  PROVE  Inv'
  <1>1. Stored /\ Outside
    BY DEF Inv
  <1>2. committing' \subseteq committing
    BY DEF CommitRolledBack
  <1>3. UNCHANGED <<top, mem, records, issued, spent, writers, sent, readers>>
    BY DEF CommitRolledBack
  <1>4. k.id \in Object
    BY <1>1 DEF Outside, Commit
  <1>5. Stored' /\ Outside'
    BY <1>1, <1>2, <1>3 DEF Stored, Outside
  <1>6. CASE RollsBack(k)
    <2>1. /\ IsLive(live, k.id) /\ live' = [live EXCEPT ![k.id] = NoEntry]
          /\ free' = Push(free, k.id, live[k.id].offset)
      BY <1>6 DEF CommitRolledBack, RollsBack
    <2> QED
      BY <1>2, <1>3, <1>4, <1>5, <2>1, DropStep DEF Inv
  <1>7. CASE ~RollsBack(k)
    <2>1. live' = live /\ free' = free
      BY <1>7 DEF CommitRolledBack
    <2>2. Tiled(live', free', top')
      BY <1>3, <2>1 DEF Inv
    <2>3. Numbered' /\ CommitsMatch'
      BY <1>2, <1>3, <2>1, CommitsStay DEF Follows
    <2> QED
      BY <1>5, <2>2, <2>3 DEF Inv
  <1> QED
    BY <1>6, <1>7

\* A release tells the readers of the object.
LEMMA ReleasedReaders ==
  ASSUME Outside, NEW id,
         readers' = [r \in Reader |->
           IF readers[r] # Idle /\ readers[r].id = id
           THEN [readers[r] EXCEPT !.released = TRUE] ELSE readers[r]]
  PROVE  readers' \in [Reader -> Getting \cup {Idle}]
  <1>1. ASSUME NEW r \in Reader, readers[r] # Idle
        PROVE  [readers[r] EXCEPT !.released = TRUE] \in Getting
    <2>1. readers[r] \in Getting
      BY <1>1, ReaderType
    <2> QED
      BY <2>1 DEF Getting
  <1>2. readers \in [Reader -> Getting \cup {Idle}]
    BY DEF Outside
  <1> QED
    BY <1>1, <1>2

LEMMA ReleaseInv ==
  ASSUME Inv, NEW id \in Object, Release(id)
  PROVE  Inv'
  <1>1. Stored /\ Outside
    BY DEF Inv
  <1>2. records' = [records EXCEPT ![id] = NoRecord]
    BY DEF Release
  <1>3. UNCHANGED <<top, mem, committing, issued, spent, writers, sent>>
    BY DEF Release
  <1>4. readers' \in [Reader -> Getting \cup {Idle}]
    BY <1>1, ReleasedReaders DEF Release
  <1>5. Stored' /\ Outside'
    BY <1>1, <1>2, <1>3, <1>4 DEF Stored, Outside
  <1>6. CASE IsLive(live, id)
    <2>1. /\ live' = [live EXCEPT ![id] = NoEntry]
          /\ free' = Push(free, id, live[id].offset)
      BY <1>6 DEF Release
    <2> QED
      BY <1>3, <1>5, <1>6, <2>1, DropStep DEF Inv
  <1>7. CASE ~IsLive(live, id)
    <2>1. live' = live /\ free' = free
      BY <1>7 DEF Release
    <2> QED
      BY <1>3, <1>5, <2>1, Still DEF Inv
  <1> QED
    BY <1>6, <1>7

LEMMA TickInv ==
  ASSUME Inv, Tick
  PROVE  Inv'
  <1> DEFINE Young(o) == IsLive(live, o) /\ live[o].age \in 0..(ReserveTtl - 1)
             Older(o) == [live[o] EXCEPT !.age = @ + 1]
  <1>1. Stored /\ Outside /\ live \in [Object -> Entry \cup {NoEntry}]
    BY DEF Inv, Tiled, Tables
  <1>2. UNCHANGED <<top, free, mem, records, committing, issued, spent, writers,
                    sent, readers>>
    BY DEF Tick
  <1>3. /\ live' = [o \in Object |-> IF Young(o) THEN Older(o) ELSE live[o]]
        /\ \A o \in Object : live'[o] = IF Young(o) THEN Older(o) ELSE live[o]
    BY DEF Tick
  <1>4. ASSUME NEW o \in Object, Young(o)
        PROVE  /\ Older(o) \in Entry /\ Older(o) # NoEntry
               /\ Older(o).offset = live[o].offset
               /\ Older(o).reservation = live[o].reservation
               /\ Older(o).codec = live[o].codec /\ live[o].age # Committed
    <2>1. live[o] \in Entry /\ live[o].age + 1 \in Nat
      BY <1>1, <1>4 DEF IsLive
    <2>2. Older(o) \in Entry
      BY <2>1 DEF Entry
    <2>3. /\ Older(o).offset = live[o].offset
          /\ Older(o).reservation = live[o].reservation
          /\ Older(o).codec = live[o].codec
      BY <2>1 DEF Entry
    <2>4. live[o].age # Committed
      BY <1>4 DEF Committed
    <2> QED
      BY <2>2, <2>3, <2>4, NoneIsNothing DEF NoEntry
  <1>5. \A o \in Object : Young(o) => IsLive(live, o)
    OBVIOUS
  <1> HIDE DEF Young, Older
  <1>6. live' \in [Object -> Entry \cup {NoEntry}]
    BY <1>1, <1>3, <1>4
  <1>7. \A o \in Object : /\ IsLive(live', o) <=> IsLive(live, o)
                          /\ IsLive(live, o) => live'[o].offset = live[o].offset
    BY <1>3, <1>4, <1>5 DEF IsLive
  <1>8. Tiled(live', free', top')
    BY <1>2, <1>6, <1>7, TouchStep
  <1>9. \A o \in Object : IsLive(live', o) => Follows(o)
    BY <1>3, <1>4, <1>7 DEF Follows
  <1>10. Numbered' /\ CommitsMatch'
    BY <1>2, <1>9, CommitsStay
  <1>11. Stored' /\ Outside'
    BY <1>1, <1>2 DEF Stored, Outside
  <1> QED
    BY <1>8, <1>10, <1>11 DEF Inv

LEMMA FilledType ==
  ASSUME Stored, NEW id \in Object, NEW offset \in Offsets
  PROVE  Filled(id, offset) \in [Offsets -> (Object \X Nat) \cup {Blank}]
  <1>1. Size[id] \in Nat /\ Offsets \subseteq Nat
    BY Parameters DEF Offsets
  <1>2. ASSUME NEW x \in Offsets, x \in offset..(offset + Size[id] - 1)
        PROVE  <<id, x - offset>> \in Object \X Nat
    BY <1>1, <1>2
  <1>3. mem \in [Offsets -> (Object \X Nat) \cup {Blank}]
    BY DEF Stored
  <1> QED
    BY <1>2, <1>3 DEF Filled

\* A put in one request joins a reservation, takes a slot, or is refused one.
InlineJoins(id, codec, F) ==
  /\ IsLive(LiveAfterReap, id) /\ Same(live[id], codec, "Direct")
  /\ mem' = IF live[id].age = Committed THEN mem ELSE Filled(id, live[id].offset)
  /\ live' = [LiveAfterReap EXCEPT ![id].age = Committed]
  /\ free' = F /\ top' = top /\ issued' = issued
InlineEntry(offset, codec) ==
  [NewEntry(offset, codec, "Direct") EXCEPT !.age = Committed]
InlineNew(id, codec, F, offset) ==
  /\ ~IsLive(LiveAfterReap, id) /\ issued < MaxReservations
  /\ Allocate(F, id, offset)
  /\ mem' = Filled(id, offset)
  /\ live' = [LiveAfterReap EXCEPT ![id] = InlineEntry(offset, codec)]
  /\ issued' = issued + 1
InlineRefused(F) ==
  /\ live' = LiveAfterReap /\ free' = F
  /\ top' = top /\ mem' = mem /\ issued' = issued

LEMMA InlineCases ==
  ASSUME NEW id, NEW codec, PutInline(id, codec)
  PROVE  /\ Admits(id, codec) /\ records' = Admitted(id, codec, TRUE)
         /\ UNCHANGED <<committing, spent, writers, sent, readers>>
         /\ \E order \in SetToSeqs(Expired) :
              \/ InlineJoins(id, codec, FreeAfterReap(order))
              \/ \E offset \in Offsets :
                   InlineNew(id, codec, FreeAfterReap(order), offset)
              \/ InlineRefused(FreeAfterReap(order))
  <1>1. /\ Admits(id, codec) /\ records' = Admitted(id, codec, TRUE)
        /\ UNCHANGED <<committing, spent, writers, sent, readers>>
    BY DEF PutInline
  <1>2. \E order \in SetToSeqs(Expired) :
          \/ InlineJoins(id, codec, FreeAfterReap(order))
          \/ \E offset \in Offsets :
               InlineNew(id, codec, FreeAfterReap(order), offset)
          \/ InlineRefused(FreeAfterReap(order))
    BY Zenon DEF PutInline, InlineJoins, InlineNew, InlineRefused, InlineEntry
  <1> QED
    BY <1>1, <1>2

LEMMA InlineEntryType ==
  ASSUME Inv, NEW offset \in Offsets, NEW codec \in Codec,
         issued < MaxReservations
  PROVE  /\ InlineEntry(offset, codec) \in Entry
         /\ InlineEntry(offset, codec).offset = offset
         /\ InlineEntry(offset, codec).codec = codec
         /\ InlineEntry(offset, codec).mode = "Direct"
         /\ InlineEntry(offset, codec).age = Committed
         /\ InlineEntry(offset, codec).written = 0
         /\ InlineEntry(offset, codec).reservation = issued + 1
         /\ issued + 1 \in 0..MaxReservations
  <1> DEFINE n == issued + 1
  <1>1. n \in Nat /\ n \in 0..MaxReservations
    BY Parameters DEF Inv, Stored
  <1>2. InlineEntry(offset, codec)
          = [offset |-> offset, codec |-> codec, mode |-> "Direct",
             reservation |-> n, written |-> 0, age |-> Committed]
    BY DEF InlineEntry, NewEntry
  <1> HIDE DEF n
  <1>3. InlineEntry(offset, codec) \in Entry
    BY <1>1, <1>2 DEF Entry
  <1> QED
    BY <1>1, <1>2, <1>3 DEF n

\* The entry of id is committed, if it was not.
LEMMA JoinStep ==
  ASSUME Inv, NEW order \in SetToSeqs(Expired), NEW id \in Object,
         IsLive(LiveAfterReap, id),
         live' = [LiveAfterReap EXCEPT ![id].age = Committed],
         free' = FreeAfterReap(order), top' = top,
         issued' = issued, committing' = committing
  PROVE  /\ Tiled(live', free', top') /\ Numbered' /\ CommitsMatch'
         /\ IsLive(live', id) /\ live'[id] = [live[id] EXCEPT !.age = Committed]
         /\ \A o \in Object \ {id} : live'[o] = LiveAfterReap[o]
  <1> DEFINE e == [live[id] EXCEPT !.age = Committed]
             L == LiveAfterReap
             F == FreeAfterReap(order)
  <1>1. /\ L \in [Object -> Entry \cup {NoEntry}] /\ L[id] = live[id]
        /\ IsLive(live, id)
    BY ReapKeeps
  <1>2. live[id] \in Entry
    BY <1>1, EntryType
  <1>3. /\ e \in Entry /\ e.offset = live[id].offset
        /\ e.reservation = live[id].reservation /\ e.codec = live[id].codec
        /\ e.age = Committed
    BY <1>2 DEF Entry
  <1>4. live' = [L EXCEPT ![id] = e]
    BY <1>1
  <1> HIDE DEF e, L, F
  <1>5. e # NoEntry
    BY <1>3, NoneIsNothing DEF NoEntry
  <1>6. /\ live' \in [Object -> Entry \cup {NoEntry}] /\ live'[id] = e
        /\ \A o \in Object \ {id} : live'[o] = L[o]
    BY <1>1, <1>3, <1>4
  <1>7. \A o \in Object : /\ IsLive(live', o) <=> IsLive(L, o)
                          /\ IsLive(L, o) => live'[o].offset = L[o].offset
    BY <1>1, <1>3, <1>5, <1>6 DEF IsLive, L
  <1>8. Tiled(L, F, top)
    BY ReapTiled DEF Inv, L, F
  <1>9. Tiled(live', F, top)
    BY <1>6, <1>7, <1>8, TouchTiled
  <1>10. \A o \in Object : IsLive(live', o) => Follows(o)
    <2>1. Follows(id)
      BY <1>1, <1>3, <1>6 DEF Follows
    <2>2. ASSUME NEW o \in Object \ {id}, IsLive(live', o)
          PROVE  Follows(o)
      BY <1>6, <2>2, ReapKeeps DEF Follows, IsLive, L
    <2> QED
      BY <2>1, <2>2
  <1>11. Numbered' /\ CommitsMatch'
    BY <1>10, CommitsStay
  <1>12. IsLive(live', id)
    BY <1>5, <1>6 DEF IsLive
  <1> QED
    BY <1>6, <1>9, <1>11, <1>12 DEF e, L, F

LEMMA PutInlineInv ==
  ASSUME Inv, NEW id \in Hashed, NEW codec \in Codec, PutInline(id, codec)
  PROVE  Inv'
  <1>1. Stored /\ Outside /\ id \in Object
    BY DEF Inv, Object
  <1>2. /\ records' = Admitted(id, codec, TRUE)
        /\ UNCHANGED <<committing, spent, writers, sent, readers>>
    BY InlineCases
  <1>3. PICK order \in SetToSeqs(Expired) :
          \/ InlineJoins(id, codec, FreeAfterReap(order))
          \/ \E offset \in Offsets :
               InlineNew(id, codec, FreeAfterReap(order), offset)
          \/ InlineRefused(FreeAfterReap(order))
    BY InlineCases
  <1>4. records' \in [Object -> Record \cup {NoRecord}]
    BY <1>1, <1>2, AdmittedType
  <1>5. Outside'
    BY <1>1, <1>2 DEF Outside
  <1>6. CASE InlineJoins(id, codec, FreeAfterReap(order))
    <2>1. Tiled(live', free', top') /\ Numbered' /\ CommitsMatch'
      BY <1>1, <1>2, <1>6, JoinStep DEF InlineJoins
    <2>2. live[id].offset \in Offsets
      BY <1>1, <1>6, ReapKeeps, EntryType DEF InlineJoins
    <2>3. mem' \in [Offsets -> (Object \X Nat) \cup {Blank}]
      BY <1>1, <1>6, <2>2, FilledType DEF InlineJoins, Stored
    <2>4. Stored'
      BY <1>1, <1>2, <1>4, <1>6, <2>3 DEF Stored, InlineJoins
    <2> QED
      BY <1>5, <2>1, <2>4 DEF Inv
  <1>7. ASSUME NEW offset \in Offsets,
               InlineNew(id, codec, FreeAfterReap(order), offset)
        PROVE  Inv'
    <2> DEFINE e == InlineEntry(offset, codec)
    <2>1. /\ ~IsLive(LiveAfterReap, id) /\ issued < MaxReservations
          /\ Allocate(FreeAfterReap(order), id, offset)
          /\ mem' = Filled(id, offset)
          /\ live' = [LiveAfterReap EXCEPT ![id] = e]
          /\ issued' = issued + 1
      BY <1>7 DEF InlineNew
    <2>2. /\ e \in Entry /\ e.offset = offset /\ e.reservation = issued + 1
          /\ issued + 1 \in 0..MaxReservations
      BY <2>1, InlineEntryType
    <2> HIDE DEF e
    <2>3. Tiled(live', free', top') /\ Numbered' /\ CommitsMatch'
      BY <1>1, <1>2, <2>1, <2>2, NewStep
    <2>4. mem' \in [Offsets -> (Object \X Nat) \cup {Blank}]
      BY <1>1, <2>1, FilledType
    <2>5. Stored'
      BY <1>1, <1>2, <1>4, <2>1, <2>2, <2>4 DEF Stored
    <2> QED
      BY <1>5, <2>3, <2>5 DEF Inv
  <1>8. CASE InlineRefused(FreeAfterReap(order))
    <2>1. Tiled(live', free', top') /\ Numbered' /\ CommitsMatch'
      BY <1>2, <1>8, ReapStep DEF InlineRefused
    <2>2. Stored'
      BY <1>1, <1>2, <1>4, <1>8 DEF Stored, InlineRefused
    <2> QED
      BY <1>5, <2>1, <2>2 DEF Inv
  <1> QED
    BY <1>3, <1>6, <1>7, <1>8

LEMMA InitInv ==
  Init => Inv
  <1> SUFFICES ASSUME Init PROVE Inv
    OBVIOUS
  <1> USE DEF Init
  <1>1. top = 0 /\ \A id \in Object : ~IsLive(live, id)
    BY DEF IsLive
  <1>2. Tables(live, free, top)
    BY Parameters DEF Tables
  <1>3. Below(live, free, top)
    BY <1>1 DEF Below
  <1>4. Tiled(live, free, top)
    BY <1>1, <1>2, <1>3 DEF Tiled
  <1>5. Stored /\ Outside
    BY Parameters DEF Stored, Outside
  <1>6. Numbered /\ CommitsMatch
    BY <1>1 DEF Numbered, CommitsMatch
  <1> QED
    BY <1>4, <1>5, <1>6 DEF Inv

LEMMA StutterInv ==
  ASSUME Inv, UNCHANGED vars
  PROVE  Inv'
  <1>1. UNCHANGED <<top, free, live, mem, records, committing, issued, spent,
                    writers, sent, readers>>
    BY DEF vars
  <1>2. Stored' /\ Outside'
    BY <1>1 DEF Inv, Stored, Outside
  <1> QED
    BY <1>1, <1>2, Still DEF Inv

LEMMA StepInv ==
  ASSUME Inv, [Next]_vars
  PROVE  Inv'
  <1>1. ASSUME NEW c \in Client \cup {None}, Reserve(c)
        PROVE  Inv'
    BY <1>1, ReserveJoinsInv, ReserveNewInv, ReserveRefusedInv DEF Reserve
  <1>2. ASSUME Request PROVE Inv'
    BY <1>2, PutChunkInv, RefusedInv, CommitArenaInv, CommitRecordInv,
       CommitRolledBackInv, PutInlineInv, ReleaseInv DEF Request
  <1> QED
    BY <1>1, <1>2, WriterInv, ReadInv, TickInv, StutterInv DEF Next

\* The invariant above holds in every state.
THEOREM ArenaInvariant ==
  Spec => []Inv
  <1>1. Inv /\ [Next]_vars => Inv'
    BY StepInv
  <1> QED
    BY <1>1, InitInv, PTL DEF Spec

\* The allocator's tables and the mapping keep their types.
THEOREM TypesAreKept ==
  Spec => []TypeOK
  <1>1. Inv => TypeOK
    BY DEF Inv, Tiled, Tables, Stored, TypeOK
  <1> QED
    BY <1>1, ArenaInvariant, PTL

\* Every byte below the top belongs to one slot, live or free, and no byte
\* above it to any: reserve, reap, rollback and release lose no slot and hand
\* none out twice, for any sizes, any order in which the hash map yields what
\* has expired, and any requests that come late.
THEOREM SlotsAreTiled ==
  Spec => []SlotsTile
  <1>1. ASSUME Inv PROVE SlotsTile
    <2> SUFFICES ASSUME NEW x \in Offsets
                 PROVE  Cardinality(Owners(x)) = IF x < top THEN 1 ELSE 0
      BY DEF SlotsTile
    <2>1. Owners(x) = OwnersIn(live, free, x)
      BY DEF Owners, OwnersIn, LiveOwners, FreeOwners
    <2>2. Tiled(live, free, top) /\ x \in Nat /\ top \in Nat
      <3>1. Tiled(live, free, top)
        BY <1>1 DEF Inv
      <3>2. top \in 0..ArenaBytes
        BY <3>1 DEF Tiled, Tables
      <3> QED
        BY <3>1, <3>2 DEF Offsets
    <2>3. CASE x < top
      <3>1. x \in 0..(top - 1)
        BY <2>2, <2>3
      <3>2. PICK o : OwnersIn(live, free, x) = {o}
        BY <2>2, <3>1 DEF Tiled
      <3>3. Cardinality({o}) = 1
        BY FS_Singleton
      <3> QED
        BY <2>1, <2>3, <3>2, <3>3
    <2>4. CASE ~(x < top)
      <3>1. top <= x
        BY <2>2, <2>4
      <3>2. OwnersIn(live, free, x) = {}
        BY <2>2, <3>1, AboveTop
      <3>3. Cardinality({}) = 0
        BY FS_EmptySet
      <3> QED
        BY <2>1, <2>4, <3>2, <3>3
    <2> QED
      BY <2>3, <2>4
  <1> QED
    BY <1>1, ArenaInvariant, PTL

----------------------------------------------------------------------------
(* What is committed stays.                                                *)

Keeps(id) ==
  IsCommitted(id) => /\ IsCommitted(id)'
                     /\ live'[id].codec = live[id].codec
                     /\ live'[id].offset = live[id].offset

LEMMA SameKeeps ==
  ASSUME NEW id, live'[id] = live[id]
  PROVE  Keeps(id)
  BY DEF Keeps, IsCommitted, IsLive

LEMMA ReapedKeeps ==
  ASSUME Inv, NEW id \in Object, live'[id] = LiveAfterReap[id]
  PROVE  Keeps(id)
  BY ReapKeeps DEF Keeps, IsCommitted, IsLive

\* A new entry stands where nothing was committed.
LEMMA NewKeeps ==
  ASSUME Inv, NEW id \in Object, ~IsLive(LiveAfterReap, id), NEW e,
         live' = [LiveAfterReap EXCEPT ![id] = e], NEW o \in Object
  PROVE  Keeps(o)
  <1>1. \A j \in Object \ {id} : live'[j] = LiveAfterReap[j]
    BY DEF LiveAfterReap
  <1>2. CASE o # id
    BY <1>1, <1>2, ReapedKeeps
  <1>3. CASE o = id
    BY <1>3, ReapKeeps DEF Keeps, IsCommitted, IsLive
  <1> QED
    BY <1>2, <1>3

LEMMA ReserveKeeps ==
  ASSUME Inv, NEW c, Reserve(c), NEW o \in Object
  PROVE  Keeps(o) /\ records' = records /\ committing' = committing
         /\ mem' = mem /\ sent' = sent /\ readers' = readers
  <1>1. PICK id \in Object, codec \in Codec, mode \in Mode :
          \/ ReserveJoins(c, id, codec, mode) \/ ReserveNew(c, id, codec, mode)
          \/ ReserveRefused(c, id, codec, mode)
    BY DEF Reserve
  <1>2. /\ records' = records /\ committing' = committing
        /\ mem' = mem /\ sent' = sent /\ readers' = readers
    BY <1>1 DEF ReserveJoins, ReserveNew, ReserveRefused
  <1>3. CASE live' = LiveAfterReap
    <2>1. live'[o] = LiveAfterReap[o]
      BY <1>3
    <2> QED
      BY <1>2, <2>1, ReapedKeeps
  <1>4. CASE ReserveNew(c, id, codec, mode)
    BY <1>2, <1>4, NewKeeps DEF ReserveNew
  <1> QED
    BY <1>1, <1>2, <1>3, <1>4 DEF ReserveJoins, ReserveRefused

\* A chunk goes to an entry that is not committed.
LEMMA PutChunkKeeps ==
  ASSUME Inv, NEW m \in sent, PutChunk(m), NEW o \in Object
  PROVE  Keeps(o)
  <1>1. m.id \in Object /\ live[m.id].age # Committed
    BY DEF PutChunk, ChunkFence, Inv, Outside, Message
  <1>2. live' = [live EXCEPT ![m.id].written = m.at + 1, ![m.id].age = 0]
    BY DEF PutChunk
  <1>3. live \in [Object -> Entry \cup {NoEntry}]
    BY DEF Inv, Tiled, Tables
  <1>4. \A j \in Object \ {m.id} : live'[j] = live[j]
    BY <1>2, <1>3
  <1>5. CASE o # m.id
    BY <1>4, <1>5, SameKeeps
  <1>6. CASE o = m.id
    BY <1>1, <1>6 DEF Keeps, IsCommitted
  <1> QED
    BY <1>5, <1>6

LEMMA CommitArenaKeeps ==
  ASSUME Inv, NEW m \in sent, CommitArena(m), NEW o \in Object
  PROVE  Keeps(o)
  <1> DEFINE e == [live[m.id] EXCEPT !.age = Committed]
  <1>1. m.id \in Object /\ IsLive(live, m.id)
    BY DEF CommitArena, MayCommit, Inv, Outside, Message
  <1>2. live' = [live EXCEPT ![m.id].age = Committed]
    BY DEF CommitArena
  <1>3. live \in [Object -> Entry \cup {NoEntry}]
    BY DEF Inv, Tiled, Tables
  <1>4. live'[m.id] = e /\ \A j \in Object \ {m.id} : live'[j] = live[j]
    BY <1>1, <1>2, <1>3
  <1>5. live[m.id] \in Entry
    BY <1>1, EntryType
  <1>6. /\ e \in Entry /\ e.age = Committed /\ e.codec = live[m.id].codec
        /\ e.offset = live[m.id].offset
    BY <1>5 DEF Entry
  <1> HIDE DEF e
  <1>7. e # NoEntry
    BY <1>6, NoneIsNothing DEF NoEntry
  <1>8. CASE o # m.id
    BY <1>4, <1>8, SameKeeps
  <1>9. CASE o = m.id
    BY <1>4, <1>6, <1>7, <1>9 DEF Keeps, IsCommitted, IsLive
  <1> QED
    BY <1>8, <1>9

LEMMA TickKeeps ==
  ASSUME Tick, NEW o \in Object
  PROVE  Keeps(o)
  <1>1. ASSUME live[o].age = Committed PROVE live'[o] = live[o]
    <2>1. live[o].age \notin 0..(ReserveTtl - 1)
      BY <1>1, Parameters DEF Committed
    <2> QED
      BY <2>1 DEF Tick
  <1> QED
    BY <1>1, SameKeeps DEF Keeps, IsCommitted

LEMMA PutInlineKeeps ==
  ASSUME Inv, NEW id \in Hashed, NEW codec \in Codec, PutInline(id, codec),
         NEW o \in Object
  PROVE  Keeps(o)
  <1>1. id \in Object /\ committing' = committing
    BY InlineCases DEF Object
  <1>2. PICK order \in SetToSeqs(Expired) :
          \/ InlineJoins(id, codec, FreeAfterReap(order))
          \/ \E offset \in Offsets :
               InlineNew(id, codec, FreeAfterReap(order), offset)
          \/ InlineRefused(FreeAfterReap(order))
    BY InlineCases
  <1>3. CASE InlineJoins(id, codec, FreeAfterReap(order))
    <2>1. /\ IsLive(live', id) /\ live'[id] = [live[id] EXCEPT !.age = Committed]
          /\ \A j \in Object \ {id} : live'[j] = LiveAfterReap[j]
          /\ IsLive(LiveAfterReap, id)
      BY <1>1, <1>3, JoinStep DEF InlineJoins
    <2>2. live[id] \in Entry
      BY <1>1, <2>1, ReapKeeps, EntryType
    <2>3. /\ live'[id].age = Committed /\ live'[id].codec = live[id].codec
          /\ live'[id].offset = live[id].offset
      BY <2>1, <2>2 DEF Entry
    <2>4. CASE o # id
      BY <2>1, <2>4, ReapedKeeps
    <2>5. CASE o = id
      BY <2>1, <2>3, <2>5 DEF Keeps, IsCommitted, IsLive
    <2> QED
      BY <2>4, <2>5
  <1>4. ASSUME NEW offset \in Offsets,
               InlineNew(id, codec, FreeAfterReap(order), offset)
        PROVE  Keeps(o)
    BY <1>1, <1>4, NewKeeps DEF InlineNew
  <1>5. CASE InlineRefused(FreeAfterReap(order))
    BY <1>5, ReapedKeeps DEF InlineRefused
  <1> QED
    BY <1>2, <1>3, <1>4, <1>5

\* A record that has bytes in the arena, and no others, keeps them.
LEMMA BareStays ==
  ASSUME NEW id \in Object,
         \/ records'[id] = records[id] \/ records'[id] = NoRecord
         \/ records'[id].inline,
         Keeps(id)
  PROVE  Bare(id)' => Bare(id)
  BY DEF Bare, Keeps

\* What a commit's second half does to a record without bytes.
Orphaned(id) ==
  /\ records[id] = NoRecord
  /\ \E k \in committing \ committing' : k.id = id /\ ~Ours(k)

LEMMA CommitRecordBytes ==
  ASSUME Inv, NEW k \in committing, CommitRecord(k), NEW id \in Object
  PROVE  Bare(id)' => Bare(id) \/ Orphaned(id)
  <1>1. /\ k.id \in Object /\ committing' = committing \ {k}
        /\ records' = Admitted(k.id, k.codec, FALSE) /\ live' = live
        /\ records \in [Object -> Record \cup {NoRecord}]
    BY DEF CommitRecord, Inv, Outside, Stored, Commit
  <1>2. Keeps(id)
    BY <1>1, SameKeeps
  <1>3. CASE id = k.id /\ records[id] = NoRecord
    <2> DEFINE d == [codec |-> k.codec, inline |-> FALSE]
    <2>d. d.codec = k.codec
      OBVIOUS
    <2>1. records' = [records EXCEPT ![id] = d]
      BY <1>1, <1>3 DEF Admitted
    <2>2. CASE Ours(k)
      <3>1. IsCommitted(id) /\ live[id].codec = k.codec
        BY <1>3, <2>2 DEF Inv, CommitsMatch, Ours, IsCommitted
      <3>2. ~Bare(id)'
        <4>1. IsCommitted(id)'
          BY <1>1, <3>1 DEF IsCommitted, IsLive
        <4> HIDE DEF d
        <4>2. live'[id] = live[id] /\ records'[id] = d
          BY <1>1, <2>1
        <4>3. live'[id].codec = records'[id].codec
          BY <2>d, <3>1, <4>2
        <4> QED
          BY <4>1, <4>3 DEF Bare
      <3> QED
        BY <3>2
    <2>3. CASE ~Ours(k)
      BY <1>1, <1>3, <2>3 DEF Orphaned
    <2> QED
      BY <2>2, <2>3
  <1>4. CASE ~(id = k.id /\ records[id] = NoRecord)
    <2>1. records'[id] = records[id]
      BY <1>1, <1>4 DEF Admitted
    <2> QED
      BY <1>2, <2>1, BareStays
  <1> QED
    BY <1>3, <1>4

\* A rollback is refused a record by one that does not agree, or by none.
LEMMA CommitRolledBackBytes ==
  ASSUME Inv, NEW k \in committing, CommitRolledBack(k), NEW id \in Object
  PROVE  Bare(id)' => Bare(id)
  <1>1. /\ k.id \in Object /\ ~Admits(k.id, k.codec) /\ records' = records
        /\ live \in [Object -> Entry \cup {NoEntry}]
    BY DEF CommitRolledBack, Inv, Outside, Commit, Tiled, Tables
  <1>2. CASE live' = live \/ id # k.id
    <2>1. live'[id] = live[id]
      BY <1>1, <1>2 DEF CommitRolledBack
    <2> QED
      BY <1>1, <2>1, SameKeeps, BareStays
  <1>3. CASE RollsBack(k) /\ id = k.id
    <2>1. IsCommitted(id) /\ live[id].codec = k.codec
      BY <1>3 DEF RollsBack, IsCommitted, Inv, CommitsMatch, Ours
    <2>2. records[id] # NoRecord => records[id].codec # k.codec
      BY <1>1, <1>3 DEF Admits
    <2> QED
      BY <1>1, <2>1, <2>2 DEF Bare
  <1> QED
    BY <1>2, <1>3 DEF CommitRolledBack

LEMMA ReleaseBytes ==
  ASSUME Inv, NEW o \in Object, Release(o), NEW id \in Object
  PROVE  Bare(id)' => Bare(id)
  <1>1. /\ records' = [records EXCEPT ![o] = NoRecord]
        /\ records \in [Object -> Record \cup {NoRecord}]
        /\ live \in [Object -> Entry \cup {NoEntry}]
    BY DEF Release, Inv, Stored, Tiled, Tables
  <1>2. CASE id = o
    BY <1>1, <1>2 DEF Bare
  <1>3. CASE id # o
    <2>1. live'[id] = live[id] /\ records'[id] = records[id]
      BY <1>1, <1>3 DEF Release
    <2> QED
      BY <2>1, SameKeeps, BareStays
  <1> QED
    BY <1>2, <1>3

LEMMA PutInlineBytes ==
  ASSUME Inv, NEW o \in Hashed, NEW codec \in Codec, PutInline(o, codec),
         NEW id \in Object
  PROVE  Bare(id)' => Bare(id)
  <1>1. /\ records' = Admitted(o, codec, TRUE) /\ o \in Object
        /\ records \in [Object -> Record \cup {NoRecord}]
    BY InlineCases DEF Object, Inv, Stored
  <1>2. records'[id] = records[id] \/ records'[id].inline
    BY <1>1 DEF Admitted
  <1> QED
    BY <1>2, PutInlineKeeps, BareStays

LEMMA StepBytes ==
  ASSUME Inv, [Next]_vars, NEW id \in Object
  PROVE  Bare(id)' => Bare(id) \/ Orphaned(id)
  <1>1. ASSUME records' = records, Keeps(id) PROVE Bare(id)' => Bare(id)
    BY <1>1, BareStays
  <1>2. ASSUME NEW c, Reserve(c) PROVE Bare(id)' => Bare(id)
    BY <1>1, <1>2, ReserveKeeps
  <1>3. ASSUME live' = live, records' = records PROVE Bare(id)' => Bare(id)
    BY <1>1, <1>3, SameKeeps
  <1>4. ASSUME NEW c, Writer(c) PROVE live' = live /\ records' = records
    BY <1>4 DEF Writer, WriteDirect, SendChunk, ChunkAnswered, SendCommit,
                Abandon, server
  <1>5. ASSUME NEW m, ChunkRefused(m) \/ CommitRefused(m)
        PROVE  live' = live /\ records' = records
    BY <1>5 DEF ChunkRefused, CommitRefused, server
  <1>6. ASSUME NEW m \in sent, PutChunk(m) \/ CommitArena(m)
        PROVE  Bare(id)' => Bare(id)
    <2>1. records' = records
      BY <1>6 DEF PutChunk, CommitArena
    <2> QED
      BY <1>1, <1>6, <2>1, PutChunkKeeps, CommitArenaKeeps
  <1>7. ASSUME Request PROVE Bare(id)' => Bare(id) \/ Orphaned(id)
    BY <1>3, <1>5, <1>6, <1>7, CommitRecordBytes, CommitRolledBackBytes,
       PutInlineBytes, ReleaseBytes DEF Request
  <1>8. ASSUME NEW r \in Reader, Read(r) PROVE live' = live /\ records' = records
    BY <1>8, ReaderMoves
  <1>9. ASSUME Tick PROVE Bare(id)' => Bare(id)
    <2>1. records' = records
      BY <1>9 DEF Tick
    <2> QED
      BY <1>1, <1>9, <2>1, TickKeeps
  <1>10. ASSUME UNCHANGED vars PROVE live' = live /\ records' = records
    BY <1>10 DEF vars
  <1> QED
    BY <1>2, <1>3, <1>4, <1>7, <1>8, <1>9, <1>10 DEF Next

\* A record whose bytes are in the arena alone keeps them: no reap, rollback,
\* release or request that comes late takes the slot from under it.
THEOREM BytesStay ==
  Spec => BytesStayWithRecord
  <1>1. Inv /\ [Next]_vars =>
          [\A id \in Object : Bare(id)' => \/ Bare(id)
             \/ /\ records[id] = NoRecord
                /\ \E k \in committing \ committing' : k.id = id /\ ~Ours(k)]_vars
    BY StepBytes DEF Orphaned
  <1> QED
    BY <1>1, ArenaInvariant, PTL DEF Spec, BytesStayWithRecord

----------------------------------------------------------------------------
(* The invariant of arenas that are written by chunks.                     *)

\* What was written so far is right; what was put inline is committed.
SoFar(id) ==
  /\ live[id].mode = "Direct" => live[id].age = Committed
  /\ \A k \in 0..(Size[id] - 1) :
       (live[id].age = Committed \/ k < live[id].written)
         => mem[live[id].offset + k] = <<id, k>>
Right == \A id \in Object : IsLive(live, id) => SoFar(id)

\* Chunks are of random ids, and inside the object.
ChunksInside ==
  /\ \A c \in Client : writers[c] # Idle => writers[c].id \in Random
  /\ \A m \in sent : /\ m.id \in Random
                     /\ m.kind = "PutChunk" => m.at < Size[m.id]

\* All that is known of an object has one codec.
Spent(id, codec) == <<id, codec, "Streamed">> \in spent
SpentOnce == \A p, q \in spent : p[1] = q[1] => p = q
LiveSpent ==
  \A id \in Random : IsLive(live, id) => Spent(id, live[id].codec)
RecordSpent ==
  \A id \in Random : records[id] # NoRecord => Spent(id, records[id].codec)
CommitSpent == \A k \in committing : k.id \in Random /\ Spent(k.id, k.codec)
HashedRecorded ==
  \A id \in Hashed : IsLive(live, id) =>
    records[id] # NoRecord /\ records[id].codec = live[id].codec
OneCodec ==
  SpentOnce /\ LiveSpent /\ RecordSpent /\ CommitSpent /\ HashedRecorded

\* A reader that nobody released the object of reads it where it is.
Reads(r) ==
  LET d == readers[r]
  IN /\ d.good /\ records[d.id] # NoRecord /\ IsCommitted(d.id)
     /\ d.base # NoBase => d.base = live[d.id].offset
ReadersRight ==
  \A r \in Reader : readers[r] # Idle => readers[r].released \/ Reads(r)

Streams == Right /\ ChunksInside /\ OneCodec /\ ReadersRight

\* Clients that write the mapping directly may come late, and then write into
\* a slot that is another's by now: what follows is about the others.
StreamedOnly == Mode \subseteq {"Streamed"}

\* The bytes of two live objects are apart, and inside the arena.
LEMMA BytesApart ==
  ASSUME NEW L, NEW F, NEW t, Tiled(L, F, t), NEW a \in Object,
         IsLive(L, a), NEW i \in 0..(Size[a] - 1)
  PROVE  /\ L[a].offset + i \in Offsets
         /\ \A b \in Object \ {a} : IsLive(L, b) =>
              \A j \in 0..(Size[b] - 1) : L[a].offset + i # L[b].offset + j
  <1>1. /\ L \in [Object -> Entry \cup {NoEntry}] /\ t \in 0..ArenaBytes
        /\ Below(L, F, t) /\ ArenaBytes \in Nat
    BY Parameters DEF Tiled, Tables
  <1>2. ASSUME NEW o \in Object, IsLive(L, o), NEW j \in 0..(Size[o] - 1)
        PROVE  /\ L[o].offset + j \in Nat /\ L[o].offset + j \in Offsets
               /\ Covers(L[o].offset, Slot(o), L[o].offset + j)
    <2>1. L[o].offset \in Nat /\ L[o].offset + Slot(o) <= t
      BY <1>1, <1>2 DEF Below, IsLive, Entry, Offsets
    <2>2. Slot(o) \in Nat /\ Size[o] \in Nat /\ Slot(o) >= Size[o]
      BY SlotFits
    <2>3. j \in Nat /\ j < Slot(o)
      BY <2>2
    <2> QED
      BY <1>1, <2>1, <2>2, <2>3 DEF Covers, Offsets
  <1>3. ASSUME NEW b \in Object \ {a}, IsLive(L, b), NEW j \in 0..(Size[b] - 1),
               L[a].offset + i = L[b].offset + j
        PROVE  FALSE
    <2> DEFINE x == L[a].offset + i
    <2>1. x \in Nat /\ Covers(L[a].offset, Slot(a), x)
      BY <1>2
    <2>2. x = L[b].offset + j
      BY <1>3
    <2> HIDE DEF x
    <2>3. Covers(L[b].offset, Slot(b), x)
      BY <1>2, <1>3, <2>2
    <2>4. a = b
      BY <1>3, <2>1, <2>3, Disjoint
    <2> QED
      BY <2>4
  <1> QED
    BY <1>2, <1>3

\* The entry stands as it stood.
Alike(id) ==
  /\ IsLive(live, id) /\ live'[id].offset = live[id].offset
  /\ live'[id].mode = live[id].mode /\ live'[id].written = live[id].written
  /\ live'[id].codec = live[id].codec
  /\ live'[id].age = Committed <=> live[id].age = Committed
Unwritten(id) ==
  \A k \in 0..(Size[id] - 1) :
    mem'[live[id].offset + k] = mem[live[id].offset + k]

LEMMA AlikeRight ==
  ASSUME Right, NEW id \in Object, Alike(id), Unwritten(id)
  PROVE  SoFar(id)'
  <1> DEFINE y == live[id].offset
             n == live[id].written
             done == live[id].age = Committed
  <1>1. /\ live'[id].offset = y /\ live'[id].written = n
        /\ live'[id].mode = live[id].mode
        /\ live'[id].age = Committed <=> done
    BY DEF Alike
  <1>2. SoFar(id)
    BY DEF Right, Alike
  <1>3. live[id].mode = "Direct" => done
    BY <1>2 DEF SoFar
  <1>4. \A k \in 0..(Size[id] - 1) : done \/ k < n => mem[y + k] = <<id, k>>
    BY <1>2 DEF SoFar
  <1>5. \A k \in 0..(Size[id] - 1) : mem'[y + k] = mem[y + k]
    BY DEF Unwritten
  <1> HIDE DEF y, n, done
  <1>6. \A k \in 0..(Size[id] - 1) : done \/ k < n => mem'[y + k] = <<id, k>>
    BY <1>4, <1>5
  <1> QED
    BY <1>1, <1>3, <1>6 DEF SoFar

LEMMA SameAlike ==
  ASSUME NEW id, IsLive(live, id), live'[id] = live[id]
  PROVE  Alike(id)
  BY DEF Alike

LEMMA ReapedAlike ==
  ASSUME Inv, NEW id \in Object, live'[id] = LiveAfterReap[id],
         IsLive(live', id)
  PROVE  Alike(id)
  BY ReapKeeps DEF Alike, IsLive

\* The steps that write nothing: each entry stands, or is new and empty.
Empty(id) ==
  /\ live'[id].mode = "Streamed" /\ live'[id].age = 0
  /\ live'[id].written = 0

LEMMA StillRight ==
  ASSUME Right, mem' = mem,
         \A id \in Object : IsLive(live', id) => Alike(id) \/ Empty(id)
  PROVE  Right'
  <1> SUFFICES ASSUME NEW id \in Object, IsLive(live', id) PROVE SoFar(id)'
    BY DEF Right
  <1>1. CASE Alike(id)
    BY <1>1, AlikeRight DEF Unwritten
  <1>2. CASE Empty(id)
    <2>1. Size[id] \in Nat
      BY SlotFits
    <2> QED
      BY <1>2, <2>1 DEF Empty, SoFar, Committed
  <1> QED
    BY <1>1, <1>2

\* A reader goes on if its object keeps its place and its record.
LEMMA ReaderStays ==
  ASSUME NEW r \in Reader, readers[r].released \/ Reads(r),
         readers'[r] = readers[r], NEW id, readers[r].id = id,
         ~readers[r].released => Keeps(id) /\ records'[id] # NoRecord
  PROVE  readers'[r].released \/ Reads(r)'
  BY DEF Reads, Keeps

LEMMA ReadersStay ==
  ASSUME Inv, ReadersRight, readers' = readers,
         \A id \in Object : records[id] # NoRecord =>
           Keeps(id) /\ records'[id] # NoRecord
  PROVE  ReadersRight'
  <1> SUFFICES ASSUME NEW r \in Reader, readers[r] # Idle
               PROVE  readers'[r].released \/ Reads(r)'
    BY DEF ReadersRight
  <1>1. PICK id \in Object : readers[r].id = id
    BY ReaderType DEF Inv
  <1>2. readers[r].released \/ Reads(r)
    BY DEF ReadersRight
  <1>3. ~readers[r].released => Keeps(id) /\ records'[id] # NoRecord
    BY <1>1, <1>2 DEF Reads
  <1> QED
    BY <1>1, <1>2, <1>3, ReaderStays

\* No entry is new and no record changes.
LEMMA CodecsStay ==
  ASSUME OneCodec, spent' = spent, committing' \subseteq committing,
         records' = records,
         \A id \in Object : IsLive(live', id) =>
           IsLive(live, id) /\ live'[id].codec = live[id].codec
  PROVE  OneCodec'
  <1>1. Random \subseteq Object /\ Hashed \subseteq Object
    BY DEF Object
  <1>2. SpentOnce' /\ RecordSpent' /\ CommitSpent'
    BY DEF OneCodec, SpentOnce, RecordSpent, CommitSpent, Spent
  <1>3. LiveSpent'
    BY <1>1 DEF OneCodec, LiveSpent, Spent
  <1>4. HashedRecorded'
    BY <1>1 DEF OneCodec, HashedRecorded
  <1> QED
    BY <1>2, <1>3, <1>4 DEF OneCodec

LEMMA StreamedMode ==
  ASSUME StreamedOnly, NEW mode \in Mode
  PROVE  mode = "Streamed"
  BY DEF StreamedOnly

LEMMA BegunInside ==
  ASSUME Inv, ChunksInside, NEW c, NEW id \in Random, NEW mode, NEW offset,
         NEW reservation, sent' = sent,
         writers' = Begun(c, id, mode, offset, reservation)
  PROVE  ChunksInside'
  <1> DEFINE w == [id |-> id, mode |-> mode, offset |-> offset,
                   reservation |-> reservation, next |-> 0]
  <1>1. w.id = id
    OBVIOUS
  <1>2. writers' = IF c = None THEN writers ELSE [writers EXCEPT ![c] = w]
    BY DEF Begun
  <1>3. writers \in [Client -> Putting \cup {Idle}]
    BY DEF Inv, Outside
  <1> HIDE DEF w
  <1>4. \A d \in Client : writers'[d] = writers[d] \/ writers'[d] = w
    BY <1>2, <1>3
  <1> QED
    BY <1>1, <1>4 DEF ChunksInside

LEMMA ReserveJoinsStreams ==
  ASSUME StreamedOnly, Inv, Streams, NEW c, NEW id \in Object,
         NEW codec \in Codec, NEW mode \in Mode,
         ReserveJoins(c, id, codec, mode)
  PROVE  Streams'
  <1>1. /\ live' = LiveAfterReap
        /\ writers' = Begun(c, id, mode, live[id].offset, live[id].reservation)
        /\ mode = "Streamed" => id \in Random
    BY DEF ReserveJoins, MayReserve
  <1>2. UNCHANGED <<mem, records, committing, spent, sent, readers>>
    BY DEF ReserveJoins
  <1>3. id \in Random
    BY <1>1, StreamedMode
  <1>4. \A o \in Object : IsLive(live', o) => Alike(o)
    BY <1>1, ReapedAlike
  <1>5. Right'
    BY <1>2, <1>4, StillRight DEF Streams
  <1>6. ChunksInside'
    <2> DEFINE y == live[id].offset
               n == live[id].reservation
    <2>1. writers' = Begun(c, id, mode, y, n)
      BY <1>1
    <2> HIDE DEF y, n
    <2> QED
      BY <1>2, <1>3, <2>1, BegunInside DEF Streams
  <1>7. OneCodec'
    BY <1>2, <1>4, CodecsStay DEF Streams, Alike
  <1>8. ReadersRight'
    <2>1. \A o \in Object : Keeps(o)
      BY <1>1, ReapedKeeps
    <2> QED
      BY <1>2, <2>1, ReadersStay DEF Streams
  <1> QED
    BY <1>5, <1>6, <1>7, <1>8 DEF Streams

LEMMA ReserveRefusedStreams ==
  ASSUME Inv, Streams, NEW c, NEW id, NEW codec, NEW mode,
         ReserveRefused(c, id, codec, mode)
  PROVE  Streams'
  <1>1. live' = LiveAfterReap
    BY DEF ReserveRefused
  <1>2. UNCHANGED <<mem, records, committing, spent, writers, sent, readers>>
    BY DEF ReserveRefused
  <1>3. \A o \in Object : IsLive(live', o) => Alike(o)
    BY <1>1, ReapedAlike
  <1>4. Right'
    BY <1>2, <1>3, StillRight DEF Streams
  <1>5. ChunksInside'
    BY <1>2 DEF Streams, ChunksInside
  <1>6. OneCodec'
    BY <1>2, <1>3, CodecsStay DEF Streams, Alike
  <1>7. ReadersRight'
    <2>1. \A o \in Object : Keeps(o)
      BY <1>1, ReapedKeeps
    <2> QED
      BY <1>2, <2>1, ReadersStay DEF Streams
  <1> QED
    BY <1>4, <1>5, <1>6, <1>7 DEF Streams

\* A random id is put once, with one codec, however often it is asked for.
LEMMA ReserveNewStreams ==
  ASSUME StreamedOnly, Inv, Streams, NEW c, NEW id \in Object,
         NEW codec \in Codec, NEW mode \in Mode,
         ReserveNew(c, id, codec, mode)
  PROVE  Streams'
  <1> DEFINE p == <<id, codec, "Streamed">>
  <1>1. mode = "Streamed" /\ id \in Random /\ ~IsLive(LiveAfterReap, id)
        /\ records[id] = NoRecord
    BY StreamedMode DEF ReserveNew, MayReserve
  <1>2. IF c = None THEN p \in spent ELSE \A q \in spent : q[1] # id
    BY <1>1 DEF ReserveNew, MayReserve
  <1>3. spent' = spent \cup {p}
    BY <1>1 DEF ReserveNew
  <1>4. UNCHANGED <<mem, records, committing, sent, readers>>
    BY DEF ReserveNew
  <1>5. PICK offset \in Offsets :
          /\ live' = [LiveAfterReap EXCEPT ![id] = NewEntry(offset, codec, mode)]
          /\ writers' = Begun(c, id, mode, offset, issued + 1)
    BY DEF ReserveNew
  <1> DEFINE e == NewEntry(offset, codec, mode)
  <1>6. e.codec = codec /\ e.mode = "Streamed" /\ e.age = 0 /\ e.written = 0
    BY <1>1 DEF NewEntry
  <1>7. live'[id] = e /\ \A o \in Object \ {id} : live'[o] = LiveAfterReap[o]
    BY <1>5 DEF LiveAfterReap
  <1> HIDE DEF e, p
  <1>8. \A o \in Object \ {id} : IsLive(live', o) => Alike(o)
    BY <1>7, ReapedAlike
  <1>9. Right'
    <2>1. Empty(id)
      BY <1>6, <1>7 DEF Empty
    <2> QED
      BY <1>4, <1>8, <2>1, StillRight DEF Streams
  <1>10. ChunksInside'
    <2> DEFINE n == issued + 1
    <2>1. writers' = Begun(c, id, mode, offset, n)
      BY <1>5
    <2> HIDE DEF n
    <2> QED
      BY <1>1, <1>4, <2>1, BegunInside DEF Streams
  <1>11. OneCodec'
    <2>1. SpentOnce /\ LiveSpent /\ RecordSpent /\ CommitSpent /\ HashedRecorded
      BY DEF Streams, OneCodec
    <2>2. SpentOnce'
      <3>1. p[1] = id
        BY DEF p
      <3>2. CASE c = None
        <4>1. spent' = spent
          BY <1>2, <1>3, <3>2
        <4> QED
          BY <2>1, <4>1 DEF SpentOnce
      <3>3. CASE c # None
        BY <1>2, <1>3, <2>1, <3>1, <3>3 DEF SpentOnce
      <3> QED
        BY <3>2, <3>3
    <2>3. \A o, x : Spent(o, x) => Spent(o, x)'
      BY <1>3 DEF Spent
    <2>4. Spent(id, codec)'
      BY <1>3 DEF Spent, p
    <2>5. LiveSpent'
      <3> SUFFICES ASSUME NEW o \in Random, IsLive(live', o)
                   PROVE  Spent(o, live[o].codec)'
        BY DEF LiveSpent
      <3>1. CASE o = id
        BY <1>6, <1>7, <2>4, <3>1
      <3>2. CASE o # id
        BY <1>8, <2>1, <2>3, <3>2 DEF Object, Alike, LiveSpent
      <3> QED
        BY <3>1, <3>2
    <2>6. RecordSpent' /\ CommitSpent'
      BY <1>4, <2>1, <2>3 DEF RecordSpent, CommitSpent
    <2>7. HashedRecorded'
      <3>1. id \notin Hashed
        BY <1>1, Parameters
      <3> QED
        BY <1>4, <1>8, <2>1, <3>1 DEF HashedRecorded, Alike, Object
    <2> QED
      BY <2>2, <2>5, <2>6, <2>7 DEF OneCodec
  <1>12. ReadersRight'
    <2>1. \A o \in Object : Keeps(o)
      BY <1>1, <1>5, NewKeeps
    <2> QED
      BY <1>4, <2>1, ReadersStay DEF Streams
  <1> QED
    BY <1>9, <1>10, <1>11, <1>12 DEF Streams

\* Steps of the clients leave the arena alone.
LEMMA StillStreams ==
  ASSUME Streams, live' = live, mem' = mem, records' = records,
         committing' = committing, spent' = spent
  PROVE  Right' /\ OneCodec'
  <1>1. Right'
    <2>1. \A id \in Object : IsLive(live', id) => Alike(id)
      BY DEF Alike
    <2> QED
      BY <2>1, StillRight DEF Streams
  <1>2. OneCodec'
    BY CodecsStay DEF Streams
  <1> QED
    BY <1>1, <1>2

LEMMA SameReaders ==
  ASSUME Inv, Streams, live' = live, records' = records, readers' = readers
  PROVE  ReadersRight'
  <1>1. \A id \in Object : Keeps(id)
    BY SameKeeps
  <1> QED
    BY <1>1, ReadersStay DEF Streams

LEMMA WriterStreams ==
  ASSUME StreamedOnly, Inv, Streams, NEW c \in Client, Writer(c)
  PROVE  Streams'
  <1> DEFINE w == writers[c]
  <1>1. w # Idle
    BY DEF Writer, WriteDirect, SendChunk, ChunkAnswered, SendCommit, Abandon
  <1>2. Outside /\ ChunksInside /\ writers \in [Client -> Putting \cup {Idle}]
    BY DEF Inv, Outside, Streams
  <1>3. w.id \in Random /\ w.mode = "Streamed" /\ w.next \in Nat
    BY <1>1, <1>2, WriterType, StreamedMode DEF ChunksInside
  <1>4. ~WriteDirect(c)
    BY <1>3 DEF WriteDirect
  <1>5. UNCHANGED <<live, mem, records, committing, spent, readers>>
    BY <1>4 DEF Writer, SendChunk, ChunkAnswered, SendCommit, Abandon, server
  <1>6. CASE SendChunk(c)
    <2> DEFINE m == [kind |-> "PutChunk", id |-> w.id,
                     reservation |-> w.reservation, at |-> w.next]
    <2>1. sent' = sent \cup {m} /\ writers' = writers /\ w.next < Size[w.id]
      BY <1>6 DEF SendChunk
    <2>2. m.id = w.id /\ m.at = w.next
      OBVIOUS
    <2> HIDE DEF m, w
    <2> QED
      BY <1>2, <1>3, <1>5, <2>1, <2>2, StillStreams, SameReaders
         DEF Streams, ChunksInside
  <1>7. CASE SendCommit(c)
    <2> DEFINE m == [kind |-> "ArenaCommit", id |-> w.id,
                     reservation |-> w.reservation, at |-> c]
    <2>1. sent' = sent \cup {m} /\ writers' = [writers EXCEPT ![c] = Idle]
      BY <1>7 DEF SendCommit
    <2>2. m.id = w.id /\ m.kind # "PutChunk"
      OBVIOUS
    <2>3. \A d \in Client : writers'[d] = writers[d] \/ writers'[d] = Idle
      BY <1>2, <2>1
    <2> HIDE DEF m, w
    <2> QED
      BY <1>2, <1>3, <1>5, <2>1, <2>2, <2>3, StillStreams, SameReaders
         DEF Streams, ChunksInside
  <1>8. CASE Abandon(c)
    <2>1. sent' = sent /\ writers' = [writers EXCEPT ![c] = Idle]
      BY <1>8 DEF Abandon
    <2>2. \A d \in Client : writers'[d] = writers[d] \/ writers'[d] = Idle
      BY <1>2, <2>1
    <2> QED
      BY <1>2, <1>5, <2>1, <2>2, StillStreams, SameReaders
         DEF Streams, ChunksInside
  <1>9. CASE ChunkAnswered(c)
    <2> DEFINE v == [w EXCEPT !.next = @ + 1]
    <2>1. sent' = sent /\ writers' = [writers EXCEPT ![c].next = @ + 1]
      BY <1>9 DEF ChunkAnswered
    <2>2. w \in Putting
      BY <1>1, <1>2, WriterType
    <2>3. v.id = w.id
      BY <2>2 DEF Putting
    <2>4. writers' = [writers EXCEPT ![c] = v]
      BY <2>1
    <2> HIDE DEF v
    <2>5. \A d \in Client : writers'[d] = writers[d] \/ writers'[d] = v
      BY <1>2, <2>4
    <2> HIDE DEF w
    <2>6. ChunksInside'
      BY <1>2, <1>3, <2>1, <2>3, <2>5 DEF ChunksInside
    <2> QED
      BY <1>5, <2>6, StillStreams, SameReaders DEF Streams
  <1> QED
    BY <1>4, <1>6, <1>7, <1>8, <1>9 DEF Writer

LEMMA RefusedStreams ==
  ASSUME Inv, Streams, NEW m \in sent, ChunkRefused(m) \/ CommitRefused(m)
  PROVE  Streams'
  <1>1. UNCHANGED <<live, mem, records, committing, spent, readers, writers>>
    BY DEF ChunkRefused, CommitRefused, server
  <1>2. sent' \subseteq sent
    BY DEF ChunkRefused, CommitRefused, Arrives
  <1>3. ChunksInside'
    BY <1>1, <1>2 DEF Streams, ChunksInside
  <1> QED
    BY <1>1, <1>3, StillStreams, SameReaders DEF Streams

\* A chunk writes a byte of its own object.
LEMMA PutChunkApart ==
  ASSUME Inv, Streams, NEW m \in sent, PutChunk(m), NEW o \in Object,
         IsLive(live, o), o # m.id
  PROVE  Unwritten(o)
  <1> DEFINE i == m.id
             y == live[i].offset
             n == m.at
  <1>1. /\ i \in Object /\ IsLive(live, i) /\ n = live[i].written
        /\ n < Size[i]
    BY DEF PutChunk, ChunkFence, Inv, Outside, Message, Streams, ChunksInside
  <1>2. n \in 0..(Size[i] - 1)
    BY <1>1, EntryType, SlotFits
  <1>3. mem' = [mem EXCEPT ![y + n] = <<i, n>>]
    BY DEF PutChunk
  <1>4. /\ mem \in [Offsets -> (Object \X Nat) \cup {Blank}]
        /\ Tiled(live, free, top)
    BY DEF Inv, Stored
  <1> SUFFICES ASSUME NEW k \in 0..(Size[o] - 1)
               PROVE  mem'[live[o].offset + k] = mem[live[o].offset + k]
    BY DEF Unwritten
  <1>5. live[o].offset + k # y + n /\ live[o].offset + k \in Offsets
    BY <1>1, <1>2, <1>4, BytesApart
  <1> QED
    BY <1>3, <1>4, <1>5

\* A chunk writes the next byte of its own object, which is not committed.
LEMMA PutChunkStreams ==
  ASSUME Inv, Streams, NEW m \in sent, PutChunk(m)
  PROVE  Streams'
  <1> DEFINE i == m.id
             y == live[i].offset
             n == live[i].written
             v == <<i, n>>
             e == [live[i] EXCEPT !.written = m.at + 1, !.age = 0]
  <1>1. /\ i \in Object /\ IsLive(live, i) /\ live[i].age # Committed
        /\ m.at = n /\ live[i].mode = "Streamed"
    BY DEF PutChunk, ChunkFence, Inv, Outside, Message
  <1>2. n < Size[i]
    BY <1>1 DEF PutChunk, Streams, ChunksInside
  <1>3. /\ live[i] \in Entry /\ n \in Nat /\ Size[i] \in Nat
        /\ n \in 0..(Size[i] - 1)
    BY <1>1, <1>2, EntryType, SlotFits
  <1>4. /\ mem' = [mem EXCEPT ![y + n] = v] /\ sent' \subseteq sent
        /\ live' = [live EXCEPT ![i].written = m.at + 1, ![i].age = 0]
    BY <1>1 DEF PutChunk, Arrives
  <1>5. UNCHANGED <<records, committing, spent, writers, readers>>
    BY DEF PutChunk
  <1>6. /\ mem \in [Offsets -> (Object \X Nat) \cup {Blank}]
        /\ live \in [Object -> Entry \cup {NoEntry}] /\ Tiled(live, free, top)
    BY DEF Inv, Stored, Tiled, Tables
  <1>7. live'[i] = e /\ \A o \in Object \ {i} : live'[o] = live[o]
    BY <1>1, <1>4, <1>6
  <1>8. /\ e.offset = y /\ e.mode = "Streamed" /\ e.written = n + 1 /\ e.age = 0
        /\ e.codec = live[i].codec
    <2> DEFINE z == live[i]
               b == n + 1
    <2>1. z \in Entry /\ e = [z EXCEPT !.written = b, !.age = 0]
      BY <1>1, <1>3
    <2> HIDE DEF z, b, e
    <2>2. /\ e.offset = z.offset /\ e.mode = z.mode /\ e.written = b
          /\ e.age = 0 /\ e.codec = z.codec
      BY <2>1 DEF Entry
    <2> QED
      BY <1>1, <2>2 DEF z, b
  <1>9. y + n \in Offsets
    BY <1>1, <1>3, <1>6, BytesApart
  <1>10. ASSUME NEW o \in Object \ {i}, IsLive(live, o)
         PROVE  Unwritten(o)
    BY <1>10, PutChunkApart
  <1>11. SoFar(i)'
    <2>1. SoFar(i)
      BY <1>1 DEF Streams, Right
    <2>2. ASSUME NEW k \in 0..(Size[i] - 1), k < n + 1
          PROVE  mem'[y + k] = <<i, k>>
      <3>1. y \in Nat /\ k \in Nat
        BY <1>1, EntryType
      <3>2. CASE k = n
        BY <1>4, <1>6, <1>9, <3>2
      <3>3. CASE k # n
        <4>1. k < n /\ y + k # y + n
          BY <1>3, <2>2, <3>1, <3>3
        <4>2. mem[y + k] = <<i, k>>
          BY <2>1, <4>1 DEF SoFar
        <4>3. y + k \in Offsets
          BY <1>1, <1>6, BytesApart
        <4> QED
          BY <1>4, <1>6, <4>1, <4>2, <4>3
      <3> QED
        BY <3>2, <3>3
    <2> HIDE DEF e, y, n, v
    <2> QED
      BY <1>7, <1>8, <2>2 DEF SoFar, Committed
  <1> HIDE DEF e, y, n, v
  <1>12. Right'
    <2> SUFFICES ASSUME NEW o \in Object, IsLive(live', o) PROVE SoFar(o)'
      BY DEF Right
    <2>1. CASE o = i
      BY <1>11, <2>1
    <2>2. CASE o # i
      <3>1. IsLive(live, o) /\ live'[o] = live[o]
        BY <1>7, <2>2 DEF IsLive
      <3> QED
        BY <1>10, <2>2, <3>1, SameAlike, AlikeRight DEF Streams
    <2> QED
      BY <2>1, <2>2
  <1>13. ChunksInside'
    BY <1>4, <1>5 DEF Streams, ChunksInside
  <1>14. OneCodec'
    <2>1. \A o \in Object : IsLive(live', o) =>
            IsLive(live, o) /\ live'[o].codec = live[o].codec
      BY <1>1, <1>7, <1>8 DEF IsLive
    <2> QED
      BY <1>5, <2>1, CodecsStay DEF Streams
  <1>15. ReadersRight'
    BY <1>5, PutChunkKeeps, ReadersStay DEF Streams
  <1> QED
    BY <1>12, <1>13, <1>14, <1>15 DEF Streams

\* A commit finds all bytes written.
LEMMA CommitArenaStreams ==
  ASSUME Inv, Streams, NEW m \in sent, CommitArena(m)
  PROVE  Streams'
  <1> DEFINE i == m.id
             e == [live[i] EXCEPT !.age = Committed]
             k == [id |-> i, reservation |-> m.reservation,
                   codec |-> live[i].codec, client |-> m.at]
  <1>1. /\ i \in Object /\ i \in Random /\ IsLive(live, i)
        /\ live[i].mode = "Streamed" => live[i].written = Size[i]
    BY DEF CommitArena, MayCommit, Inv, Outside, Message, Streams, ChunksInside
  <1>2. live[i] \in Entry /\ live[i].mode \in {"Direct", "Streamed"}
    BY <1>1, EntryType
  <1>3. /\ live' = [live EXCEPT ![i].age = Committed] /\ sent' \subseteq sent
        /\ committing' = committing \cup {k}
    BY DEF CommitArena, Arrives
  <1>4. UNCHANGED <<mem, records, spent, writers, readers>>
    BY DEF CommitArena
  <1>5. live \in [Object -> Entry \cup {NoEntry}]
    BY DEF Inv, Tiled, Tables
  <1>6. live'[i] = e /\ \A o \in Object \ {i} : live'[o] = live[o]
    BY <1>1, <1>3, <1>5
  <1>7. /\ e.offset = live[i].offset /\ e.mode = live[i].mode
        /\ e.written = live[i].written /\ e.age = Committed
        /\ e.codec = live[i].codec
    BY <1>2 DEF Entry
  <1>8. k.id = i /\ k.codec = live[i].codec
    OBVIOUS
  <1> HIDE DEF e, k
  <1>9. SoFar(i)'
    <2>1. SoFar(i) /\ Size[i] \in Nat
      BY <1>1, SlotFits DEF Streams, Right
    <2>2. \A j \in 0..(Size[i] - 1) : mem[live[i].offset + j] = <<i, j>>
      <3>1. CASE live[i].mode = "Direct"
        BY <2>1, <3>1 DEF SoFar
      <3>2. CASE live[i].mode = "Streamed"
        BY <1>1, <2>1, <3>2 DEF SoFar
      <3> QED
        BY <1>2, <3>1, <3>2
    <2> QED
      BY <1>4, <1>6, <1>7, <2>2 DEF SoFar
  <1>10. Right'
    <2> SUFFICES ASSUME NEW o \in Object, IsLive(live', o) PROVE SoFar(o)'
      BY DEF Right
    <2>1. CASE o = i
      BY <1>9, <2>1
    <2>2. CASE o # i
      <3>1. IsLive(live, o) /\ live'[o] = live[o]
        BY <1>6, <2>2 DEF IsLive
      <3>2. Unwritten(o)
        BY <1>4 DEF Unwritten
      <3> QED
        BY <3>1, <3>2, SameAlike, AlikeRight DEF Streams
    <2> QED
      BY <2>1, <2>2
  <1>11. ChunksInside'
    BY <1>3, <1>4 DEF Streams, ChunksInside
  <1>12. OneCodec'
    <2>1. SpentOnce /\ LiveSpent /\ RecordSpent /\ CommitSpent /\ HashedRecorded
      BY DEF Streams, OneCodec
    <2>2. \A o \in Object : IsLive(live', o) =>
            IsLive(live, o) /\ live'[o].codec = live[o].codec
      BY <1>1, <1>6, <1>7 DEF IsLive
    <2>3. \A o, x : Spent(o, x)' <=> Spent(o, x)
      BY <1>4 DEF Spent
    <2>4. SpentOnce' /\ RecordSpent'
      BY <1>4, <2>1, <2>3 DEF SpentOnce, RecordSpent
    <2>5. CommitSpent'
      BY <1>1, <1>3, <1>8, <2>1, <2>3 DEF CommitSpent, LiveSpent
    <2>6. LiveSpent'
      BY <2>1, <2>2, <2>3 DEF LiveSpent, Object
    <2>7. HashedRecorded'
      BY <1>4, <2>1, <2>2 DEF HashedRecorded, Object
    <2> QED
      BY <2>4, <2>5, <2>6, <2>7 DEF OneCodec
  <1>13. ReadersRight'
    BY <1>4, CommitArenaKeeps, ReadersStay DEF Streams
  <1> QED
    BY <1>10, <1>11, <1>12, <1>13 DEF Streams

LEMMA CommitRecordStreams ==
  ASSUME Inv, Streams, NEW k \in committing, CommitRecord(k)
  PROVE  Streams'
  <1> DEFINE i == k.id
             d == [codec |-> k.codec, inline |-> FALSE]
  <1>1. i \in Object /\ i \in Random /\ Spent(i, k.codec)
    BY DEF Inv, Outside, Commit, Streams, OneCodec, CommitSpent
  <1>2. /\ committing' \subseteq committing
        /\ records' = IF records[i] # NoRecord THEN records
                      ELSE [records EXCEPT ![i] = d]
    BY DEF CommitRecord, Admitted
  <1>3. UNCHANGED <<live, mem, spent, writers, sent, readers>>
    BY DEF CommitRecord
  <1>4. /\ records \in [Object -> Record \cup {NoRecord}]
        /\ d \in Record /\ d.codec = k.codec
    BY DEF Inv, Stored, Record, Outside, Commit
  <1> HIDE DEF d
  <1>5. d # NoRecord
    BY <1>4, NoneIsNothing DEF NoRecord
  <1>6. \A o \in Object : \/ records'[o] = records[o]
                          \/ o = i /\ records'[o] = d /\ records[o] = NoRecord
    BY <1>1, <1>2, <1>4
  <1>7. Right'
    <2>1. \A o \in Object : IsLive(live', o) => Alike(o)
      BY <1>3 DEF Alike
    <2> QED
      BY <1>3, <2>1, StillRight DEF Streams
  <1>8. ChunksInside'
    BY <1>3 DEF Streams, ChunksInside
  <1>9. OneCodec'
    <2>1. SpentOnce /\ LiveSpent /\ RecordSpent /\ CommitSpent /\ HashedRecorded
      BY DEF Streams, OneCodec
    <2>2. \A o, x : Spent(o, x)' <=> Spent(o, x)
      BY <1>3 DEF Spent
    <2>3. SpentOnce' /\ LiveSpent' /\ CommitSpent'
      BY <1>2, <1>3, <2>1, <2>2 DEF SpentOnce, LiveSpent, CommitSpent
    <2>4. RecordSpent'
      BY <1>1, <1>4, <1>6, <2>1, <2>2 DEF RecordSpent, Object
    <2>5. HashedRecorded'
      <3>1. i \notin Hashed
        BY <1>1, Parameters
      <3> QED
        BY <1>3, <1>6, <2>1, <3>1 DEF HashedRecorded, Object
    <2> QED
      BY <2>3, <2>4, <2>5 DEF OneCodec
  <1>10. ReadersRight'
    <2>1. \A o \in Object : records[o] # NoRecord =>
            Keeps(o) /\ records'[o] # NoRecord
      BY <1>3, <1>5, <1>6, SameKeeps
    <2> QED
      BY <1>3, <2>1, ReadersStay DEF Streams
  <1> QED
    BY <1>7, <1>8, <1>9, <1>10 DEF Streams

\* What is rolled back has no record: one codec is all its puts ever had.
LEMMA RolledBackIsBare ==
  ASSUME Inv, Streams, NEW k \in committing, ~Admits(k.id, k.codec)
  PROVE  records[k.id] = NoRecord
  <1> SUFFICES ASSUME records[k.id] # NoRecord PROVE FALSE
    OBVIOUS
  <1>1. k.id \in Random /\ Spent(k.id, k.codec) /\ SpentOnce /\ RecordSpent
    BY DEF Streams, OneCodec, CommitSpent
  <1>2. Spent(k.id, records[k.id].codec)
    BY <1>1 DEF RecordSpent
  <1>3. \A a, b : <<k.id, a, "Streamed">> = <<k.id, b, "Streamed">> => a = b
    OBVIOUS
  <1>4. records[k.id].codec = k.codec
    BY <1>1, <1>2, <1>3 DEF Spent, SpentOnce
  <1> QED
    BY <1>4 DEF Admits

LEMMA DropRight ==
  ASSUME Inv, Streams, NEW id \in Object, mem' = mem,
         live' = [live EXCEPT ![id] = NoEntry]
  PROVE  /\ Right'
         /\ \A o \in Object : IsLive(live', o) =>
              IsLive(live, o) /\ o # id /\ live'[o] = live[o]
  <1>1. live \in [Object -> Entry \cup {NoEntry}]
    BY DEF Inv, Tiled, Tables
  <1>2. \A o \in Object : IsLive(live', o) =>
          IsLive(live, o) /\ o # id /\ live'[o] = live[o]
    BY <1>1 DEF IsLive
  <1>3. \A o \in Object : IsLive(live', o) => Alike(o)
    BY <1>2, SameAlike
  <1> QED
    BY <1>2, <1>3, StillRight DEF Streams

LEMMA CommitRolledBackStreams ==
  ASSUME Inv, Streams, NEW k \in committing, CommitRolledBack(k)
  PROVE  Streams'
  <1>1. /\ k.id \in Object /\ committing' \subseteq committing
        /\ ~Admits(k.id, k.codec)
    BY DEF Inv, Outside, Commit, CommitRolledBack
  <1>2. UNCHANGED <<mem, records, spent, writers, sent, readers>>
    BY DEF CommitRolledBack
  <1>3. ChunksInside'
    BY <1>2 DEF Streams, ChunksInside
  <1>4. CASE live' = [live EXCEPT ![k.id] = NoEntry]
    <2>1. /\ Right'
          /\ \A o \in Object : IsLive(live', o) =>
               IsLive(live, o) /\ live'[o] = live[o]
      BY <1>1, <1>2, <1>4, DropRight
    <2>2. OneCodec'
      BY <1>1, <1>2, <2>1, CodecsStay DEF Streams
    <2>3. live \in [Object -> Entry \cup {NoEntry}]
      BY DEF Inv, Tiled, Tables
    <2>4. \A o \in Object : o # k.id => Keeps(o)
      BY <1>4, <2>3, SameKeeps
    <2>5. ReadersRight'
      BY <1>1, <1>2, <2>4, RolledBackIsBare, ReadersStay DEF Streams
    <2> QED
      BY <1>3, <2>1, <2>2, <2>5 DEF Streams
  <1>5. CASE live' = live
    <2>1. \A o \in Object : IsLive(live', o) => Alike(o)
      BY <1>5 DEF Alike
    <2>2. Right'
      BY <1>2, <2>1, StillRight DEF Streams
    <2>3. OneCodec'
      BY <1>1, <1>2, <1>5, CodecsStay DEF Streams
    <2> QED
      BY <1>2, <1>3, <1>5, <2>2, <2>3, SameReaders DEF Streams
  <1> QED
    BY <1>4, <1>5 DEF CommitRolledBack

LEMMA TickStreams ==
  ASSUME Inv, Streams, Tick
  PROVE  Streams'
  <1>1. UNCHANGED <<mem, records, committing, spent, writers, sent, readers>>
    BY DEF Tick
  <1>2. ASSUME NEW o \in Object, IsLive(live', o)
        PROVE  Alike(o)
    <2>1. CASE IsLive(live, o) /\ live[o].age \in 0..(ReserveTtl - 1)
      <3> DEFINE z == live[o]
                 a == live[o].age + 1
                 e == [z EXCEPT !.age = a]
      <3>1. live'[o] = e
        BY <2>1 DEF Tick
      <3>2. z \in Entry /\ a \in Nat
        BY <2>1, EntryType
      <3>3. z.age # Committed /\ a # Committed
        BY <2>1, <3>2 DEF Committed
      <3> HIDE DEF z, a
      <3>4. /\ e.offset = z.offset /\ e.mode = z.mode /\ e.codec = z.codec
            /\ e.written = z.written /\ e.age = a
        BY <3>2 DEF Entry
      <3> HIDE DEF e
      <3> QED
        BY <2>1, <3>1, <3>3, <3>4 DEF Alike, z
    <2>2. CASE ~(IsLive(live, o) /\ live[o].age \in 0..(ReserveTtl - 1))
      <3>1. live'[o] = live[o]
        BY <2>2 DEF Tick
      <3>2. IsLive(live, o)
        BY <1>2, <3>1 DEF IsLive
      <3> QED
        BY <3>1, <3>2, SameAlike
    <2> QED
      BY <2>1, <2>2
  <1>3. Right'
    BY <1>1, <1>2, StillRight DEF Streams
  <1>4. ChunksInside'
    BY <1>1 DEF Streams, ChunksInside
  <1>5. OneCodec'
    BY <1>1, <1>2, CodecsStay DEF Streams, Alike
  <1>6. ReadersRight'
    BY <1>1, TickKeeps, ReadersStay DEF Streams
  <1> QED
    BY <1>3, <1>4, <1>5, <1>6 DEF Streams

\* Whoever reads a released object is told.
LEMMA ReleaseStreams ==
  ASSUME Inv, Streams, NEW id \in Object, Release(id)
  PROVE  Streams'
  <1>1. UNCHANGED <<mem, committing, spent, writers, sent>>
    BY DEF Release
  <1>2. /\ records' = [records EXCEPT ![id] = NoRecord]
        /\ records \in [Object -> Record \cup {NoRecord}]
        /\ live \in [Object -> Entry \cup {NoEntry}]
    BY DEF Release, Inv, Stored, Tiled, Tables
  <1>3. live' = [live EXCEPT ![id] = NoEntry]
    <2>1. CASE IsLive(live, id)
      BY <2>1 DEF Release
    <2>2. CASE ~IsLive(live, id)
      <3>1. live' = live /\ live[id] = NoEntry
        BY <2>2 DEF Release, IsLive
      <3> QED
        BY <1>2, <3>1
    <2> QED
      BY <2>1, <2>2
  <1>4. /\ Right'
        /\ \A o \in Object : IsLive(live', o) =>
             IsLive(live, o) /\ o # id /\ live'[o] = live[o]
    BY <1>1, <1>3, DropRight
  <1>5. ChunksInside'
    BY <1>1 DEF Streams, ChunksInside
  <1>6. \A o \in Object : IF o = id THEN records'[o] = NoRecord
                          ELSE records'[o] = records[o]
    BY <1>2
  <1>7. OneCodec'
    <2>1. SpentOnce /\ LiveSpent /\ RecordSpent /\ CommitSpent /\ HashedRecorded
      BY DEF Streams, OneCodec
    <2>2. \A o, x : Spent(o, x)' <=> Spent(o, x)
      BY <1>1 DEF Spent
    <2>3. SpentOnce' /\ CommitSpent'
      BY <1>1, <2>1, <2>2 DEF SpentOnce, CommitSpent
    <2>4. LiveSpent' /\ RecordSpent'
      BY <1>4, <1>6, <2>1, <2>2 DEF LiveSpent, RecordSpent, Object
    <2>5. HashedRecorded'
      BY <1>4, <1>6, <2>1 DEF HashedRecorded, Object
    <2> QED
      BY <2>3, <2>4, <2>5 DEF OneCodec
  <1>8. ReadersRight'
    <2> SUFFICES ASSUME NEW r \in Reader, readers'[r] # Idle
                 PROVE  readers'[r].released \/ Reads(r)'
      BY DEF ReadersRight
    <2>1. CASE readers[r] # Idle /\ readers[r].id = id
      <3>1. readers'[r] = [readers[r] EXCEPT !.released = TRUE]
        BY <2>1 DEF Release
      <3>2. readers[r] \in Getting
        BY <2>1, ReaderType DEF Inv
      <3>3. [readers[r] EXCEPT !.released = TRUE].released = TRUE
        BY <3>2 DEF Getting
      <3> QED
        BY <3>1, <3>3
    <2>2. CASE ~(readers[r] # Idle /\ readers[r].id = id)
      <3>1. readers'[r] = readers[r]
        BY <2>2 DEF Release
      <3>2. PICK o \in Object : /\ readers[r] # Idle /\ o # id
                                /\ readers[r].id = o
        BY <2>2, <3>1, ReaderType DEF Inv
      <3>3. readers[r].released \/ Reads(r)
        BY <3>2 DEF Streams, ReadersRight
      <3>4. Keeps(o)
        <4>1. live'[o] = live[o]
          BY <1>2, <1>3, <3>2
        <4> QED
          BY <4>1, SameKeeps
      <3>5. ~readers[r].released => records'[o] # NoRecord
        BY <1>6, <3>2, <3>3 DEF Reads
      <3> QED
        BY <3>1, <3>2, <3>3, <3>4, <3>5, ReaderStays
    <2> QED
      BY <2>1, <2>2
  <1> QED
    BY <1>4, <1>5, <1>7, <1>8 DEF Streams

\* The record that a put in one request leaves.
LEMMA InlineRecord ==
  ASSUME Inv, NEW id \in Hashed, NEW codec \in Codec, PutInline(id, codec)
  PROVE  /\ records'[id] # NoRecord /\ records'[id].codec = codec
         /\ \A o \in Object \ {id} : records'[o] = records[o]
  <1> DEFINE d == [codec |-> codec, inline |-> TRUE]
  <1>1. /\ id \in Object /\ Admits(id, codec)
        /\ records' = IF records[id] # NoRecord THEN records
                      ELSE [records EXCEPT ![id] = d]
    BY InlineCases DEF Object, Admitted
  <1>2. /\ records \in [Object -> Record \cup {NoRecord}]
        /\ d \in Record /\ d.codec = codec
    BY DEF Inv, Stored, Record
  <1> HIDE DEF d
  <1>3. d # NoRecord
    BY <1>2, NoneIsNothing DEF NoRecord
  <1>4. CASE records[id] = NoRecord
    BY <1>1, <1>2, <1>3, <1>4
  <1>5. CASE records[id] # NoRecord
    BY <1>1, <1>5 DEF Admits
  <1> QED
    BY <1>4, <1>5

\* The bytes of a new inline object disturb no other's.
LEMMA FilledRight ==
  ASSUME Inv, Tiled(live', free', top'), NEW id \in Object, NEW offset \in Offsets,
         IsLive(live', id), live'[id].offset = offset,
         mem' = Filled(id, offset)
  PROVE  /\ \A k \in 0..(Size[id] - 1) : mem'[offset + k] = <<id, k>>
         /\ \A o \in Object \ {id} : IsLive(live', o) =>
              \A k \in 0..(Size[o] - 1) :
                mem'[live'[o].offset + k] = mem[live'[o].offset + k]
  <1>1. /\ Size \in [Object -> Nat] /\ offset \in Nat
        /\ \A x \in Offsets : mem'[x] = IF x \in offset..(offset + Size[id] - 1)
                                        THEN <<id, x - offset>> ELSE mem[x]
    BY Parameters DEF Filled, Offsets
  <1>2. ASSUME NEW k \in 0..(Size[id] - 1)
        PROVE  mem'[offset + k] = <<id, k>>
    <2>1. offset + k \in Offsets
      BY BytesApart
    <2> DEFINE x == offset + k
    <2>2. x \in offset..(offset + Size[id] - 1) /\ x - offset = k
      BY <1>1
    <2>3. x \in Offsets
      BY <2>1
    <2> HIDE DEF x
    <2>4. mem'[x] = <<id, k>>
      BY <1>1, <2>2, <2>3
    <2> QED
      BY <2>4 DEF x
  <1>3. ASSUME NEW o \in Object \ {id}, IsLive(live', o),
               NEW k \in 0..(Size[o] - 1)
        PROVE  mem'[live'[o].offset + k] = mem[live'[o].offset + k]
    <2> DEFINE x == live'[o].offset + k
    <2>1. /\ x \in Offsets
          /\ \A j \in 0..(Size[id] - 1) : x # offset + j
      BY <1>3, BytesApart
    <2> HIDE DEF x
    <2>2. x \in Nat /\ Size[id] \in Nat
      BY <1>1, <2>1 DEF Offsets
    <2>3. x \notin offset..(offset + Size[id] - 1)
      <3> SUFFICES ASSUME x \in offset..(offset + Size[id] - 1) PROVE FALSE
        OBVIOUS
      <3>1. x - offset \in 0..(Size[id] - 1) /\ x = offset + (x - offset)
        BY <1>1, <2>2
      <3> QED
        BY <2>1, <3>1
    <2>4. mem'[x] = mem[x]
      BY <1>1, <2>1, <2>3
    <2> QED
      BY <2>4 DEF x
  <1> QED
    BY <1>2, <1>3

\* What a put in one request makes of the entries and the bytes: it leaves
\* the others as they were, and its own object whole if it is in the arena.
LEMMA InlineRight ==
  ASSUME Inv, Inv', Streams, NEW id \in Hashed, NEW codec \in Codec,
         PutInline(id, codec)
  PROVE  /\ Right'
         /\ \A o \in Object \ {id} : IsLive(live', o) => Alike(o) /\ Unwritten(o)
         /\ IsLive(live', id) => \/ Alike(id) /\ Unwritten(id)
                                 \/ live'[id].codec = codec /\ ~IsCommitted(id)
  <1>1. id \in Object /\ committing' = committing
    BY InlineCases DEF Object
  <1>2. PICK order \in SetToSeqs(Expired) :
          \/ InlineJoins(id, codec, FreeAfterReap(order))
          \/ \E offset \in Offsets :
               InlineNew(id, codec, FreeAfterReap(order), offset)
          \/ InlineRefused(FreeAfterReap(order))
    BY InlineCases
  <1>3. CASE InlineJoins(id, codec, FreeAfterReap(order))
    <2>1. /\ IsLive(live', id) /\ live'[id] = [live[id] EXCEPT !.age = Committed]
          /\ \A j \in Object \ {id} : live'[j] = LiveAfterReap[j]
          /\ IsLive(LiveAfterReap, id) /\ live[id].mode = "Direct"
      BY <1>1, <1>3, JoinStep DEF InlineJoins, Same
    <2>2. IsLive(live, id) /\ live[id] \in Entry
      BY <1>1, <2>1, ReapKeeps, EntryType
    <2>3. live[id].age = Committed
      BY <1>1, <2>1, <2>2 DEF Streams, Right, SoFar
    <2>4. mem' = mem
      BY <1>3, <2>3 DEF InlineJoins
    <2>5. Alike(id)
      <3> DEFINE z == live[id]
      <3>1. z \in Entry /\ live'[id] = [z EXCEPT !.age = Committed]
        BY <2>1, <2>2
      <3> HIDE DEF z
      <3>2. /\ live'[id].offset = z.offset /\ live'[id].mode = z.mode
            /\ live'[id].written = z.written /\ live'[id].codec = z.codec
            /\ live'[id].age = Committed
        BY <3>1 DEF Entry
      <3> QED
        BY <2>2, <2>3, <3>2 DEF Alike, z
    <2>6. \A o \in Object : IsLive(live', o) => Alike(o)
      BY <2>1, <2>5, ReapedAlike
    <2>7. \A o \in Object : Unwritten(o)
      BY <2>4 DEF Unwritten
    <2>8. Right'
      BY <2>4, <2>6, StillRight DEF Streams
    <2> QED
      BY <1>1, <2>6, <2>7, <2>8
  <1>4. ASSUME NEW offset \in Offsets,
               InlineNew(id, codec, FreeAfterReap(order), offset)
        PROVE  /\ Right'
               /\ \A o \in Object \ {id} :
                    IsLive(live', o) => Alike(o) /\ Unwritten(o)
               /\ live'[id].codec = codec /\ ~IsCommitted(id)
    <2> DEFINE e == InlineEntry(offset, codec)
    <2>1. /\ ~IsLive(LiveAfterReap, id) /\ issued < MaxReservations
          /\ mem' = Filled(id, offset)
          /\ live' = [LiveAfterReap EXCEPT ![id] = e]
      BY <1>4 DEF InlineNew
    <2>2. /\ e \in Entry /\ e.offset = offset /\ e.codec = codec
          /\ e.age = Committed
      BY <2>1, InlineEntryType
    <2>3. live'[id] = e /\ \A o \in Object \ {id} : live'[o] = LiveAfterReap[o]
      BY <1>1, <2>1 DEF LiveAfterReap
    <2> HIDE DEF e
    <2>4. IsLive(live', id)
      BY <2>2, <2>3, NoneIsNothing DEF IsLive, NoEntry
    <2>5. ~IsCommitted(id)
      BY <1>1, <2>1, ReapKeeps DEF IsCommitted, IsLive
    <2>6. /\ \A k \in 0..(Size[id] - 1) : mem'[offset + k] = <<id, k>>
          /\ \A o \in Object \ {id} : IsLive(live', o) =>
               \A k \in 0..(Size[o] - 1) :
                 mem'[live'[o].offset + k] = mem[live'[o].offset + k]
      <3>1. Tiled(live', free', top') /\ live'[id].offset = offset
        BY <2>2, <2>3 DEF Inv
      <3> QED
        BY <1>1, <2>1, <2>4, <3>1, FilledRight
    <2>7. ASSUME NEW o \in Object \ {id}, IsLive(live', o)
          PROVE  Alike(o) /\ Unwritten(o)
      <3>1. Alike(o)
        BY <2>3, <2>7, ReapedAlike
      <3> QED
        BY <2>6, <2>7, <3>1 DEF Alike, Unwritten
    <2>8. SoFar(id)'
      BY <2>2, <2>3, <2>6 DEF SoFar
    <2>9. Right'
      <3> SUFFICES ASSUME NEW o \in Object, IsLive(live', o) PROVE SoFar(o)'
        BY DEF Right
      <3>1. CASE o = id
        BY <2>8, <3>1
      <3>2. CASE o # id
        BY <2>7, <3>2, AlikeRight DEF Streams
      <3> QED
        BY <3>1, <3>2
    <2> QED
      BY <2>2, <2>3, <2>5, <2>7, <2>9
  <1>5. CASE InlineRefused(FreeAfterReap(order))
    <2>1. live' = LiveAfterReap /\ mem' = mem
      BY <1>5 DEF InlineRefused
    <2>2. \A o \in Object : IsLive(live', o) => Alike(o)
      BY <2>1, ReapedAlike
    <2>3. \A o \in Object : Unwritten(o)
      BY <2>1 DEF Unwritten
    <2>4. Right'
      BY <2>1, <2>2, StillRight DEF Streams
    <2> QED
      BY <1>1, <2>2, <2>3, <2>4
  <1> QED
    BY <1>2, <1>3, <1>4, <1>5

LEMMA PutInlineStreams ==
  ASSUME Inv, Inv', Streams, NEW id \in Hashed, NEW codec \in Codec,
         PutInline(id, codec)
  PROVE  Streams'
  <1>1. id \in Object /\ id \notin Random
    BY Parameters DEF Object
  <1>2. UNCHANGED <<committing, spent, writers, sent, readers>>
    BY InlineCases
  <1>3. /\ records'[id] # NoRecord /\ records'[id].codec = codec
        /\ \A o \in Object \ {id} : records'[o] = records[o]
    BY InlineRecord
  <1>4. /\ Right'
        /\ \A o \in Object \ {id} : IsLive(live', o) => Alike(o)
        /\ IsLive(live', id) => Alike(id) \/ live'[id].codec = codec
    BY InlineRight
  <1>5. ChunksInside'
    BY <1>2 DEF Streams, ChunksInside
  <1>6. OneCodec'
    <2>1. SpentOnce /\ LiveSpent /\ RecordSpent /\ CommitSpent /\ HashedRecorded
      BY DEF Streams, OneCodec
    <2>2. \A o, x : Spent(o, x)' <=> Spent(o, x)
      BY <1>2 DEF Spent
    <2>3. SpentOnce' /\ CommitSpent'
      BY <1>2, <2>1, <2>2 DEF SpentOnce, CommitSpent
    <2>4. LiveSpent' /\ RecordSpent'
      BY <1>1, <1>3, <1>4, <2>1, <2>2 DEF LiveSpent, RecordSpent, Object, Alike
    <2>5. HashedRecorded'
      <3> SUFFICES ASSUME NEW o \in Hashed, IsLive(live', o)
                   PROVE  records'[o] # NoRecord
                          /\ records'[o].codec = live'[o].codec
        BY DEF HashedRecorded
      <3>1. CASE o # id
        BY <1>3, <1>4, <2>1, <3>1 DEF HashedRecorded, Object, Alike
      <3>2. CASE o = id /\ live'[id].codec = codec
        BY <1>3, <3>2
      <3>3. CASE o = id /\ Alike(id)
        <4>1. records[id] # NoRecord /\ records[id].codec = live[id].codec
          BY <2>1, <3>3 DEF HashedRecorded, Alike
        <4>2. records' = records
          BY <4>1, InlineCases DEF Admitted
        <4> QED
          BY <3>3, <4>1, <4>2 DEF Alike
      <3> QED
        BY <1>4, <3>1, <3>2, <3>3
    <2> QED
      BY <2>3, <2>4, <2>5 DEF OneCodec
  <1>7. ReadersRight'
    <2>1. \A o \in Object : records[o] # NoRecord =>
            Keeps(o) /\ records'[o] # NoRecord
      BY <1>3, PutInlineKeeps
    <2> QED
      BY <1>2, <2>1, ReadersStay DEF Streams
  <1> QED
    BY <1>4, <1>5, <1>6, <1>7 DEF Streams

\* A byte that is read is the object's own.
LEMMA ReadStreams ==
  ASSUME Inv, Streams, NEW r \in Reader, Read(r)
  PROVE  Streams'
  <1>1. /\ UNCHANGED <<live, records, mem, committing, spent, writers, sent>>
        /\ readers \in [Reader -> Getting \cup {Idle}] /\ Outside
    BY ReaderMoves DEF Inv, Outside
  <1>2. \A id : Keeps(id)
    BY <1>1, SameKeeps
  <1>3. ASSUME NEW q \in Reader, readers'[q] = readers[q], readers'[q] # Idle
        PROVE  readers'[q].released \/ Reads(q)'
    <2>1. readers[q].released \/ Reads(q)
      BY <1>3 DEF Streams, ReadersRight
    <2>2. PICK id : readers[q].id = id
      OBVIOUS
    <2>3. ~readers[q].released => Keeps(id) /\ records'[id] # NoRecord
      BY <1>1, <1>2, <2>1, <2>2 DEF Reads
    <2> QED
      BY <1>3, <2>1, <2>2, <2>3, ReaderStays
  <1>4. ASSUME NEW id \in Object, GetMapped(r, id) \/ GetRemote(r, id)
        PROVE  Reads(r)'
    <2>1. records[id] # NoRecord /\ IsCommitted(id)
      BY <1>4 DEF GetMapped, GetRemote
    <2>2. IsCommitted(id)'
      BY <1>2, <2>1 DEF Keeps
    <2>3. \E k : readers'[r] = Reading(k, id, live[id].offset)
                 \/ readers'[r] = Reading(k, id, NoBase)
      BY <1>1, <1>4 DEF GetMapped, GetRemote
    <2>4. /\ readers'[r].id = id /\ readers'[r].good
          /\ readers'[r].base # NoBase => readers'[r].base = live[id].offset
      BY <2>3 DEF Reading
    <2> QED
      BY <1>1, <2>1, <2>2, <2>4 DEF Reads
  <1>5. ASSUME GetChunk(r), ~readers'[r].released
        PROVE  Reads(r)'
    <2> DEFINE z == readers[r]
               b == live[z.id].offset
               d == [z EXCEPT !.base = b]
    <2>1. z # Idle /\ readers' = [readers EXCEPT ![r].base = b]
      BY <1>5 DEF GetChunk
    <2>2. z \in Getting /\ readers'[r] = d
      BY <1>1, <2>1, ReaderType
    <2> HIDE DEF b
    <2>3. d.id = z.id /\ d.good = z.good /\ d.base = b /\ d.released = z.released
      BY <2>2 DEF Getting
    <2> HIDE DEF d
    <2>4. Reads(r)
      BY <1>5, <2>1, <2>2, <2>3 DEF Streams, ReadersRight
    <2>5. PICK i : z.id = i
      OBVIOUS
    <2>6. /\ IsCommitted(i)' /\ records'[i] # NoRecord /\ d.good
          /\ b = live'[i].offset
      BY <1>1, <1>2, <2>3, <2>4, <2>5 DEF Keeps, Reads, b
    <2> HIDE DEF z
    <2> QED
      BY <2>2, <2>3, <2>5, <2>6 DEF Reads
  <1>6. ASSUME CopyByte(r), ~readers'[r].released
        PROVE  Reads(r)'
    <2> DEFINE z == readers[r]
               g == z.good /\ mem[z.base + z.pos] = <<z.id, z.pos>>
               b == IF z.kind = "chunked" THEN NoBase ELSE z.base
               p == z.pos + 1
               d == [z EXCEPT !.good = g, !.pos = p, !.base = b]
    <2>1. /\ z # Idle /\ z.base # NoBase /\ z.pos < Size[z.id]
          /\ readers' = [readers EXCEPT ![r] = d]
      BY <1>6 DEF CopyByte
    <2>2. /\ z \in Getting /\ readers'[r] = d /\ z.id \in Object
          /\ z.pos \in Nat
      BY <1>1, <2>1, ReaderType
    <2> HIDE DEF b, g, p
    <2>3. d.id = z.id /\ d.good = g /\ d.base = b /\ d.released = z.released
      BY <2>2 DEF Getting
    <2> HIDE DEF d
    <2>4. Reads(r)
      BY <1>6, <2>1, <2>2, <2>3 DEF Streams, ReadersRight
    <2>5. /\ IsCommitted(z.id) /\ z.good /\ z.base = live[z.id].offset
          /\ records[z.id] # NoRecord
      BY <2>1, <2>4 DEF Reads
    <2>6. mem[z.base + z.pos] = <<z.id, z.pos>>
      <3>1. SoFar(z.id) /\ Size[z.id] \in Nat /\ live[z.id].age = Committed
        BY <2>2, <2>5, SlotFits DEF Streams, Right, IsCommitted
      <3>2. z.pos \in 0..(Size[z.id] - 1)
        BY <2>1, <2>2, <3>1
      <3> QED
        BY <2>5, <3>1, <3>2 DEF SoFar
    <2>7. g
      BY <2>5, <2>6 DEF g
    <2>8. PICK i : z.id = i
      OBVIOUS
    <2>9. /\ b # NoBase => b = live'[i].offset
          /\ IsCommitted(i)' /\ records'[i] # NoRecord
      BY <1>1, <1>2, <2>5, <2>8 DEF Keeps, b
    <2> HIDE DEF z
    <2> QED
      BY <2>2, <2>3, <2>7, <2>8, <2>9 DEF Reads
  <1>7. ASSUME GetEnds(r) PROVE readers'[r] = Idle
    BY <1>1, <1>7 DEF GetEnds
  <1>8. readers'[r] # Idle => readers'[r].released \/ Reads(r)'
    BY <1>4, <1>5, <1>6, <1>7 DEF Read
  <1>9. \A q \in Reader \ {r} : readers'[q] = readers[q]
    BY <1>1 DEF Read, GetMapped, GetRemote, GetChunk, CopyByte, GetEnds
  <1>10. ReadersRight'
    BY <1>3, <1>8, <1>9 DEF ReadersRight
  <1>11. ChunksInside'
    BY <1>1 DEF Streams, ChunksInside
  <1> QED
    BY <1>1, <1>10, <1>11, StillStreams DEF Streams

LEMMA InitStreams ==
  Init => Streams
  <1> SUFFICES ASSUME Init PROVE Streams
    OBVIOUS
  <1>1. \A id \in Object : ~IsLive(live, id) /\ records[id] = NoRecord
    BY DEF Init, IsLive
  <1>2. /\ committing = {} /\ sent = {} /\ spent = {}
        /\ \A c \in Client : writers[c] = Idle
        /\ \A r \in Reader : readers[r] = Idle
    BY DEF Init
  <1>3. Right /\ ChunksInside /\ ReadersRight
    BY <1>1, <1>2 DEF Right, ChunksInside, ReadersRight
  <1>4. OneCodec
    BY <1>1, <1>2 DEF OneCodec, SpentOnce, LiveSpent, RecordSpent, CommitSpent,
                      HashedRecorded, Object
  <1> QED
    BY <1>3, <1>4 DEF Streams

LEMMA StutterStreams ==
  ASSUME Inv, Streams, UNCHANGED vars
  PROVE  Streams'
  <1>1. UNCHANGED <<live, mem, records, committing, spent, writers, sent,
                    readers>>
    BY DEF vars
  <1>2. ChunksInside'
    BY <1>1 DEF Streams, ChunksInside
  <1> QED
    BY <1>1, <1>2, StillStreams, SameReaders DEF Streams

LEMMA StepStreams ==
  ASSUME StreamedOnly, Inv, Inv', Streams, [Next]_vars
  PROVE  Streams'
  <1>1. ASSUME NEW c, Reserve(c) PROVE Streams'
    BY <1>1, ReserveJoinsStreams, ReserveNewStreams, ReserveRefusedStreams
       DEF Reserve
  <1>2. ASSUME Request PROVE Streams'
    BY <1>2, PutChunkStreams, RefusedStreams, CommitArenaStreams,
       CommitRecordStreams, CommitRolledBackStreams, PutInlineStreams,
       ReleaseStreams DEF Request
  <1> QED
    BY <1>1, <1>2, WriterStreams, ReadStreams, TickStreams, StutterStreams
       DEF Next

\* Where clients send chunks, and do not write the mapping themselves, what is
\* written of every object is right, and readers read what was committed.
THEOREM StreamsInvariant ==
  ASSUME StreamedOnly
  PROVE  Spec => [](Inv /\ Streams)
  <1>1. Init => Inv /\ Streams
    BY InitInv, InitStreams
  <1>2. Inv /\ Streams /\ [Next]_vars => Inv' /\ Streams'
    BY StepInv, StepStreams
  <1> QED
    BY <1>1, <1>2, PTL DEF Spec

\* A committed object is whole: chunks that come late, or twice, and slots
\* that are used again never leave it with a byte of another object or
\* without one of its own.
THEOREM CommittedWhole ==
  ASSUME StreamedOnly
  PROVE  Spec => []CommittedIsWhole
  <1>1. Inv /\ Streams => CommittedIsWhole
    BY DEF Streams, Right, SoFar, CommittedIsWhole, IsCommitted, Whole
  <1> QED
    BY <1>1, StreamsInvariant, PTL

\* A reader, on the same host or fetching chunks, gets the object's own bytes
\* as long as nobody releases the object meanwhile.
THEOREM ReadsWhole ==
  ASSUME StreamedOnly
  PROVE  Spec => []ReadsAreWhole
  <1>1. Inv /\ Streams => ReadsAreWhole
    BY DEF Streams, ReadersRight, Reads, ReadsAreWhole
  <1> QED
    BY <1>1, StreamsInvariant, PTL

LEMMA StepRewrites ==
  ASSUME StreamedOnly, Inv, Inv', Streams, [Next]_vars, NEW id \in Object,
         IsCommitted(id), IsLive(live', id)
  PROVE  Unwritten(id)
  <1>1. ASSUME mem' = mem PROVE Unwritten(id)
    BY <1>1 DEF Unwritten
  <1>2. ASSUME NEW c \in Client, Writer(c) PROVE mem' = mem
    <2>1. ~WriteDirect(c)
      <3> SUFFICES ASSUME WriteDirect(c) PROVE FALSE
        OBVIOUS
      <3>1. writers[c] # Idle /\ writers[c].mode = "Direct"
        BY DEF WriteDirect
      <3>2. writers[c].mode \in Mode
        BY <3>1, WriterType DEF Inv
      <3> QED
        BY <3>1, <3>2, StreamedMode
    <2> QED
      BY <1>2, <2>1 DEF Writer, SendChunk, ChunkAnswered, SendCommit, Abandon
  <1>3. ASSUME NEW m \in sent, PutChunk(m) PROVE Unwritten(id)
    <2>1. live[m.id].age # Committed
      BY <1>3 DEF PutChunk, ChunkFence
    <2>2. IsLive(live, id) /\ id # m.id
      BY <2>1 DEF IsCommitted
    <2> QED
      BY <1>3, <2>2, PutChunkApart
  <1>4. ASSUME NEW o \in Hashed, NEW codec \in Codec, PutInline(o, codec)
        PROVE  Unwritten(id)
    BY <1>4, InlineRight
  <1>5. ASSUME Request PROVE mem' = mem \/ Unwritten(id)
    BY <1>3, <1>4, <1>5 DEF Request, ChunkRefused, CommitArena, CommitRefused,
       CommitRecord, CommitRolledBack, Release
  <1>6. ASSUME NEW c, Reserve(c) PROVE mem' = mem
    BY <1>6, ReserveKeeps
  <1>7. ASSUME NEW r \in Reader, Read(r) PROVE mem' = mem
    BY <1>7, ReaderMoves
  <1>8. Tick \/ UNCHANGED vars => mem' = mem
    BY DEF Tick, vars
  <1> QED
    BY <1>1, <1>2, <1>5, <1>6, <1>7, <1>8 DEF Next

\* "A committed region is never rewritten while readable" (arena.rs), where
\* clients send chunks; one that writes the mapping late does rewrite it.
THEOREM ChunksNeverRewrite ==
  ASSUME StreamedOnly
  PROVE  Spec => NeverRewritten
  <1>1. Inv /\ Inv' /\ Streams /\ [Next]_vars =>
          [\A id \in Object : Readable(id) /\ Readable(id)' =>
             \A k \in 0..(Size[id] - 1) :
               mem'[live[id].offset + k] = mem[live[id].offset + k]]_vars
    <2> SUFFICES ASSUME Inv, Inv', Streams, [Next]_vars, NEW id \in Object,
                        Readable(id), Readable(id)'
                 PROVE  \A k \in 0..(Size[id] - 1) :
                          mem'[live[id].offset + k] = mem[live[id].offset + k]
      OBVIOUS
    <2>1. Unwritten(id)
      BY StepRewrites DEF Readable, IsCommitted
    <2> QED
      BY <2>1 DEF Unwritten
  <1> QED
    BY <1>1, StreamsInvariant, PTL DEF Spec, NeverRewritten
=============================================================================
