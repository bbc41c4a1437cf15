-------------------------- MODULE ParMallocProofs --------------------------
(***************************************************************************)
(* For any threads, sizes and chunks: no byte is in two places, and the    *)
(* caches of all threads together are an allocator.                        *)
(***************************************************************************)
EXTENDS ParMalloc, FunctionTheorems, SequenceTheorems, TLAPS

-----------------------------------------------------------------------------
(***************************************************************************)
(* What the size classes compute, for every size.                          *)
(***************************************************************************)
\* A class is at least as large as every size that falls into it, so a block has
\* room for what was asked for (size_to_class, class_to_size).
THEOREM ClassHoldsSize ==
  \A size \in Nat : class_to_size(size_to_class(size)) >= size
<1> SUFFICES ASSUME NEW size \in Nat
             PROVE  class_to_size(size_to_class(size)) >= size
  OBVIOUS
<1>1. CASE size <= 1024
  <2>1. size_to_class(size) = (size + 7) \div 8  BY <1>1 DEF size_to_class
  <2>2. (size + 7) \div 8 <= 128 /\ ((size + 7) \div 8) * 8 >= size  BY <1>1
  <2> QED BY <2>1, <2>2 DEF class_to_size
<1>2. CASE size > 1024
  <2>1. size_to_class(size) = (size + 15487) \div 128  BY <1>2 DEF size_to_class
  <2>2. /\ (size + 15487) \div 128 > 128
        /\ 1024 + ((size + 15487) \div 128 - 128) * 128 >= size
    BY <1>2
  <2> QED BY <2>1, <2>2 DEF class_to_size
<1> QED BY <1>1, <1>2

\* A block goes back to the list it came from: the size of a class, which par_free
\* reads in the block's size field, falls into that class.
THEOREM ClassIsStable ==
  \A index \in Nat : size_to_class(class_to_size(index)) = index
<1> SUFFICES ASSUME NEW index \in Nat
             PROVE  size_to_class(class_to_size(index)) = index
  OBVIOUS
<1>1. CASE index <= 128
  <2>1. class_to_size(index) = index * 8  BY <1>1 DEF class_to_size
  <2>2. index * 8 <= 1024 /\ (index * 8 + 7) \div 8 = index  BY <1>1
  <2> QED BY <2>1, <2>2 DEF size_to_class
<1>2. CASE index > 128
  <2>1. class_to_size(index) = 1024 + (index - 128) * 128  BY <1>2 DEF class_to_size
  <2>2. /\ 1024 + (index - 128) * 128 > 1024
        /\ (1024 + (index - 128) * 128 + 15487) \div 128 = index
    BY <1>2
  <2> QED BY <2>1, <2>2 DEF size_to_class
<1> QED BY <1>1, <1>2

\* par_realloc returns the block as it is when the new size equals the size field,
\* which counts the field itself.  Doubling a vector of more than one word never
\* gets there.
THEOREM DoublingIsNoticed ==
  \A cap \in Nat \ {0, 1} :
    class_to_size(size_to_class(8 * cap + 8)) # 2 * (8 * cap)
<1> SUFFICES ASSUME NEW cap \in Nat, cap > 1
             PROVE  class_to_size(size_to_class(8 * cap + 8)) # 2 * (8 * cap)
  OBVIOUS
<1>1. CASE cap <= 127
  <2>1. size_to_class(8 * cap + 8) = (8 * cap + 15) \div 8  BY <1>1 DEF size_to_class
  <2>2. (8 * cap + 15) \div 8 = cap + 1  OBVIOUS
  <2> QED BY <1>1, <2>1, <2>2 DEF class_to_size
<1>2. CASE cap > 127
  <2>1. size_to_class(8 * cap + 8) = (8 * cap + 15495) \div 128  BY <1>2 DEF size_to_class
  <2>2. /\ (8 * cap + 15495) \div 128 > 128
        /\ 1024 + ((8 * cap + 15495) \div 128 - 128) * 128 < 2 * (8 * cap)
    BY <1>2
  <2> QED BY <2>1, <2>2 DEF class_to_size
<1> QED BY <1>1, <1>2

\* A new master chunk has room for a piece of every class that the table of caches has,
\* and some bytes more, in which *masterChunk goes on counting (getClassChunkSize of
\* hw11-1 and of hw11, CHUNK_SIZE * 4).
THEOREM PieceFits ==
  \A index \in 1 .. 376 :
    /\ getClassChunkSize(class_to_size(index)) < 4 * 65536
    /\ getClassChunkSize_11(class_to_size(index)) < 4 * 65536
<1> SUFFICES ASSUME NEW index \in 1 .. 376
             PROVE  /\ getClassChunkSize(class_to_size(index)) < 4 * 65536
                    /\ getClassChunkSize_11(class_to_size(index)) < 4 * 65536
  OBVIOUS
<1>1. class_to_size(index) \in Nat /\ class_to_size(index) <= 32896
  BY DEF class_to_size
<1>2. ASSUME NEW n \in Nat, n <= 32896
      PROVE  getClassChunkSize(n) <= 65536
  <2>1. CASE n <= 64                BY <2>1 DEF getClassChunkSize
  <2>2. CASE n > 64 /\ n <= 128     BY <2>2 DEF getClassChunkSize
  <2>3. CASE n > 128 /\ n <= 1024   BY <2>3 DEF getClassChunkSize
  <2>4. CASE n > 1024 /\ n <= 4096  BY <2>4 DEF getClassChunkSize
  <2>5. CASE n > 4096               BY <1>2, <2>5 DEF getClassChunkSize
  <2> QED BY <2>1, <2>2, <2>3, <2>4, <2>5
<1>3. ASSUME NEW n \in Nat, n <= 32896
      PROVE  getClassChunkSize_11(n) <= 65536
  <2>1. CASE n <= 24  BY <2>1 DEF getClassChunkSize_11
  <2>2. CASE n > 24   BY <1>2, <1>3, <2>2 DEF getClassChunkSize_11
  <2> QED BY <2>1, <2>2
<1> DEFINE size == class_to_size(index)
<1>4. getClassChunkSize(size) <= 65536 /\ getClassChunkSize_11(size) <= 65536
  BY <1>1, <1>2, <1>3
<1>5. getClassChunkSize(size) \in Int /\ getClassChunkSize_11(size) \in Int
  BY <1>1 DEF getClassChunkSize, getClassChunkSize_11
<1> QED BY <1>4, <1>5

-----------------------------------------------------------------------------
(***************************************************************************)
(* Who has which bytes.  A spot is a place in which bytes can be, with a   *)
(* name of its own: a position of a cache, a block that was taken, a piece *)
(* that is being cut up, what is left of the master chunk, and a slot that *)
(* is not mapped.                                                          *)
(***************************************************************************)
CacheSpot(t, k, i) == <<"cache", t, k, i>>
LiveSpot(at)       == <<"live", at, 0, 0>>
PieceSpot(t)       == <<"piece", t, 0, 0>>
MasterSpot         == <<"master", 0, 0, 0>>
SlotSpot(s)        == <<"slot", s, 0, 0>>

ListSpots(t, k) == {CacheSpot(t, k, i) : i \in DOMAIN cache[t][k]}
CacheSpots == UNION {ListSpots(t, k) : t \in Threads, k \in Klasses}
LiveSpots  == {LiveSpot(at) : at \in DOMAIN live}
PieceSpots == {PieceSpot(t) : t \in {u \in Threads : pc[u] = "set_up"}}
SlotSpots  == {SlotSpot(s) : s \in Slots \ used}

Spots == CacheSpots \cup LiveSpots \cup PieceSpots \cup {MasterSpot} \cup SlotSpots

At(x) ==
  CASE x[1] = "cache"  -> cache[x[2]][x[3]][x[4]]
    [] x[1] = "live"   -> x[2]
    [] x[1] = "piece"  -> ptr[x[2]]
    [] x[1] = "master" -> master.at
    [] x[1] = "slot"   -> x[2] * CHUNK_SIZE

Size(x) ==
  CASE x[1] = "cache"  -> class_to_size(x[3])
    [] x[1] = "live"   -> live[x[2]]
    [] x[1] = "piece"  -> NewSize(x[2])
    [] x[1] = "master" -> master.left
    [] x[1] = "slot"   -> CHUNK_SIZE

\* The m bytes at a and the n bytes at b.
Clear(a, m, b, n) == a + m <= b \/ b + n <= a

SpotsApart ==
  \A x, y \in Spots : x # y => Clear(At(x), Size(x), At(y), Size(y))

-----------------------------------------------------------------------------
(***************************************************************************)
(* The inductive invariant.                                                *)
(***************************************************************************)
Labels == {"out", "init", "lookup", "set_up", "return"}
Blocks == [at : Nat, len : Requests]

PTypeOK ==
  /\ used \subseteq Slots
  /\ master \in [at : Nat \cup {Nothing}, left : Nat]
  /\ cache \in [Threads -> [Klasses -> Seq(Nat)]]
  /\ DOMAIN live \subseteq Nat /\ live = [at \in DOMAIN live |-> live[at]]
  /\ \A at \in DOMAIN live : \E k \in Klasses : live[at] = class_to_size(k)
  /\ held = [b \in DOMAIN held |-> 1] /\ DOMAIN held \subseteq Blocks
  /\ pc \in [Threads -> Labels]
  /\ req \in [Threads -> [size : Requests \cup {0}, prev : Blocks \cup {NoBlock}]]
  /\ ptr \in [Threads -> Nat \cup {Nothing}]

\* Where each thread is in par_malloc: a list is refilled when it is empty, and the block
\* that is about to be returned is nobody else's.
Works(t) ==
  /\ pc[t] = "out" => req[t].prev = NoBlock
  /\ pc[t] # "out" => req[t].size \in Requests
  /\ pc[t] = "set_up" => mine(t) = <<>> /\ ptr[t] \in Nat
  /\ pc[t] = "return" =>
       /\ ptr[t] \in DOMAIN live /\ live[ptr[t]] = klassSize(req[t].size)
       /\ \A b \in DOMAIN held : b.at # ptr[t] + HEADER
       /\ \A u \in Threads : pc[u] = "return" /\ ptr[u] = ptr[t] => u = t

Working == \A t \in Threads : Works(t)

\* A client's block has its size field in front of it, and to itself.
Headers ==
  \A b \in DOMAIN held :
    /\ b.at - HEADER \in DOMAIN live /\ live[b.at - HEADER] = klassSize(b.len)
    /\ \A c \in DOMAIN held : c.at = b.at => c = b

\* A block that is being doubled stays its client's, and no other thread doubles it.
Exchanges ==
  \A t \in Threads :
    req[t].prev # NoBlock =>
      /\ req[t].prev \in DOMAIN held
      /\ \A u \in Threads : req[u].prev = req[t].prev => u = t

\* What is left of the master chunk, with the slot it is in.
MasterPlace ==
  IF master.at = Nothing THEN master.left = 0
  ELSE /\ master.left > 0
       /\ \E s \in used : /\ s * CHUNK_SIZE <= master.at
                          /\ master.at + master.left = (s + 1) * CHUNK_SIZE

PInv == PTypeOK /\ Working /\ Headers /\ Exchanges /\ MasterPlace /\ SpotsApart

-----------------------------------------------------------------------------
(***************************************************************************)
(* The sizes.                                                              *)
(***************************************************************************)
LEMMA Constants ==
  /\ Sizes \subseteq {8 * cap : cap \in 2 .. MAX_SIZE \div 8}
  /\ MAX_SIZE \in Nat /\ MAX_SIZE <= 32760
  /\ CHUNK_SIZE \in Nat /\ Slots \subseteq Nat
  /\ HEADER = 8
BY ParMallocAssumption DEF class_to_size, HEADER

\* What may be asked for is a vector of longs with room for more than one, and doubling it
\* gives another or too large a request.
LEMMA RequestFacts ==
  ASSUME NEW r \in Requests
  PROVE  /\ r \in 1 .. MAX_SIZE /\ r \in Nat
         /\ \E cap \in Nat \ {0, 1} : r = 8 * cap
         /\ 2 * r <= MAX_SIZE => 2 * r \in Requests
<1>1. r \in 1 .. MAX_SIZE
  BY DEF Requests
<1>2. PICK s \in Sizes, m \in Powers : r = s * m
  BY DEF Requests
<1>3. PICK cap \in 2 .. MAX_SIZE \div 8 : s = 8 * cap
  BY <1>2, Constants
<1>4. m \in Nat /\ m >= 1 /\ m <= 4096
  BY DEF Powers
<1>5. cap \in Nat /\ cap >= 2 /\ s \in Nat /\ s >= 16
  BY <1>3, Constants
<1>6. cap * m \in Nat /\ cap * m >= 2 /\ r = 8 * (cap * m)
  BY <1>2, <1>3, <1>4, <1>5
<1>7. ASSUME 2 * r <= MAX_SIZE PROVE 2 * r \in Requests
  <2>1. 2 * m <= 4096
    <3>1. m > 2048 => s * m > 16444
      BY <1>4, <1>5
    <3>2. 2 * (s * m) <= 32760
      BY <1>2, <1>7, Constants
    <3>3. s * m \in Nat
      BY <1>4, <1>5
    <3> QED BY <1>4, <3>1, <3>2, <3>3
  <2>2. 2 * m \in Powers
    BY <2>1 DEF Powers
  <2>3. 2 * r = s * (2 * m)
    BY <1>2, <1>4, <1>5
  <2>4. 2 * r \in 1 .. MAX_SIZE
    BY <1>1, <1>7, Constants
  <2> QED BY <2>2, <2>3, <2>4 DEF Requests
<1> QED BY <1>1, <1>6, <1>7, Constants

\* The block of a request's class has room for it and for the size field, is cut from a
\* piece that fits into a chunk, and returns to its class, which cacheList has an entry for.
LEMMA ClassFacts ==
  ASSUME NEW r \in Requests
  PROVE  /\ klass(r) \in Klasses /\ klass(r) \in 1 .. 376
         /\ klassSize(r) \in Nat /\ klassSize(r) >= r + HEADER
         /\ getClassChunkSize(klassSize(r)) \in Nat
         /\ 0 < getClassChunkSize(klassSize(r))
         /\ getClassChunkSize(klassSize(r)) < CHUNK_SIZE
<1>1. klass(r) \in Klasses
  BY DEF Klasses
<1>2. r \in Nat /\ r \in 1 .. MAX_SIZE
  BY RequestFacts
<1>entry. klass(r) \in 1 .. 376
  <2>1. r >= 1 /\ r + 8 <= 32768
    BY <1>2, Constants
  <2>2. size_to_class(r + 8) \in 1 .. 376
    BY <1>2, <2>1 DEF size_to_class
  <2> QED BY <2>2, Constants DEF klass
<1>3. klassSize(r) >= r + HEADER
  BY <1>2, Constants, ClassHoldsSize DEF klassSize, klass
<1>4. klassSize(r) \in Nat
  <2>1. size_to_class(r + 8) \in Nat
    BY <1>2 DEF size_to_class
  <2> QED BY <2>1, Constants DEF klassSize, klass, class_to_size
<1>5. getClassChunkSize(klassSize(r)) < CHUNK_SIZE
  BY <1>2, ParMallocAssumption DEF klassSize, klass, HEADER
<1>6. \A n \in Nat \ {0} : getClassChunkSize(n) \in Nat /\ 0 < getClassChunkSize(n)
  BY DEF getClassChunkSize
<1>7. klassSize(r) # 0
  BY <1>2, <1>3, <1>4, Constants
<1> QED BY <1>1, <1>3, <1>4, <1>5, <1>6, <1>7, <1>entry

LEMMA KlassFacts ==
  ASSUME NEW k \in Klasses
  PROVE  /\ k \in Nat /\ class_to_size(k) \in Nat /\ class_to_size(k) > 0
         /\ size_to_class(class_to_size(k)) = k
<1>1. PICK r \in Requests : k = klass(r)
  BY DEF Klasses
<1>2. k \in Nat
  BY <1>1, RequestFacts, Constants DEF klass, size_to_class
<1>3. class_to_size(k) \in Nat /\ class_to_size(k) > 0
  BY <1>1, ClassFacts, RequestFacts, Constants DEF klassSize
<1> QED BY <1>2, <1>3, ClassIsStable

-----------------------------------------------------------------------------
(***************************************************************************)
(* Spots.                                                                  *)
(***************************************************************************)
SpotFacts ==
  /\ \A x : x \in Spots <=> \/ \E t \in Threads, k \in Klasses : \E i \in DOMAIN cache[t][k] : x = CacheSpot(t, k, i)
                            \/ \E at \in DOMAIN live : x = LiveSpot(at)
                            \/ \E t \in Threads : pc[t] = "set_up" /\ x = PieceSpot(t)
                            \/ x = MasterSpot
                            \/ \E s \in Slots \ used : x = SlotSpot(s)
  /\ \A t, k, i : At(CacheSpot(t, k, i)) = cache[t][k][i] /\ Size(CacheSpot(t, k, i)) = class_to_size(k)
  /\ \A at : At(LiveSpot(at)) = at /\ Size(LiveSpot(at)) = live[at]
  /\ \A t : At(PieceSpot(t)) = ptr[t] /\ Size(PieceSpot(t)) = NewSize(t)
  /\ At(MasterSpot) = master.at /\ Size(MasterSpot) = master.left
  /\ \A s : At(SlotSpot(s)) = s * CHUNK_SIZE /\ Size(SlotSpot(s)) = CHUNK_SIZE

LEMMA SpotKinds == SpotFacts
<1>1. \A x : x \in CacheSpots
             <=> \E t \in Threads, k \in Klasses : \E i \in DOMAIN cache[t][k] : x = CacheSpot(t, k, i)
  <2>1. \A x : x \in CacheSpots <=> \E t \in Threads, k \in Klasses : x \in ListSpots(t, k)
    BY DEF CacheSpots
  <2> QED BY <2>1 DEF ListSpots
<1>2. \A x : x \in LiveSpots <=> \E at \in DOMAIN live : x = LiveSpot(at)
  BY DEF LiveSpots
<1>3. \A x : x \in PieceSpots <=> \E t \in Threads : pc[t] = "set_up" /\ x = PieceSpot(t)
  BY DEF PieceSpots
<1>4. \A x : x \in SlotSpots <=> \E s \in Slots \ used : x = SlotSpot(s)
  BY DEF SlotSpots
<1>5. \A t, k, i : At(CacheSpot(t, k, i)) = cache[t][k][i] /\ Size(CacheSpot(t, k, i)) = class_to_size(k)
  BY DEF At, Size, CacheSpot
<1>6. \A at : At(LiveSpot(at)) = at /\ Size(LiveSpot(at)) = live[at]
  BY DEF At, Size, LiveSpot
<1>7. \A t : At(PieceSpot(t)) = ptr[t] /\ Size(PieceSpot(t)) = NewSize(t)
  BY DEF At, Size, PieceSpot
<1>8. At(MasterSpot) = master.at /\ Size(MasterSpot) = master.left
  BY DEF At, Size, MasterSpot
<1>9. \A s : At(SlotSpot(s)) = s * CHUNK_SIZE /\ Size(SlotSpot(s)) = CHUNK_SIZE
  BY DEF At, Size, SlotSpot
<1> QED BY <1>1, <1>2, <1>3, <1>4, <1>5, <1>6, <1>7, <1>8, <1>9 DEF Spots, SpotFacts

\* The same of the next state.
LEMMA NextSpotKinds == SpotFacts'
BY SpotKinds, PTL

\* Where a spot is, is a number.
SpotsTyped == \A x \in Spots : At(x) \in Int /\ Size(x) \in Nat

LEMMA Typed == PTypeOK /\ Working => SpotsTyped
<1> SUFFICES ASSUME PTypeOK, Working, NEW x \in Spots PROVE At(x) \in Int /\ Size(x) \in Nat
  BY DEF SpotsTyped
<1>1. ASSUME NEW t \in Threads, NEW k \in Klasses, NEW i \in DOMAIN cache[t][k], x = CacheSpot(t, k, i)
      PROVE  At(x) \in Int /\ Size(x) \in Nat
  <2>1. At(x) = cache[t][k][i] /\ Size(x) = class_to_size(k)
    BY <1>1, SpotKinds DEF SpotFacts
  <2>2. cache[t][k] \in Seq(Nat)
    BY DEF PTypeOK
  <2>3. cache[t][k][i] \in Nat
    BY <1>1, <2>2
  <2> QED BY <2>1, <2>3, KlassFacts
<1>2. ASSUME NEW at \in DOMAIN live, x = LiveSpot(at)
      PROVE  At(x) \in Int /\ Size(x) \in Nat
  <2>1. At(x) = at /\ Size(x) = live[at]
    BY <1>2, SpotKinds DEF SpotFacts
  <2>2. PICK k \in Klasses : live[at] = class_to_size(k)
    BY DEF PTypeOK
  <2> QED BY <2>1, <2>2, KlassFacts DEF PTypeOK
<1>3. ASSUME NEW t \in Threads, pc[t] = "set_up", x = PieceSpot(t)
      PROVE  At(x) \in Int /\ Size(x) \in Nat
  <2>1. At(x) = ptr[t] /\ Size(x) = NewSize(t)
    BY <1>3, SpotKinds DEF SpotFacts
  <2>2. ptr[t] \in Nat /\ req[t].size \in Requests
    BY <1>3 DEF Working, Works
  <2> QED BY <2>1, <2>2, ClassFacts DEF NewSize
<1>4. CASE x = MasterSpot
  <2>1. master.at \in Nat \cup {Nothing} /\ master.left \in Nat
    BY DEF PTypeOK
  <2> QED BY <1>4, <2>1, SpotKinds DEF SpotFacts, Nothing
<1>5. ASSUME NEW s \in Slots \ used, x = SlotSpot(s)
      PROVE  At(x) \in Int /\ Size(x) \in Nat
  <2>1. At(x) = s * CHUNK_SIZE /\ Size(x) = CHUNK_SIZE
    BY <1>5, SpotKinds DEF SpotFacts
  <2>2. s \in Nat /\ CHUNK_SIZE \in Nat
    BY Constants
  <2> QED BY <2>1, <2>2
<1> QED BY <1>1, <1>2, <1>3, <1>4, <1>5, SpotKinds DEF SpotFacts

\* Bytes within clear bytes are clear.
LEMMA Inside ==
  \A a, m, b, n, c, k, d, l \in Int :
    Clear(c, k, d, l) /\ c <= a /\ a + m <= c + k /\ d <= b /\ b + n <= d + l => Clear(a, m, b, n)
BY DEF Clear

\* If every spot is within one of before, and two within the same one are clear of each
\* other, the spots stay apart.
LEMMA Carved ==
  ASSUME SpotsTyped, SpotsTyped', SpotsApart, NEW f,
         \A x \in Spots' : /\ f[x] \in Spots
                           /\ At(f[x]) <= At(x)'
                           /\ At(x)' + Size(x)' <= At(f[x]) + Size(f[x]),
         \A x, y \in Spots' : x # y /\ f[x] = f[y] => Clear(At(x)', Size(x)', At(y)', Size(y)')
  PROVE  SpotsApart'
<1> SUFFICES ASSUME NEW x \in Spots', NEW y \in Spots', x # y
             PROVE  Clear(At(x)', Size(x)', At(y)', Size(y)')
  BY DEF SpotsApart, Clear
<1>1. CASE f[x] # f[y]
  <2>1. Clear(At(f[x]), Size(f[x]), At(f[y]), Size(f[y]))
    BY <1>1 DEF SpotsApart
  <2>2. /\ At(f[x]) \in Int /\ Size(f[x]) \in Int /\ At(f[y]) \in Int /\ Size(f[y]) \in Int
        /\ At(x)' \in Int /\ Size(x)' \in Int /\ At(y)' \in Int /\ Size(y)' \in Int
    BY DEF SpotsTyped
  <2> QED BY <2>1, <2>2, Inside
<1> QED BY <1>1

\* A step that leaves the spots where they are.
LEMMA SameSpots ==
  ASSUME SpotsTyped, SpotsApart, UNCHANGED <<used, master, cache, live, ptr>>,
         \A t \in Threads : pc'[t] = "set_up" => pc[t] = "set_up" /\ req'[t].size = req[t].size
  PROVE  SpotsApart'
<1>1. ASSUME NEW x \in Spots' PROVE x \in Spots /\ At(x)' = At(x) /\ Size(x)' = Size(x)
  <2>1. ASSUME NEW t \in Threads, pc'[t] = "set_up", x = PieceSpot(t)
        PROVE  x \in Spots /\ At(x)' = At(x) /\ Size(x)' = Size(x)
    <3>1. NewSize(t)' = NewSize(t)
      BY <2>1 DEF NewSize
    <3> QED BY <2>1, <3>1, SpotKinds, NextSpotKinds DEF SpotFacts
  <2>2. CASE ~ \E t \in Threads : pc'[t] = "set_up" /\ x = PieceSpot(t)
    BY <2>2, SpotKinds, NextSpotKinds DEF SpotFacts
  <2> QED BY <2>1, <2>2
<1> QED BY <1>1 DEF SpotsApart, Clear

-----------------------------------------------------------------------------
(***************************************************************************)
(* Each step keeps the invariant.                                          *)
(***************************************************************************)
\* A client holds a block once.
LEMMA BagFacts ==
  ASSUME NEW B, B = [e \in DOMAIN B |-> 1], NEW x
  PROVE  /\ x \notin DOMAIN B => BagAdd(B, x) = [e \in DOMAIN B \cup {x} |-> 1]
         /\ x \in DOMAIN B => BagRemove(B, x) = [e \in DOMAIN B \ {x} |-> 1]
         /\ BagToSet(B) = DOMAIN B
<1>1. ASSUME x \notin DOMAIN B PROVE BagAdd(B, x) = [e \in DOMAIN B \cup {x} |-> 1]
  BY <1>1 DEF BagAdd
<1>2. ASSUME x \in DOMAIN B PROVE BagRemove(B, x) = [e \in DOMAIN B \ {x} |-> 1]
  <2>1. B[x] = 1
    BY <1>2
  <2> QED BY <1>2, <2>1 DEF BagRemove
<1> QED BY <1>1, <1>2 DEF BagToSet

LEMMA Parts ==
  /\ PInv => PTypeOK /\ Working /\ Headers /\ Exchanges /\ MasterPlace /\ SpotsApart /\ SpotsTyped
  /\ PTypeOK' /\ Working' => SpotsTyped'
<1>1. PTypeOK /\ Working => SpotsTyped
  BY Typed
<1>2. PTypeOK' /\ Working' => SpotsTyped'
  BY Typed, PTL
<1> QED BY <1>1, <1>2 DEF PInv

\* A thread's step as the others see it.
LEMMA OthersWork ==
  ASSUME Working, NEW t \in Threads,
         \A u \in Threads \ {t} : pc'[u] = pc[u] /\ req'[u] = req[u] /\ ptr'[u] = ptr[u]
                                  /\ cache'[u] = cache[u],
         \A u \in Threads \ {t} : pc[u] = "return" =>
           /\ ptr[u] \in DOMAIN live' /\ live'[ptr[u]] = live[ptr[u]]
           /\ \A b \in DOMAIN held' : b.at # ptr[u] + HEADER
           /\ pc'[t] = "return" => ptr[u] # ptr'[t]
  PROVE  \A u \in Threads \ {t} : Works(u)'
<1> SUFFICES ASSUME NEW u \in Threads \ {t} PROVE Works(u)'
  OBVIOUS
<1>1. Works(u) /\ pc'[u] = pc[u] /\ req'[u] = req[u] /\ ptr'[u] = ptr[u]
  BY DEF Working
<1>2. mine(u)' = mine(u)
  BY DEF mine
<1>3. pc[u] = "return" => \A v \in Threads : pc'[v] = "return" /\ ptr'[v] = ptr'[u] => v = u
  <2> SUFFICES ASSUME pc[u] = "return", NEW v \in Threads, pc'[v] = "return", ptr'[v] = ptr'[u]
               PROVE  v = u
    OBVIOUS
  <2>1. CASE v = t
    BY <1>1, <2>1
  <2>2. CASE v # t
    BY <1>1, <2>2 DEF Works
  <2> QED BY <2>1, <2>2
<1> QED BY <1>1, <1>2, <1>3 DEF Works

LEMMA xmallocKeeps == ASSUME PInv, NEW t \in Threads, NEW size \in Sizes, xmalloc(t, size) PROVE PInv'
<1>1. /\ pc[t] = "out" /\ pc' = [pc EXCEPT ![t] = "init"]
      /\ req' = [req EXCEPT ![t] = [size |-> size, prev |-> NoBlock]]
      /\ UNCHANGED <<used, master, cache, live, held, ptr>>
  BY DEF xmalloc, Goto
<1>2. size \in Requests
  <2>1. PICK cap \in 2 .. MAX_SIZE \div 8 : size = 8 * cap
    BY Constants
  <2>2. cap \in Nat /\ cap >= 2 /\ 8 * cap <= MAX_SIZE
    BY <2>1, Constants
  <2>3. size \in 1 .. MAX_SIZE /\ 1 \in Powers /\ size = size * 1
    BY <2>1, <2>2, Constants DEF Powers
  <2> QED BY <2>3 DEF Requests
<1>3. /\ pc'[t] = "init" /\ req'[t].size = size /\ req'[t].prev = NoBlock
      /\ \A u \in Threads \ {t} : pc'[u] = pc[u] /\ req'[u] = req[u]
  BY <1>1, Parts DEF PTypeOK
<1>4. PTypeOK'
  <2>1. [size |-> size, prev |-> NoBlock] \in [size : Requests \cup {0}, prev : Blocks \cup {NoBlock}]
    BY <1>2
  <2>2. pc' \in [Threads -> Labels]
    BY <1>1, Parts DEF PTypeOK, Labels
  <2>3. req' \in [Threads -> [size : Requests \cup {0}, prev : Blocks \cup {NoBlock}]]
    BY <1>1, <2>1, Parts DEF PTypeOK
  <2> QED BY <1>1, <2>2, <2>3, Parts DEF PTypeOK
<1>5. Working'
  <2>1. \A u \in Threads \ {t} : Works(u)'
    <3>1. \A u \in Threads \ {t} : pc[u] = "return" =>
            ptr[u] \in DOMAIN live /\ \A b \in DOMAIN held : b.at # ptr[u] + HEADER
      BY Parts DEF Working, Works
    <3> QED BY <1>1, <1>3, <3>1, Parts, OthersWork
  <2>2. Works(t)'
    BY <1>2, <1>3 DEF Works
  <2> QED BY <2>1, <2>2 DEF Working
<1>6. Headers' /\ MasterPlace'
  BY <1>1, Parts DEF Headers, MasterPlace
<1>7. Exchanges'
  BY <1>1, <1>3, Parts DEF Exchanges
<1>8. SpotsApart'
  <2>1. \A u \in Threads : pc'[u] = "set_up" => pc[u] = "set_up" /\ req'[u].size = req[u].size
    BY <1>3
  <2> QED BY <1>1, <2>1, Parts, SameSpots
<1> QED BY <1>4, <1>5, <1>6, <1>7, <1>8 DEF PInv

\* The test of par_realloc for a block that is large enough already never succeeds.
LEMMA xreallocKeeps ==
  ASSUME PInv, NEW t \in Threads, NEW b \in BagToSet(held), xrealloc(t, b)
  PROVE  PInv' /\ held' = held
<1> DEFINE bytes == 2 * b.len
<1>1. b \in DOMAIN held /\ b \in Blocks
  BY Parts, BagFacts DEF PTypeOK
<1>2. b.len \in Requests /\ bytes \in Nat
  <2>1. b.len \in Requests
    BY <1>1 DEF Blocks
  <2> QED BY <2>1, RequestFacts
<1>3. /\ pc[t] = "out" /\ bytes <= MAX_SIZE
      /\ \A u \in Threads : req[u].prev # b
  BY DEF xrealloc
<1>4. bytes \in Requests
  BY <1>2, <1>3, RequestFacts
<1>5. live[b.at - HEADER] # bytes
  <2>1. live[b.at - HEADER] = klassSize(b.len)
    BY <1>1, Parts DEF Headers
  <2>2. PICK cap \in Nat \ {0, 1} : b.len = 8 * cap
    BY <1>2, RequestFacts
  <2>3. klassSize(b.len) # 2 * (8 * cap)
    BY <2>2, DoublingIsNoticed DEF klassSize, klass, HEADER
  <2> QED BY <2>1, <2>2, <2>3
<1>6. /\ req' = [req EXCEPT ![t] = [size |-> bytes, prev |-> b]]
      /\ pc' = [pc EXCEPT ![t] = "init"]
      /\ UNCHANGED <<used, master, cache, live, held, ptr>>
  BY <1>5 DEF xrealloc, Goto
<1> HIDE DEF bytes
<1>7. /\ pc'[t] = "init" /\ req'[t].size = bytes /\ req'[t].prev = b
      /\ \A u \in Threads \ {t} : pc'[u] = pc[u] /\ req'[u] = req[u]
  BY <1>6, Parts DEF PTypeOK
<1>8. PTypeOK'
  <2>1. [size |-> bytes, prev |-> b] \in [size : Requests \cup {0}, prev : Blocks \cup {NoBlock}]
    BY <1>1, <1>4
  <2>2. pc' \in [Threads -> Labels]
    BY <1>6, Parts DEF PTypeOK, Labels
  <2>3. req' \in [Threads -> [size : Requests \cup {0}, prev : Blocks \cup {NoBlock}]]
    BY <1>6, <2>1, Parts DEF PTypeOK
  <2> QED BY <1>6, <2>2, <2>3, Parts DEF PTypeOK
<1>9. Working'
  <2>1. \A u \in Threads \ {t} : Works(u)'
    <3>1. \A u \in Threads \ {t} : pc[u] = "return" =>
            ptr[u] \in DOMAIN live /\ \A c \in DOMAIN held : c.at # ptr[u] + HEADER
      BY Parts DEF Working, Works
    <3> QED BY <1>6, <1>7, <3>1, Parts, OthersWork
  <2>2. Works(t)'
    BY <1>4, <1>7 DEF Works
  <2> QED BY <2>1, <2>2 DEF Working
<1>10. Headers' /\ MasterPlace'
  BY <1>6, Parts DEF Headers, MasterPlace
<1>11. Exchanges'
  <2> SUFFICES ASSUME NEW u \in Threads, req'[u].prev # NoBlock
               PROVE  /\ req'[u].prev \in DOMAIN held'
                      /\ \A v \in Threads : req'[v].prev = req'[u].prev => v = u
    BY DEF Exchanges
  <2>1. held' = held
    BY <1>6
  <2>2. CASE u = t
    BY <1>1, <1>3, <1>7, <2>1, <2>2
  <2>3. CASE u # t
    <3>1. /\ req'[u].prev = req[u].prev /\ req[u].prev # b /\ req[u].prev \in DOMAIN held
          /\ \A v \in Threads : req[v].prev = req[u].prev => v = u
      BY <1>3, <1>7, <2>3, Parts DEF Exchanges
    <3> QED BY <1>7, <2>1, <2>3, <3>1
  <2> QED BY <2>2, <2>3
<1>12. SpotsApart'
  <2>1. \A u \in Threads : pc'[u] = "set_up" => pc[u] = "set_up" /\ req'[u].size = req[u].size
    BY <1>7
  <2> QED BY <1>6, <2>1, Parts, SameSpots
<1> QED BY <1>6, <1>8, <1>9, <1>10, <1>11, <1>12 DEF PInv

LEMMA xfreeKeeps ==
  ASSUME PInv, NEW t \in Threads, NEW b \in BagToSet(held), xfree(t, b)
  PROVE  PInv'
<1>1. /\ \A u \in Threads : req[u].prev # b
      /\ held' = BagRemove(held, b)
      /\ UNCHANGED <<used, master, cache, live, pc, req, ptr>>
  BY DEF xfree
<1>2. held = [e \in DOMAIN held |-> 1]
  BY Parts DEF PTypeOK
<1>3. held' = [e \in DOMAIN held \ {b} |-> 1] /\ DOMAIN held' = DOMAIN held \ {b}
  <2>1. b \in DOMAIN held
    BY <1>2, BagFacts
  <2>2. held' = [e \in DOMAIN held \ {b} |-> 1]
    BY <1>1, <1>2, <2>1, BagFacts
  <2> QED BY <2>2
<1>4. PTypeOK'
  <2>1. held' = [e \in DOMAIN held' |-> 1]
    BY <1>3
  <2>2. DOMAIN held' \subseteq Blocks
    BY <1>3, Parts DEF PTypeOK
  <2> QED BY <1>1, <2>1, <2>2, Parts DEF PTypeOK
<1>5. Working'
  <2> SUFFICES ASSUME NEW u \in Threads PROVE Works(u)'
    BY DEF Working
  <2>1. Works(u) /\ mine(u)' = mine(u)
    BY <1>1, Parts DEF Working, mine
  <2> QED BY <1>1, <1>3, <2>1 DEF Works
<1>6. Headers' /\ MasterPlace'
  BY <1>1, <1>3, Parts DEF Headers, MasterPlace
<1>7. Exchanges'
  BY <1>1, <1>3, Parts DEF Exchanges
<1>8. SpotsApart'
  BY <1>1, Parts, SameSpots
<1> QED BY <1>4, <1>5, <1>6, <1>7, <1>8 DEF PInv

\* The first critical section may map a chunk: the slot becomes the master chunk.
LEMMA InitMasterKeeps == ASSUME PInv, NEW t \in Threads, InitMaster(t) PROVE PInv'
<1>1. /\ pc[t] = "init" /\ pc' = [pc EXCEPT ![t] = "lookup"]
      /\ UNCHANGED <<cache, live, held, req, ptr>>
  BY DEF InitMaster, Goto
<1>2. \/ \E s \in Slots \ used : used' = used \cup {s} /\ master' = Chunk(s)
      \/ used' = used /\ master' = master
  BY DEF InitMaster
<1>3. /\ pc'[t] = "lookup" /\ \A u \in Threads \ {t} : pc'[u] = pc[u]
  BY <1>1, Parts DEF PTypeOK
<1>4. PTypeOK' /\ MasterPlace'
  <2>1. pc' \in [Threads -> Labels]
    BY <1>1, Parts DEF PTypeOK, Labels
  <2>2. CASE used' = used /\ master' = master
    BY <1>1, <2>1, <2>2, Parts DEF PTypeOK, MasterPlace
  <2>3. ASSUME NEW s \in Slots \ used, used' = used \cup {s}, master' = Chunk(s)
        PROVE  PTypeOK' /\ MasterPlace'
    <3>1. s \in Nat /\ CHUNK_SIZE \in Nat /\ s * CHUNK_SIZE \in Nat
          /\ s * CHUNK_SIZE + CHUNK_SIZE = (s + 1) * CHUNK_SIZE
      BY Constants
    <3>2. master' = [at |-> s * CHUNK_SIZE, left |-> CHUNK_SIZE] /\ s \in used' /\ used' \subseteq Slots
      BY <2>3, Parts DEF Chunk, PTypeOK
    <3>3. CHUNK_SIZE > 0
      <4>1. req[t].size \in Requests
        BY <1>1, Parts DEF Working, Works
      <4> QED BY <3>1, <4>1, ClassFacts
    <3>4. PTypeOK'
      BY <1>1, <2>1, <3>1, <3>2, Parts DEF PTypeOK
    <3>5. MasterPlace'
      BY <3>1, <3>2, <3>3 DEF MasterPlace, Nothing
    <3> QED BY <3>4, <3>5
  <2> QED BY <1>2, <2>2, <2>3
<1>5. Working'
  <2>1. \A u \in Threads \ {t} : Works(u)'
    <3>1. \A u \in Threads \ {t} : pc[u] = "return" =>
            ptr[u] \in DOMAIN live /\ \A b \in DOMAIN held : b.at # ptr[u] + HEADER
      BY Parts DEF Working, Works
    <3> QED BY <1>1, <1>3, <3>1, Parts, OthersWork
  <2>2. Works(t)'
    <3>1. Works(t)
      BY Parts DEF Working
    <3> QED BY <1>1, <1>3, <3>1 DEF Works
  <2> QED BY <2>1, <2>2 DEF Working
<1>6. Headers' /\ Exchanges'
  BY <1>1, Parts DEF Headers, Exchanges
<1>7. SpotsApart'
  <2>1. \A u \in Threads : pc'[u] = "set_up" => pc[u] = "set_up" /\ req'[u].size = req[u].size
    BY <1>1, <1>3
  <2>2. CASE used' = used /\ master' = master
    BY <1>1, <2>1, <2>2, Parts, SameSpots
  <2>3. ASSUME NEW s \in Slots \ used, used' = used \cup {s}, master' = Chunk(s)
        PROVE  SpotsApart'
    <3> DEFINE f == [x \in Spots' |-> IF x = MasterSpot THEN SlotSpot(s) ELSE x]
    <3>1. SlotSpot(s) \in Spots /\ SlotSpot(s) \notin Spots' /\ SlotSpot(s) # MasterSpot
      BY <2>3, SpotKinds, NextSpotKinds
      DEF SpotFacts, SlotSpot, CacheSpot, LiveSpot, PieceSpot, MasterSpot
    <3>2. ASSUME NEW x \in Spots', x # MasterSpot
          PROVE  x \in Spots /\ At(x)' = At(x) /\ Size(x)' = Size(x)
      <4>1. ASSUME NEW u \in Threads, pc'[u] = "set_up", x = PieceSpot(u)
            PROVE  x \in Spots /\ At(x)' = At(x) /\ Size(x)' = Size(x)
        <5>1. NewSize(u)' = NewSize(u)
          BY <1>1 DEF NewSize
        <5> QED BY <1>1, <2>1, <4>1, <5>1, SpotKinds, NextSpotKinds DEF SpotFacts
      <4>2. CASE ~ \E u \in Threads : pc'[u] = "set_up" /\ x = PieceSpot(u)
        BY <1>1, <2>3, <3>2, <4>2, SpotKinds, NextSpotKinds DEF SpotFacts
      <4> QED BY <4>1, <4>2
    <3>3. At(MasterSpot)' = At(SlotSpot(s)) /\ Size(MasterSpot)' = Size(SlotSpot(s))
      BY <2>3, SpotKinds, NextSpotKinds DEF SpotFacts, Chunk
    <3>4. SpotsTyped /\ SpotsTyped' /\ SpotsApart
      BY <1>4, <1>5, Parts
    <3>5. \A x \in Spots' : /\ f[x] \in Spots
                            /\ At(f[x]) = At(x)' /\ Size(f[x]) = Size(x)'
      BY <3>1, <3>2, <3>3
    <3>6. \A x \in Spots' : At(x)' \in Int /\ Size(x)' \in Int
      BY <3>4 DEF SpotsTyped
    <3>7. \A x \in Spots' : /\ f[x] \in Spots
                            /\ At(f[x]) <= At(x)'
                            /\ At(x)' + Size(x)' <= At(f[x]) + Size(f[x])
      <4> HIDE DEF f
      <4> QED BY <3>5, <3>6
    <3>8. \A x, y \in Spots' : x # y => f[x] # f[y]
      BY <3>1
    <3> HIDE DEF f
    <3> QED BY <3>4, <3>7, <3>8, Carved
  <2> QED BY <1>2, <2>2, <2>3
<1> QED BY <1>4, <1>5, <1>6, <1>7 DEF PInv

\* A piece of the master chunk, or of a slot that becomes it: what was one spot is two.
LEMMA RefillKeeps == ASSUME PInv, NEW t \in Threads, Refill(t) PROVE PInv'
<1> DEFINE N == NewSize(t)
<1>1. /\ pc[t] = "lookup" /\ mine(t) = <<>> /\ pc' = [pc EXCEPT ![t] = "set_up"]
      /\ UNCHANGED <<cache, live, held, req>>
  BY DEF Refill, Goto
<1>2. req[t].size \in Requests
  BY <1>1, Parts DEF Working, Works
<1>3. N \in Nat /\ N > 0 /\ N < CHUNK_SIZE
  BY <1>2, ClassFacts DEF NewSize
<1>4. \E chunk, src, s :
        /\ s \in used' /\ used' \subseteq Slots /\ used \subseteq used'
        /\ src \in Spots /\ At(src) = chunk.at /\ Size(src) = chunk.left
        /\ src = MasterSpot \/ (src = SlotSpot(s) /\ s \in Slots \ used)
        /\ chunk.at \in Nat /\ chunk.left \in Nat /\ N < chunk.left
        /\ s * CHUNK_SIZE <= chunk.at /\ chunk.at + chunk.left = (s + 1) * CHUNK_SIZE
        /\ take_from(t, chunk)
  <2>1. CASE N < master.left /\ take_from(t, master) /\ UNCHANGED used
    <3>1. master.at \in Nat /\ master.left \in Nat
      <4>1. master.at \in Nat \cup {Nothing} /\ master.left \in Nat
        BY Parts DEF PTypeOK
      <4>2. master.at # Nothing
        BY <1>3, <2>1, Parts DEF MasterPlace
      <4> QED BY <4>1, <4>2
    <3>2. PICK s \in used : /\ s * CHUNK_SIZE <= master.at
                            /\ master.at + master.left = (s + 1) * CHUNK_SIZE
      BY <3>1, Parts DEF MasterPlace, Nothing
    <3>3. MasterSpot \in Spots /\ At(MasterSpot) = master.at /\ Size(MasterSpot) = master.left
      BY SpotKinds DEF SpotFacts
    <3>4. used \subseteq Slots
      BY Parts DEF PTypeOK
    <3> QED BY <2>1, <3>1, <3>2, <3>3, <3>4
  <2>2. ASSUME NEW s \in Slots \ used, used' = used \cup {s}, take_from(t, Chunk(s))
        PROVE  /\ s \in used' /\ used' \subseteq Slots /\ used \subseteq used'
               /\ SlotSpot(s) \in Spots
               /\ At(SlotSpot(s)) = Chunk(s).at /\ Size(SlotSpot(s)) = Chunk(s).left
               /\ Chunk(s).at \in Nat /\ Chunk(s).left \in Nat /\ N < Chunk(s).left
               /\ s * CHUNK_SIZE <= Chunk(s).at
               /\ Chunk(s).at + Chunk(s).left = (s + 1) * CHUNK_SIZE
    <3>1. Chunk(s).at = s * CHUNK_SIZE /\ Chunk(s).left = CHUNK_SIZE
      BY DEF Chunk
    <3>2. s \in Nat /\ CHUNK_SIZE \in Nat /\ s * CHUNK_SIZE \in Nat
          /\ s * CHUNK_SIZE + CHUNK_SIZE = (s + 1) * CHUNK_SIZE
      BY Constants
    <3>3. SlotSpot(s) \in Spots /\ At(SlotSpot(s)) = s * CHUNK_SIZE /\ Size(SlotSpot(s)) = CHUNK_SIZE
      BY SpotKinds DEF SpotFacts
    <3>4. used \subseteq Slots
      BY Parts DEF PTypeOK
    <3> QED BY <1>3, <2>2, <3>1, <3>2, <3>3, <3>4
  <2>3. \/ N < master.left /\ take_from(t, master) /\ UNCHANGED used
        \/ \E s \in Slots \ used : used' = used \cup {s} /\ take_from(t, Chunk(s))
    BY DEF Refill
  <2> QED BY <2>1, <2>2, <2>3
<1>5. PICK chunk, src, s :
        /\ s \in used' /\ used' \subseteq Slots /\ used \subseteq used'
        /\ src \in Spots /\ At(src) = chunk.at /\ Size(src) = chunk.left
        /\ src = MasterSpot \/ (src = SlotSpot(s) /\ s \in Slots \ used)
        /\ chunk.at \in Nat /\ chunk.left \in Nat /\ N < chunk.left
        /\ s * CHUNK_SIZE <= chunk.at /\ chunk.at + chunk.left = (s + 1) * CHUNK_SIZE
        /\ take_from(t, chunk)
  BY <1>4
<1>6. /\ ptr' = [ptr EXCEPT ![t] = chunk.at]
      /\ master' = [at |-> chunk.at + N, left |-> chunk.left - N]
  BY <1>5 DEF take_from
<1>7. /\ pc'[t] = "set_up" /\ ptr'[t] = chunk.at
      /\ \A u \in Threads \ {t} : pc'[u] = pc[u] /\ ptr'[u] = ptr[u]
      /\ master'.at = chunk.at + N /\ master'.left = chunk.left - N
  BY <1>1, <1>6, Parts DEF PTypeOK
<1> HIDE DEF N
<1>8. PTypeOK'
  <2>1. pc' \in [Threads -> Labels]
    BY <1>1, Parts DEF PTypeOK, Labels
  <2>2. ptr' \in [Threads -> Nat \cup {Nothing}]
    BY <1>5, <1>6, Parts DEF PTypeOK
  <2>3. chunk.at + N \in Nat /\ chunk.left - N \in Nat
    BY <1>3, <1>5
  <2>4. master' \in [at : Nat \cup {Nothing}, left : Nat]
    BY <1>6, <2>3
  <2> QED BY <1>1, <1>5, <2>1, <2>2, <2>4, Parts DEF PTypeOK
<1>9. MasterPlace'
  <2>1. chunk.at + N # Nothing /\ chunk.left - N > 0
    BY <1>3, <1>5 DEF Nothing
  <2>2. s * CHUNK_SIZE \in Int /\ (s + 1) * CHUNK_SIZE \in Int
    <3>1. s \in Nat /\ CHUNK_SIZE \in Nat
      BY <1>5, Constants
    <3> QED BY <3>1
  <2>3. /\ s * CHUNK_SIZE <= chunk.at + N
        /\ (chunk.at + N) + (chunk.left - N) = (s + 1) * CHUNK_SIZE
    BY <1>3, <1>5, <2>2
  <2> QED BY <1>5, <1>7, <2>1, <2>3 DEF MasterPlace
<1>10. Working'
  <2>1. \A u \in Threads \ {t} : Works(u)'
    <3>1. \A u \in Threads \ {t} : pc[u] = "return" =>
            ptr[u] \in DOMAIN live /\ \A b \in DOMAIN held : b.at # ptr[u] + HEADER
      BY Parts DEF Working, Works
    <3> QED BY <1>1, <1>7, <3>1, Parts, OthersWork
  <2>2. Works(t)'
    <3>1. mine(t)' = mine(t)
      BY <1>1 DEF mine
    <3> QED BY <1>1, <1>2, <1>5, <1>7, <3>1 DEF Works
  <2> QED BY <2>1, <2>2 DEF Working
<1>11. Headers' /\ Exchanges'
  BY <1>1, Parts DEF Headers, Exchanges
<1>12. SpotsApart'
  <2> DEFINE f == [x \in Spots' |-> IF x = MasterSpot \/ x = PieceSpot(t) THEN src ELSE x]
  <2>1. ASSUME NEW x \in Spots', x # MasterSpot, x # PieceSpot(t)
        PROVE  x \in Spots /\ At(x)' = At(x) /\ Size(x)' = Size(x)
    <3>1. ASSUME NEW u \in Threads, pc'[u] = "set_up", x = PieceSpot(u)
          PROVE  x \in Spots /\ At(x)' = At(x) /\ Size(x)' = Size(x)
      <4>1. NewSize(u)' = NewSize(u)
        BY <1>1 DEF NewSize
      <4>2. u # t
        BY <2>1, <3>1
      <4> QED BY <1>7, <3>1, <4>1, <4>2, SpotKinds, NextSpotKinds DEF SpotFacts
    <3>2. ASSUME NEW r \in Slots \ used', x = SlotSpot(r)
          PROVE  x \in Spots /\ At(x)' = At(x) /\ Size(x)' = Size(x)
      <4>1. r \in Slots \ used
        BY <1>5
      <4> QED BY <3>2, <4>1, SpotKinds, NextSpotKinds DEF SpotFacts
    <3>3. CASE ~ \E u \in Threads : pc'[u] = "set_up" /\ x = PieceSpot(u)
               /\ ~ \E r \in Slots \ used' : x = SlotSpot(r)
      BY <1>1, <2>1, <3>1, <3>2, <3>3, SpotKinds, NextSpotKinds DEF SpotFacts
    <3> QED BY <3>1, <3>2, <3>3
  <2>2. ASSUME NEW x \in Spots', x # MasterSpot, x # PieceSpot(t)
        PROVE  x # src
    <3>1. src = SlotSpot(s) => src \notin Spots'
      BY <1>5, NextSpotKinds
      DEF SpotFacts, SlotSpot, CacheSpot, LiveSpot, PieceSpot, MasterSpot
    <3> QED BY <1>5, <2>2, <3>1
  <2>3. /\ At(MasterSpot)' = chunk.at + N /\ Size(MasterSpot)' = chunk.left - N
        /\ At(PieceSpot(t))' = chunk.at /\ Size(PieceSpot(t))' = N
    <3>1. NewSize(t)' = N
      BY <1>1 DEF NewSize, N
    <3> QED BY <1>7, <3>1, NextSpotKinds DEF SpotFacts
  <2>4. SpotsTyped /\ SpotsTyped' /\ SpotsApart
    BY <1>8, <1>10, Parts
  <2>5. ASSUME NEW x \in Spots'
        PROVE  /\ f[x] \in Spots
               /\ At(f[x]) <= At(x)'
               /\ At(x)' + Size(x)' <= At(f[x]) + Size(f[x])
    <3>1. CASE x = MasterSpot
      <4>1. f[x] = src
        BY <3>1
      <4> HIDE DEF f
      <4> QED BY <1>3, <1>5, <2>3, <3>1, <4>1
    <3>2. CASE x = PieceSpot(t)
      <4>1. f[x] = src
        BY <3>2
      <4> HIDE DEF f
      <4> QED BY <1>3, <1>5, <2>3, <3>2, <4>1
    <3>3. CASE x # MasterSpot /\ x # PieceSpot(t)
      <4>1. f[x] = x
        BY <3>3
      <4>2. At(x)' \in Int /\ Size(x)' \in Int
        BY <2>4 DEF SpotsTyped
      <4> HIDE DEF f
      <4> QED BY <2>1, <3>3, <4>1, <4>2
    <3> QED BY <3>1, <3>2, <3>3
  <2>6. ASSUME NEW x \in Spots', NEW y \in Spots', x # y, f[x] = f[y]
        PROVE  Clear(At(x)', Size(x)', At(y)', Size(y)')
    <3>1. {x, y} = {MasterSpot, PieceSpot(t)}
      BY <2>2, <2>6
    <3>2. \/ x = MasterSpot /\ y = PieceSpot(t)
          \/ y = MasterSpot /\ x = PieceSpot(t)
      BY <2>6, <3>1
    <3>3. chunk.at + N <= chunk.at + N
      BY <1>3, <1>5
    <3> QED BY <2>3, <3>2, <3>3 DEF Clear
  <2> HIDE DEF f
  <2> QED BY <2>4, <2>5, <2>6, Carved
<1> QED BY <1>8, <1>9, <1>10, <1>11, <1>12 DEF PInv

\* Multiples of a size, as a list of blocks next to each other needs them.
LEMMA Multiples ==
  /\ \A N \in Nat, size \in Nat \ {0} :
       /\ N \div size \in Nat
       /\ \A k \in 1 .. N \div size : k * size <= N /\ (k - 1) * size + size = k * size
                                      /\ (k - 1) * size \in Nat
  /\ \A size \in Nat : \A j, k \in Nat : j < k => j * size <= (k - 1) * size
<1>1. \A N \in Nat, size \in Nat \ {0} : N \div size \in Nat
  OBVIOUS
<1>2. \A N \in Nat, size \in Nat \ {0} : \A k \in 1 .. N \div size :
        k * size <= N /\ (k - 1) * size + size = k * size
  OBVIOUS
<1>3. \A N \in Nat, size \in Nat \ {0} : \A k \in 1 .. N \div size : (k - 1) * size \in Nat
  <2> SUFFICES ASSUME NEW N \in Nat, NEW size \in Nat \ {0}, NEW k \in 1 .. N \div size
               PROVE  (k - 1) * size \in Nat
    OBVIOUS
  <2>1. k - 1 \in Nat
    BY <1>1
  <2> QED BY <2>1
<1>4. \A size \in Nat : \A j, k \in Nat : j < k => j * size <= (k - 1) * size
  OBVIOUS
<1> QED BY <1>1, <1>2, <1>3, <1>4

\* The piece is cut into the blocks of an empty list.
LEMMA setUpCacheListKeeps == ASSUME PInv, NEW t \in Threads, setUpCacheList(t) PROVE PInv'
<1> DEFINE K    == klass(req[t].size)
           size == klassSize(req[t].size)
           N    == NewSize(t)
           list == [k \in 1 .. N \div size |-> ptr[t] + (k - 1) * size]
<1>1. /\ pc[t] = "set_up" /\ pc' = [pc EXCEPT ![t] = "lookup"]
      /\ cache' = [cache EXCEPT ![t][K] = list]
      /\ UNCHANGED <<used, master, live, held, req, ptr>>
  BY DEF setUpCacheList, Goto
<1>2. req[t].size \in Requests /\ ptr[t] \in Nat /\ cache[t][K] = <<>>
  BY <1>1, Parts DEF Working, Works, mine
<1>3. /\ K \in Klasses /\ size \in Nat /\ size > 0 /\ N \in Nat /\ class_to_size(K) = size
  <2>1. K \in Klasses /\ size \in Nat /\ N \in Nat /\ class_to_size(K) = size
    BY <1>2, ClassFacts DEF NewSize, klassSize
  <2>2. size >= req[t].size + HEADER /\ req[t].size \in Nat
    BY <1>2, ClassFacts, RequestFacts
  <2> QED BY <2>1, <2>2, Constants
<1>4. /\ \A k \in 1 .. N \div size :
           /\ list[k] \in Nat /\ ptr[t] <= list[k] /\ list[k] + size <= ptr[t] + N
      /\ \A j, k \in 1 .. N \div size : j < k => list[j] + size <= list[k]
  <2> HIDE DEF size, N
  <2>1. \A k \in 1 .. N \div size :
          k * size <= N /\ (k - 1) * size + size = k * size /\ (k - 1) * size \in Nat /\ k \in Nat
    BY <1>3, Multiples
  <2>2. \A j, k \in 1 .. N \div size : j < k => j * size <= (k - 1) * size
    BY <1>3, <2>1, Multiples
  <2>3. \A k \in 1 .. N \div size : list[k] = ptr[t] + (k - 1) * size
    OBVIOUS
  <2> HIDE DEF list
  <2>4. \A k \in 1 .. N \div size :
          list[k] \in Nat /\ ptr[t] <= list[k] /\ list[k] + size = ptr[t] + k * size
          /\ k * size \in Int /\ (k - 1) * size \in Int
    <3> SUFFICES ASSUME NEW k \in 1 .. N \div size
                 PROVE  list[k] \in Nat /\ ptr[t] <= list[k] /\ list[k] + size = ptr[t] + k * size
                        /\ k * size \in Int /\ (k - 1) * size \in Int
      OBVIOUS
    <3> DEFINE m == k * size
               l == (k - 1) * size
    <3>1. m = l + size /\ l \in Nat /\ list[k] = ptr[t] + l
      BY <2>1, <2>3
    <3> HIDE DEF m, l
    <3>2. list[k] \in Nat /\ ptr[t] <= list[k] /\ list[k] + size = ptr[t] + m /\ m \in Int /\ l \in Int
      BY <1>2, <1>3, <3>1
    <3> QED BY <3>2 DEF m, l
  <2>5. \A k \in 1 .. N \div size : ptr[t] + k * size <= ptr[t] + N
    BY <1>2, <1>3, <2>1, <2>4
  <2>6. \A j, k \in 1 .. N \div size : j < k => ptr[t] + j * size <= list[k]
    BY <1>2, <2>2, <2>3, <2>4
  <2> QED BY <2>4, <2>5, <2>6
<1>5. list \in Seq(Nat) /\ DOMAIN list = 1 .. N \div size
  <2>1. N \div size \in Nat
    BY <1>3, Multiples
  <2>2. list \in [1 .. N \div size -> Nat]
    BY <1>4
  <2> HIDE DEF list, N, size
  <2> QED BY <2>1, <2>2
<1>0. K' = K
  BY <1>1
<1> HIDE DEF K, size, N, list
<1>6. /\ cache' \in [Threads -> [Klasses -> Seq(Nat)]]
      /\ cache'[t][K] = list
      /\ \A u \in Threads, k \in Klasses : u # t \/ k # K => cache'[u][k] = cache[u][k]
  <2>1. cache \in [Threads -> [Klasses -> Seq(Nat)]]
    BY Parts DEF PTypeOK
  <2> QED BY <1>1, <1>3, <1>5, <2>1
<1>7. /\ pc'[t] = "lookup" /\ \A u \in Threads \ {t} : pc'[u] = pc[u] /\ cache'[u] = cache[u]
  BY <1>1, Parts DEF PTypeOK
<1>8. PTypeOK'
  <2>1. pc' \in [Threads -> Labels]
    BY <1>1, Parts DEF PTypeOK, Labels
  <2> QED BY <1>1, <1>6, <2>1, Parts DEF PTypeOK
<1>9. Working'
  <2>1. \A u \in Threads \ {t} : Works(u)'
    <3>1. \A u \in Threads \ {t} : pc[u] = "return" =>
            ptr[u] \in DOMAIN live /\ \A b \in DOMAIN held : b.at # ptr[u] + HEADER
      BY Parts DEF Working, Works
    <3> QED BY <1>1, <1>7, <3>1, Parts, OthersWork
  <2>2. Works(t)'
    BY <1>1, <1>2, <1>7 DEF Works
  <2> QED BY <2>1, <2>2 DEF Working
<1>10. Headers' /\ Exchanges' /\ MasterPlace'
  BY <1>1, Parts DEF Headers, Exchanges, MasterPlace
<1>11. SpotsApart'
  <2> DEFINE mineOf(x) == \E i \in DOMAIN list : x = CacheSpot(t, K, i)
             f == [x \in Spots' |-> IF mineOf(x) THEN PieceSpot(t) ELSE x]
  <2>1. PieceSpot(t) \notin Spots' /\ PieceSpot(t) \in Spots
    <3>1. PieceSpot(t) \in Spots
      BY <1>1, SpotKinds DEF SpotFacts
    <3> QED BY <1>7, <3>1, NextSpotKinds
            DEF SpotFacts, SlotSpot, CacheSpot, LiveSpot, PieceSpot, MasterSpot
  <2>2. At(PieceSpot(t)) = ptr[t] /\ Size(PieceSpot(t)) = N
    BY SpotKinds DEF SpotFacts, N
  <2>3. ASSUME NEW x \in Spots', ~mineOf(x)
        PROVE  x \in Spots /\ At(x)' = At(x) /\ Size(x)' = Size(x)
    <3>1. ASSUME NEW u \in Threads, NEW k \in Klasses, NEW i \in DOMAIN cache'[u][k],
                 x = CacheSpot(u, k, i)
          PROVE  x \in Spots /\ At(x)' = At(x) /\ Size(x)' = Size(x)
      <4>1. cache'[u][k] = cache[u][k]
        BY <1>6, <2>3, <3>1
      <4> QED BY <3>1, <4>1, SpotKinds, NextSpotKinds DEF SpotFacts
    <3>2. ASSUME NEW u \in Threads, pc'[u] = "set_up", x = PieceSpot(u)
          PROVE  x \in Spots /\ At(x)' = At(x) /\ Size(x)' = Size(x)
      <4>1. NewSize(u)' = NewSize(u) /\ ptr'[u] = ptr[u]
        BY <1>1 DEF NewSize
      <4>2. pc[u] = "set_up"
        BY <1>7, <3>2
      <4> QED BY <3>2, <4>1, <4>2, SpotKinds, NextSpotKinds DEF SpotFacts
    <3>3. CASE /\ ~ \E u \in Threads, k \in Klasses : \E i \in DOMAIN cache'[u][k] : x = CacheSpot(u, k, i)
               /\ ~ \E u \in Threads : pc'[u] = "set_up" /\ x = PieceSpot(u)
      BY <1>1, <3>3, SpotKinds, NextSpotKinds DEF SpotFacts
    <3> QED BY <3>1, <3>2, <3>3
  <2>4. ASSUME NEW i \in DOMAIN list
        PROVE  At(CacheSpot(t, K, i))' = list[i] /\ Size(CacheSpot(t, K, i))' = size
    <3>1. /\ At(CacheSpot(t, K, i))' = cache'[t][K][i]
          /\ Size(CacheSpot(t, K, i))' = class_to_size(K)
      BY <1>0, NextSpotKinds DEF SpotFacts
    <3> QED BY <1>3, <1>6, <3>1
  <2>5. SpotsTyped /\ SpotsTyped' /\ SpotsApart
    BY <1>8, <1>9, Parts
  <2>6. ASSUME NEW x \in Spots'
        PROVE  /\ f[x] \in Spots
               /\ At(f[x]) <= At(x)'
               /\ At(x)' + Size(x)' <= At(f[x]) + Size(f[x])
    <3>1. ASSUME NEW i \in DOMAIN list, x = CacheSpot(t, K, i)
          PROVE  /\ f[x] \in Spots
                 /\ At(f[x]) <= At(x)'
                 /\ At(x)' + Size(x)' <= At(f[x]) + Size(f[x])
      <4>1. f[x] = PieceSpot(t)
        BY <3>1
      <4>2. ptr[t] <= list[i] /\ list[i] + size <= ptr[t] + N
        BY <1>4, <1>5
      <4>3. At(x)' = list[i] /\ Size(x)' = size
        BY <1>0, <2>4, <3>1
      <4> HIDE DEF f
      <4> QED BY <2>1, <2>2, <4>1, <4>2, <4>3
    <3>2. CASE ~mineOf(x)
      <4>1. f[x] = x
        BY <3>2
      <4>2. At(x)' \in Int /\ Size(x)' \in Int
        BY <2>5 DEF SpotsTyped
      <4> HIDE DEF f
      <4> QED BY <2>3, <3>2, <4>1, <4>2
    <3> QED BY <3>1, <3>2
  <2>7. ASSUME NEW x \in Spots', NEW y \in Spots', x # y, f[x] = f[y]
        PROVE  Clear(At(x)', Size(x)', At(y)', Size(y)')
    <3>1. mineOf(x) /\ mineOf(y)
      BY <2>1, <2>7
    <3>2. PICK i \in DOMAIN list, j \in DOMAIN list : x = CacheSpot(t, K, i) /\ y = CacheSpot(t, K, j)
      BY <3>1
    <3>3. i < j \/ j < i
      BY <1>3, <1>5, <2>7, <3>2, Multiples
    <3>4. list[i] + size <= list[j] \/ list[j] + size <= list[i]
      BY <1>4, <1>5, <3>3
    <3>5. At(x)' = list[i] /\ Size(x)' = size /\ At(y)' = list[j] /\ Size(y)' = size
      BY <1>0, <2>4, <3>2
    <3> QED BY <3>4, <3>5 DEF Clear
  <2> HIDE DEF f
  <2> QED BY <2>5, <2>6, <2>7, Carved
<1> QED BY <1>8, <1>9, <1>10, <1>11 DEF PInv

\* The first block leaves its list.
LEMMA TakeKeeps == ASSUME PInv, NEW t \in Threads, Take(t) PROVE PInv'
<1> DEFINE K    == klass(req[t].size)
           size == klassSize(req[t].size)
           list == cache[t][K]
           rest == IF Len(list) > 1 /\ list[2] \in LowEnds THEN <<>> ELSE Tail(list)
<1>0. PICK p : p = Head(list)
  OBVIOUS
<1>1. /\ pc[t] = "lookup" /\ list # <<>> /\ pc' = [pc EXCEPT ![t] = "return"]
      /\ cache' = [cache EXCEPT ![t][K] = rest]
      /\ ptr' = [ptr EXCEPT ![t] = p]
      /\ UNCHANGED <<used, master, held, req>>
  BY <1>0 DEF Take, Goto, mine
<1>2. req[t].size \in Requests
  BY <1>1, Parts DEF Working, Works
<1>3. /\ K \in Klasses /\ size \in Nat /\ size > 0 /\ class_to_size(K) = size
      /\ K' = K /\ size' = size
  <2>1. K \in Klasses /\ size \in Nat /\ class_to_size(K) = size
    BY <1>2, ClassFacts DEF NewSize, klassSize
  <2>2. size >= req[t].size + HEADER /\ req[t].size \in Nat
    BY <1>2, ClassFacts, RequestFacts
  <2>3. K' = K /\ size' = size
    BY <1>1
  <2> QED BY <2>1, <2>2, <2>3, Constants
<1>4. list \in Seq(Nat) /\ Len(list) \in Nat /\ Len(list) >= 1 /\ DOMAIN list = 1 .. Len(list)
      /\ p = list[1] /\ p \in Nat
  <2>1. list \in Seq(Nat)
    BY <1>3, Parts DEF PTypeOK
  <2> HIDE DEF list
  <2>2. Len(list) \in Nat /\ Len(list) >= 1 /\ DOMAIN list = 1 .. Len(list)
    BY <1>1, <2>1, EmptySeq
  <2>3. p = list[1] /\ p \in Nat
    BY <1>0, <1>1, <2>1, <2>2
  <2> QED BY <2>1, <2>2, <2>3
<1>5. /\ rest \in Seq(Nat)
      /\ \A i \in DOMAIN rest : i \in Nat /\ i >= 1 /\ i + 1 \in DOMAIN list /\ rest[i] = list[i + 1]
  <2> HIDE DEF list
  <2>1. /\ Tail(list) \in Seq(Nat)
        /\ \A i \in DOMAIN Tail(list) : i \in Nat /\ i >= 1 /\ i + 1 \in DOMAIN list /\ Tail(list)[i] = list[i + 1]
    <3>1. /\ Tail(list) \in Seq(Nat)
          /\ Len(Tail(list)) = Len(list) - 1
          /\ \A i \in 1 .. Len(Tail(list)) : Tail(list)[i] = list[i + 1]
      BY <1>1, <1>4, HeadTailProperties
    <3>2. DOMAIN Tail(list) = 1 .. Len(Tail(list))
      BY <3>1
    <3> HIDE DEF rest
    <3> QED BY <1>4, <3>1, <3>2
  <2>2. <<>> \in Seq(Nat) /\ DOMAIN <<>> = {}
    BY EmptySeq
  <2> QED BY <2>1, <2>2
<1> HIDE DEF K, size, list, rest
<1>6. /\ cache' \in [Threads -> [Klasses -> Seq(Nat)]]
      /\ cache'[t][K] = rest
      /\ \A u \in Threads, k \in Klasses : u # t \/ k # K => cache'[u][k] = cache[u][k]
  <2>1. cache \in [Threads -> [Klasses -> Seq(Nat)]]
    BY Parts DEF PTypeOK
  <2> QED BY <1>1, <1>3, <1>5, <2>1
<1>7. /\ pc'[t] = "return" /\ ptr'[t] = p
      /\ \A u \in Threads \ {t} : pc'[u] = pc[u] /\ ptr'[u] = ptr[u] /\ cache'[u] = cache[u]
  BY <1>1, Parts DEF PTypeOK
<1>8. /\ DOMAIN live' = DOMAIN live \cup {p}
      /\ live'[p] = size /\ \A at \in DOMAIN live \ {p} : live'[at] = live[at]
      /\ live' = [at \in DOMAIN live' |-> live'[at]]
  <2>1. live' = With(live, ptr'[t], klassSize(req[t].size))
    BY DEF Take
  <2> QED BY <1>7, <2>1 DEF With, size
<1>9. CacheSpot(t, K, 1) \in Spots /\ At(CacheSpot(t, K, 1)) = p /\ Size(CacheSpot(t, K, 1)) = size
  <2>1. 1 \in DOMAIN list
    BY <1>4
  <2> QED BY <1>3, <1>4, <2>1, SpotKinds DEF SpotFacts, list
<1>10. p \notin DOMAIN live
  <2> SUFFICES ASSUME p \in DOMAIN live PROVE FALSE
    OBVIOUS
  <2>1. LiveSpot(p) \in Spots /\ At(LiveSpot(p)) = p /\ Size(LiveSpot(p)) = live[p]
    BY SpotKinds DEF SpotFacts
  <2>2. LiveSpot(p) # CacheSpot(t, K, 1)
    BY DEF LiveSpot, CacheSpot
  <2>3. Clear(p, live[p], p, size)
    BY <1>9, <2>1, <2>2, Parts DEF SpotsApart
  <2>4. PICK k \in Klasses : live[p] = class_to_size(k)
    BY Parts DEF PTypeOK
  <2>5. live[p] \in Nat /\ live[p] > 0
    BY <2>4, KlassFacts
  <2> QED BY <1>3, <1>4, <2>3, <2>5 DEF Clear
<1>11. PTypeOK'
  <2>1. pc' \in [Threads -> Labels]
    BY <1>1, Parts DEF PTypeOK, Labels
  <2>2. ptr' \in [Threads -> Nat \cup {Nothing}]
    BY <1>1, <1>4, Parts DEF PTypeOK
  <2>3. DOMAIN live' \subseteq Nat /\ live' = [at \in DOMAIN live' |-> live'[at]]
    BY <1>4, <1>8, Parts DEF PTypeOK
  <2>4. \A at \in DOMAIN live' : \E k \in Klasses : live'[at] = class_to_size(k)
    BY <1>3, <1>8, Parts DEF PTypeOK
  <2> QED BY <1>1, <1>6, <2>1, <2>2, <2>3, <2>4, Parts DEF PTypeOK
<1>12. \A b \in DOMAIN held : b.at # p + HEADER
  <2> SUFFICES ASSUME NEW b \in DOMAIN held, b.at = p + HEADER PROVE FALSE
    OBVIOUS
  <2>1. b.at - HEADER \in DOMAIN live
    BY Parts DEF Headers
  <2> QED BY <1>4, <1>10, <2>1, Constants
<1>13. Working'
  <2>1. \A u \in Threads \ {t} : pc[u] = "return" =>
          /\ ptr[u] \in DOMAIN live /\ ptr[u] # p
          /\ \A b \in DOMAIN held : b.at # ptr[u] + HEADER
    BY <1>10, Parts DEF Working, Works
  <2>2. \A u \in Threads \ {t} : Works(u)'
    <3>1. \A u \in Threads \ {t} : pc[u] = "return" =>
            ptr[u] \in DOMAIN live' /\ live'[ptr[u]] = live[ptr[u]]
      BY <1>8, <2>1
    <3> QED BY <1>1, <1>7, <2>1, <3>1, Parts, OthersWork
  <2>3. Works(t)'
    <3>1. live'[ptr'[t]] = klassSize(req'[t].size) /\ ptr'[t] \in DOMAIN live'
      BY <1>1, <1>7, <1>8 DEF size
    <3> QED BY <1>1, <1>2, <1>7, <1>12, <2>1, <3>1 DEF Works
  <2> QED BY <2>2, <2>3 DEF Working
<1>14. Headers'
  <2>1. \A b \in DOMAIN held :
          b.at - HEADER \in DOMAIN live' /\ live'[b.at - HEADER] = live[b.at - HEADER]
    <3>1. \A b \in DOMAIN held : b.at - HEADER \in DOMAIN live
      BY Parts DEF Headers
    <3> QED BY <1>8, <1>10, <3>1
  <2> QED BY <1>1, <2>1, Parts DEF Headers
<1>15. Exchanges' /\ MasterPlace'
  BY <1>1, Parts DEF Exchanges, MasterPlace
<1>16. SpotsApart'
  <2> DEFINE mineOf(x) == \E i \in DOMAIN rest : x = CacheSpot(t, K, i)
             f == [x \in Spots' |-> IF x = LiveSpot(p) THEN CacheSpot(t, K, 1)
                                    ELSE IF mineOf(x) THEN CacheSpot(t, K, x[4] + 1) ELSE x]
  <2>1. ASSUME NEW x \in Spots', ~mineOf(x), x # LiveSpot(p)
        PROVE  x \in Spots /\ At(x)' = At(x) /\ Size(x)' = Size(x)
               /\ \A i : x # CacheSpot(t, K, i)
    <3>0. \A i : x = CacheSpot(t, K, i) => i \in DOMAIN cache'[t][K]
      BY NextSpotKinds DEF SpotFacts, CacheSpot, LiveSpot, PieceSpot, MasterSpot, SlotSpot
    <3>1. \A i : x # CacheSpot(t, K, i)
      BY <1>6, <2>1, <3>0
    <3>2. ASSUME NEW u \in Threads, NEW k \in Klasses, NEW i \in DOMAIN cache'[u][k],
                 x = CacheSpot(u, k, i)
          PROVE  x \in Spots /\ At(x)' = At(x) /\ Size(x)' = Size(x)
      <4>1. cache'[u][k] = cache[u][k]
        BY <1>6, <3>1, <3>2
      <4> QED BY <3>2, <4>1, SpotKinds, NextSpotKinds DEF SpotFacts
    <3>3. ASSUME NEW u \in Threads, pc'[u] = "set_up", x = PieceSpot(u)
          PROVE  x \in Spots /\ At(x)' = At(x) /\ Size(x)' = Size(x)
      <4>1. u # t
        BY <1>7, <3>3
      <4>2. NewSize(u)' = NewSize(u) /\ ptr'[u] = ptr[u] /\ pc[u] = "set_up"
        BY <1>1, <1>7, <3>3, <4>1 DEF NewSize
      <4> QED BY <3>3, <4>2, SpotKinds, NextSpotKinds DEF SpotFacts
    <3>4. ASSUME NEW at \in DOMAIN live', x = LiveSpot(at)
          PROVE  x \in Spots /\ At(x)' = At(x) /\ Size(x)' = Size(x)
      <4>1. at # p /\ at \in DOMAIN live /\ live'[at] = live[at]
        BY <1>8, <2>1, <3>4
      <4> QED BY <3>4, <4>1, SpotKinds, NextSpotKinds DEF SpotFacts
    <3>5. CASE /\ ~ \E u \in Threads, k \in Klasses : \E i \in DOMAIN cache'[u][k] : x = CacheSpot(u, k, i)
               /\ ~ \E u \in Threads : pc'[u] = "set_up" /\ x = PieceSpot(u)
               /\ ~ \E at \in DOMAIN live' : x = LiveSpot(at)
      BY <1>1, <3>1, <3>5, SpotKinds, NextSpotKinds DEF SpotFacts
    <3> QED BY <3>1, <3>2, <3>3, <3>4, <3>5
  <2>2. At(LiveSpot(p))' = p /\ Size(LiveSpot(p))' = size
    BY <1>8, NextSpotKinds DEF SpotFacts
  <2>3. ASSUME NEW i \in DOMAIN rest
        PROVE  /\ At(CacheSpot(t, K, i))' = list[i + 1]
               /\ Size(CacheSpot(t, K, i))' = size
               /\ CacheSpot(t, K, i + 1) \in Spots
               /\ At(CacheSpot(t, K, i + 1)) = list[i + 1]
               /\ Size(CacheSpot(t, K, i + 1)) = size
               /\ CacheSpot(t, K, i + 1) # CacheSpot(t, K, 1)
    <3>1. /\ At(CacheSpot(t, K, i))' = cache'[t][K][i]
          /\ Size(CacheSpot(t, K, i))' = class_to_size(K)
      BY <1>3, NextSpotKinds DEF SpotFacts
    <3>2. i \in Nat /\ i >= 1 /\ i + 1 \in DOMAIN list /\ rest[i] = list[i + 1]
      BY <1>5
    <3>3. /\ CacheSpot(t, K, i + 1) \in Spots
          /\ At(CacheSpot(t, K, i + 1)) = list[i + 1]
          /\ Size(CacheSpot(t, K, i + 1)) = class_to_size(K)
      BY <1>3, <3>2, SpotKinds DEF SpotFacts, list
    <3>4. i + 1 # 1
      BY <3>2
    <3>5. CacheSpot(t, K, i + 1) # CacheSpot(t, K, 1)
      BY <3>4 DEF CacheSpot
    <3> QED BY <1>3, <1>6, <3>1, <3>2, <3>3, <3>5
  <2>4. SpotsTyped /\ SpotsTyped' /\ SpotsApart
    BY <1>11, <1>13, Parts
  <2>5. \A i : ~(CacheSpot(t, K, i) = LiveSpot(p)) /\ CacheSpot(t, K, i)[4] = i
    BY DEF CacheSpot, LiveSpot
  <2>6. /\ \A x \in Spots' : x = LiveSpot(p) => f[x] = CacheSpot(t, K, 1)
        /\ \A x \in Spots' : \A i \in DOMAIN rest : x = CacheSpot(t, K, i) => f[x] = CacheSpot(t, K, i + 1)
        /\ \A x \in Spots' : x # LiveSpot(p) /\ ~mineOf(x) => f[x] = x
    BY <2>5
  <2> HIDE DEF f
  <2>7. ASSUME NEW x \in Spots'
        PROVE  /\ f[x] \in Spots
               /\ At(f[x]) = At(x)' /\ Size(f[x]) = Size(x)'
    <3>1. CASE x = LiveSpot(p)
      BY <1>9, <2>2, <2>6, <3>1
    <3>2. ASSUME NEW i \in DOMAIN rest, x = CacheSpot(t, K, i)
          PROVE  /\ f[x] \in Spots
                 /\ At(f[x]) = At(x)' /\ Size(f[x]) = Size(x)'
      <4>1. f[x] = CacheSpot(t, K, i + 1)
        BY <2>6, <3>2
      <4> QED BY <1>3, <2>3, <3>2, <4>1
    <3>3. CASE x # LiveSpot(p) /\ ~mineOf(x)
      BY <2>1, <2>6, <3>3
    <3> QED BY <3>1, <3>2, <3>3
  <2>8. ASSUME NEW x \in Spots', NEW y \in Spots', f[x] = f[y]
        PROVE  x = y
    <3>1. ASSUME NEW z \in Spots'
          PROVE  \/ z = LiveSpot(p) /\ f[z] = CacheSpot(t, K, 1)
                 \/ \E i \in DOMAIN rest : z = CacheSpot(t, K, i) /\ f[z] = CacheSpot(t, K, i + 1)
                 \/ f[z] = z /\ \A i : z # CacheSpot(t, K, i)
      BY <2>1, <2>6
    <3>2. \A i \in DOMAIN rest : i \in Nat /\ CacheSpot(t, K, i + 1) # CacheSpot(t, K, 1)
      BY <1>5, <2>3
    <3>3. \A i, j \in DOMAIN rest : CacheSpot(t, K, i + 1) = CacheSpot(t, K, j + 1) => i = j
      <4>1. \A i, j : CacheSpot(t, K, i) = CacheSpot(t, K, j) => i = j
        BY DEF CacheSpot
      <4>2. \A i, j \in Nat : i + 1 = j + 1 => i = j
        OBVIOUS
      <4> QED BY <3>2, <4>1, <4>2
    <3> QED BY <2>8, <3>1, <3>2, <3>3
  <2>9. \A x \in Spots' : /\ f[x] \in Spots
                          /\ At(f[x]) <= At(x)'
                          /\ At(x)' + Size(x)' <= At(f[x]) + Size(f[x])
    <3>1. \A x \in Spots' : At(x)' \in Int /\ Size(x)' \in Int
      BY <2>4 DEF SpotsTyped
    <3> QED BY <2>7, <3>1
  <2> QED BY <2>4, <2>8, <2>9, Carved
<1> QED BY <1>11, <1>13, <1>14, <1>15, <1>16 DEF PInv

\* The block that is about to be returned, as a client's.
LEMMA ResultFacts ==
  ASSUME PInv, NEW t \in Threads, pc[t] = "return"
  PROVE  /\ Result(t) \in Blocks /\ Result(t).at = ptr[t] + HEADER
         /\ ptr[t] \in Nat /\ Result(t).at - HEADER = ptr[t] /\ Result(t).len = req[t].size
         /\ ptr[t] \in DOMAIN live /\ live[ptr[t]] = klassSize(Result(t).len)
         /\ \A b \in DOMAIN held : b.at # Result(t).at
         /\ \A u \in Threads \ {t} : pc[u] = "return" => ptr[u] \in Nat /\ Result(t).at # ptr[u] + HEADER
<1>1. \A u \in Threads : pc[u] = "return" =>
        /\ ptr[u] \in DOMAIN live /\ ptr[u] \in Nat
        /\ live[ptr[u]] = klassSize(req[u].size)
        /\ \A b \in DOMAIN held : b.at # ptr[u] + HEADER
        /\ \A v \in Threads : pc[v] = "return" /\ ptr[v] = ptr[u] => v = u
  BY Parts DEF Working, Works, PTypeOK
<1>2. req[t].size \in Requests
  BY Parts DEF Working, Works
<1>3. Result(t).at = ptr[t] + HEADER /\ Result(t).len = req[t].size
  BY DEF Result
<1>4. ptr[t] + HEADER \in Nat /\ (ptr[t] + HEADER) - HEADER = ptr[t]
  BY <1>1, Constants
<1>5. Result(t) \in Blocks
  BY <1>2, <1>4 DEF Result, Blocks
<1>6. \A u \in Threads \ {t} : pc[u] = "return" => ptr[u] # ptr[t]
  BY <1>1
<1>7. \A u \in Threads \ {t} : pc[u] = "return" => ptr[u] \in Nat /\ ptr[t] + HEADER # ptr[u] + HEADER
  BY <1>1, <1>6, Constants
<1> HIDE DEF HEADER
<1> QED BY <1>1, <1>3, <1>4, <1>5, <1>7

LEMMA ReturnNewKeeps == ASSUME PInv, NEW t \in Threads, ReturnNew(t) PROVE PInv'
<1>1. /\ pc[t] = "return" /\ pc' = [pc EXCEPT ![t] = "out"]
      /\ held' = BagAdd(held, Result(t))
      /\ req' = [req EXCEPT ![t] = NoReq]
      /\ UNCHANGED <<used, master, cache, live, ptr>>
  BY DEF ReturnNew, Goto
<1>2. PICK r : r = Result(t)
  OBVIOUS
<1>3. /\ r \in Blocks /\ r.at = ptr[t] + HEADER
      /\ r.at - HEADER = ptr[t] /\ r.len = req[t].size
      /\ ptr[t] \in DOMAIN live /\ live[ptr[t]] = klassSize(r.len)
      /\ \A b \in DOMAIN held : b.at # r.at
      /\ \A u \in Threads \ {t} : pc[u] = "return" => r.at # ptr[u] + HEADER
  BY <1>1, <1>2, ResultFacts
<1>4. held = [e \in DOMAIN held |-> 1]
  BY Parts DEF PTypeOK
<1>5. held' = [e \in DOMAIN held' |-> 1] /\ DOMAIN held' = DOMAIN held \cup {r}
  <2>1. held' = [e \in DOMAIN held \cup {r} |-> 1]
    <3>1. r \notin DOMAIN held
      BY <1>3
    <3>2. BagAdd(held, r) = [e \in DOMAIN held \cup {r} |-> 1]
      BY <1>4, <3>1, BagFacts
    <3> QED BY <1>1, <1>2, <3>2
  <2> QED BY <2>1
<1>6. /\ pc'[t] = "out" /\ req'[t].prev = NoBlock
      /\ \A u \in Threads \ {t} : pc'[u] = pc[u] /\ req'[u] = req[u]
  BY <1>1, Parts DEF PTypeOK, NoReq
<1>7. PTypeOK'
  <2>1. pc' \in [Threads -> Labels]
    BY <1>1, Parts DEF PTypeOK, Labels
  <2>2. req' \in [Threads -> [size : Requests \cup {0}, prev : Blocks \cup {NoBlock}]]
    <3>1. NoReq \in [size : Requests \cup {0}, prev : Blocks \cup {NoBlock}]
      BY DEF NoReq
    <3> QED BY <1>1, <3>1, Parts DEF PTypeOK
  <2>3. DOMAIN held' \subseteq Blocks
    BY <1>3, <1>5, Parts DEF PTypeOK
  <2> QED BY <1>1, <1>5, <2>1, <2>2, <2>3, Parts DEF PTypeOK
<1>8. Working'
  <2>1. \A u \in Threads \ {t} : Works(u)'
    <3>1. \A u \in Threads \ {t} : pc[u] = "return" =>
            ptr[u] \in DOMAIN live /\ \A b \in DOMAIN held : b.at # ptr[u] + HEADER
      BY Parts DEF Working, Works
    <3>2. \A u \in Threads \ {t} : pc[u] = "return" => \A b \in DOMAIN held' : b.at # ptr[u] + HEADER
      BY <1>3, <1>5, <3>1
    <3> QED BY <1>1, <1>6, <3>1, <3>2, Parts, OthersWork
  <2>2. Works(t)'
    BY <1>6 DEF Works
  <2> QED BY <2>1, <2>2 DEF Working
<1>9. Headers'
  <2>1. live' = live
    BY <1>1
  <2>2. ASSUME NEW c \in DOMAIN held'
        PROVE  c.at - HEADER \in DOMAIN live' /\ live'[c.at - HEADER] = klassSize(c.len)
    <3>1. CASE c = r
      BY <1>3, <2>1, <3>1
    <3>2. CASE c # r
      BY <1>5, <2>1, <3>2, Parts DEF Headers
    <3> QED BY <3>1, <3>2
  <2>3. \A c, d \in DOMAIN held' : d.at = c.at => d = c
    <3>1. \A c, d \in DOMAIN held : d.at = c.at => d = c
      BY Parts DEF Headers
    <3> QED BY <1>3, <1>5, <3>1
  <2> QED BY <2>2, <2>3 DEF Headers
<1>10. Exchanges'
  BY <1>5, <1>6, Parts DEF Exchanges
<1>11. MasterPlace'
  BY <1>1, Parts DEF MasterPlace
<1>12. SpotsApart'
  <2>1. \A u \in Threads : pc'[u] = "set_up" => pc[u] = "set_up" /\ req'[u].size = req[u].size
    BY <1>6
  <2> QED BY <1>1, <2>1, Parts, SameSpots
<1> QED BY <1>7, <1>8, <1>9, <1>10, <1>11, <1>12 DEF PInv

\* The block that was doubled goes to the front of its list in the cache of the thread
\* that doubled it, wherever it came from.
LEMMA ReturnExchangedKeeps == ASSUME PInv, NEW t \in Threads, ReturnExchanged(t) PROVE PInv'
<1>0. PICK r, b, q, K :
        r = Result(t) /\ b = req[t].prev /\ q = req[t].prev.at - HEADER /\ K = size_to_class(live[q])
  OBVIOUS
<1>1. /\ pc[t] = "return" /\ b # NoBlock /\ pc' = [pc EXCEPT ![t] = "out"]
      /\ held' = BagAdd(BagRemove(held, b), r)
      /\ live' = Without(live, q)
      /\ cache' = [cache EXCEPT ![t][K] = <<q>> \o @]
      /\ req' = [req EXCEPT ![t] = NoReq]
      /\ UNCHANGED <<used, master, ptr>>
  BY <1>0 DEF ReturnExchanged, Goto
<1>2. /\ r \in Blocks /\ r.at = ptr[t] + HEADER
      /\ r.at - HEADER = ptr[t] /\ r.len = req[t].size
      /\ ptr[t] \in DOMAIN live /\ live[ptr[t]] = klassSize(r.len)
      /\ \A c \in DOMAIN held : c.at # r.at
      /\ \A u \in Threads \ {t} : pc[u] = "return" => r.at # ptr[u] + HEADER
  BY <1>0, <1>1, ResultFacts
<1>3. /\ b \in DOMAIN held /\ b \in Blocks /\ b.at = q + HEADER
      /\ q \in DOMAIN live /\ q \in Nat /\ live[q] = klassSize(b.len)
      /\ \A c \in DOMAIN held : c.at = b.at => c = b
      /\ \A u \in Threads \ {t} : req[u].prev # b
  <2>1. b \in DOMAIN held /\ \A u \in Threads \ {t} : req[u].prev # b
    BY <1>0, <1>1, Parts DEF Exchanges
  <2>2. /\ q \in DOMAIN live /\ live[q] = klassSize(b.len)
        /\ \A c \in DOMAIN held : c.at = b.at => c = b
    BY <1>0, <2>1, Parts DEF Headers
  <2>3. b \in Blocks /\ q \in Nat
    BY <2>1, <2>2, Parts DEF PTypeOK
  <2>4. b.at \in Nat
    BY <2>3 DEF Blocks
  <2>5. q + HEADER = b.at
    BY <1>0, <2>3, <2>4, Constants
  <2> QED BY <2>1, <2>2, <2>3, <2>5
<1>4. K \in Klasses /\ class_to_size(K) = live[q]
  <2>1. b.len \in Requests
    BY <1>3 DEF Blocks
  <2>2. klass(b.len) \in Klasses /\ live[q] = class_to_size(klass(b.len))
    BY <1>3, <2>1, ClassFacts DEF klassSize
  <2> QED BY <1>0, <2>2, KlassFacts
<1>5. \A at : at \in DOMAIN held => at.at # r.at /\ (at # b => at.at # b.at)
  BY <1>2, <1>3
<1>6. held' = [e \in DOMAIN held' |-> 1] /\ DOMAIN held' = (DOMAIN held \ {b}) \cup {r}
  <2>1. held = [e \in DOMAIN held |-> 1]
    BY Parts DEF PTypeOK
  <2>2. BagRemove(held, b) = [e \in DOMAIN held \ {b} |-> 1]
    BY <1>3, <2>1, BagFacts
  <2>3. held' = BagAdd([e \in DOMAIN held \ {b} |-> 1], r)
    BY <1>1, <2>2
  <2>4. r \notin DOMAIN held
    BY <1>2
  <2>5. held' = [e \in (DOMAIN held \ {b}) \cup {r} |-> 1]
    <3> DEFINE B == [e \in DOMAIN held \ {b} |-> 1]
    <3>1. DOMAIN B = DOMAIN held \ {b}
      OBVIOUS
    <3>2. B = [e \in DOMAIN B |-> 1] /\ r \notin DOMAIN B
      BY <2>4
    <3>3. held' = BagAdd(B, r)
      BY <2>3
    <3> HIDE DEF B
    <3>4. BagAdd(B, r) = [e \in DOMAIN B \cup {r} |-> 1]
      BY <3>2, BagFacts
    <3> QED BY <3>1, <3>3, <3>4
  <2> QED BY <2>5
<1>7. /\ DOMAIN live' = DOMAIN live \ {q}
      /\ \A at \in DOMAIN live' : live'[at] = live[at]
      /\ live' = [at \in DOMAIN live' |-> live'[at]]
  BY <1>1 DEF Without
<1> DEFINE list == cache[t][K]
<1>8. list \in Seq(Nat) /\ Len(list) \in Nat /\ DOMAIN list = 1 .. Len(list)
  <2>1. list \in Seq(Nat)
    BY <1>4, Parts DEF PTypeOK
  <2> HIDE DEF list
  <2> QED BY <2>1
<1>9. PICK more :
      /\ more = <<q>> \o list /\ more \in Seq(Nat) /\ more[1] = q
      /\ \A i \in DOMAIN more : i = 1 \/ (i - 1 \in DOMAIN list /\ i - 1 \in Nat /\ i \in Nat /\ more[i] = list[i - 1])
  <2> HIDE DEF list
  <2>1. <<q>> \in Seq(Nat) /\ Len(<<q>>) = 1 /\ <<q>>[1] = q
    BY <1>3
  <2>2. /\ <<q>> \o list \in Seq(Nat)
        /\ Len(<<q>> \o list) = 1 + Len(list)
        /\ \A i \in 1 .. 1 + Len(list) : (<<q>> \o list)[i] = IF i <= 1 THEN <<q>>[i] ELSE list[i - 1]
    BY <1>8, <2>1, ConcatProperties
  <2>3. PICK more : more = <<q>> \o list
    OBVIOUS
  <2>4. more \in Seq(Nat) /\ DOMAIN more = 1 .. 1 + Len(list)
    BY <1>8, <2>2, <2>3
  <2>5. \A i \in 1 .. 1 + Len(list) : more[i] = IF i <= 1 THEN <<q>>[i] ELSE list[i - 1]
    BY <2>2, <2>3
  <2>6. more[1] = q
    BY <1>8, <2>1, <2>5
  <2>7. \A i \in 1 .. 1 + Len(list) : i = 1 \/ (i - 1 \in 1 .. Len(list) /\ i - 1 \in Nat /\ i \in Nat /\ ~(i <= 1))
    BY <1>8
  <2> QED BY <1>8, <2>3, <2>4, <2>5, <2>6, <2>7
<1>10. /\ cache' \in [Threads -> [Klasses -> Seq(Nat)]]
       /\ cache'[t][K] = more
       /\ \A u \in Threads, k \in Klasses : u # t \/ k # K => cache'[u][k] = cache[u][k]
  <2>1. cache \in [Threads -> [Klasses -> Seq(Nat)]]
    BY Parts DEF PTypeOK
  <2>2. cache' = [cache EXCEPT ![t][K] = more]
    <3>1. cache' = [cache EXCEPT ![t][K] = <<q>> \o cache[t][K]]
      BY <1>1, <1>4, <2>1
    <3> QED BY <1>9, <3>1
  <2>3. more \in Seq(Nat)
    BY <1>9
  <2> QED BY <1>4, <2>1, <2>2, <2>3
<1> HIDE DEF list
<1>11. /\ pc'[t] = "out" /\ req'[t].prev = NoBlock
       /\ \A u \in Threads \ {t} : pc'[u] = pc[u] /\ req'[u] = req[u] /\ cache'[u] = cache[u]
  BY <1>1, Parts DEF PTypeOK, NoReq
<1>12. PTypeOK'
  <2>1. pc' \in [Threads -> Labels]
    BY <1>1, Parts DEF PTypeOK, Labels
  <2>2. req' \in [Threads -> [size : Requests \cup {0}, prev : Blocks \cup {NoBlock}]]
    <3>1. NoReq \in [size : Requests \cup {0}, prev : Blocks \cup {NoBlock}]
      BY DEF NoReq
    <3> QED BY <1>1, <3>1, Parts DEF PTypeOK
  <2>3. DOMAIN held' \subseteq Blocks
    BY <1>2, <1>6, Parts DEF PTypeOK
  <2>4. DOMAIN live' \subseteq Nat /\ \A at \in DOMAIN live' : \E k \in Klasses : live'[at] = class_to_size(k)
    BY <1>7, Parts DEF PTypeOK
  <2>5. held' = [e \in DOMAIN held' |-> 1] /\ live' = [at \in DOMAIN live' |-> live'[at]]
    BY <1>6, <1>7
  <2>6. cache' \in [Threads -> [Klasses -> Seq(Nat)]]
    BY <1>10
  <2> QED BY <1>1, <2>1, <2>2, <2>3, <2>4, <2>5, <2>6, Parts DEF PTypeOK
<1>13. Working'
  <2>1. \A u \in Threads \ {t} : Works(u)'
    <3>1. \A u \in Threads \ {t} : pc[u] = "return" =>
            ptr[u] \in DOMAIN live /\ \A c \in DOMAIN held : c.at # ptr[u] + HEADER
      BY Parts DEF Working, Works
    <3>2. \A u \in Threads \ {t} : pc[u] = "return" => \A c \in DOMAIN held' : c.at # ptr[u] + HEADER
      BY <1>2, <1>6, <3>1
    <3>3. \A u \in Threads \ {t} : pc[u] = "return" => ptr[u] # q
      BY <1>3, <3>1
    <3>4. \A u \in Threads \ {t} : pc[u] = "return" =>
            ptr[u] \in DOMAIN live' /\ live'[ptr[u]] = live[ptr[u]]
      BY <1>7, <3>1, <3>3
    <3> QED BY <1>1, <1>11, <3>2, <3>4, Parts, OthersWork
  <2>2. Works(t)'
    BY <1>11 DEF Works
  <2> QED BY <2>1, <2>2 DEF Working
<1>14. Headers'
  <2>1. ptr[t] # q
    BY <1>2, <1>3
  <2>2. r.at - HEADER \in DOMAIN live' /\ live'[r.at - HEADER] = klassSize(r.len)
    BY <1>2, <1>7, <2>1
  <2>3. ASSUME NEW c \in DOMAIN held, c # b
        PROVE  c.at - HEADER \in DOMAIN live' /\ live'[c.at - HEADER] = klassSize(c.len)
    <3>1. c.at - HEADER \in DOMAIN live /\ live[c.at - HEADER] = klassSize(c.len)
      BY Parts DEF Headers
    <3>2. c.at \in Nat /\ c.at # b.at /\ b.at \in Nat
      BY <1>3, <2>3, Parts DEF PTypeOK, Blocks
    <3>3. c.at - HEADER # q
      BY <1>3, <3>2, Constants
    <3> QED BY <1>7, <3>1, <3>3
  <2>4. \A c, d \in DOMAIN held' : d.at = c.at => d = c
    <3>1. \A c, d \in DOMAIN held : d.at = c.at => d = c
      BY Parts DEF Headers
    <3> QED BY <1>2, <1>6, <3>1
  <2>5. \A c \in DOMAIN held' : c = r \/ (c \in DOMAIN held /\ c # b)
    BY <1>6
  <2> QED BY <2>2, <2>3, <2>4, <2>5 DEF Headers
<1>15. Exchanges'
  BY <1>3, <1>6, <1>11, Parts DEF Exchanges
<1>16. MasterPlace'
  BY <1>1, Parts DEF MasterPlace
<1>17. SpotsApart'
  <2> DEFINE f == [x \in Spots' |->
                     IF x = CacheSpot(t, K, 1) THEN LiveSpot(q)
                     ELSE IF \E i \in DOMAIN more : x = CacheSpot(t, K, i) THEN CacheSpot(t, K, x[4] - 1)
                     ELSE x]
             mineOf(x) == \E i \in DOMAIN more : x = CacheSpot(t, K, i)
  <2>1. ASSUME NEW x \in Spots', ~mineOf(x)
        PROVE  x \in Spots /\ At(x)' = At(x) /\ Size(x)' = Size(x)
               /\ x # LiveSpot(q) /\ \A i : x # CacheSpot(t, K, i)
    <3>0. /\ \A i : x = CacheSpot(t, K, i) => i \in DOMAIN cache'[t][K]
          /\ \A at : x = LiveSpot(at) => at \in DOMAIN live'
      BY NextSpotKinds DEF SpotFacts, CacheSpot, LiveSpot, PieceSpot, MasterSpot, SlotSpot
    <3>1. x # LiveSpot(q) /\ \A i : x # CacheSpot(t, K, i)
      BY <1>7, <1>10, <2>1, <3>0
    <3>2. ASSUME NEW u \in Threads, NEW k \in Klasses, NEW i \in DOMAIN cache'[u][k],
                 x = CacheSpot(u, k, i)
          PROVE  x \in Spots /\ At(x)' = At(x) /\ Size(x)' = Size(x)
      <4>1. cache'[u][k] = cache[u][k]
        BY <1>10, <3>1, <3>2
      <4> QED BY <3>2, <4>1, SpotKinds, NextSpotKinds DEF SpotFacts
    <3>3. ASSUME NEW u \in Threads, pc'[u] = "set_up", x = PieceSpot(u)
          PROVE  x \in Spots /\ At(x)' = At(x) /\ Size(x)' = Size(x)
      <4>1. u # t
        BY <1>11, <3>3
      <4>2. NewSize(u)' = NewSize(u) /\ ptr'[u] = ptr[u] /\ pc[u] = "set_up"
        BY <1>1, <1>11, <3>3, <4>1 DEF NewSize
      <4> QED BY <3>3, <4>2, SpotKinds, NextSpotKinds DEF SpotFacts
    <3>4. ASSUME NEW at \in DOMAIN live', x = LiveSpot(at)
          PROVE  x \in Spots /\ At(x)' = At(x) /\ Size(x)' = Size(x)
      <4>1. at \in DOMAIN live /\ live'[at] = live[at]
        BY <1>7, <3>4
      <4> QED BY <3>4, <4>1, SpotKinds, NextSpotKinds DEF SpotFacts
    <3>5. CASE /\ ~ \E u \in Threads, k \in Klasses : \E i \in DOMAIN cache'[u][k] : x = CacheSpot(u, k, i)
               /\ ~ \E u \in Threads : pc'[u] = "set_up" /\ x = PieceSpot(u)
               /\ ~ \E at \in DOMAIN live' : x = LiveSpot(at)
      BY <1>1, <3>1, <3>5, SpotKinds, NextSpotKinds DEF SpotFacts
    <3> QED BY <3>1, <3>2, <3>3, <3>4, <3>5
  <2>2. /\ LiveSpot(q) \in Spots /\ At(LiveSpot(q)) = q /\ Size(LiveSpot(q)) = class_to_size(K)
        /\ \A i : CacheSpot(t, K, i) # LiveSpot(q)
    <3>1. LiveSpot(q) \in Spots /\ At(LiveSpot(q)) = q /\ Size(LiveSpot(q)) = live[q]
      BY <1>3, SpotKinds DEF SpotFacts
    <3>2. \A i : CacheSpot(t, K, i) # LiveSpot(q)
      BY DEF CacheSpot, LiveSpot
    <3> QED BY <1>4, <3>1, <3>2
  <2>3. ASSUME NEW i \in DOMAIN more
        PROVE  At(CacheSpot(t, K, i))' = more[i] /\ Size(CacheSpot(t, K, i))' = class_to_size(K)
    <3>1. /\ At(CacheSpot(t, K, i))' = cache'[t][K][i]
          /\ Size(CacheSpot(t, K, i))' = class_to_size(K)
      BY NextSpotKinds DEF SpotFacts
    <3> QED BY <1>10, <3>1
  <2>4. ASSUME NEW i \in DOMAIN more, i # 1
        PROVE  /\ CacheSpot(t, K, i - 1) \in Spots
               /\ At(CacheSpot(t, K, i - 1)) = more[i]
               /\ Size(CacheSpot(t, K, i - 1)) = class_to_size(K)
    <3>1. i - 1 \in DOMAIN list /\ more[i] = list[i - 1]
      BY <1>9, <2>4
    <3> QED BY <1>4, <3>1, SpotKinds DEF SpotFacts, list
  <2>5. SpotsTyped /\ SpotsTyped' /\ SpotsApart
    BY <1>12, <1>13, Parts
  <2>6. /\ \A i, j : CacheSpot(t, K, i) = CacheSpot(t, K, j) => i = j
        /\ \A i : CacheSpot(t, K, i)[4] = i
    BY DEF CacheSpot
  <2>7. /\ \A x \in Spots' : x = CacheSpot(t, K, 1) => f[x] = LiveSpot(q)
        /\ \A x \in Spots' : \A i \in DOMAIN more : i # 1 /\ x = CacheSpot(t, K, i) => f[x] = CacheSpot(t, K, i - 1)
        /\ \A x \in Spots' : ~mineOf(x) /\ x # CacheSpot(t, K, 1) => f[x] = x
    BY <2>6
  <2> HIDE DEF f
  <2>8. ASSUME NEW x \in Spots'
        PROVE  /\ f[x] \in Spots
               /\ At(f[x]) = At(x)' /\ Size(f[x]) = Size(x)'
    <3>1. ASSUME NEW i \in DOMAIN more, x = CacheSpot(t, K, i), i = 1
          PROVE  /\ f[x] \in Spots
                 /\ At(f[x]) = At(x)' /\ Size(f[x]) = Size(x)'
      <4>1. f[x] = LiveSpot(q)
        BY <2>7, <3>1
      <4>2. At(x)' = q /\ Size(x)' = class_to_size(K)
        BY <1>9, <2>3, <3>1
      <4> QED BY <2>2, <4>1, <4>2
    <3>2. ASSUME NEW i \in DOMAIN more, x = CacheSpot(t, K, i), i # 1
          PROVE  /\ f[x] \in Spots
                 /\ At(f[x]) = At(x)' /\ Size(f[x]) = Size(x)'
      <4>1. f[x] = CacheSpot(t, K, i - 1)
        BY <2>7, <3>2
      <4> QED BY <2>3, <2>4, <3>2, <4>1
    <3>3. CASE ~mineOf(x)
      BY <2>1, <2>7, <3>3
    <3> QED BY <3>1, <3>2, <3>3
  <2>9. ASSUME NEW x \in Spots', NEW y \in Spots', f[x] = f[y]
        PROVE  x = y
    <3>1. ASSUME NEW z \in Spots'
          PROVE  \/ z = CacheSpot(t, K, 1) /\ f[z] = LiveSpot(q)
                 \/ \E i \in DOMAIN more : i # 1 /\ z = CacheSpot(t, K, i) /\ f[z] = CacheSpot(t, K, i - 1)
                 \/ f[z] = z /\ z # LiveSpot(q) /\ \A i : z # CacheSpot(t, K, i)
      BY <2>1, <2>7
    <3>2. \A i, j \in DOMAIN more : i # 1 /\ j # 1 /\ CacheSpot(t, K, i - 1) = CacheSpot(t, K, j - 1) => i = j
      <4>1. \A i \in DOMAIN more : i # 1 => i \in Nat
        BY <1>9
      <4>2. \A i, j \in Nat : i - 1 = j - 1 => i = j
        OBVIOUS
      <4> QED BY <2>6, <4>1, <4>2
    <3> QED BY <2>2, <2>9, <3>1, <3>2
  <2>10. \A x \in Spots' : /\ f[x] \in Spots
                           /\ At(f[x]) <= At(x)'
                           /\ At(x)' + Size(x)' <= At(f[x]) + Size(f[x])
    <3>1. \A x \in Spots' : At(x)' \in Int /\ Size(x)' \in Int
      BY <2>5 DEF SpotsTyped
    <3> QED BY <2>8, <3>1
  <2> QED BY <2>5, <2>9, <2>10, Carved
<1> QED BY <1>12, <1>13, <1>14, <1>15, <1>16, <1>17 DEF PInv

-----------------------------------------------------------------------------
(***************************************************************************)
(* The invariant, and what follows from it.                                *)
(***************************************************************************)
\* At first everything is in the slots, which are apart.
LEMMA Slices ==
  \A C \in Nat : \A s, r \in Nat : s # r => Clear(s * C, C, r * C, C)
<1> SUFFICES ASSUME NEW C \in Nat, NEW s \in Nat, NEW r \in Nat, s # r
             PROVE  Clear(s * C, C, r * C, C)
  OBVIOUS
<1>1. /\ s * C + C = (s + 1) * C /\ r * C + C = (r + 1) * C
  OBVIOUS
<1>2. \A m, n \in Nat : m < n => (m + 1) * C <= n * C
  OBVIOUS
<1>3. s < r \/ r < s
  OBVIOUS
<1> QED BY <1>1, <1>2, <1>3 DEF Clear

LEMMA PInitInv == Init => PInv
<1> SUFFICES ASSUME Init PROVE PInv
  OBVIOUS
<1>1. /\ used = {} /\ live = <<>> /\ held = EmptyBag
      /\ master = [at |-> Nothing, left |-> 0]
      /\ cache = [t \in Threads |-> [k \in Klasses |-> <<>>]]
      /\ pc = [t \in Threads |-> "out"]
      /\ req = [t \in Threads |-> NoReq] /\ ptr = [t \in Threads |-> Nothing]
  BY DEF Init
<1>2. DOMAIN held = {} /\ held = [b \in DOMAIN held |-> 1]
  BY <1>1 DEF EmptyBag, SetToBag
<1>3. DOMAIN live = {} /\ live = [at \in DOMAIN live |-> live[at]]
  <2>1. DOMAIN live = {}
    BY <1>1
  <2>2. \A e : e \notin DOMAIN live
    BY <2>1
  <2> QED BY <1>1, <2>1, <2>2
<1>4. PTypeOK
  <2>1. cache \in [Threads -> [Klasses -> Seq(Nat)]]
    <3>1. <<>> \in Seq(Nat)
      BY EmptySeq
    <3> QED BY <1>1, <3>1
  <2>2. pc \in [Threads -> Labels] /\ ptr \in [Threads -> Nat \cup {Nothing}]
    BY <1>1 DEF Labels
  <2>3. req \in [Threads -> [size : Requests \cup {0}, prev : Blocks \cup {NoBlock}]]
    BY <1>1 DEF NoReq
  <2>4. master \in [at : Nat \cup {Nothing}, left : Nat]
    BY <1>1
  <2> QED BY <1>1, <1>2, <1>3, <2>1, <2>2, <2>3, <2>4 DEF PTypeOK
<1>5. Working
  BY <1>1 DEF Working, Works, NoReq
<1>6. Headers /\ Exchanges /\ MasterPlace
  BY <1>1, <1>2 DEF Headers, Exchanges, MasterPlace, NoReq
<1>7. SpotsApart
  <2>1. ASSUME NEW x \in Spots
        PROVE  x = MasterSpot \/ \E s \in Slots : x = SlotSpot(s)
    <3>1. \A t \in Threads, k \in Klasses : \A i \in DOMAIN cache[t][k] : FALSE
      <4>1. \A t \in Threads, k \in Klasses : cache[t][k] = <<>>
        BY <1>1
      <4>2. \A i \in DOMAIN <<>> : FALSE
        OBVIOUS
      <4> QED BY <4>1, <4>2
    <3>2. \A t \in Threads : pc[t] # "set_up"
      BY <1>1
    <3> QED BY <1>3, <3>1, <3>2, SpotKinds DEF SpotFacts
  <2>2. At(MasterSpot) = -1 /\ Size(MasterSpot) = 0
    BY <1>1, SpotKinds DEF SpotFacts, Nothing
  <2>3. \A s \in Slots : /\ At(SlotSpot(s)) = s * CHUNK_SIZE /\ Size(SlotSpot(s)) = CHUNK_SIZE
                         /\ s \in Nat /\ s * CHUNK_SIZE \in Nat
    BY Constants, SpotKinds DEF SpotFacts
  <2> SUFFICES ASSUME NEW x \in Spots, NEW y \in Spots, x # y
               PROVE  Clear(At(x), Size(x), At(y), Size(y))
    BY DEF SpotsApart
  <2>4. ASSUME NEW s \in Slots, NEW r \in Slots, x = SlotSpot(s), y = SlotSpot(r)
        PROVE  Clear(At(x), Size(x), At(y), Size(y))
    <3>1. s # r
      BY <2>4
    <3>2. Clear(s * CHUNK_SIZE, CHUNK_SIZE, r * CHUNK_SIZE, CHUNK_SIZE)
      <4>1. s \in Nat /\ r \in Nat /\ CHUNK_SIZE \in Nat
        BY Constants
      <4> QED BY <3>1, <4>1, Slices
    <3> QED BY <2>3, <2>4, <3>2
  <2>5. ASSUME NEW s \in Slots, x = SlotSpot(s), y = MasterSpot
        PROVE  Clear(At(x), Size(x), At(y), Size(y))
    BY <2>2, <2>3, <2>5 DEF Clear
  <2>6. ASSUME NEW s \in Slots, y = SlotSpot(s), x = MasterSpot
        PROVE  Clear(At(x), Size(x), At(y), Size(y))
    BY <2>2, <2>3, <2>6 DEF Clear
  <2> QED BY <2>1, <2>4, <2>5, <2>6
<1> QED BY <1>4, <1>5, <1>6, <1>7 DEF PInv

LEMMA PStepInv == PInv /\ [Next]_vars => PInv'
<1> SUFFICES ASSUME PInv, [Next]_vars PROVE PInv'
  OBVIOUS
<1>1. ASSUME NEW t \in Threads, NEW size \in Sizes, xmalloc(t, size) PROVE PInv'
  BY <1>1, xmallocKeeps
<1>2. ASSUME NEW t \in Threads, NEW b \in BagToSet(held), xrealloc(t, b) PROVE PInv'
  BY <1>2, xreallocKeeps
<1>3. ASSUME NEW t \in Threads, NEW b \in BagToSet(held), xfree(t, b) PROVE PInv'
  BY <1>3, xfreeKeeps
<1>4. ASSUME NEW t \in Threads, InitMaster(t) PROVE PInv'
  BY <1>4, InitMasterKeeps
<1>5. ASSUME NEW t \in Threads, Refill(t) PROVE PInv'
  BY <1>5, RefillKeeps
<1>6. ASSUME NEW t \in Threads, setUpCacheList(t) PROVE PInv'
  BY <1>6, setUpCacheListKeeps
<1>7. ASSUME NEW t \in Threads, Take(t) PROVE PInv'
  BY <1>7, TakeKeeps
<1>8. ASSUME NEW t \in Threads, ReturnNew(t) PROVE PInv'
  BY <1>8, ReturnNewKeeps
<1>9. ASSUME NEW t \in Threads, ReturnExchanged(t) PROVE PInv'
  BY <1>9, ReturnExchangedKeeps
<1>10. CASE UNCHANGED vars
  <2>1. UNCHANGED <<used, master, cache, live, held, pc, req, ptr>>
    BY <1>10 DEF vars
  <2>2. \A u \in Threads : Works(u) => Works(u)'
    <3>1. \A u \in Threads : mine(u)' = mine(u)
      BY <2>1 DEF mine
    <3> QED BY <2>1, <3>1 DEF Works
  <2>3. PTypeOK' /\ Working' /\ Headers' /\ Exchanges' /\ MasterPlace'
    BY <2>1, <2>2, Parts DEF PTypeOK, Working, Headers, Exchanges, MasterPlace
  <2>4. SpotsApart'
    BY <2>1, Parts, SameSpots
  <2> QED BY <2>3, <2>4 DEF PInv
<1> QED BY <1>1, <1>2, <1>3, <1>4, <1>5, <1>6, <1>7, <1>8, <1>9, <1>10 DEF Next

\* Nothing is in two places, and each thread's work rests on what the others leave alone.
THEOREM PInvariance == Spec => []PInv
<1> QED BY PInitInv, PStepInv, PTL DEF Spec

\* The word in which *masterChunk keeps count is inside the chunk whenever a thread looks.
THEOREM MasterStaysInChunk == Spec => []MasterInChunk
<1>1. PInv => MasterInChunk
  <2> SUFFICES ASSUME PInv, master.at # Nothing
               PROVE  /\ master.left > 0 /\ SlotOf(master.at) \in used
                      /\ master.at + master.left = (SlotOf(master.at) + 1) * CHUNK_SIZE
    BY DEF MasterInChunk
  <2>1. master.left > 0 /\ \E s \in used : /\ s * CHUNK_SIZE <= master.at
                                           /\ master.at + master.left = (s + 1) * CHUNK_SIZE
    BY Parts DEF MasterPlace
  <2>2. PICK s \in used : /\ s * CHUNK_SIZE <= master.at
                          /\ master.at + master.left = (s + 1) * CHUNK_SIZE
    BY <2>1
  <2>3. s \in Nat /\ CHUNK_SIZE \in Nat /\ master.at \in Nat /\ master.left \in Nat
    BY Constants, Parts DEF PTypeOK
  <2>4. master.at < (s + 1) * CHUNK_SIZE
    <3>1. (s + 1) * CHUNK_SIZE \in Nat
      BY <2>3
    <3> QED BY <2>1, <2>2, <2>3, <3>1
  <2>5. CHUNK_SIZE # 0
    BY <2>2, <2>3, <2>4
  <2>6. \A C \in Nat \ {0}, r, a \in Nat : r * C <= a /\ a < (r + 1) * C => a \div C = r
    OBVIOUS
  <2>7. SlotOf(master.at) = s
    BY <2>2, <2>3, <2>4, <2>5, <2>6 DEF SlotOf
  <2> QED BY <2>1, <2>2, <2>7
<1> QED BY <1>1, PInvariance, PTL

\* No byte is in two places, whichever threads cut pieces off the master chunk and pass
\* blocks from one thread's cache to another's.
THEOREM NoByteInTwoPlaces == Spec => []PiecesApart
<1>1. PInv => PiecesApart
  <2> SUFFICES ASSUME PInv, NEW p \in Pieces, NEW q \in Pieces, p # q
               PROVE  Clear(p.at, p.len, q.at, q.len)
    BY DEF PiecesApart, Clear
  <2> DEFINE Fits(e, x) ==
        /\ x \in Spots /\ e.at = At(x) /\ e.len = Size(x)
        /\ e = [at |-> e.at, len |-> e.len, in |-> e.in]
        /\ \/ \E t, k, i : e.in = <<t, k, i>> /\ x = CacheSpot(t, k, i)
           \/ e.in = "live" /\ \E at : x = LiveSpot(at)
           \/ \E t : e.in = t /\ x = PieceSpot(t)
           \/ e.in = "master" /\ x = MasterSpot
  <2>1. ASSUME NEW e \in Pieces PROVE \E x : Fits(e, x)
    <3>1. ASSUME NEW t \in Threads, NEW k \in Klasses, NEW i \in DOMAIN cache[t][k],
                 e = [at |-> cache[t][k][i], len |-> class_to_size(k), in |-> <<t, k, i>>]
          PROVE  Fits(e, CacheSpot(t, k, i))
      BY <3>1, SpotKinds DEF SpotFacts
    <3>2. ASSUME NEW at \in DOMAIN live, e = [at |-> at, len |-> live[at], in |-> "live"]
          PROVE  Fits(e, LiveSpot(at))
      BY <3>2, SpotKinds DEF SpotFacts
    <3>3. ASSUME NEW t \in Threads, pc[t] = "set_up",
                 e = [at |-> ptr[t], len |-> NewSize(t), in |-> t]
          PROVE  Fits(e, PieceSpot(t))
      BY <3>3, SpotKinds DEF SpotFacts
    <3>4. ASSUME e = [at |-> master.at, len |-> master.left, in |-> "master"]
          PROVE  Fits(e, MasterSpot)
      BY <3>4, SpotKinds DEF SpotFacts
    <3>5. \/ \E t \in Threads, k \in Klasses : \E i \in DOMAIN cache[t][k] :
               e = [at |-> cache[t][k][i], len |-> class_to_size(k), in |-> <<t, k, i>>]
          \/ e \in {[at |-> at, len |-> live[at], in |-> "live"] : at \in DOMAIN live}
          \/ e \in {[at |-> ptr[t], len |-> NewSize(t), in |-> t] : t \in {u \in Threads : pc[u] = "set_up"}}
          \/ e = [at |-> master.at, len |-> master.left, in |-> "master"]
      <4> DEFINE List(t, k) == {[at |-> cache[t][k][i], len |-> class_to_size(k), in |-> <<t, k, i>>] :
                                  i \in DOMAIN cache[t][k]}
      <4>1. e \in UNION {List(t, k) : t \in Threads, k \in Klasses} =>
              \E t \in Threads, k \in Klasses : e \in List(t, k)
        <5> HIDE DEF List
        <5> QED OBVIOUS
      <4>2. \A t \in Threads, k \in Klasses : e \in List(t, k) =>
              \E i \in DOMAIN cache[t][k] :
                e = [at |-> cache[t][k][i], len |-> class_to_size(k), in |-> <<t, k, i>>]
        OBVIOUS
      <4>3. \/ e \in UNION {List(t, k) : t \in Threads, k \in Klasses}
            \/ e \in {[at |-> at, len |-> live[at], in |-> "live"] : at \in DOMAIN live}
            \/ e \in {[at |-> ptr[t], len |-> NewSize(t), in |-> t] : t \in {u \in Threads : pc[u] = "set_up"}}
            \/ e \in {[at |-> master.at, len |-> master.left, in |-> "master"]}
        BY DEF Pieces
      <4>4. e \in UNION {List(t, k) : t \in Threads, k \in Klasses} =>
              \E t \in Threads, k \in Klasses : \E i \in DOMAIN cache[t][k] :
                e = [at |-> cache[t][k][i], len |-> class_to_size(k), in |-> <<t, k, i>>]
        <5> HIDE DEF List
        <5> QED BY <4>1, <4>2
      <4>5. e \in {[at |-> master.at, len |-> master.left, in |-> "master"]} =>
              e = [at |-> master.at, len |-> master.left, in |-> "master"]
        OBVIOUS
      <4> HIDE DEF List
      <4> QED BY <4>3, <4>4, <4>5
    <3> HIDE DEF Fits
    <3> QED BY <3>1, <3>2, <3>3, <3>4, <3>5
  <2>2. ASSUME NEW e, NEW g, NEW x, Fits(e, x), Fits(g, x) PROVE e = g
    <3>1. e.in = g.in
      BY <2>2 DEF CacheSpot, LiveSpot, PieceSpot, MasterSpot
    <3> QED BY <2>2, <3>1
  <2>3. PICK x, y : Fits(p, x) /\ Fits(q, y)
    BY <2>1
  <2>4. x # y
    <3> HIDE DEF Fits
    <3> QED BY <2>2, <2>3
  <2> QED BY <2>3, <2>4, Parts DEF SpotsApart
<1> QED BY <1>1, PInvariance, PTL

\* The blocks of clients share no byte.
HeldApart ==
  \A b, c \in DOMAIN held : b # c => b.at + b.len <= c.at \/ c.at + c.len <= b.at

LEMMA HeldAreApart == PInv => HeldApart
<1> SUFFICES ASSUME PInv, NEW b \in DOMAIN held, NEW c \in DOMAIN held, b # c
             PROVE  b.at + b.len <= c.at \/ c.at + c.len <= b.at
  BY DEF HeldApart
<1>1. ASSUME NEW e \in DOMAIN held
      PROVE  /\ e.at \in Nat /\ e.len \in Nat
             /\ LiveSpot(e.at - HEADER) \in Spots
             /\ At(LiveSpot(e.at - HEADER)) = e.at - HEADER
             /\ Size(LiveSpot(e.at - HEADER)) = klassSize(e.len)
             /\ klassSize(e.len) \in Nat /\ klassSize(e.len) >= e.len + HEADER
  <2>1. e.at \in Nat /\ e.len \in Requests
    BY Parts DEF PTypeOK, Blocks
  <2>2. e.at - HEADER \in DOMAIN live /\ live[e.at - HEADER] = klassSize(e.len)
    BY Parts DEF Headers
  <2>3. /\ LiveSpot(e.at - HEADER) \in Spots
        /\ At(LiveSpot(e.at - HEADER)) = e.at - HEADER
        /\ Size(LiveSpot(e.at - HEADER)) = live[e.at - HEADER]
    BY <2>2, SpotKinds DEF SpotFacts
  <2>4. e.len \in Nat /\ klassSize(e.len) \in Nat /\ klassSize(e.len) >= e.len + HEADER
    BY <2>1, RequestFacts, ClassFacts
  <2> QED BY <2>1, <2>2, <2>3, <2>4
<1>2. b.at # c.at
  BY Parts DEF Headers
<1>3. LiveSpot(b.at - HEADER) # LiveSpot(c.at - HEADER)
  <2>1. b.at - HEADER # c.at - HEADER
    BY <1>1, <1>2, Constants
  <2> QED BY <2>1 DEF LiveSpot
<1>4. Clear(b.at - HEADER, klassSize(b.len), c.at - HEADER, klassSize(c.len))
  BY <1>1, <1>3, Parts DEF SpotsApart
<1>5. /\ b.at \in Nat /\ b.len \in Nat /\ klassSize(b.len) \in Nat /\ klassSize(b.len) >= b.len + HEADER
      /\ c.at \in Nat /\ c.len \in Nat /\ klassSize(c.len) \in Nat /\ klassSize(c.len) >= c.len + HEADER
  BY <1>1
<1> QED BY <1>4, <1>5, Constants DEF Clear

\* A client is given one block more than the rest, which the step does not touch.
LEMMA Gives ==
  ASSUME PInv', NEW rest, rest = [e \in DOMAIN rest |-> 1], NEW r, r \notin DOMAIN rest,
         held' = BagAdd(rest, r)
  PROVE  H!Give(rest)
<1>1. held' = [e \in DOMAIN rest \cup {r} |-> 1]
  BY BagFacts
<1>2. DOMAIN held' = DOMAIN rest \cup {r}
  BY <1>1
<1>3. H!BagToSet(held') = DOMAIN held' /\ H!BagToSet(rest) = DOMAIN rest
  BY DEF H!BagToSet
<1>4. H!BagAdd(rest, r) = held'
  BY DEF BagAdd, H!BagAdd
<1>5. r \in H!Block
  <2>1. DOMAIN held' \subseteq Blocks
    BY DEF PInv, PTypeOK
  <2> QED BY <1>2, <2>1 DEF H!Block, Blocks
<1>6. \A c \in DOMAIN rest : H!Apart(r, c)
  <2>1. HeldApart'
    BY HeldAreApart, PTL
  <2> QED BY <1>2, <2>1 DEF HeldApart, H!Apart
<1> QED BY <1>2, <1>4, <1>5, <1>6 DEF H!Give, H!BagToSet

\* The caches of all threads together are an allocator: a block is as long as was asked
\* for, shares no byte with another, and stays what it is until it is freed or exchanged.
THEOREM CachesAreAHeap == Spec => HeapSpec
<1>1. Init => H!Init
  BY DEF Init, H!Init, EmptyBag, H!EmptyBag, SetToBag, H!SetToBag
<1>2. PInv /\ PInv' /\ [Next]_vars => [H!Malloc \/ H!Free \/ H!Realloc]_held
  <2> SUFFICES ASSUME PInv, PInv', [Next]_vars
               PROVE  held' = held \/ H!Malloc \/ H!Free \/ H!Realloc
    OBVIOUS
  <2>1. held = [e \in DOMAIN held |-> 1]
    BY Parts DEF PTypeOK
  <2>2. ASSUME NEW t \in Threads, NEW size \in Sizes, xmalloc(t, size)
        PROVE  held' = held
    BY <2>2 DEF xmalloc
  <2>3. ASSUME NEW t \in Threads, NEW b \in BagToSet(held), xrealloc(t, b)
        PROVE  held' = held
    BY <2>3, xreallocKeeps
  <2>4. ASSUME NEW t \in Threads, NEW b \in BagToSet(held), xfree(t, b)
        PROVE  H!Free
    <3>1. held' = BagRemove(held, b)
      BY <2>4 DEF xfree
    <3>2. BagRemove(held, b) = H!BagRemove(held, b)
      BY DEF BagRemove, H!BagRemove
    <3>3. b \in H!BagToSet(held)
      BY DEF BagToSet, H!BagToSet
    <3> QED BY <3>1, <3>2, <3>3 DEF H!Free, H!BagToSet
  <2>5. ASSUME NEW t \in Threads,
               InitMaster(t) \/ Refill(t) \/ setUpCacheList(t) \/ Take(t)
        PROVE  held' = held
    BY <2>5 DEF InitMaster, Refill, setUpCacheList, Take
  <2>6. ASSUME NEW t \in Threads, ReturnNew(t) PROVE H!Malloc
    <3>1. pc[t] = "return" /\ held' = BagAdd(held, Result(t))
      BY <2>6 DEF ReturnNew
    <3>2. Result(t) \notin DOMAIN held
      BY <3>1, ResultFacts
    <3> QED BY <2>1, <3>1, <3>2, Gives DEF H!Malloc
  <2>7. ASSUME NEW t \in Threads, ReturnExchanged(t) PROVE H!Realloc
    <3>1. PICK b, rest : b = req[t].prev /\ rest = BagRemove(held, b)
      OBVIOUS
    <3>2. pc[t] = "return" /\ b # NoBlock /\ held' = BagAdd(rest, Result(t))
      BY <2>7, <3>1 DEF ReturnExchanged
    <3>3. b \in DOMAIN held
      BY <3>1, <3>2, Parts DEF Exchanges
    <3>4. rest = [e \in DOMAIN held \ {b} |-> 1]
      <4>1. BagRemove(held, b) = [e \in DOMAIN held \ {b} |-> 1]
        BY <2>1, <3>3, BagFacts
      <4> QED BY <3>1, <4>1
    <3>5. rest = [e \in DOMAIN rest |-> 1] /\ DOMAIN rest = DOMAIN held \ {b}
      BY <3>4
    <3>6. Result(t) \notin DOMAIN rest
      BY <3>2, <3>5, ResultFacts
    <3>7. H!Give(rest)
      BY <3>2, <3>5, <3>6, Gives
    <3>8. rest = H!BagRemove(held, b) /\ b \in H!BagToSet(held)
      BY <3>1, <3>3 DEF BagRemove, H!BagRemove, H!BagToSet
    <3> QED BY <3>7, <3>8 DEF H!Realloc, H!BagToSet
  <2>8. CASE UNCHANGED vars
    BY <2>8 DEF vars
  <2> QED BY <2>2, <2>3, <2>4, <2>5, <2>6, <2>7, <2>8 DEF Next
<1> QED BY <1>1, <1>2, PInvariance, PTL DEF Spec, HeapSpec, H!Spec

=============================================================================
