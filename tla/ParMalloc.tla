----------------------------- MODULE ParMalloc -----------------------------
(***************************************************************************)
(* The allocator of hw11 with a cache per thread (par_malloc_help.c), as   *)
(* the Collatz drivers use it (par_malloc.c, ivec.h): blocks are doubled   *)
(* with xrealloc, and xfree does nothing.  par_malloc holds the lock twice *)
(* and works on its own cache in between; each critical section and each   *)
(* stretch of work without the lock is an action.                          *)
(***************************************************************************)
EXTENDS SizeClasses, SequencesExt, Bags, BagsExt

CONSTANTS
  Threads,
  Sizes,         \* what clients first ask for
  MAX_SIZE,      \* clients ask for no more: cacheList has the entries 0 to 376
  CHUNK_SIZE,    \* bytes of a master chunk, 4 * 65536
  Slots,         \* where mmap can put a chunk: chunk s starts at s * CHUNK_SIZE
  LowEnds,       \* the addresses whose low half, as an int, is below 10000
  MaxLive        \* bound: blocks taken and not given back with par_free

\* The sizes are of vectors of longs that have room for more than one: an array of one
\* long is never doubled (ivec_main.c makes its vectors with room for 4).
ASSUME ParMallocAssumption ==
  /\ Sizes \subseteq {8 * cap : cap \in 2 .. MAX_SIZE \div 8}
  /\ MAX_SIZE \in 1 .. class_to_size(376) - 8
  /\ CHUNK_SIZE \in Nat /\ Slots \subseteq Nat /\ LowEnds \subseteq Nat
  /\ \A size \in 1 .. MAX_SIZE :
       LET class == class_to_size(size_to_class(size + 8)) IN
       getClassChunkSize(class) < CHUNK_SIZE /\ getClassChunkSize_11(class) < CHUNK_SIZE

HEADER  == 8
Nothing == -1
SlotOf(at) == at \div CHUNK_SIZE

VARIABLES
  used,      \* the slots that are mapped
  master,    \* masterChunk, and the bytes left there that it points to
  cache,     \* cacheList: the blocks of each class that each thread keeps
  live,      \* the size fields of the blocks taken from a cache, by address
  held,      \* the bag of the blocks that clients hold: the pointer, what was asked for
  pc, req,   \* where each thread is in par_malloc, and for what
  ptr        \* the piece that each thread is cutting up, or the block it has taken

vars == <<used, master, cache, live, held, pc, req, ptr>>

klass(size) == size_to_class(size + HEADER)
klassSize(size) == class_to_size(klass(size))

\* The sizes of clients and what doubling leads to.
Powers   == {1, 2, 4, 8, 16, 32, 64, 128, 256, 512, 1024, 2048, 4096}
Requests == {size \in 1 .. MAX_SIZE : \E s \in Sizes, m \in Powers : size = s * m}
Klasses  == {klass(size) : size \in Requests}

NoBlock == [at |-> Nothing, len |-> 0]
NoReq   == [size |-> 0, prev |-> NoBlock]

\* cacheList is not cleared, but each thread's is the first large block it takes from the
\* system's malloc, in memory fresh from the kernel: every list is empty.
Init ==
  /\ used = {}
  /\ master = [at |-> Nothing, left |-> 0]
  /\ cache = [t \in Threads |-> [k \in Klasses |-> <<>>]]
  /\ live = <<>> /\ held = EmptyBag
  /\ pc = [t \in Threads |-> "out"]
  /\ req = [t \in Threads |-> NoReq]
  /\ ptr = [t \in Threads |-> Nothing]

Goto(t, label) == pc' = [pc EXCEPT ![t] = label]

With(f, at, n) == [b \in DOMAIN f \cup {at} |-> IF b = at THEN n ELSE f[b]]
Without(f, at) == [b \in DOMAIN f \ {at} |-> f[b]]

xmalloc(t, size) ==
  /\ pc[t] = "out"
  /\ Cardinality(DOMAIN live) < MaxLive
  /\ req' = [req EXCEPT ![t] = [size |-> size, prev |-> NoBlock]]
  /\ Goto(t, "init")
  /\ UNCHANGED <<used, master, cache, live, held, ptr>>

\* ivec_push doubles a block that no other thread is doubling; par_realloc compares
\* the new size with the size field.
xrealloc(t, b) ==
  LET bytes == 2 * b.len IN
  /\ pc[t] = "out"
  /\ \A u \in Threads : req[u].prev # b
  /\ bytes <= MAX_SIZE
  /\ \/ /\ live[b.at - HEADER] = bytes
        /\ held' = BagAdd(BagRemove(held, b), [b EXCEPT !.len = bytes])
        /\ UNCHANGED <<pc, req>>
     \/ /\ live[b.at - HEADER] # bytes
        /\ req' = [req EXCEPT ![t] = [size |-> bytes, prev |-> b]]
        /\ Goto(t, "init")
        /\ UNCHANGED held
  /\ UNCHANGED <<used, master, cache, live, ptr>>

xfree(t, b) ==                             \* the call of par_free is commented out
  /\ pc[t] = "out"
  /\ \A u \in Threads : req[u].prev # b
  /\ held' = BagRemove(held, b)
  /\ UNCHANGED <<used, master, cache, live, pc, req, ptr>>

Chunk(s) == [at |-> s * CHUNK_SIZE, left |-> CHUNK_SIZE]

\* The first critical section.
InitMaster(t) ==
  /\ pc[t] = "init"
  /\ \/ /\ master.at = Nothing \/ master.left <= req[t].size
        /\ \E s \in Slots \ used : used' = used \cup {s} /\ master' = Chunk(s)
     \/ /\ master.at # Nothing /\ master.left > req[t].size
        /\ UNCHANGED <<used, master>>
  /\ Goto(t, "lookup")
  /\ UNCHANGED <<cache, live, held, req, ptr>>


(***************************************************************************)
(* The rest of par_malloc                                                  *)
(***************************************************************************)
mine(t) == cache[t][klass(req[t].size)]

NewSize(t) == getClassChunkSize(klassSize(req[t].size))

take_from(t, chunk) ==
  /\ ptr' = [ptr EXCEPT ![t] = chunk.at]
  /\ master' = [at |-> chunk.at + NewSize(t), left |-> chunk.left - NewSize(t)]

\* A variant for the checks: rely on the first critical section.
RefillUnchecked(t) ==
  /\ pc[t] = "lookup" /\ mine(t) = <<>>
  /\ take_from(t, master)
  /\ Goto(t, "set_up")
  /\ UNCHANGED <<used, cache, live, held, req>>

\* The second critical section: a piece of the master chunk, or of a new one.
Refill(t) ==
  /\ pc[t] = "lookup" /\ mine(t) = <<>>
  /\ \/ NewSize(t) < master.left /\ take_from(t, master) /\ UNCHANGED used
     \/ /\ NewSize(t) >= master.left
        /\ \E s \in Slots \ used : used' = used \cup {s} /\ take_from(t, Chunk(s))
  /\ Goto(t, "set_up")
  /\ UNCHANGED <<cache, live, held, req>>

\* A variant for the checks: one block too many.
setUpOneMore(t) ==
  LET size == klassSize(req[t].size) IN
  /\ pc[t] = "set_up"
  /\ cache' = [cache EXCEPT ![t][klass(req[t].size)] =
                 [k \in 1 .. NewSize(t) \div size + 1 |-> ptr[t] + (k - 1) * size]]
  /\ Goto(t, "lookup")
  /\ UNCHANGED <<used, master, live, held, req, ptr>>

setUpCacheList(t) ==
  LET size == klassSize(req[t].size) IN
  /\ pc[t] = "set_up"
  /\ cache' = [cache EXCEPT ![t][klass(req[t].size)] =
                 [k \in 1 .. NewSize(t) \div size |-> ptr[t] + (k - 1) * size]]
  /\ Goto(t, "lookup")
  /\ UNCHANGED <<used, master, live, held, req, ptr>>

\* A variant for the checks: leave the block in the list.
TakeAndKeep(t) ==
  /\ pc[t] = "lookup" /\ mine(t) # <<>>
  /\ ptr' = [ptr EXCEPT ![t] = Head(mine(t))]
  /\ live' = With(live, ptr'[t], klassSize(req[t].size))
  /\ Goto(t, "return")
  /\ UNCHANGED <<used, master, cache, held, req>>

\* The first block of the list.  A next block is taken for the end of the list when
\* the low half of its address is below 10000 as an int; the rest is dropped.
Take(t) ==
  /\ pc[t] = "lookup" /\ mine(t) # <<>>
  /\ cache' = [cache EXCEPT ![t][klass(req[t].size)] =
                 IF Len(mine(t)) > 1 /\ mine(t)[2] \in LowEnds
                 THEN <<>> ELSE Tail(mine(t))]
  /\ ptr' = [ptr EXCEPT ![t] = Head(mine(t))]
  /\ live' = With(live, ptr'[t], klassSize(req[t].size))
  /\ Goto(t, "return")
  /\ UNCHANGED <<used, master, held, req>>

Result(t) == [at |-> ptr[t] + HEADER, len |-> req[t].size]

ReturnNew(t) ==
  /\ pc[t] = "return" /\ req[t].prev = NoBlock
  /\ held' = BagAdd(held, Result(t))
  /\ req' = [req EXCEPT ![t] = NoReq]
  /\ Goto(t, "out")
  /\ UNCHANGED <<used, master, cache, live, ptr>>

\* memcpy, par_free(prev), return
ReturnExchanged(t) ==
  LET prev == req[t].prev.at - HEADER IN
  /\ pc[t] = "return" /\ req[t].prev # NoBlock
  /\ held' = BagAdd(BagRemove(held, req[t].prev), Result(t))
  /\ live' = Without(live, prev)
  /\ cache' = [cache EXCEPT ![t][size_to_class(live[prev])] = <<prev>> \o @]
  /\ req' = [req EXCEPT ![t] = NoReq]
  /\ Goto(t, "out")
  /\ UNCHANGED <<used, master, ptr>>

Next ==
  \E t \in Threads :
    \/ \E size \in Sizes : xmalloc(t, size)
    \/ \E b \in BagToSet(held) : xrealloc(t, b) \/ xfree(t, b)
    \/ InitMaster(t) \/ Refill(t) \/ setUpCacheList(t) \/ Take(t)
    \/ ReturnNew(t) \/ ReturnExchanged(t)

Spec == Init /\ [][Next]_vars

-----------------------------------------------------------------------------
\* The master chunk's remainder reaches to the end of its chunk and is never empty:
\* the word in which *masterChunk keeps count is inside it, although the count is
\* read in one critical section and acted upon in the next.
MasterInChunk ==
  master.at # Nothing =>
    /\ master.left > 0 /\ SlotOf(master.at) \in used
    /\ master.at + master.left = (SlotOf(master.at) + 1) * CHUNK_SIZE

\* Everything that is somewhere: in a cache, taken, being cut up, or not cut yet.
Pieces ==
  (UNION {{[at |-> cache[t][k][i], len |-> class_to_size(k), in |-> <<t, k, i>>] :
             i \in DOMAIN cache[t][k]} : t \in Threads, k \in Klasses})
  \cup {[at |-> at, len |-> live[at], in |-> "live"] : at \in DOMAIN live}
  \cup {[at |-> ptr[t], len |-> NewSize(t), in |-> t] :
            t \in {u \in Threads : pc[u] = "set_up"}}
  \cup {[at |-> master.at, len |-> master.left, in |-> "master"]}

\* No byte is in two places, whichever threads cut pieces off the master chunk and
\* pass blocks from one thread's cache to another's.
PiecesApart ==
  \A p, q \in Pieces :
    p # q => p.at + p.len <= q.at \/ q.at + q.len <= p.at

H == INSTANCE Heap WITH Sizes <- Requests, blocks <- held

\* The caches of all threads together are an allocator.
HeapSpec == H!Spec

=============================================================================
