------------------------------ MODULE NuMalloc ------------------------------
(***************************************************************************)
(* The allocator with which hw11 links the Collatz drivers (nu_malloc.c,   *)
(* nu_malloc_help.c): the free list of hw07, a realloc, and one mutex      *)
(* around each call.  A call is therefore one step, but for xrealloc,      *)
(* which allocates and then frees while it holds the mutex.                *)
(***************************************************************************)
EXTENDS BagsExt, Bags, FreeList

CONSTANTS
  Sizes,      \* what clients ask for
  BACK        \* 64 bytes: where hw06_realloc looks for the size, before the block

VARIABLES
  held,       \* the bag of the blocks that clients hold: the pointer, how much was asked for
  moving,     \* the blocks that the xrealloc which holds the mutex will free: one or none
  broken      \* a client has a block that is too short, or the program has crashed

MInit == Init /\ held = EmptyBag /\ moving = {} /\ broken = FALSE

unlocked == moving = {} /\ ~broken

malloc(size) == \E at \in Address :
  /\ hw06_malloc(size, at)
  /\ held' = BagAdd(held, [at |-> at + HEADER, len |-> size])

xmalloc(size) == unlocked /\ malloc(size) /\ UNCHANGED <<moving, broken>>

free(b) == hw06_free(b.at - HEADER) /\ held' = BagRemove(held, b)

xfree(b) == unlocked /\ free(b) /\ UNCHANGED <<moving, broken>>

\* The word that is read for the size may be any; if it is what was asked for, the block is
\* returned as it is.
KeepBlock(b, size) ==
  /\ unlocked
  /\ b.at - BACK \in mapped
  /\ \/ /\ size + HEADER <= live[b.at - HEADER]
        /\ held' = BagAdd(BagRemove(held, b), [b EXCEPT !.len = size])
        /\ UNCHANGED broken
     \/ /\ size + HEADER > live[b.at - HEADER]
        /\ broken' = TRUE
        /\ UNCHANGED held
  /\ UNCHANGED <<fvars, moving>>

\* In front of the first blocks of a chunk there may be nothing to read.
ReadBeforeChunk(b) ==
  /\ unlocked
  /\ b.at - BACK \notin mapped
  /\ broken' = TRUE
  /\ UNCHANGED <<fvars, held, moving>>

MoveBlock(b, size) ==
  /\ unlocked
  /\ b.at - BACK \in mapped
  /\ malloc(size)
  /\ moving' = {b}
  /\ UNCHANGED broken

FreeMoved(b) ==
  /\ moving = {b}
  /\ free(b)
  /\ moving' = {}
  /\ UNCHANGED broken

\* No caller asks for 0 bytes.
xrealloc(b, size) ==
  KeepBlock(b, size) \/ ReadBeforeChunk(b) \/ MoveBlock(b, size) \/ FreeMoved(b)

MNext ==
  \/ \E size \in Sizes : xmalloc(size)
  \/ \E b \in BagToSet(held) : xfree(b) \/ \E size \in Sizes : xrealloc(b, size)

=============================================================================
