------------------------------- MODULE OptMem -------------------------------
(***************************************************************************)
(* The allocator of hw07 that is optimised for small blocks (opt_mem.c):   *)
(* freed blocks of one size are kept on a stack above the free list        *)
(* allocator, linked through themselves, and handed out again from there.  *)
(* Its earlier version, of which the repository keeps three copies, counts *)
(* the bytes on the stack in the size field of the block at the top.       *)
(***************************************************************************)
EXTENDS FreeList, Bags, BagsExt

CONSTANT Sizes      \* what clients ask for

ASSUME OptMemAssumption == Sizes \subseteq Nat \ {0}

VARIABLES
  version,  \* which of the allocators the program is linked with
  stack,    \* the addresses of the blocks on the stack, the top first
  held,     \* the bag of the blocks that clients hold: the pointer, how much was asked for
  broken    \* the program has damaged its memory: its end

ovars == <<version, stack, held, broken>>

OInit ==
  /\ Init
  /\ version \in {"opt_mem", "counted"}
  /\ stack = <<>> /\ held = EmptyBag /\ broken = FALSE

SMALL == HEADER + CELL_SIZE      \* the size field of a block of opt_alloc

\* What the local current_size of opt_free may hold when nobody has set it.
Garbage == {0, CHUNK_SIZE}

hand(at, size) == held' = BagAdd(held, [at |-> at + HEADER, len |-> size])

\* A variant for the checks: take the top and leave it on the stack.
peek(size) ==
  /\ version = "opt_mem" /\ size <= CELL_SIZE
  /\ stack # <<>>
  /\ hand(Head(stack), size)
  /\ UNCHANGED <<fvars, stack>>

\* opt_alloc, the stack is not empty.
pop(size) ==
  /\ version = "opt_mem" /\ size <= CELL_SIZE
  /\ stack # <<>>
  /\ hand(Head(stack), size)
  /\ stack' = Tail(stack)
  /\ UNCHANGED fvars

\* The earlier version writes what remains on the stack into the new top.
pop_counted(size) ==
  /\ version = "counted" /\ size <= CELL_SIZE
  /\ stack # <<>>
  /\ hand(Head(stack), size)
  /\ stack' = Tail(stack)
  /\ live' = IF stack' = <<>> THEN live
             ELSE [live EXCEPT ![Head(stack')] = live[Head(stack)] - SMALL]
  /\ UNCHANGED <<list, mapped, lost>>

nu_malloc(size) ==
  /\ ~broken
  /\ \/ pop(size)
     \/ pop_counted(size)
     \/ /\ size <= CELL_SIZE => stack = <<>>
        /\ \E at \in Address :
             /\ hw06_malloc(IF size <= CELL_SIZE THEN CELL_SIZE ELSE size, at)
             /\ hand(at, size)
        /\ UNCHANGED stack
  /\ UNCHANGED <<version, broken>>

\* opt_free
push(at) ==
  /\ version = "opt_mem"
  /\ stack' = <<at>> \o stack
  /\ UNCHANGED fvars

push_counted(at) ==
  /\ version = "counted"
  /\ stack' = <<at>> \o stack
  /\ \E size \in IF stack = <<>> THEN Garbage ELSE {live[Head(stack)]} :
       live' = [live EXCEPT ![at] = size + SMALL]
  /\ UNCHANGED <<list, mapped, lost>>

opt_free(at) == push(at) \/ push_counted(at)

\* A variant for the checks: keep every block on the stack.
nu_free_all(b) ==
  /\ ~broken
  /\ held' = BagRemove(held, b)
  /\ opt_free(b.at - HEADER)
  /\ UNCHANGED <<version, broken>>

nu_free(b) ==
  LET at == b.at - HEADER IN
  /\ ~broken
  /\ \/ live[at] = SMALL /\ opt_free(at)
     \/ live[at] # SMALL /\ b.len > CELL_SIZE /\ hw06_free(at) /\ UNCHANGED stack
  /\ held' = BagRemove(held, b)
  /\ UNCHANGED <<version, broken>>

\* A small block whose size field is a count of bytes goes to the free list with the
\* bytes behind it, or back to the kernel with the pages around it.
nu_free_counted(b) ==
  /\ ~broken /\ version = "counted"
  /\ live[b.at - HEADER] # SMALL /\ b.len <= CELL_SIZE
  /\ broken' = TRUE
  /\ UNCHANGED <<fvars, version, stack, held>>

Next == \/ \E size \in Sizes : nu_malloc(size)
        \/ \E b \in BagToSet(held) : nu_free(b) \/ nu_free_counted(b)

-----------------------------------------------------------------------------
Held == {b.at - HEADER : b \in BagToSet(held)}

\* Of the blocks that the free list allocator has handed out, each is either with a
\* client or once on the stack, where all of them were asked for by opt_alloc.
OwnedByOneLayer ==
  ~broken =>
    /\ DOMAIN live = Held \cup ToSet(stack)
    /\ Held \cap ToSet(stack) = {}
    /\ Len(stack) = Cardinality(ToSet(stack))

\* nu_free reads off the size field which layer a block belongs to.  It can in the
\* final version: small blocks, and they alone, have the size SMALL.  In the earlier
\* version the top of the stack counts the stack's bytes on top of whatever opt_free
\* found in its local variable, so only a stack of one block can give back a block
\* that nu_free still takes for a small one.
SizeFieldTells ==
  CASE version = "opt_mem" ->
         /\ \A b \in BagToSet(held) : live[b.at - HEADER] = SMALL <=> b.len <= CELL_SIZE
         /\ \A at \in ToSet(stack) : live[at] = SMALL
         /\ ~broken
    [] version = "counted" ->
         stack # <<>> => live[Head(stack)] - Len(stack) * SMALL \in Garbage
    [] OTHER -> TRUE

=============================================================================
