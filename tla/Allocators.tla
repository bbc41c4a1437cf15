----------------------------- MODULE Allocators -----------------------------
(***************************************************************************)
(* The allocators that manage memory with one free list, each of which a   *)
(* program may be linked with: the first one (hw06, NuMem), the one with a *)
(* stack of small blocks above the list in its two versions (hw07, OptMem) *)
(* and the one with a mutex and a realloc (hw11, NuMalloc).  They share    *)
(* what they are described by, the list, the blocks and the pages; the     *)
(* initial state says which one it is.                                     *)
(***************************************************************************)
EXTENDS OptMem

CONSTANTS
  BACK,          \* of NuMalloc
  NuSizes,       \* what clients of NuMem ask for
  INT32_SIGN,    \* of NuMem
  FREE_LIMIT     \* of NuMem

ASSUME AllocatorsAssumption ==
  /\ BACK \in Nat \ {0} /\ FREE_LIMIT \in Nat /\ NuSizes \subseteq Nat \ {0}
  /\ INT32_SIGN \in Nat \ {0}

VARIABLES moving, count, search

M == INSTANCE NuMalloc
N == INSTANCE NuMem WITH Sizes <- NuSizes

nuvars == <<count, search>>
avars  == <<fvars, ovars, moving, nuvars>>

AInit ==
  \/ OInit /\ moving = {} /\ count = 0 /\ search = 0
  \/ M!MInit /\ version = "nu_malloc" /\ stack = <<>> /\ count = 0 /\ search = 0
  \/ N!NInit /\ version = "nu_mem" /\ stack = <<>> /\ moving = {}

ANext ==
  \/ version \in {"opt_mem", "counted"} /\ Next /\ UNCHANGED <<moving, nuvars>>
  \/ version = "nu_malloc" /\ M!MNext /\ UNCHANGED <<version, stack, nuvars>>
  \/ version = "nu_mem" /\ N!NNext /\ UNCHANGED <<version, stack, moving>>

\* The program runs on: a call of NuMem's find_memory that can go on does.
ASpec == AInit /\ [][ANext]_avars
               /\ WF_avars(version = "nu_mem" /\ N!find_memory /\ UNCHANGED <<version, stack, moving>>)

-----------------------------------------------------------------------------
\* Every list is in the order of the addresses and free cells do not overlap, however
\* they were inserted and merged; NuMem's, which merges on both sides, leaves no two that
\* touch.
ListInOrder ==
  /\ ListSorted
  /\ version = "nu_mem" => N!ListCoalesced

\* Every byte obtained from mmap is in exactly one place after any sequence of splits,
\* merges, removals and moves: with a client, in a free cell, or given up.  (Blocks are as
\* long as their size fields say, which the counting version overwrites.)
EveryByteInOnePlace ==
  CASE version = "nu_mem" -> N!EveryByteInOnePlace
    [] version \in {"opt_mem", "nu_malloc"} -> ~broken => MemoryAccounted
    [] OTHER -> TRUE

\* A small block of the first allocator that is freed is on the list afterwards.
SavedForReuse == [][version = "nu_mem" => N!SavesFreed]_avars

\* A search of the first allocator ends, although it forgets the list and maps chunks.
SearchEnds == N!SearchEnds

H == INSTANCE Heap WITH Sizes <- Sizes \cup NuSizes, blocks <- held

\* Until a program breaks its memory, its clients have blocks that are long enough and
\* apart from each other, whatever was split, merged, popped, pushed and moved before.
HeapSpec == H!Spec

=============================================================================
