-------------------------------- MODULE Heap --------------------------------
(***************************************************************************)
(* What an allocator promises to its clients: a block is as long as was    *)
(* asked for, no two blocks share a byte, and a block stays what it is     *)
(* until it is freed or exchanged for one of another length.  The blocks   *)
(* are a bag: an allocator that hands out one of them again shows.         *)
(***************************************************************************)
EXTENDS Integers, BagsExt, Bags

CONSTANT Sizes       \* the lengths that may be asked for
VARIABLE blocks      \* the blocks in the hands of clients: where and how long

Block == [at : Nat, len : Sizes]
Apart(b, c) == b.at + b.len <= c.at \/ c.at + c.len <= b.at

Init == blocks = EmptyBag

\* The blocks become those of rest and one more.
Give(rest) == \E b \in BagToSet(blocks') \cap Block :
                /\ \A c \in BagToSet(rest) : Apart(b, c)
                /\ blocks' = BagAdd(rest, b)

Malloc  == Give(blocks)
Free    == \E b \in BagToSet(blocks) : blocks' = BagRemove(blocks, b)
Realloc == \E b \in BagToSet(blocks) : Give(BagRemove(blocks, b))

Spec == Init /\ [][Malloc \/ Free \/ Realloc]_blocks

=============================================================================
