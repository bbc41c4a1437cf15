---------------------------- MODULE MCParMalloc ----------------------------
(***************************************************************************)
(* Two threads.  Blocks of 4000 bytes are cut 16 at a time, those of 8000  *)
(* one.  A chunk holds a piece of 16 and one large block; in the second    *)
(* chunk, from its third block on, bit 31 of the addresses is set.         *)
(***************************************************************************)
EXTENDS ParMalloc
CONSTANTS t1, t2
MCLowEnds == CHUNK_SIZE + 8000 .. 2 * CHUNK_SIZE - 1
Symmetry == Permutations({t1, t2})
=============================================================================
