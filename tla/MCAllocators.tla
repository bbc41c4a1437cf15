---------------------------- MODULE MCAllocators ----------------------------
(***************************************************************************)
(* A header of one unit, cells of two, pages of four and chunks of two     *)
(* pages, with room for two chunks and a page.  For OptMem and NuMalloc,   *)
(* size 2 is opt_alloc's, 4 is split off free cells, and 8 has pages of    *)
(* its own.  For NuMem, size 1 makes the shortest block and 3 one of a     *)
(* page, no chunk serves 6, 7 has pages of its own, and 20 and its header  *)
(* are a negative int.                                                     *)
(***************************************************************************)
EXTENDS Allocators
=============================================================================
