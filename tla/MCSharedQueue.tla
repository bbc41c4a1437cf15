--------------------------- MODULE MCSharedQueue ---------------------------
(***************************************************************************)
(* SharedQueue on a ring of two slots whose tickets wrap after four, with  *)
(* two putters and two getters that call as often as they like.            *)
(***************************************************************************)
EXTENDS SharedQueue, TLC

Symmetry == Permutations(Putters) \cup Permutations(Getters)

=============================================================================
