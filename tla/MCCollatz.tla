----------------------------- MODULE MCCollatz -----------------------------
(***************************************************************************)
(* Both drivers with two threads on the numbers 1, 2 and 3; 3 takes seven  *)
(* steps to reach 1, in three rounds of at most CHUNK.                     *)
(***************************************************************************)
EXTENDS CollatzLists

=============================================================================
