----------------------------- MODULE MCOneBatch -----------------------------
(***************************************************************************)
(* OneBatch with a ring filled exactly once, two getters and jobs of two   *)
(* words that are copied separately.                                       *)
(***************************************************************************)
EXTENDS OneBatch

=============================================================================
