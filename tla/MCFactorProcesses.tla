------------------------- MODULE MCFactorProcesses -------------------------
(***************************************************************************)
(* FactorProcesses on rings of two slots whose tickets wrap.               *)
(***************************************************************************)
EXTENDS FactorProcesses

=============================================================================
