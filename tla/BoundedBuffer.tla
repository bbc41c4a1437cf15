--------------------------- MODULE BoundedBuffer ---------------------------
(***************************************************************************)
(* What a queue of QUEUE_SIZE slots promises about its tickets: putters    *)
(* and getters claim them one at a time, a getter only after a putter, and *)
(* putters are never more than Capacity ahead of getters.                  *)
(***************************************************************************)
EXTENDS Naturals

CONSTANT Capacity
VARIABLE held     \* tickets claimed by putters and not yet by getters

Init == held = 0
Put  == held < Capacity /\ held' = held + 1
Get  == held > 0 /\ held' = held - 1
Spec == Init /\ [][Put \/ Get]_held

=============================================================================
