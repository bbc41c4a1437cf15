--------------------------- MODULE QueueConstants ---------------------------
(***************************************************************************)
(* What the interprocess queue of hw09 and the program that uses it have   *)
(* in common.                                                              *)
(***************************************************************************)
CONSTANTS
  QUEUE_SIZE,   \* slots of the ring (16 in queue.h)
  UINT_SPAN     \* number of values of an unsigned int (2^32 on the target)

=============================================================================
