CONSTANTS
  NumProcs = 1
  Start = 7
  Count = 3
  QUEUE_SIZE = 2
  UINT_SPAN = 4
SPECIFICATION FSpec
INVARIANT EveryNumberPrinted
CHECK_DEADLOCK FALSE
