CONSTANTS
  NumProcs = 2
  Start = 7
  Count = 3
  QUEUE_SIZE = 2
  UINT_SPAN = 4
SPECIFICATION FSpec
INVARIANTS
  WorkersOutliveThePrinter
  OnlySubmittedFactored
  QueuesEmptiedAtCleanup
PROPERTY EndsWithoutStrays
CHECK_DEADLOCK FALSE
