CONSTANTS
  NumThreads = 2
  Count = 3
  Texts <- MCTexts
  INT64_SIGN = 32
SPECIFICATION Spec
INVARIANTS
  JobsConserved
  MissesFewerThanThreads
  ResultsFactored
PROPERTIES
  JoinedAfterLoop
  QueuesAreFifo
CHECK_DEADLOCK FALSE
