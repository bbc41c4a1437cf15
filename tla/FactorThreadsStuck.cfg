CONSTANTS
  NumThreads = 2
  Count = 2
  Texts <- MCTexts
  INT64_SIGN = 32
SPECIFICATION Spec
PROPERTY AllThreadsJoined
CHECK_DEADLOCK FALSE
