CONSTANTS
  Threads = {t1, t2}
  data_top = 4
  CHUNK = 3
SPECIFICATION LSpec
INVARIANTS
  DibsExclusive
  NoUseAfterFree
  SequencesFollowCollatz
  StepsAreFinal
  ExitMeansAllDone
  ResultIsMax
PROPERTY
  EveryTaskFinishes
CHECK_DEADLOCK FALSE
