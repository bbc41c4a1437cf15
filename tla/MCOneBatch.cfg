CONSTANTS
  Putters = {p1}
  Getters = {g1, g2}
  QUEUE_SIZE = 3
  UINT_SPAN = 6
  Parts = {number, factors}
  Value = {zero, data}
  Zero = zero
  Batch = 3
SPECIFICATION BSpec
INVARIANTS
  Faithful
  AtMostOnce
PROPERTY EveryJobArrives
CHECK_DEADLOCK FALSE
