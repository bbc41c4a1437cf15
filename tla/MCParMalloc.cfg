SPECIFICATION Spec
CONSTANTS
  t1 = t1
  t2 = t2
  Threads = {t1, t2}
  Sizes = {4000}
  MAX_SIZE = 8000
  CHUNK_SIZE = 73728
  Slots = {0, 1}
  LowEnds <- MCLowEnds
  MaxLive = 4
SYMMETRY Symmetry
INVARIANTS MasterInChunk PiecesApart
PROPERTY HeapSpec
CHECK_DEADLOCK FALSE
