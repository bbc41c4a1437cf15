SPECIFICATION ASpec
CONSTANTS
  HEADER = 1
  CELL_SIZE = 2
  CHUNK_SIZE = 8
  PAGE = 4
  MaxPages = 5
  Sizes = {2, 4, 8}
  BACK = 2
  NuSizes = {1, 3, 6, 7, 20}
  INT32_SIGN = 16
  FREE_LIMIT = 1
INVARIANTS ListInOrder EveryByteInOnePlace OwnedByOneLayer SizeFieldTells
PROPERTIES SearchEnds HeapSpec
CHECK_DEADLOCK FALSE
