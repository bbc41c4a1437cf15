CONSTANTS
  Putters = {p1, p2}
  Getters = {g1, g2}
  QUEUE_SIZE = 2
  UINT_SPAN = 4
  Parts = {word}
  Value = {zero, data}
  Zero = zero
SYMMETRY Symmetry
SPECIFICATION Spec
INVARIANTS
  SpaceAccounted
  TicketsAccounted
PROPERTY BufferSpec
