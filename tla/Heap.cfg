SPECIFICATION Spec
CONSTANTS
  PageSize = 32
  InitPages = 2
  HeapAlign = 4
  MinBlock = 8
  Header = 4
  Sizes = {0, 10, 24, 60}
  FrameCounts = {1, 2, 4}
INVARIANTS TypeOK Tiled Coalesced Aligned
PROPERTIES MallocFresh MallocRefuses
