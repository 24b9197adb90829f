CONSTANTS
  BITS = 5
  SUPERSLAB_BITS = 3
  OS_PAGE_SIZE = 8
  Requests <- MCRequests
  Aligns <- MCAligns
  Blocks <- MCBlocks
  CallerErrnos <- MCCallerErrnos
SPECIFICATION Spec
INVARIANT TypeOK
PROPERTIES
  ZeroContract
  ReserveContract
