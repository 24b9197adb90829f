CONSTANTS
  T1 = T1
  T2 = T2
  Threads <- MCThreads
  SUPERSLAB_BITS = 3
  NumCells = 5
  LargeSizes <- MCLargeSizes
  Debug = TRUE
  CallerCells <- CeilCells
SPECIFICATION Spec
INVARIANT HeldRegionsClassified
