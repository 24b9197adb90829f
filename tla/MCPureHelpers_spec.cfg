CONSTANTS
  SUPERSLAB_BITS = 3
  MaxLargeBits = 7
  BITS = 8
SPECIFICATION Spec
INVARIANT SpecSlideBoundsInCells
