CONSTANTS
  SUPERSLAB_BITS = 3
  MaxLargeBits = 7
  BITS = 8
SPECIFICATION Spec
INVARIANTS
  TypeOK
  SlideMatchesReference
  WalkFindsHead
  AlignDownIsGranuleBase
  AlignUpIsLeastMultiple
