CONSTANTS
  SUPERSLAB_BITS = 6
  BITS = 8
  OS_PAGE_SIZE = 16
  PTR_BYTES = 8
  SizeClassSizes <- MCSizeClassSizes
  MaxLarge = 128
  Ids <- MCIds
  Sizes <- MCSizes
  Counts <- MCCounts
  MemalignAligns = {1, 16, 32, 128}
  PosixAligns = {0, 4, 8, 24, 64}
SPECIFICATION Spec
INVARIANTS
  TypeOK
  FrontEndCoversRequest
  AlignmentHonoured
  AlignedAllocAssertion
PROPERTY
  ReallocContract
