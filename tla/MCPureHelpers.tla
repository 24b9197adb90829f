--------------------------- MODULE MCPureHelpers ---------------------------
(***************************************************************************)
(* The pure helpers of the chunk map and of address.h, checked against     *)
(* reference definitions over bounded inputs.  A state is one input: the   *)
(* initial states are every large size up to 2^MaxLargeBits (for the       *)
(* redirect slide of set_large_size and the count of clear_large_size),    *)
(* and every BITS-bit address with every power-of-two granule and a few    *)
(* block sizes (for the alignment helpers).  No further steps.             *)
(***************************************************************************)
EXTENDS ChunkMapEncoding, AddressUtils, FiniteSets

CONSTANT MaxLargeBits          \* sizes range over (0, 2^MaxLargeBits] bytes

ASSUME MaxLargeBits \in Nat /\ MaxLargeBits >= SUPERSLAB_BITS + 3

(* set_large_size is called for large allocations only: at least one       *)
(* granule.                                                                *)
LargeSizes == SUPERSLAB_SIZE .. 2^MaxLargeBits
Granules == {2^e : e \in 0 .. BITS - 1}
BlockSizes == {0, 1, 8, 24, 64}

VARIABLES
  size,       \* a large allocation's size
  p,          \* an address
  granule,    \* an alignment
  blocksize   \* the length of a block at p

vars == <<size, p, granule, blocksize>>

Init ==
  \/ /\ size \in LargeSizes
     /\ p = 0 /\ granule = 1 /\ blocksize = 0
  \/ /\ size = SUPERSLAB_SIZE
     /\ p \in Address /\ granule \in Granules /\ blocksize \in BlockSizes
Next == UNCHANGED vars
Spec == Init /\ [][Next]_vars

(* References: the greatest multiple of g at most a, and the least one at  *)
(* least a.                                                                *)
RoundDown(a, g) == (a \div g) * g
RoundUp(a, g) == ((a + g - 1) \div g) * g

(* Every cell set_large_size writes is a uint8_t in the class of its      *)
(* position: a head code at the head, a slide code after it, never one of *)
(* the slab kinds; every address helper maps addresses to addresses, and  *)
(* the casts are inverses.                                                 *)
TypeOK ==
  LET img == LargeImage(size)
  IN  /\ img \in [DOMAIN img -> Byte]
      /\ IsHeadCode(img[0])
      /\ \A k \in DOMAIN img \ {0} : IsSlideCode(img[k])
      /\ pointer_align_down(granule, p) \in Address
      /\ pointer_align_up(granule, p) \in Address
      /\ pointer_offset(p, blocksize) \in Address
      /\ pointer_cast(address_cast(p)) = p

(* Round trip of set_large_size and clear_large_size: the loop writes      *)
(* exactly the cells 0 .. ClearCount(size)-1 that clear_large_size resets, *)
(* and every one of them holds the code the encoding prescribes for its    *)
(* distance to the head.  A loop bound, run length or cursor step that is  *)
(* off by one leaves a cell stale after the clear, or writes one the       *)
(* clear never resets.                                                     *)
SlideMatchesReference ==
  LET img == LargeImage(size)
  IN  /\ DOMAIN img = 0 .. ClearCount(size) - 1
      /\ \A k \in DOMAIN img : img[k] = ExpectedCode(size, k)

(* From every cell of a registered large allocation the backward search    *)
(* reaches the head cell, in at most size_bits - SUPERSLAB_BITS steps:     *)
(* the O(log k) lookup the slide exists for.                               *)
WalkFindsHead ==
  LET img == LargeImage(size)
  IN  \A k \in DOMAIN img :
        WalkToHead(img, k, 0) \in {0} \X (0 .. NextPow2Bits(size) - SUPERSLAB_BITS)

(* spec.md section 8 and the comment of chunkmap_consts.h state the slide  *)
(* code x of a cell k granules ("page map entries") from the head as       *)
(* 2^(x-64) <= k < 2^(x+1-64).  The loop of set_large_size stores          *)
(* 64 + i + SUPERSLAB_BITS for k in [2^i, 2^(i+1)): the bound holds in     *)
(* bytes, not in granules.                                                 *)
SpecSlideBoundsInCells ==
  LET img == LargeImage(size)
  IN  \A k \in DOMAIN img \ {0} : 2^(img[k] - 64) <= k /\ k < 2^(img[k] + 1 - 64)

(* pointer_align_down gives the granule-aligned base of the granule p is   *)
(* in, which the chunk map and getp use to find a region's header; and    *)
(* is_aligned_block accepts exactly the blocks whose start and length are  *)
(* both multiples of the alignment.                                        *)
AlignDownIsGranuleBase ==
  /\ pointer_align_down(granule, p) = RoundDown(p, granule)
  /\ is_aligned_block(granule, p, blocksize) <=>
       (p % granule = 0 /\ blocksize % granule = 0)

(* pointer_align_up gives the least granule multiple at or above p,        *)
(* wherever that multiple is an address (above the last granule the sum   *)
(* p + granule - 1 wraps).                                                 *)
AlignUpIsLeastMultiple ==
  RoundUp(p, granule) \in Address =>
    pointer_align_up(granule, p) = RoundUp(p, granule)
==============================================================================
