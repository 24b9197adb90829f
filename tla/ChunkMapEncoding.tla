-------------------------- MODULE ChunkMapEncoding --------------------------
(***************************************************************************)
(* The byte encoding of one chunk-map cell and the redirect slide that     *)
(* set_large_size writes over the cells of a large allocation.             *)
(*                                                                         *)
(*   chunkmap_consts.h   enum ChunkMapSuperslabKind and its value ranges   *)
(*   chunkmap.h          the static_assert on SUPERSLAB_BITS, the slide    *)
(*                       loop of set_large_size and the cell count that    *)
(*                       clear_large_size resets                           *)
(*                                                                         *)
(* Offsets are counted in cells (granules of SUPERSLAB_SIZE bytes) from    *)
(* the head cell of the allocation.  Pure operators only: the modules      *)
(* ChunkMap and ChunkMapCheri use them as the cell contents the code       *)
(* writes, MCChunkMapEncoding checks them against reference definitions.   *)
(***************************************************************************)
EXTENDS Naturals, TLC

CONSTANT SUPERSLAB_BITS        \* log2 of the granule one cell covers

(* enum ChunkMapSuperslabKind *)
CMNotOurs    == 0
CMSuperslab  == 1
CMMediumslab == 2

(* static_assert(SUPERSLAB_BITS > CMMediumslab): head codes never collide  *)
(* with the slab kinds.                                                    *)
ASSUME SUPERSLAB_BITS \in Nat /\ SUPERSLAB_BITS > CMMediumslab

SUPERSLAB_SIZE == 2^SUPERSLAB_BITS

(* A cell is a uint8_t.                                                    *)
Byte == 0..255

(* bits::next_pow2_bits / bits::next_pow2 (bits.h): the least b with       *)
(* x <= 2^b, and 2^b.                                                      *)
NextPow2Bits(x) == CHOOSE b \in 0..64 : x <= 2^b /\ (b = 0 \/ 2^(b-1) < x)
NextPow2(x) == 2^NextPow2Bits(x)

(* Classes of cell values, chunkmap_consts.h: 0..2 slab kinds,             *)
(* [SUPERSLAB_BITS, 64) log2 size at a large head, [64, 128) slide codes.  *)
IsHeadCode(v)  == SUPERSLAB_BITS <= v /\ v < 64
IsSlideCode(v) == 64 <= v /\ v < 128

(* Mutant: the 64 offset dropped, slide codes fall among the head codes.  *)
SlideCodeNoOffset(i) == i + SUPERSLAB_BITS

(* The value the loop of set_large_size stores in run i.                   *)
SlideCode(i) == 64 + i + SUPERSLAB_BITS

(* The loop of set_large_size from iteration i on, with the cursor ss      *)
(* (cells from the head): run i covers 2^i cells, then ss advances by the  *)
(* run.  The loop bound is size_bits - SUPERSLAB_BITS, which callers keep  *)
(* non-negative by passing sizes of at least SUPERSLAB_SIZE.               *)
RECURSIVE Slide(_, _, _)
Slide(i, ss, size_bits) ==
  IF i < size_bits - SUPERSLAB_BITS
  THEN [k \in ss .. ss + 2^i - 1 |-> SlideCode(i)]
         @@ Slide(i + 1, ss + 2^i, size_bits)
  ELSE <<>>

(* Everything set_large_size(p, size) writes: the head cell holds          *)
(* size_bits, the slide starts one granule after it.                       *)
LargeImage(size) ==
  LET size_bits == NextPow2Bits(size)
  IN  (0 :> size_bits) @@ Slide(0, 1, size_bits)

(* Mutant: one cell short of the slide.                                   *)
ClearCountShort(size) == NextPow2(size) \div SUPERSLAB_SIZE - 1

(* The number of cells clear_large_size resets: next_pow2(size) >>         *)
(* SUPERSLAB_BITS.                                                         *)
ClearCount(size) == NextPow2(size) \div SUPERSLAB_SIZE

-----------------------------------------------------------------------------
(* Reference definitions, written from the statement of the encoding and   *)
(* not from the loop.                                                      *)

(* floor(log2 k) for k >= 1.                                               *)
FloorLog2(k) == CHOOSE e \in 0..63 : 2^e <= k /\ k < 2^(e + 1)

(* The code a cell k granules from the head of an allocation of size must  *)
(* hold: the head holds log2 next_pow2(size); a body cell holds a value x  *)
(* with 2^(x-64) <= k * SUPERSLAB_SIZE < 2^(x+1-64), i.e. the distance to  *)
(* the head, in bytes, lies in [2^(x-64), 2^(x-63)).                       *)
ExpectedCode(size, k) ==
  IF k = 0 THEN NextPow2Bits(size) ELSE 64 + SUPERSLAB_BITS + FloorLog2(k)

(* Mutant: the search steps back by the upper bound 2^(x+1-64).           *)
RECURSIVE WalkToHeadOvershoot(_, _, _)
WalkToHeadOvershoot(pm, c, steps) ==
  LET back == 2^(pm[c] + 1 - 64) \div SUPERSLAB_SIZE
  IN  IF IsSlideCode(pm[c]) /\ c - back \in DOMAIN pm
      THEN WalkToHeadOvershoot(pm, c - back, steps + 1)
      ELSE <<c, steps>>

(* The search for the head of a large allocation from an interior cell c   *)
(* of the map pm: while c holds a slide code x, step back by 2^(x-64)      *)
(* bytes, the lower bound the code certifies.  Returns the cell reached    *)
(* and the number of steps taken.                                          *)
RECURSIVE WalkToHead(_, _, _)
WalkToHead(pm, c, steps) ==
  LET back == 2^(pm[c] - 64) \div SUPERSLAB_SIZE
  IN  IF IsSlideCode(pm[c]) /\ c - back \in DOMAIN pm
      THEN WalkToHead(pm, c - back, steps + 1)
      ELSE <<c, steps>>
=============================================================================
