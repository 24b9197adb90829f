----------------------------- MODULE MCChunkMap -----------------------------
(***************************************************************************)
(* Instantiates ChunkMap for TLC: two threads, a five-cell address space,   *)
(* large sizes of one and three granules (three rounds up to four).     *)
(***************************************************************************)
EXTENDS ChunkMap

CONSTANTS T1, T2

MCThreads == {T1, T2}

MCLargeSizes == {SUPERSLAB_SIZE, 3 * SUPERSLAB_SIZE}

(* The large-allocation manager reserves next_pow2(size) bytes, the span   *)
(* clear_large_size resets.                                                *)
PowerOfTwoCells(size) == NextPow2(size) \div SUPERSLAB_SIZE

(* spec.md section 3: a large allocation of size S occupies                *)
(* ceil(S / granule) contiguous cells.                                     *)
CeilCells(size) == (size + SUPERSLAB_SIZE - 1) \div SUPERSLAB_SIZE

MCSymmetry == Permutations(MCThreads)
=============================================================================
