--------------------------- MODULE MCChunkMapCheri ---------------------------
(***************************************************************************)
(* Instantiates ChunkMapCheri for TLC with the bounds of MCChunkMap, and   *)
(* granules of 2^8 bytes, the least SUPERSLAB_SIZE the code tolerates.     *)
(***************************************************************************)
EXTENDS ChunkMapCheri

CONSTANTS T1, T2

MCThreads == {T1, T2}

MCLargeSizes == {SUPERSLAB_SIZE, 3 * SUPERSLAB_SIZE}

(* The large-allocation manager reserves next_pow2(size) bytes.           *)
PowerOfTwoCells(size) == NextPow2(size) \div SUPERSLAB_SIZE
=============================================================================
