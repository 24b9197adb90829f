----------------------------- MODULE AddressUtils -----------------------------
(***************************************************************************)
(* The pointer helpers of address.h on a plain (non-CHERI) target, where a *)
(* pointer is its address: uintptr_t arithmetic of BITS bits.  The CHERI   *)
(* forms of pointer_offset, address_cast and pointer_align_down, which     *)
(* keep a capability's tag and bounds, are in ChunkMapCheri.               *)
(***************************************************************************)
EXTENDS Naturals, Bitwise

CONSTANT BITS                  \* the width of uintptr_t

ASSUME BITS \in Nat \ {0}

(* address_t, uintptr_t.                                                   *)
Address == 0 .. 2^BITS - 1

Wrap(x) == x % 2^BITS
BitNot(x) == 2^BITS - 1 - x

(* pointer_offset(base, diff): byte arithmetic on a uint8_t*.              *)
pointer_offset(base, diff) == Wrap(base + diff)

(* address_cast and pointer_cast: reinterpret_cast between a pointer and   *)
(* its address.                                                            *)
address_cast(p) == p
pointer_cast(a) == a

(* is_aligned_block<alignment>(p, size): (p | size) & (alignment - 1) == 0.*)
is_aligned_block(alignment, p, size) ==
  ((address_cast(p) | size) & (alignment - 1)) = 0

(* Mutant: the mask clears the granule bit instead of the bits below it.  *)
AlignDownWrongMask(granule, p) == p & BitNot(granule)

(* pointer_align_down<granule>(p): __builtin_align_down, or                *)
(* bits::align_down, p & ~(granule - 1).                                   *)
pointer_align_down(granule, p) == p & BitNot(granule - 1)

(* Mutant: the rounding term is granule rather than granule - 1.          *)
AlignUpOverRound(granule, p) == Wrap(p + granule) & BitNot(granule - 1)

(* pointer_align_up<granule>(p): __builtin_align_up, or bits::align_up,    *)
(* (p + granule - 1) & ~(granule - 1) in uintptr_t.                        *)
pointer_align_up(granule, p) == Wrap(p + granule - 1) & BitNot(granule - 1)
==============================================================================
