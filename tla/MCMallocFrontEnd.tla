--------------------------- MODULE MCMallocFrontEnd ---------------------------
(***************************************************************************)
(* The front end at an 8-bit size_t: SIZE_MAX = 255, 64-byte superslabs,   *)
(* three sizeclasses of 16, 32 and 48 bytes, 16-byte pages.  The argument  *)
(* values are the edges of that arithmetic: 0, a byte, each sizeclass      *)
(* boundary, a large size, and values within a page of SIZE_MAX.           *)
(***************************************************************************)
EXTENDS MallocFrontEnd

MCSizeClassSizes == <<16, 32, 48>>
MCIds == {1, 2}
MCSizes == {0, 1, 16, 40, 60, 100, 250, 255}
MCCounts == {0, 1, 3, 16}
==============================================================================
