---------------------------- MODULE MCPalCheriBSD ----------------------------
(***************************************************************************)
(* A 32-byte address space of four 8-byte pages.  Reserve requests of a    *)
(* part page, a page and two pages, at every alignment class: none (0, 1), *)
(* below a page, one page and two pages.  The blocks the allocator passes  *)
(* to the hooks are whole pages, a page-aligned part page and an unaligned *)
(* part page, so that all three paths of zero are taken.                   *)
(***************************************************************************)
EXTENDS PalCheriBSD

EINTR == 4

MCRequests == {0, 4, 8, 16}
MCAligns == {0, 1, 2, 4, 8, 16}
MCBlocks == {[p |-> 0, size |-> 8], [p |-> 0, size |-> 4], [p |-> 4, size |-> 4],
             [p |-> 8, size |-> 8], [p |-> 0, size |-> 16]}
MCCallerErrnos == {0, EINTR}
==============================================================================
