-------------------------- MODULE MCPagemapSharing --------------------------
(***************************************************************************)
(* A process with four allocators: the exporter E (global pagemap of type  *)
(* A), an importer I1 built the same way, an importer I2 built with a      *)
(* different pagemap type B (another granule, or flat where E is           *)
(* hierarchical), and a module P of type B that keeps a private pagemap.   *)
(***************************************************************************)
EXTENDS PagemapSharing, TLC

CONSTANTS E, I1, I2, P, A, B, c1, c2, c3

MCModules == {E, I1, I2, P}
MCLayouts == {A, B}
MCLayout == (E :> A) @@ (I1 :> A) @@ (I2 :> B) @@ (P :> B)
MCProvider == (E :> "global") @@ (I1 :> "external") @@ (I2 :> "external")
                @@ (P :> "global")
MCCells == {c1, c2, c3}
==============================================================================
