--------------------------- MODULE MCPagemapTree ---------------------------
(***************************************************************************)
(* The process of MCPagemapSharing on a platform without lazy commit:      *)
(* pagemap type A is too large for a flat array and is a tree, B is flat.  *)
(* Cells c1 and c2 share leaf L1, c3 is in L2, so E and I1 can race to     *)
(* link L1 of table A while each sets a different cell of it.              *)
(***************************************************************************)
EXTENDS PagemapTree, TLC

CONSTANTS E, I1, I2, P, A, B, c1, c2, c3, L1, L2

MCModules == {E, I1, I2, P}
MCLayouts == {A, B}
MCLayout == (E :> A) @@ (I1 :> A) @@ (I2 :> B) @@ (P :> B)
MCProvider == (E :> "global") @@ (I1 :> "external") @@ (I2 :> "external")
                @@ (P :> "global")
MCCells == {c1, c2, c3}
MCFlatFits == (A :> FALSE) @@ (B :> TRUE)
MCLeaves == {L1, L2}
MCLeafOf == (c1 :> L1) @@ (c2 :> L1) @@ (c3 :> L2)
==============================================================================
