------------------------ MODULE MCLayoutConstruction ------------------------
(* Networks with and without PIs and registers, built tile by tile.  All   *)
(* tiles but the origin are alike.                                         *)
EXTENDS LayoutConstruction, TLC

TileSymmetry == Permutations(Tiles \ {Origin})
=============================================================================
