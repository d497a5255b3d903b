------------------------- MODULE MCGateLevelLayout -------------------------
(* Instances of the gate-level layout.  The operations treat all tiles     *)
(* alike, so that permuting them is sound for the invariants.              *)
EXTENDS GateLevelLayout, TLC

TileSymmetry == Permutations(Tiles)
=============================================================================
