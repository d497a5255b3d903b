-------------------------- MODULE CartesianLayout --------------------------
(***************************************************************************)
(* The geometry of layouts (layouts/coordinates.hpp and                    *)
(* layouts/cartesian_layout.hpp).                                           *)
(*                                                                         *)
(* A tile is a triple of its x, y and z position, an aspect ratio the      *)
(* highest tile of a layout.  A tile beyond the layout is answered with    *)
(* the dead tile when one asks for its eastern or southern neighbour.      *)
(***************************************************************************)
EXTENDS Integers, Sequences, FiniteSets

DeadTile == <<"dead">>
is_dead(t) == t = DeadTile

\* ucoord_t::operator<: by z, then by y, then by x.
precedes(t, u) ==
  \/ t[3] < u[3]
  \/ t[3] = u[3] /\ t[2] < u[2]
  \/ t[3] = u[3] /\ t[2] = u[2] /\ t[1] < u[1]

-----------------------------------------------------------------------------
(* Neighbours.  At a border the tile itself is returned. *)
north(t) == IF t[2] = 0 THEN t ELSE [t EXCEPT ![2] = @ - 1]
west(t) == IF t[1] = 0 THEN t ELSE [t EXCEPT ![1] = @ - 1]
below(t) == IF t[3] = 0 THEN t ELSE [t EXCEPT ![3] = @ - 1]

up_to(dim, t, i) ==
  CASE t[i] > dim[i] -> DeadTile
    [] t[i] < dim[i] -> [t EXCEPT ![i] = @ + 1]
    [] OTHER -> t
east(dim, t) == up_to(dim, t, 1)
south(dim, t) == up_to(dim, t, 2)
above(dim, t) == up_to(dim, t, 3)

cardinal_neighbours(dim, t) == {north(t), east(dim, t), south(dim, t), west(t)} \ {t}

\* u lies in the west of t, in the same row.
is_westwards_of(t, u) == t[3] = u[3] /\ t[2] = u[2] /\ t[1] > u[1]

is_at_eastern_border(dim, t) == t[1] = dim[1]
is_at_southern_border(dim, t) == t[2] = dim[2]
is_at_any_border(dim, t) == t[2] = 0 \/ t[1] = dim[1] \/ t[2] = dim[2] \/ t[1] = 0
eastern_border_of(dim, t) == [t EXCEPT ![1] = dim[1]]
is_crossing_layer(t) == t[3] > 0
ground_tiles(dim) == {<<x, y, 0>> : x \in 0..dim[1], y \in 0..dim[2]}
is_within_bounds(dim, t) == \A i \in 1..3 : t[i] <= dim[i]
=============================================================================
