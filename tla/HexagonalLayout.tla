-------------------------- MODULE HexagonalLayout --------------------------
(***************************************************************************)
(* Hexagonal layouts (layouts/hexagonal_layout.hpp) beside Cartesian ones. *)
(* The aspect ratio of a hexagonal layout names its arrangement in a       *)
(* fourth component: the odd or the even rows (columns) are shoved out of  *)
(* line by half a tile.  Borders and cardinal directions are those of      *)
(* CartesianLayout.                                                        *)
(***************************************************************************)
EXTENDS CartesianLayout

Arrangements == {"odd_row", "even_row", "odd_column", "even_column"}
hexagonal(dim) == Len(dim) = 4
pointy_top(dim) == dim[4] \in {"odd_row", "even_row"}

\* Half of p, rounded away from or towards the shoved rows.  p may be -1.
shoved(dim, p) ==
  LET offset == IF dim[4] \in {"odd_row", "odd_column"} THEN -1 ELSE 1
  IN  (p + offset * (p % 2)) \div 2

cube(x, z) == <<x, -x - z, z>>
to_cube_coordinate(dim, t) ==
  IF pointy_top(dim) THEN cube(t[1] - shoved(dim, t[2]), t[2]) ELSE cube(t[1], t[2] - shoved(dim, t[1]))
to_offset_coordinate(dim, c, z) ==
  IF pointy_top(dim) THEN <<c[1] + shoved(dim, c[3]), c[3], z>> ELSE <<c[1], c[3] + shoved(dim, c[1]), z>>

cube_directions == {d \in (-1..1) \X (-1..1) \X (-1..1) : d[1] + d[2] + d[3] = 0 /\ d # <<0, 0, 0>>}
towards(dim, t, d) ==
  LET c == to_cube_coordinate(dim, t) IN to_offset_coordinate(dim, <<c[1] + d[1], c[2] + d[2], c[3] + d[3]>>, t[3])

\* A position below 0 wraps around to one beyond every border.
on_layout(dim, t) == t[1] >= 0 /\ t[2] >= 0 /\ is_within_bounds(dim, t)
towards_or_stay(dim, t, d) == LET u == towards(dim, t, d) IN IF on_layout(dim, u) THEN u ELSE t
north_east(dim, t) == towards_or_stay(dim, t, <<1, 0, -1>>)
south_east(dim, t) == towards_or_stay(dim, t, IF pointy_top(dim) THEN <<0, -1, 1>> ELSE <<1, -1, 0>>)
south_west(dim, t) == towards_or_stay(dim, t, <<-1, 0, 1>>)
north_west(dim, t) == towards_or_stay(dim, t, IF pointy_top(dim) THEN <<0, 1, -1>> ELSE <<-1, 1, 0>>)

-----------------------------------------------------------------------------
(* Neighbours in a layout of either kind. *)
adjacent_coordinates(dim, t) ==
  IF hexagonal(dim) THEN {u \in {towards(dim, t, d) : d \in cube_directions} : on_layout(dim, u)}
  ELSE cardinal_neighbours(dim, t)

is_adjacent_of(dim, t, u) == u \in adjacent_coordinates(dim, t)
is_adjacent_elevation_of(dim, t, u) ==
  \/ is_adjacent_of(dim, t, u)
  \/ is_adjacent_of(dim, above(dim, t), u)
  \/ is_adjacent_of(dim, below(t), u)

\* The pairs of neighbours on opposite sides of t.
adjacent_opposite_coordinates(dim, t) ==
  LET vertical == <<north(t), south(dim, t)>>
      horizontal == <<east(dim, t), west(t)>>
      axes == IF ~ hexagonal(dim) THEN {vertical, horizontal}
              ELSE {IF pointy_top(dim) THEN horizontal ELSE vertical,
                    <<north_east(dim, t), south_west(dim, t)>>, <<north_west(dim, t), south_east(dim, t)>>}
  IN  {p \in axes : p[1] # t /\ p[2] # t}
=============================================================================
