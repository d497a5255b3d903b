-------------------------- MODULE ApplyGateLibrary --------------------------
(***************************************************************************)
(* How a gate library turns a gate-level layout into a cell-level layout   *)
(* (algorithms/physical_design/apply_gate_library.hpp): every tile's gate  *)
(* is copied to where the tile lies among the cells.  What the libraries   *)
(* do besides is in their modules.                                         *)
(***************************************************************************)
EXTENDS LayoutVerification, CellLevelLayout, FiniteSetsExt

-----------------------------------------------------------------------------
(* The north-western cell of a tile, by the topology of the layout. *)
cartesian_base(size, t) == <<size * t[1], size * t[2], t[3]>>

\* The tile lies in one of the rows or columns that are out of line.
is_shoved(arrangement, t) ==
  CASE arrangement = "odd_row" -> t[2] % 2 = 1
    [] arrangement = "even_row" -> t[2] % 2 = 0
    [] arrangement = "odd_column" -> t[1] % 2 = 1
    [] arrangement = "even_column" -> t[1] % 2 = 0

\* Shifted Cartesian layouts with vertical shift.
shifted_base(size, arrangement, t) ==
  <<size * t[1], size * t[2] + (IF is_shoved(arrangement, t) THEN size \div 2 ELSE 0), t[3]>>

\* A slip: the odd rows are shoved, whatever the arrangement.
OddRowsShoved(width, height, arrangement, t) ==
  <<width * t[1] + (IF t[2] % 2 = 1 THEN width \div 2 ELSE 0), ((height * 3) \div 4) * t[2], t[3]>>

\* Pointy-top hexagons lie three quarters of their height apart.
hexagonal_base(width, height, arrangement, t) ==
  <<width * t[1] + (IF is_shoved(arrangement, t) THEN width \div 2 ELSE 0), ((height * 3) \div 4) * t[2], t[3]>>

-----------------------------------------------------------------------------
\* The cells of gate g of tile t, beginning at cell b.
assign_gate(s, t, b, g) ==
  LET cells == [c \in {<<b[1] + p[1], b[2] + p[2], b[3]>> : p \in DOMAIN g} |-> g[<<c[1] - b[1], c[2] - b[2]>>]]
      pins == {c \in DOMAIN cells : cells[c] \in {"i", "o"}}
  IN  assign_cell_names(assign_cell_types(s, cells), pins, t)

assign_gates(gates, base) ==
  FoldSet(LAMBDA t, s : assign_gate(s, t, base[t], gates[t]), EmptyStorage, DOMAIN gates)
=============================================================================
