-------------------------- MODULE CellLevelLayout --------------------------
(***************************************************************************)
(* Layouts of single cells (layouts/cell_level_layout.hpp).                *)
(*                                                                         *)
(* The storage of a cell-level layout is a record: type, mode and name     *)
(* hold what is assigned to cells, inputs and outputs the cells that are   *)
(* listed as pins.  A name is the tile that a pin comes from.              *)
(***************************************************************************)
EXTENDS Integers, TLC

EmptyStorage == [type |-> << >>, mode |-> << >>, name |-> << >>, inputs |-> {}, outputs |-> {}]

EMPTY == " "
get_cell_type(s, c) == IF c \in DOMAIN s.type THEN s.type[c] ELSE EMPTY
is_empty_cell(s, c) == c \notin DOMAIN s.type

\* assign_cell_type for every cell of g, none of which is empty.  A pin stays
\* listed if another type is assigned to its cell.
assign_cell_types(s, g) ==
  [s EXCEPT !.type = g @@ @,
            !.inputs = @ \cup {c \in DOMAIN g : g[c] = "i"},
            !.outputs = @ \cup {c \in DOMAIN g : g[c] = "o"}]

without(f, C) == [c \in DOMAIN f \ C |-> f[c]]

\* assign_cell_type with the empty type.  Names are kept.
erase_cells(s, C) ==
  [s EXCEPT !.type = without(@, C), !.mode = without(@, C), !.inputs = @ \ C, !.outputs = @ \ C]

assign_cell_modes(s, C, m) == [s EXCEPT !.mode = [c \in C |-> m] @@ @]
assign_cell_names(s, C, n) == [s EXCEPT !.name = [c \in C |-> n] @@ @]
erase_cell_names(s, C) == [s EXCEPT !.name = without(@, C)]

\* The clock zones are as large as the gates.
tile_of(size, c) == <<c[1] \div size, c[2] \div size, c[3]>>
=============================================================================
