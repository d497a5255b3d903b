--------------------------- MODULE FcnGateLibrary ---------------------------
(***************************************************************************)
(* What gate libraries have in common (technology/fcn_gate_library.hpp).   *)
(*                                                                         *)
(* A gate of size x size cells is a function from the positions <<x, y>>   *)
(* of its cells to their types; a position without a cell is not in its    *)
(* domain.                                                                 *)
(***************************************************************************)
EXTENDS Integers, TLC

\* The exceptions for unsupported gates: a cell outside of the tile.
NoGate == [p \in {<<-1, -1>>} |-> "x"]
EMPTY_GATE == [p \in {} |-> "x"]

cell_list_to_gate(type, positions) == [p \in positions |-> type]
mark_cell(g, p, mark) == (p :> mark) @@ g

\* Move every cell p of g to f(p); f is its own inverse.
moved(g, f(_)) == [p \in {f(q) : q \in DOMAIN g} |-> g[f(p)]]
transpose(g) == moved(g, LAMBDA p : <<p[2], p[1]>>)
reverse_columns(size, g) == moved(g, LAMBDA p : <<size - 1 - p[1], p[2]>>)
reverse_rows(size, g) == moved(g, LAMBDA p : <<p[1], size - 1 - p[2]>>)

rotate_90(size, g) == reverse_columns(size, transpose(g))
rotate_180(size, g) == reverse_columns(size, reverse_rows(size, g))
rotate_270(size, g) == transpose(reverse_columns(size, g))
=============================================================================
