------------------------ MODULE SidbBestagonLibrary ------------------------
(***************************************************************************)
(* The gate library Bestagon (technology/sidb_bestagon_library.hpp) for    *)
(* hexagonal layouts with pointy tops: which pattern of 60 x 46 dots       *)
(* stands for a tile, given the corners at which signals enter and leave.  *)
(*                                                                         *)
(* Of a pattern only the dots are kept with which its wires end at the     *)
(* borders of the tile; the dots in between, which make it the gate that   *)
(* it is, are left out.                                                    *)
(***************************************************************************)
EXTENDS ApplyGateLibrary, FcnGateLibrary

gate_x_size == 60
gate_y_size == 46

NORTH_WEST == <<16, 6>>
NORTH_EAST == <<42, 6>>
SOUTH_WEST == <<16, 38>>
SOUTH_EAST == <<42, 38>>

-----------------------------------------------------------------------------
(* The gates.  One of the wires lies a row lower than the others. *)
ends(positions) == cell_list_to_gate("x", positions)
one_lower(p) == <<p[1], p[2] + 1>>

STRAIGHT_WIRE == ends({NORTH_WEST, SOUTH_WEST})
MIRRORED_STRAIGHT_WIRE == ends({one_lower(NORTH_EAST), one_lower(SOUTH_EAST)})
DIAGONAL_WIRE == ends({NORTH_WEST, SOUTH_EAST})
MIRRORED_DIAGONAL_WIRE == ends({NORTH_EAST, SOUTH_WEST})
STRAIGHT_INVERTER == ends({NORTH_WEST, SOUTH_WEST})
MIRRORED_STRAIGHT_INVERTER == ends({NORTH_EAST, SOUTH_EAST})
DIAGONAL_INVERTER == ends({NORTH_WEST, SOUTH_EAST})
MIRRORED_DIAGONAL_INVERTER == ends({NORTH_EAST, SOUTH_WEST})
CONJUNCTION == ends({NORTH_WEST, NORTH_EAST, SOUTH_EAST})
MIRRORED_CONJUNCTION == ends({NORTH_WEST, NORTH_EAST, SOUTH_WEST})
DISJUNCTION == ends({NORTH_WEST, NORTH_EAST, SOUTH_EAST})
MIRRORED_DISJUNCTION == ends({NORTH_WEST, NORTH_EAST, SOUTH_WEST})
NEGATED_CONJUNCTION == ends({NORTH_WEST, NORTH_EAST, SOUTH_EAST})
MIRRORED_NEGATED_CONJUNCTION == ends({NORTH_WEST, NORTH_EAST, SOUTH_WEST})
NEGATED_DISJUNCTION == ends({NORTH_WEST, NORTH_EAST, SOUTH_EAST})
MIRRORED_NEGATED_DISJUNCTION == ends({NORTH_WEST, NORTH_EAST, SOUTH_WEST})
EXCLUSIVE_DISJUNCTION == ends({NORTH_WEST, NORTH_EAST, SOUTH_EAST})
MIRRORED_EXCLUSIVE_DISJUNCTION == ends({NORTH_WEST, NORTH_EAST, SOUTH_WEST})
NEGATED_EXCLUSIVE_DISJUNCTION == ends({NORTH_WEST, NORTH_EAST, SOUTH_EAST})
MIRRORED_NEGATED_EXCLUSIVE_DISJUNCTION == ends({NORTH_WEST, NORTH_EAST, SOUTH_WEST})
FANOUT_1_2 == ends({NORTH_WEST, SOUTH_EAST, SOUTH_WEST})
MIRRORED_FANOUT_1_2 == ends({NORTH_EAST, SOUTH_EAST, SOUTH_WEST})
CROSSING_WIRE == ends({NORTH_WEST, NORTH_EAST, SOUTH_WEST, SOUTH_EAST})
HOURGLASS_DOUBLE_WIRE == ends({NORTH_WEST, NORTH_EAST, SOUTH_WEST, SOUTH_EAST})

-----------------------------------------------------------------------------
(* The lookup tables: gates by their ports. *)
ports(inp, out) == [inp |-> inp, out |-> out]

WIRE_MAP ==
  (ports({}, {SOUTH_WEST}) :> STRAIGHT_WIRE) @@ (ports({}, {SOUTH_EAST}) :> DIAGONAL_WIRE)
    @@ (ports({NORTH_WEST}, {}) :> DIAGONAL_WIRE) @@ (ports({NORTH_EAST}, {}) :> MIRRORED_STRAIGHT_WIRE)
    @@ (ports({NORTH_WEST}, {SOUTH_WEST}) :> STRAIGHT_WIRE)
    @@ (ports({NORTH_EAST}, {SOUTH_EAST}) :> MIRRORED_STRAIGHT_WIRE)
    @@ (ports({NORTH_WEST}, {SOUTH_EAST}) :> DIAGONAL_WIRE)
    @@ (ports({NORTH_EAST}, {SOUTH_WEST}) :> MIRRORED_DIAGONAL_WIRE)
    @@ (ports({}, {}) :> EMPTY_GATE)
CROSSING_MAP ==
  LET on_west == ports({NORTH_WEST}, {SOUTH_WEST})
      on_east == ports({NORTH_EAST}, {SOUTH_EAST})
      falling == ports({NORTH_WEST}, {SOUTH_EAST})
      rising == ports({NORTH_EAST}, {SOUTH_WEST})
  IN  (<<on_west, on_east>> :> HOURGLASS_DOUBLE_WIRE) @@ (<<on_east, on_west>> :> HOURGLASS_DOUBLE_WIRE)
        @@ (<<falling, rising>> :> CROSSING_WIRE) @@ (<<rising, falling>> :> CROSSING_WIRE)
INVERTER_MAP ==
  (ports({NORTH_WEST}, {SOUTH_WEST}) :> STRAIGHT_INVERTER)
    @@ (ports({NORTH_EAST}, {SOUTH_EAST}) :> MIRRORED_STRAIGHT_INVERTER)
    @@ (ports({NORTH_WEST}, {SOUTH_EAST}) :> DIAGONAL_INVERTER)
    @@ (ports({NORTH_EAST}, {SOUTH_WEST}) :> MIRRORED_DIAGONAL_INVERTER)
    @@ (ports({}, {SOUTH_WEST}) :> STRAIGHT_INVERTER) @@ (ports({}, {SOUTH_EAST}) :> DIAGONAL_INVERTER)
    @@ (ports({NORTH_WEST}, {}) :> DIAGONAL_INVERTER) @@ (ports({NORTH_EAST}, {}) :> MIRRORED_STRAIGHT_INVERTER)

two_inputs(to_east, to_west) ==
  (ports({NORTH_WEST, NORTH_EAST}, {SOUTH_EAST}) :> to_east) @@ (ports({NORTH_WEST, NORTH_EAST}, {SOUTH_WEST}) :> to_west)
CONJUNCTION_MAP == two_inputs(CONJUNCTION, MIRRORED_CONJUNCTION)
DISJUNCTION_MAP == two_inputs(DISJUNCTION, MIRRORED_DISJUNCTION)
NEGATED_CONJUNCTION_MAP == two_inputs(NEGATED_CONJUNCTION, MIRRORED_NEGATED_CONJUNCTION)
NEGATED_DISJUNCTION_MAP == two_inputs(NEGATED_DISJUNCTION, MIRRORED_NEGATED_DISJUNCTION)
EXCLUSIVE_DISJUNCTION_MAP == two_inputs(EXCLUSIVE_DISJUNCTION, MIRRORED_EXCLUSIVE_DISJUNCTION)
NEGATED_EXCLUSIVE_DISJUNCTION_MAP == two_inputs(NEGATED_EXCLUSIVE_DISJUNCTION, MIRRORED_NEGATED_EXCLUSIVE_DISJUNCTION)
FANOUT_MAP ==
  (ports({NORTH_WEST}, {SOUTH_EAST, SOUTH_WEST}) :> FANOUT_1_2)
    @@ (ports({NORTH_EAST}, {SOUTH_EAST, SOUTH_WEST}) :> MIRRORED_FANOUT_1_2)

-----------------------------------------------------------------------------
(* Choosing a gate. *)

\* The corners c[1] of t behind which the tiles T lie, whatever their layer.
corners(T, C) == {c[1] : c \in {c \in C : \E v \in T : v[1] = c[2][1] /\ v[2] = c[2][2]}}

\* Signals from or to the east and the west are not asked for.  A gate
\* without fanins or readers is given ports nevertheless.
port_routing(L, t, in, out) ==
  LET default(T, p) == IF T = {} /\ ~ is_wire_tile(L, t) /\ L.tiles[t].fn # "not" THEN {p} ELSE {}
  IN  ports(corners(in, {<<NORTH_EAST, north_east(L.dim, t)>>, <<NORTH_WEST, north_west(L.dim, t)>>}) \cup default(in, NORTH_WEST),
            corners(out, {<<SOUTH_EAST, south_east(L.dim, t)>>, <<SOUTH_WEST, south_west(L.dim, t)>>}) \cup default(out, SOUTH_EAST))
determine_port_routing(L, t) == port_routing(L, t, incoming_data_flow(L, t), outgoing_data_flow(L, t))

at(map, k) == IF k \in DOMAIN map THEN map[k] ELSE NoGate

\* Both wires of a crossing are part of the gate in the ground layer.
wire_gate(L, t, pl) ==
  LET a == above(L.dim, t)
  IN  CASE Cardinality(outgoing_data_flow(L, t)) = 2 -> at(FANOUT_MAP, pl)
        [] OTHER -> IF is_crossing_layer(t) THEN EMPTY_GATE
                    ELSE IF a # t /\ is_wire_tile(L, a) THEN at(CROSSING_MAP, <<pl, determine_port_routing(L, a)>>)
                    ELSE at(WIRE_MAP, pl)

maps == [not |-> INVERTER_MAP, and |-> CONJUNCTION_MAP, or |-> DISJUNCTION_MAP,
         nand |-> NEGATED_CONJUNCTION_MAP, nor |-> NEGATED_DISJUNCTION_MAP,
         xor |-> EXCLUSIVE_DISJUNCTION_MAP, xnor |-> NEGATED_EXCLUSIVE_DISJUNCTION_MAP]

set_up_gate(L, t) ==
  LET fn == L.tiles[t].fn
  IN  CASE is_wire_tile(L, t) -> wire_gate(L, t, determine_port_routing(L, t))
        [] fn \in DOMAIN maps -> at(maps[fn], determine_port_routing(L, t))
        [] OTHER -> NoGate

-----------------------------------------------------------------------------
unsupported_tiles(L) == {t \in DOMAIN L.tiles : set_up_gate(L, t) = NoGate}

apply_gate_library(L) ==
  assign_gates([t \in DOMAIN L.tiles |-> set_up_gate(L, t)],
               [t \in DOMAIN L.tiles |-> hexagonal_base(gate_x_size, gate_y_size, L.dim[4], t)])
=============================================================================
