--------------------------- MODULE QcaOneLibrary ---------------------------
(***************************************************************************)
(* The gate library QCA ONE (technology/qca_one_library.hpp on top of      *)
(* technology/fcn_gate_library.hpp): which pattern of 5 x 5 cells stands   *)
(* for a tile, given the sides on which signals enter and leave.           *)
(*                                                                         *)
(* A gate is a function from the positions <<x, y>> of its cells to their  *)
(* types: "x" is a normal cell, "i" and "o" are pins, "0" and "1" are      *)
(* constants.                                                              *)
(* The library's wires beside the centre of a side are asked for nowhere   *)
(* and are left out.                                                       *)
(***************************************************************************)
EXTENDS ApplyGateLibrary, FcnGateLibrary

gate_size == 5

-----------------------------------------------------------------------------
(* The gates. *)
North == <<2, 0>>
East == <<4, 2>>
South == <<2, 4>>
West == <<0, 2>>
Centre == <<2, 2>>
arm(p) == {p, <<(p[1] + 2) \div 2, (p[2] + 2) \div 2>>}   \* the two cells next to port p

x_cells(positions) == cell_list_to_gate("x", positions)
STRAIGHT_INVERTER == x_cells(arm(North) \cup arm(South) \cup {<<1, 1>>, <<3, 1>>, <<1, 2>>, <<3, 2>>})
BENT_INVERTER == x_cells(arm(North) \cup arm(East))
CONJUNCTION == (North :> "0") @@ x_cells({Centre} \cup UNION {arm(p) : p \in {North, East, South, West}})
DISJUNCTION == (North :> "1") @@ x_cells({Centre} \cup UNION {arm(p) : p \in {North, East, South, West}})
MAJORITY == x_cells({Centre} \cup UNION {arm(p) : p \in {North, East, South, West}})
FAN_OUT_1_2 == x_cells({Centre} \cup UNION {arm(p) : p \in {East, South, West}})
FAN_OUT_1_3 == MAJORITY
PRIMARY_INPUT_PORT == (Centre :> "i") @@ x_cells(arm(North))
PRIMARY_OUTPUT_PORT == (Centre :> "o") @@ x_cells(arm(North))
CENTER_WIRE == x_cells({Centre} \cup arm(North) \cup arm(South))
CENTER_BENT_WIRE == x_cells({Centre} \cup arm(North) \cup arm(East))

-----------------------------------------------------------------------------
(* The lookup tables: gates by their ports, in all four orientations. *)
ports(inp, out) == [inp |-> inp, out |-> out]
turn(p) == <<gate_size - 1 - p[2], p[1]>>
turned(pl) == ports({turn(p) : p \in pl.inp}, {turn(p) : p \in pl.out})

orientations(pl, g) ==
  {<<pl, g>>, <<turned(pl), rotate_90(gate_size, g)>>, <<turned(turned(pl)), rotate_180(gate_size, g)>>,
   <<turned(turned(turned(pl))), rotate_270(gate_size, g)>>}
port_gate_map(entries) == [pl \in {e[1] : e \in entries} |-> (CHOOSE e \in entries : e[1] = pl)[2]]

WIRE_MAP == port_gate_map(
  orientations(ports({}, {North}), PRIMARY_INPUT_PORT) \cup orientations(ports({North}, {}), PRIMARY_OUTPUT_PORT)
    \cup orientations(ports({North}, {South}), CENTER_WIRE)
    \cup orientations(ports({North}, {East}), CENTER_BENT_WIRE) \cup orientations(ports({East}, {North}), CENTER_BENT_WIRE))
INVERTER_MAP == port_gate_map(
  orientations(ports({North}, {South}), STRAIGHT_INVERTER)
    \cup orientations(ports({North}, {}), STRAIGHT_INVERTER) \cup orientations(ports({}, {South}), STRAIGHT_INVERTER)
    \cup orientations(ports({North}, {East}), BENT_INVERTER) \cup orientations(ports({East}, {North}), BENT_INVERTER))
CONJUNCTION_MAP == port_gate_map(UNION {orientations(ports({West, South, East} \ {q}, {q}), CONJUNCTION) : q \in {West, South, East}})
DISJUNCTION_MAP == port_gate_map(UNION {orientations(ports({West, South, East} \ {q}, {q}), DISJUNCTION) : q \in {West, South, East}})
FANOUT_MAP == port_gate_map(UNION {orientations(ports({q}, {West, South, East} \ {q}), FAN_OUT_1_2) : q \in {West, South, East}})

-----------------------------------------------------------------------------
(* Choosing a gate. *)

\* The sides of t on which the tiles T lie, whatever their layer.
sides(L, t, T) ==
  LET lies(u) == \E v \in T : <<v[1], v[2]>> = <<u[1], u[2]>>
  IN  {p[1] : p \in {p \in {<<North, north(t)>>, <<East, east(L.dim, t)>>, <<South, south(L.dim, t)>>, <<West, west(t)>>} : lies(p[2])}}

\* A gate without fanins or readers is given ports nevertheless.
determine_port_routing(L, t) ==
  LET in == incoming_data_flow(L, t)
      out == outgoing_data_flow(L, t)
      default(T, p) == IF T = {} /\ ~ is_wire_tile(L, t) /\ L.tiles[t].fn # "not" THEN {p} ELSE {}
  IN  ports(sides(L, t, in) \cup default(in, West), sides(L, t, out) \cup default(out, East))

gate_fanout_size(L, t) == Cardinality(outgoing_data_flow(L, t))

set_up_gate(L, t) ==
  LET pl == determine_port_routing(L, t)
      at(map) == IF pl \in DOMAIN map THEN map[pl] ELSE NoGate
      fn == L.tiles[t].fn
  IN  CASE is_wire_tile(L, t) /\ gate_fanout_size(L, t) = 2 -> at(FANOUT_MAP)
        [] is_wire_tile(L, t) /\ gate_fanout_size(L, t) = 3 -> FAN_OUT_1_3
        [] is_wire_tile(L, t) /\ gate_fanout_size(L, t) \notin {2, 3} -> at(WIRE_MAP)
        [] fn = "not" -> at(INVERTER_MAP)
        [] fn = "and" -> at(CONJUNCTION_MAP)
        [] fn = "or" -> at(DISJUNCTION_MAP)
        [] fn = "maj" -> MAJORITY
        [] OTHER -> NoGate

-----------------------------------------------------------------------------
(* The cell-level layout. *)

\* A slip: only cells that stand alone get a via.
ViasForSingleCells(s) ==
  LET beside(c) == {<<c[1] - 1, c[2], c[3]>>, <<c[1] + 1, c[2], c[3]>>, <<c[1], c[2] - 1, c[3]>>, <<c[1], c[2] + 1, c[3]>>}
      ends == {c \in DOMAIN s.type : c[3] > 0 /\ \A d \in beside(c) : is_empty_cell(s, d)}
      ground == {<<c[1], c[2], 0>> : c \in ends}
  IN  assign_cell_modes(assign_cell_types(s, [c \in ground |-> "x"]), ends \cup ground, "vertical")

\* post_layout_optimization: the ends of the wires in the crossing layer are
\* led down by a via.
post_layout_optimization(s) ==
  LET beside(c) == {<<c[1] - 1, c[2], c[3]>>, <<c[1] + 1, c[2], c[3]>>, <<c[1], c[2] - 1, c[3]>>, <<c[1], c[2] + 1, c[3]>>}
      ends == {c \in DOMAIN s.type : c[3] > 0 /\ Cardinality({d \in beside(c) : ~ is_empty_cell(s, d)}) <= 1}
      ground == {<<c[1], c[2], 0>> : c \in ends}
  IN  assign_cell_modes(assign_cell_types(s, [c \in ground |-> "x"]), ends \cup ground, "vertical")

\* A tile that the library has no gate for is reported by an exception.
unsupported_tiles(L) == {t \in DOMAIN L.tiles : set_up_gate(L, t) = NoGate}

apply_gate_library(L) ==
  LET gates == [t \in DOMAIN L.tiles |-> set_up_gate(L, t)]
      base == [t \in DOMAIN L.tiles |-> cartesian_base(gate_size, t)]
  IN  post_layout_optimization(assign_gates(gates, base))
=============================================================================
