----------------------- MODULE InmlTopolinanoLibrary -----------------------
(***************************************************************************)
(* The gate library ToPoliNano (technology/inml_topolinano_library.hpp)    *)
(* for layouts whose columns are shifted: which pattern of 4 x 4 magnets   *)
(* stands for a tile, and how wires are straightened afterwards.           *)
(*                                                                         *)
(* Magnets: "x" is a normal one, "i" and "o" are pins, "n" is part of an   *)
(* inverter, "d" and "u" have slanted edges, "c" belongs to a crossing and *)
(* "f" to a coupler.                                                       *)
(***************************************************************************)
EXTENDS ApplyGateLibrary, FcnGateLibrary

gate_size == 4

-----------------------------------------------------------------------------
(* The gates, by the columns of each row that hold a magnet. *)
in_rows(r0, r1, r2, r3) ==
  {<<x, 0>> : x \in r0} \cup {<<x, 1>> : x \in r1} \cup {<<x, 2>> : x \in r2} \cup {<<x, 3>> : x \in r3}
x_cells(r0, r1, r2, r3) == cell_list_to_gate("x", in_rows(r0, r1, r2, r3))
n_cells(y) == cell_list_to_gate("n", {<<x, y>> : x \in 0..3})

CONJUNCTION == cell_list_to_gate("d", in_rows({0}, {0}, {0}, {})) @@ x_cells({}, 1..3, {}, {})
DISJUNCTION == cell_list_to_gate("u", in_rows({0}, {0}, {0}, {})) @@ x_cells({}, 1..3, {}, {})
MAJORITY == x_cells({0, 1}, {1}, 0..3, {1})
LOWER_STRAIGHT_INVERTER == n_cells(2)
BOTTOM_LOWER_STRAIGHT_INVERTER == n_cells(2) @@ x_cells({}, {}, {}, {0})
UPPER_STRAIGHT_INVERTER == n_cells(0)
TOP_DOWN_BENT_INVERTER == n_cells(2) @@ x_cells({0}, {0}, {}, {})
BOTTOM_UP_BENT_INVERTER == n_cells(0) @@ x_cells({}, {0}, {0}, {})
BOTTOM_LOWER_UP_BENT_INVERTER == n_cells(0) @@ x_cells({}, {0}, {0}, {0})

CROSSWIRE == cell_list_to_gate("c", in_rows({0, 2}, {1}, {0, 2}, {})) @@ x_cells({3}, {}, {3}, {})
COUPLER == cell_list_to_gate("f", in_rows({0, 1}, {0}, {0, 1}, {})) @@ x_cells({2, 3}, {}, {2, 3}, {})
LOWER_WIRE == x_cells({}, {}, 0..3, {})
UPPER_WIRE == x_cells(0..3, {}, {}, {})
TOP_DOWN_BENT_WIRE == x_cells({0}, 0..2, {2, 3}, {})
BOTTOM_UP_BENT_WIRE == x_cells({3}, 0..3, {0}, {})
TOP_DOWN_STAIRCASE_WIRE == x_cells({0}, 0..2, {2}, {2, 3})
BOTTOM_UP_STAIRCASE_WIRE == x_cells({2, 3}, {2}, 0..2, {0})
BOTTOM_DOWN_BENT_WIRE == x_cells({}, {}, 0..2, {2, 3})
MAJORITY_WIRE == x_cells({0, 1}, {}, {}, {})
COUPLER_WIRE == x_cells({}, {}, 0..3, {0})

-----------------------------------------------------------------------------
(* The lookup tables: gates by their ports. *)
ports(inp, out) == [inp |-> inp, out |-> out]
at_row(y) == {<<0, y>>}      \* a port in the west
to_row(y) == {<<3, y>>}      \* a port in the east
straight(y, g) == (ports(at_row(y), to_row(y)) :> g) @@ (ports({}, to_row(y)) :> g) @@ (ports(at_row(y), {}) :> g)

WIRE_MAP ==
  straight(2, LOWER_WIRE) @@ straight(0, UPPER_WIRE) @@ straight(3, rotate_180(gate_size, UPPER_WIRE))
    @@ (ports(at_row(0), to_row(2)) :> TOP_DOWN_BENT_WIRE)
    @@ (ports(at_row(2), to_row(0)) :> BOTTOM_UP_BENT_WIRE)
    @@ (ports(at_row(2), to_row(3)) :> BOTTOM_DOWN_BENT_WIRE)
    @@ (ports(at_row(0), to_row(3)) :> TOP_DOWN_STAIRCASE_WIRE)
    @@ (ports(at_row(3), to_row(0)) :> BOTTOM_UP_STAIRCASE_WIRE)
    @@ (ports(at_row(0), {<<1, 0>>}) :> MAJORITY_WIRE)
    @@ (ports(at_row(3), to_row(2)) :> COUPLER_WIRE)
INVERTER_MAP ==
  straight(2, LOWER_STRAIGHT_INVERTER) @@ straight(0, UPPER_STRAIGHT_INVERTER)
    @@ (ports(at_row(3), to_row(2)) :> BOTTOM_LOWER_STRAIGHT_INVERTER)
    @@ (ports(at_row(0), to_row(2)) :> TOP_DOWN_BENT_INVERTER)
    @@ (ports(at_row(2), to_row(0)) :> BOTTOM_UP_BENT_INVERTER)
    @@ (ports(at_row(3), to_row(0)) :> BOTTOM_LOWER_UP_BENT_INVERTER)

-----------------------------------------------------------------------------
(* Choosing a gate. *)
\* A slip: disjunctions are forgotten.
ConjunctionOrMajority(L, t) == L.tiles[t].fn \in {"and", "maj"}
is_majority_based(L, t) == L.tiles[t].fn \in {"and", "or", "maj"}
is_fanout_tile(L, t) == is_wire_tile(L, t) /\ Cardinality(outgoing_data_flow(L, t)) > 1
has_and_or_maj_fanin(L, t) == \E u \in incoming_data_flow(L, t) : is_majority_based(L, u)
has_fanout_fanout(L, t) == \E u \in outgoing_data_flow(L, t) : is_fanout_tile(L, u)

\* The sides of t on which the tiles T lie, whatever their layers.
sides(L, t, T) ==
  LET near == [n |-> north(t), s |-> south(L.dim, t), nw |-> north_west(L.dim, t), sw |-> south_west(L.dim, t),
               ne |-> north_east(L.dim, t), se |-> south_east(L.dim, t)]
  IN  {d \in DOMAIN near : \E v \in T : v[1] = near[d][1] /\ v[2] = near[d][2]}

\* Wires within the circuit, given the sides on which signals enter and leave.
inner_wire_routing(in, out, after_gate, before_fanout, before_majority) ==
  LET inp == CASE "n" \in in -> 0
               [] "n" \notin in /\ "s" \in in -> 3
               [] in \cap {"n", "s", "nw"} = {} /\ "sw" \in in -> IF after_gate THEN 3 ELSE 2
               [] OTHER -> 0
      outp == CASE "n" \in out -> 0
                [] "n" \notin out /\ "s" \in out -> 3
                [] out \cap {"n", "s"} = {} /\ "ne" \in out -> 0
                [] out \cap {"n", "s", "ne"} = {} /\ "se" \in out -> IF before_fanout THEN 3 ELSE 2
                [] OTHER -> 2
  IN  ports(at_row(inp), IF "n" \in out /\ before_majority THEN {<<1, 0>>} ELSE to_row(outp))

\* Pins and inverters.
pin_routing(in, out, after_gate, before_fanout, pi, po) ==
  LET if(b, P) == IF b THEN P ELSE {}
      inp == if("nw" \in in, at_row(0)) \cup if("sw" \in in, IF after_gate /\ ~ pi THEN at_row(3) ELSE at_row(2))
      pi_inp == if("ne" \in out, at_row(0)) \cup if("ne" \notin out /\ "se" \in out, at_row(2))
      po_out == if("nw" \in in, to_row(0)) \cup if("nw" \notin in /\ "sw" \in in, to_row(2))
  IN  CASE po /\ after_gate /\ "sw" \in in -> ports(at_row(3), to_row(3))
        [] pi /\ before_fanout -> ports(inp \cup at_row(3), to_row(3))
        [] OTHER -> ports(inp \cup if(pi, pi_inp),
                          if(po /\ ~ after_gate, po_out) \cup if("ne" \in out, to_row(0)) \cup if("se" \in out, to_row(2)))

determine_port_routing(L, t) ==
  LET in == sides(L, t, incoming_data_flow(L, t))
      out == sides(L, t, outgoing_data_flow(L, t))
      after_gate == has_and_or_maj_fanin(L, t)
      before_fanout == has_fanout_fanout(L, t)
      before_majority == north(t) \in DOMAIN L.tiles /\ L.tiles[north(t)].fn = "maj"
  IN  IF is_wire_tile(L, t) /\ ~ is_pi_tile(L, t) /\ ~ is_po_tile(L, t)
      THEN inner_wire_routing(in, out, after_gate, before_fanout, before_majority)
      ELSE pin_routing(in, out, after_gate, before_fanout, is_pi_tile(L, t), is_po_tile(L, t))

opposite(p) == <<3 - p[1], p[2]>>
one_of(P, Q) == CHOOSE p \in P \cup (IF P = {} THEN {opposite(q) : q \in Q} ELSE {}) : TRUE

marked(L, t, pl, wire) ==
  CASE is_pi_tile(L, t) -> mark_cell(wire, one_of(pl.inp, pl.out), "i")
    [] is_po_tile(L, t) -> mark_cell(wire, one_of(pl.out, pl.inp), "o")
    [] OTHER -> wire

\* The gate of an inverter or a wire with the ports pl.
oriented(L, t, pl) ==
  LET at(map) == IF pl \in DOMAIN map THEN map[pl] ELSE NoGate
      crossed == above(L.dim, t) # t /\ is_wire_tile(L, above(L.dim, t))
  IN  CASE ~ is_wire_tile(L, t) -> at(INVERTER_MAP)
        [] is_wire_tile(L, t) /\ crossed -> CROSSWIRE
        [] is_wire_tile(L, t) /\ ~ crossed -> IF pl \in DOMAIN WIRE_MAP THEN marked(L, t, pl, at(WIRE_MAP)) ELSE NoGate

set_up_gate(L, t) ==
  LET fn == L.tiles[t].fn
  IN  CASE fn = "and" -> CONJUNCTION
        [] fn = "or" -> DISJUNCTION
        [] fn = "maj" -> MAJORITY
        [] fn = "not" \/ is_wire_tile(L, t) ->
             IF is_fanout_tile(L, t) THEN COUPLER ELSE oriented(L, t, determine_port_routing(L, t))
        [] OTHER -> NoGate

-----------------------------------------------------------------------------
(* Straightening.  Rows are searched for humps: runs of magnets of a wire  *)
(* whose ends are connected to the row below, or to the one above.         *)

cleared(s, C) == erase_cell_names(erase_cells(s, C), C)

\* A hump is moved by one row; to maps its cells to those of that row.
merge(s, to) ==
  LET C == DOMAIN to
      D == {to[c] : c \in C}
      source(d) == CHOOSE c \in C : to[c] = d
      named == {d \in D : source(d) \in DOMAIN s.name}
      renamed == [s EXCEPT !.name = [d \in named |-> s.name[source(d)]] @@ without(@, D)]
  IN  cleared(assign_cell_types(renamed, [d \in D |-> s.type[source(d)]]), C)

is_upper_hump(s, dim, hump) ==
  LET front == hump[1]
      back == hump[Len(hump)]
  IN  /\ get_cell_type(s, front) = "i" \/ get_cell_type(s, south(dim, front)) = "x"
      /\ get_cell_type(s, back) = "o" \/ get_cell_type(s, south(dim, back)) \in {"x", "n"}
is_lower_hump(s, hump) ==
  LET front == hump[1]
      back == hump[Len(hump)]
  IN  /\ get_cell_type(s, front) = "i" \/ get_cell_type(s, north(front)) = "x"
      /\ get_cell_type(s, back) = "o" \/ get_cell_type(s, north(back)) = "x"

\* The state of the search: the storage, the status, the cells of the hump,
\* whether a hump was merged, and whether a range with its end before its
\* beginning was searched, which is undefined.
handle(a, dim) ==
  LET hump == a.hump
      inner == 2..(Len(hump) - 2)
      upper == is_upper_hump(a.s, dim, hump)
      lower == ~ upper /\ is_lower_hump(a.s, hump)
      room == IF upper THEN \A i \in inner : is_empty_cell(a.s, south(dim, south(dim, hump[i])))
              ELSE \A i \in inner : is_empty_cell(a.s, north(north(hump[i])))
      down == [c \in Range(hump) |-> south(dim, c)]
      kept == {c \in Range(hump) : get_cell_type(a.s, south(dim, c)) = "n"}
      undefined == [a EXCEPT !.undefined = @ \/ Len(hump) = 2]
  IN  IF Len(hump) <= 1 \/ ~ (upper \/ lower) THEN a
      ELSE IF ~ room THEN undefined
      ELSE IF upper THEN [undefined EXCEPT !.s = cleared(merge(@, without(down, kept)), kept), !.improvement_found = TRUE]
      ELSE [undefined EXCEPT !.s = merge(@, [c \in Range(hump) |-> north(c)]), !.improvement_found = TRUE]

\* One cell of the search.  The status is kept from one row to the next.
step(a, dim, c) ==
  LET type == get_cell_type(a.s, c)
  IN  CASE a.st = "SEARCH" /\ type \in {"x", "i", "n"} -> [a EXCEPT !.st = "COLLECT", !.hump = Append(@, c)]
        [] a.st = "SEARCH" /\ type = EMPTY -> a
        [] a.st = "SEARCH" /\ type \notin {"x", "i", "n", EMPTY} -> [a EXCEPT !.st = "SKIP"]
        [] a.st = "COLLECT" /\ type \in {"x", "n"} -> [a EXCEPT !.hump = Append(@, c)]
        [] a.st = "COLLECT" /\ type \in {EMPTY, "o"} -> [handle(a, dim) EXCEPT !.hump = << >>, !.st = "SEARCH"]
        [] a.st = "COLLECT" /\ type \notin {"x", "n", EMPTY, "o"} -> [a EXCEPT !.hump = << >>, !.st = "SKIP"]
        [] a.st = "SKIP" -> IF type = EMPTY THEN [a EXCEPT !.st = "SEARCH"] ELSE a

search_row(a, dim) ==
  FoldLeft(LAMBDA b, c : step(b, dim, c), [a EXCEPT !.hump = << >>], [x \in 1..(dim[1] + 1) |-> <<x - 1, a.row, 0>>])

\* All rows are searched again and again until no hump is merged.
begin_search(s) == [s |-> s, row |-> 0, st |-> "SEARCH", hump |-> << >>, improvement_found |-> FALSE, undefined |-> FALSE]
next_row(a, dim) ==
  CASE a.row < dim[2] -> [a EXCEPT !.row = @ + 1]
    [] a.row = dim[2] /\ a.improvement_found -> [begin_search(a.s) EXCEPT !.undefined = a.undefined]
    [] OTHER -> a
is_search_over(a, dim) == a.row = dim[2] /\ ~ a.improvement_found

-----------------------------------------------------------------------------
unsupported_tiles(L) == {t \in DOMAIN L.tiles : set_up_gate(L, t) = NoGate}
cell_aspect_ratio(L) == <<gate_size * (L.dim[1] + 1) - 1, gate_size * (L.dim[2] + 1) - 1, L.dim[3]>>

placed_gates(L) ==
  assign_gates([t \in DOMAIN L.tiles |-> set_up_gate(L, t)],
               [t \in DOMAIN L.tiles |-> shifted_base(gate_size, L.dim[4], t)])
=============================================================================
