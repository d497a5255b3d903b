------------------------- MODULE LayoutVerification -------------------------
(***************************************************************************)
(* What the program says of a finished gate-level layout:                  *)
(* algorithms/verification/design_rule_violations.hpp,                     *)
(* algorithms/properties/critical_path_length_and_throughput.hpp and       *)
(* algorithms/verification/equivalence_checking.hpp.                       *)
(*                                                                         *)
(* A layout L is a record: tiles maps the occupied tiles to what they hold *)
(* (network node, function, tiles read), dim is the aspect ratio, scheme   *)
(* the clocking scheme, and pis and pos are the tiles of the inputs and    *)
(* outputs in their order.                                                 *)
(***************************************************************************)
EXTENDS TechnologyNetwork, ClockedLayout

children(L, t) == IF t \in DOMAIN L.tiles THEN Range(L.tiles[t].kids) ELSE {}
is_child(L, t, u) == u \in children(L, t)
elevations(L, t) == {t, above(L.dim, t), below(t)}

\* Data flows along connections between tiles in succeeding clock zones that
\* lie side by side, up to one layer apart.
incoming_data_flow(L, t) ==
  LET zones_in == incoming_clocked_zones(L.scheme, L.dim, t)
  IN  {u \in children(L, t) : elevations(L, u) \cap zones_in # {}}
outgoing_data_flow(L, t) ==
  {u \in UNION {elevations(L, z) : z \in outgoing_clocked_zones(L.scheme, L.dim, t)} : is_child(L, u, t)}

\* The fanins of a tile when the layout is read as a network: the incoming
\* tiles in the order of their coordinates.
layout_fanins(L, t) == SetToSortSeq(incoming_data_flow(L, t), precedes)

is_pi_tile(L, t) == Contains(L.pis, t)
is_po_tile(L, t) == Contains(L.pos, t)
is_wire_tile(L, t) == t \in DOMAIN L.tiles /\ L.tiles[t].fn \in {"pi", "po", "buf"}

-----------------------------------------------------------------------------
(* gate_level_drvs.  A tile of L holds a placed node, a pin or a wire,     *)
(* which leaves nothing to the checks for unplaced nodes, dead nodes and   *)
(* pins that are gates.                                                    *)

\* A signal is the number of a tile.  The node of an empty tile is the
\* constant 0, which lies on the default tile: dead, in the corner.
child_tile(L, u) == IF u \in DOMAIN L.tiles THEN u ELSE DeadTile
clock_zone(t) == IF is_dead(t) THEN <<0, 0, 0>> ELSE t
connections(L) == UNION {{<<t, child_tile(L, u)>> : u \in Range(L.tiles[t].kids)} : t \in DOMAIN L.tiles}

non_adjacent_connections_check(L) ==
  {"non-adjacent" : c \in {c \in connections(L) : ~ is_adjacent_elevation_of(L.dim, c[1], c[2])}}

dangling_inp_connection(L, t) == incoming_data_flow(L, t) = {} /\ ~ is_pi_tile(L, t)
dangling_out_connection(L, t) == outgoing_data_flow(L, t) = {} /\ ~ is_po_tile(L, t)
missing_connections_check(L) ==
  {"missing connection" : t \in {t \in DOMAIN L.tiles :
      dangling_inp_connection(L, t) \/ dangling_out_connection(L, t)}}

crossing_gates_check(L) ==
  {"crossing gate" : t \in {t \in DOMAIN L.tiles :
      is_wire_tile(L, t) /\ is_crossing_layer(t) /\ ~ is_wire_tile(L, below(t))}}

clocked_data_flow_check(L) ==
  {"clocking" : c \in {c \in connections(L) : ~ is_incoming_clocked(L.scheme, c[1], clock_zone(c[2]))}}

has_io_check(L) == {"no I/O" : x \in {x \in {L.pis, L.pos} : x = << >>}}
empty_io_check(L) == {"empty I/O" : t \in (Range(L.pis) \cup Range(L.pos)) \ DOMAIN L.tiles}

drvs(L) ==
  non_adjacent_connections_check(L) \cup missing_connections_check(L) \cup crossing_gates_check(L)
    \cup clocked_data_flow_check(L) \cup has_io_check(L) \cup empty_io_check(L)

\* Warnings do not make a layout invalid.
border_io_check(L) ==
  {"I/O not at border" : t \in {t \in Range(L.pis) \cup Range(L.pos) : ~ is_at_any_border(L.dim, t)}}
warnings(L) == border_io_check(L)

-----------------------------------------------------------------------------
(* critical_path_length_and_throughput. *)
absolute(x) == IF x < 0 THEN -x ELSE x

\* A slip: the longest path is compared with the last one.
DiffToLast(infos) ==
  LET I == DOMAIN infos
      longest == CHOOSE i \in I : \A j \in I : infos[j].length < infos[i].length \/ (infos[j].length = infos[i].length /\ j <= i)
  IN  IF Len(infos) = 1 THEN infos[1]
      ELSE [infos[longest] EXCEPT !.diff = absolute(infos[longest].delay - infos[Len(infos)].delay)]

\* Of the paths into a tile, the longest dominates; diff is the difference
\* in delay to the shortest.  Paths of one length stay in their order.
dominant_path(infos) ==
  LET I == DOMAIN infos
      longest == CHOOSE i \in I : \A j \in I : infos[j].length < infos[i].length \/ (infos[j].length = infos[i].length /\ j <= i)
      shortest == CHOOSE i \in I : \A j \in I : infos[i].length < infos[j].length \/ (infos[j].length = infos[i].length /\ i <= j)
  IN  IF Len(infos) = 1 THEN infos[1]
      ELSE [infos[longest] EXCEPT !.diff = absolute(infos[longest].delay - infos[shortest].delay)]

\* A pin that is fed by another tile counts as the start of a path as well.
RECURSIVE signal_delay(_, _)
signal_delay(L, t) ==
  LET in == layout_fanins(L, t)
      infos == [i \in DOMAIN in |-> signal_delay(L, in[i])]
      own == IF is_pi_tile(L, t)
             THEN <<[length |-> 1, delay |-> (clock_number(L.scheme, t) + L.scheme.num_clocks - 1) % L.scheme.num_clocks, diff |-> 0]>>
             ELSE << >>
      dominant == dominant_path(infos \o own)
  IN  IF in = << >> THEN [length |-> 1, delay |-> clock_number(L.scheme, t), diff |-> 0]
      ELSE [dominant EXCEPT !.length = @ + 1, !.delay = @ + 1]

\* The tiles that an output depends on, found from the outputs.
RECURSIVE reached(_, _)
reached(L, S) ==
  LET more == S \cup UNION {incoming_data_flow(L, t) : t \in S} IN IF more = S THEN S ELSE reached(L, more)

\* Only gates enter the cache that the largest difference is taken from.
throughput(L) ==
  LET cached == {t \in reached(L, Range(L.pos)) : ~ is_wire_tile(L, t) /\ incoming_data_flow(L, t) # {}}
  IN  (Max({signal_delay(L, t).diff : t \in cached} \cup {0}) \div L.scheme.num_clocks) + 1

\* What the program finds with one path per fanin, from all paths: the clock
\* phases after which signals of one cycle arrive at tile t.  A
\* synchronization element holds them for whole cycles.
RECURSIVE arrivals(_, _)
arrivals(L, t) ==
  LET hold == 1 + get_synchronization_element(L.scheme, t) * L.scheme.num_clocks
  IN  IF is_pi_tile(L, t) THEN {clock_number(L.scheme, t)}
      ELSE {a + hold : a \in UNION {arrivals(L, u) : u \in Range(layout_fanins(L, t))}}

-----------------------------------------------------------------------------
(* equivalence_checking. *)

\* What a tile computes from the inputs, read through layout_fanins.
RECURSIVE tile_function(_, _, _)
tile_function(L, all, t) ==
  LET f == layout_fanins(L, t)
      v == [i \in DOMAIN f |-> tile_function(L, all, f[i])]
      c == L.tiles[t]
  IN  function_of(IF c.fn = "po" THEN "buf" ELSE c.fn, all, c.node, v)

simulate_layout(L, all) == [i \in DOMAIN L.pos |-> tile_function(L, all, L.pos[i])]

\* A miter exists only for equal numbers of inputs and outputs.
has_miter(spec, L) == num_pis(spec) = Len(L.pis) /\ Len(spec.pos) = Len(L.pos)

equivalence_checking(spec, L) ==
  IF drvs(L) # {} \/ ~ has_miter(spec, L) \/ simulate_layout(L, assignments(spec)) # simulate(spec) THEN "NO"
  ELSE IF throughput(L) = 1 THEN "STRONG" ELSE "WEAK"
=============================================================================
