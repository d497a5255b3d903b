-------------------------- MODULE ExactConstraints --------------------------
(***************************************************************************)
(* The constraints that exact hands to the SMT solver for one layout size  *)
(* (class smt_handler in algorithms/physical_design/exact.hpp), with I/O   *)
(* pins.                                                                   *)
(*                                                                         *)
(* A problem P is a record: ntk is the network, scheme the clocking,       *)
(* topology the arrangement of a hexagonal or shifted layout (if it is     *)
(* one), and flags holds the parameters that are set.  A check point cp    *)
(* says what the solver is told: the tiles that are added and updated, the *)
(* literals e and s, and the size dim of the layout.                       *)
(*                                                                         *)
(* A constraint is not kept as a formula but as what its formula depends   *)
(* on: its kind, the tile and the node or edge (item) that it is about,    *)
(* the neighbouring tiles that it mentions (zones), and the literals that  *)
(* imply it (guard).  satisfies gives the formulas their meaning.          *)
(***************************************************************************)
EXTENDS TechnologyNetwork, ClockedLayout, FiniteSetsExt

NoTile == DeadTile
NoZones == [in |-> {}, out |-> {}]
set(P, flag) == flag \in P.flags

\* The neighbours that may read t or be read by it.  With irregular clocking
\* these are all, as the solver chooses the clock numbers.
successors(P, dim, t) ==
  IF P.scheme.regular THEN outgoing_clocked_zones(P.scheme, dim, t) ELSE adjacent_coordinates(dim, t)
predecessors(P, dim, t) ==
  IF P.scheme.regular THEN incoming_clocked_zones(P.scheme, dim, t) ELSE adjacent_coordinates(dim, t)
zones(P, cp, t) == [in |-> predecessors(P, cp.dim, t), out |-> successors(P, cp.dim, t)]

constraint(kind, t, item, zs, guard) == [kind |-> kind, tile |-> t, item |-> item, zones |-> zs, guard |-> guard]
for_tile(kind, t, zs, guard) == constraint(kind, t, << >>, zs, guard)
forbidden(kind, t, item) == constraint(kind, t, item, NoZones, {})

\* A slip: the corner tile is not retracted when a row is added.
AsIfOneBorder(cp, t) ==
  IF is_at_eastern_border(cp.dim, t) THEN {cp.e} ELSE IF is_at_southern_border(cp.dim, t) THEN {cp.s} ELSE {}

\* mk_as_if_se: what is said of a tile at a growing border can be retracted.
mk_as_if_se(cp, t) ==
  (IF is_at_eastern_border(cp.dim, t) THEN {cp.e} ELSE {})
    \cup (IF is_at_southern_border(cp.dim, t) THEN {cp.s} ELSE {})
is_growing(cp, t) == mk_as_if_se(cp, t) # {}

\* The same statement about each added and updated tile and its neighbours.
for_added_and_updated(P, cp, kind) ==
  {for_tile(kind, t, zones(P, cp, t), mk_as_if_se(cp, t)) : t \in cp.added \cup cp.updated}

network_in_degree(P, n) == Len(fanins(P.ntk, n))
network_out_degree(P, n) == Cardinality(fanouts(P.ntk, n))
outputs(P) == Range(P.ntk.pos)

-----------------------------------------------------------------------------
(* Placement and local synchronization. *)
restrict_tile_elements(cp) == {for_tile("elements", t, NoZones, {}) : t \in cp.added}

restrict_vertices(P, cp) ==
  LET all == [in |-> {}, out |-> ground_tiles(cp.dim)]
  IN  {constraint("some tile", NoTile, <<n>>, all, {cp.e, cp.s}) : n \in Nodes(P.ntk)}
        \cup {constraint("one tile", NoTile, <<n>>, all, {}) : n \in Nodes(P.ntk)}

define_gate_fanout_tiles(P, cp) == for_added_and_updated(P, cp, "gate fanout")
define_gate_fanin_tiles(P, cp) == for_added_and_updated(P, cp, "gate fanin")
define_wire_fanout_tiles(P, cp) == for_added_and_updated(P, cp, "wire fanout")
define_wire_fanin_tiles(P, cp) == for_added_and_updated(P, cp, "wire fanin")

-----------------------------------------------------------------------------
(* Paths and cycles.  What is said of tiles that were there is kept. *)
establish_sub_paths(P, cp) ==
  UNION {{for_tile("sub path", t, [in |-> {}, out |-> {u}], {}) :
            u \in {u \in successors(P, cp.dim, t) : {t, u} \cap cp.added # {}}}
         : t \in ground_tiles(cp.dim)}

establish_transitive_paths(cp) ==
  LET T == ground_tiles(cp.dim)
  IN  {for_tile("transitive", w[2], [in |-> {w[1]}, out |-> {w[3]}], {}) :
         w \in {w \in T \X T \X T : w[1] # w[2] /\ w[2] # w[3] /\ {w[1], w[2], w[3]} \cap cp.added # {}}}

eliminate_cycles(cp) == {for_tile("acyclic", t, NoZones, {}) : t \in cp.added}

-----------------------------------------------------------------------------
(* Global synchronization.  The solver chooses the clock numbers of an     *)
(* open clocking scheme; it may also hold back the signals of wires.       *)
restrict_clocks(cp) == {for_tile("clock", t, NoZones, {}) : t \in cp.added}
synchronizes(P) == set(P, "synchronization_elements") /\ ~ set(P, "desynchronize")
restrict_synchronization_elements(cp) == {for_tile("element", t, NoZones, {}) : t \in cp.added}

assign_pi_clockings(P, cp) ==
  IF set(P, "border_io") /\ is_linear_scheme(P.scheme) THEN {}
  ELSE {constraint("pi clock", t, <<n>>, NoZones, {}) : t \in cp.added, n \in pis(P.ntk)}

\* The inputs are kept to the first clock zones in both directions.
restrict_2ddwave_entry_tiles(P, cp) ==
  {forbidden("entry", t, <<n>>) : n \in pis(P.ntk),
     t \in {t \in cp.added : t[1] > P.scheme.num_clocks - 1 \/ t[2] > P.scheme.num_clocks - 1}}

define_length(P, cp) ==
  {constraint("length", NoTile, <<n>>, [in |-> {}, out |-> ground_tiles(cp.dim)], {cp.e, cp.s}) : n \in outputs(P)}

global_synchronization(P, cp) ==
  CASE set(P, "border_io") /\ P.scheme.name \in {"2DDWAVE", "2DDWAVEHEX"} -> restrict_2ddwave_entry_tiles(P, cp)
    [] set(P, "border_io") /\ P.scheme.name \in {"COLUMNAR", "ROW"} -> {}
    [] OTHER -> define_length(P, cp)

-----------------------------------------------------------------------------
(* Pins and inverters. *)

\* Columnar clocking has the inputs in the west and the outputs in the east,
\* row clocking in the north and in the south; otherwise any border will do.
\* Inputs in the west or north are not affected by growth.
enforce_border_io(P, cp) ==
  LET all == cp.added \cup cp.updated
      away(nodes, T) == {forbidden("border", t, <<n>>) : n \in nodes, t \in T}
  IN  CASE P.scheme.name = "COLUMNAR" ->
             away(pis(P.ntk), {t \in cp.added : t[1] # 0})
               \cup away(outputs(P), {t \in all : ~ is_at_eastern_border(cp.dim, t)})
        [] P.scheme.name = "ROW" ->
             away(pis(P.ntk), {t \in cp.added : t[2] # 0})
               \cup away(outputs(P), {t \in all : ~ is_at_southern_border(cp.dim, t)})
        [] OTHER -> away(pis(P.ntk) \cup outputs(P), {t \in all : ~ is_at_any_border(cp.dim, t)})

\* The ways straight through t that the clocking allows.
straight_ways(P, cp, t) ==
  UNION {{w \in {p, <<p[2], p[1]>>} :
            (is_incoming_clocked(P.scheme, t, w[1]) /\ is_outgoing_clocked(P.scheme, t, w[2])) \/ ~ P.scheme.regular}
         : p \in adjacent_opposite_coordinates(cp.dim, t)}

\* zones.out holds the pairs.  Without a pair there is no inverter here.
enforce_straight_inverters(P, cp) ==
  {constraint("straight", t, <<n>>, [in |-> {}, out |-> straight_ways(P, cp, t)], mk_as_if_se(cp, t)) :
     n \in {n \in Nodes(P.ntk) : is_inv(P.ntk, n)}, t \in cp.added \cup cp.updated}

-----------------------------------------------------------------------------
(* ToPoliNano: couplers, which are fanouts, are entered from the north-west *)
(* and gates are left to the north-east; neither may directly follow a gate *)
(* of its kind, and no crossing lies beside them.                           *)
is_coupler(P, n) == is_fanout(P.ntk, n)
is_majority_gate(P, n) == P.ntk.fn[n] \in {"and", "or", "maj"}

\* Pairs of nodes that may not lie on succeeding tiles.
conflicts(P) ==
  {e \in edges(P.ntk) :
     \/ is_coupler(P, e[1]) /\ is_coupler(P, e[2])
     \/ is_majority_gate(P, e[1])
          /\ \/ is_majority_gate(P, e[2]) \/ is_coupler(P, e[2])
             \/ is_inv(P.ntk, e[2]) /\ set(P, "straight_inverters")}

\* Said when the second tile is added.
prohibit_successions(P, cp) ==
  UNION {{constraint("succession", t, e, [in |-> {}, out |-> {u}], {}) :
            u \in outgoing_clocked_zones(P.scheme, cp.dim, t) \cap cp.added, e \in conflicts(P)}
         : t \in ground_tiles(cp.dim)}

enter_couplers(P, cp) ==
  {LET nw == north_west(cp.dim, t)
   IN  IF nw = t THEN forbidden("coupler", t, <<n>>)
       ELSE constraint("enter", t, <<n>>, [in |-> {nw}, out |-> {}], {}) :
     t \in cp.added, n \in {n \in Nodes(P.ntk) : is_coupler(P, n) /\ network_in_degree(P, n) # 0}}

leave_gates(P, cp) ==
  LET gates == {n \in Nodes(P.ntk) : is_majority_gate(P, n)}
      exits(kind, t, u) == {constraint(kind, t, <<n>>, [in |-> {}, out |-> {u}], {}) : n \in gates}
  IN  UNION {(IF north_east(cp.dim, t) = t THEN {} ELSE exits("crossing behind", t, north_east(cp.dim, t)))
               \cup (IF south_east(cp.dim, t) \in cp.added \ {t} THEN exits("exit", t, south_east(cp.dim, t)) ELSE {})
             : t \in ground_tiles(cp.dim)}
leave_gates_assumed(P, cp) ==
  {forbidden("no exit", t, <<n>>) : n \in {n \in Nodes(P.ntk) : is_majority_gate(P, n)},
     t \in {t \in ground_tiles(cp.dim) : north_east(cp.dim, t) = t}}

technology_specific_constraints(P, cp) ==
  IF set(P, "topolinano") THEN prohibit_successions(P, cp) \cup enter_couplers(P, cp) \cup leave_gates(P, cp) ELSE {}

-----------------------------------------------------------------------------
(* Symmetry breaking. *)

\* The nodes and edges that have more neighbours than tile t.
insufficient(P, cp, t) ==
  IF ~ P.scheme.regular
  THEN {<<n>> : n \in {n \in Nodes(P.ntk) :
          Cardinality(adjacent_coordinates(cp.dim, t)) < network_out_degree(P, n) + network_in_degree(P, n)}}
  ELSE
  LET out == out_degree(P.scheme, cp.dim, t)
      in == in_degree(P.scheme, cp.dim, t)
  IN  {<<n>> : n \in {n \in Nodes(P.ntk) : out < network_out_degree(P, n) \/ in < network_in_degree(P, n)}}
        \cup {e \in edges(P.ntk) : out = 0 \/ in = 0}

insufficiencies(P, cp, T) == UNION {{forbidden("insufficient", t, i) : i \in insufficient(P, cp, t)} : t \in T}

\* At a growing border this holds for one run only, elsewhere for good.
prevent_insufficiencies_assumed(P, cp) ==
  insufficiencies(P, cp, {t \in ground_tiles(cp.dim) : is_growing(cp, t)})
prevent_insufficiencies(P, cp) == insufficiencies(P, cp, {t \in cp.updated : ~ is_growing(cp, t)})

define_number_of_connections(P, cp) ==
  for_added_and_updated(P, cp, "connections")
    \cup (IF P.scheme.regular THEN {} ELSE {for_tile("empty clock", t, NoZones, {}) : t \in cp.added})

\* The longest way to a node that nobody reads.
inverse_levels(ntk) ==
  LET level[n \in Nodes(ntk)] ==
        IF fanouts(ntk, n) = {} THEN 0 ELSE 1 + Max({level[m] : m \in fanouts(ntk, n)})
  IN  level

\* A slip: the tile that a node of level l can just reach is taken away too.
TooEarlyByOne(P, cp, l) ==
  CASE P.scheme.name = "COLUMNAR" -> {t \in cp.added : t[1] <= l /\ t[1] < cp.dim[1]}
    [] P.scheme.name = "ROW" -> {t \in cp.added : t[2] <= l /\ t[2] < cp.dim[2]}
    [] P.scheme.name = "2DDWAVE" -> {t \in cp.added : t[1] + t[2] <= l}
    [] OTHER -> {}

\* The tiles at which a node of level l comes too early, and those from
\* which a node of inverse level il does not reach an output.
too_early(P, cp, l) ==
  CASE P.scheme.name = "COLUMNAR" -> {t \in cp.added : t[1] < l /\ t[1] < cp.dim[1]}
    [] P.scheme.name = "ROW" -> {t \in cp.added : t[2] < l /\ t[2] < cp.dim[2]}
    [] P.scheme.name = "2DDWAVE" -> {t \in cp.added : t[1] + t[2] < l}
    [] OTHER -> {}
too_late(P, cp, il) ==
  LET before_border(i) ==
        {t \in ground_tiles(cp.dim) : il <= cp.dim[i] + 1 /\ t[i] \in (cp.dim[i] - il + 1)..(cp.dim[i] - 1)}
  IN  CASE P.scheme.name = "COLUMNAR" -> before_border(1)
        [] P.scheme.name = "ROW" -> before_border(2)
        [] P.scheme.name = "2DDWAVE" -> {t \in cp.added : (cp.dim[1] - t[1]) + (cp.dim[2] - t[2]) < il}
        [] OTHER -> {}

utilize_hierarchical_information(P, cp) ==
  IF ~ set(P, "border_io") THEN {}
  ELSE LET lev == levels(P.ntk)
       IN  UNION {{forbidden("too early", t, i) : t \in too_early(P, cp, lev[n]),
                     i \in {<<n>>} \cup Range(outgoing_edges(P.ntk, n))} : n \in Nodes(P.ntk)}
utilize_hierarchical_information_assumed(P, cp) ==
  IF ~ set(P, "border_io") THEN {}
  ELSE LET lev == inverse_levels(P.ntk)
       IN  UNION {{forbidden("too late", t, i) : t \in too_late(P, cp, lev[n]),
                     i \in {<<n>>} \cup Range(fanin_edges(P.ntk, n))} : n \in Nodes(P.ntk)}

-----------------------------------------------------------------------------
\* What is added to the solver, and what is assumed for one run.
generate_smt_instance(P, cp) ==
  restrict_tile_elements(cp) \cup restrict_vertices(P, cp)
    \cup define_gate_fanout_tiles(P, cp) \cup define_gate_fanin_tiles(P, cp)
    \cup define_wire_fanout_tiles(P, cp) \cup define_wire_fanin_tiles(P, cp)
    \cup (IF set(P, "desynchronize") THEN {} ELSE assign_pi_clockings(P, cp) \cup global_synchronization(P, cp))
    \cup (IF P.scheme.regular THEN {} ELSE restrict_clocks(cp))
    \cup (IF is_linear_scheme(P.scheme) THEN {}
          ELSE establish_sub_paths(P, cp) \cup establish_transitive_paths(cp) \cup eliminate_cycles(cp))
    \cup (IF set(P, "border_io") THEN enforce_border_io(P, cp) ELSE {})
    \cup (IF set(P, "straight_inverters") THEN enforce_straight_inverters(P, cp) ELSE {})
    \cup (IF synchronizes(P) THEN restrict_synchronization_elements(cp) ELSE {})
    \cup technology_specific_constraints(P, cp)
    \cup prevent_insufficiencies(P, cp) \cup define_number_of_connections(P, cp)
    \cup utilize_hierarchical_information(P, cp)

assumptions(P, cp) ==
  prevent_insufficiencies_assumed(P, cp) \cup utilize_hierarchical_information_assumed(P, cp)
    \cup (IF set(P, "topolinano") THEN leave_gates_assumed(P, cp) ELSE {})
=============================================================================
