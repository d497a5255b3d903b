---------------------------- MODULE ExactModels ----------------------------
(***************************************************************************)
(* The assignments that satisfy the constraints of ExactConstraints, and   *)
(* the layouts that exact reads off them (assign_layout, route and         *)
(* place_output in algorithms/physical_design/exact.hpp).                  *)
(*                                                                         *)
(* An assignment m gives every node a tile (tn), every edge a set of tiles *)
(* (te), the connections between tiles (tc), every input a clock number    *)
(* (ncl), and the tiles clock numbers (tcl) and delays (tse), as far as    *)
(* they are left to the solver.  The paths (tp) are taken to be the least  *)
(* that the connections span: more of them are only harder to keep free of *)
(* cycles.                                                                 *)
(***************************************************************************)
EXTENDS ExactConstraints, LayoutVerification

nodes_at(m, t) == {n \in DOMAIN m.tn : m.tn[n] = t}
edges_at(m, t) == {e \in DOMAIN m.te : t \in m.te[e]}
carries_on(m, e, u) == m.tn[e[2]] = u \/ u \in m.te[e]
comes_from(m, e, u) == m.tn[e[1]] = u \/ u \in m.te[e]

\* mk_clk_mod: the clock numbers of t and u differ by 1.
mk_clk_mod(P, m, t, u) == P.scheme.regular \/ m.tcl[u] = (m.tcl[t] + 1) % P.scheme.num_clocks

\* A signal of edge e that is at t goes on to, or comes from, a neighbour.
leaves(P, m, e, t, zs) ==
  zs.out # {} => \E u \in zs.out : carries_on(m, e, u) /\ <<t, u>> \in m.tc /\ mk_clk_mod(P, m, t, u)
enters(P, m, e, t, zs) ==
  zs.in # {} => \E u \in zs.in : comes_from(m, e, u) /\ <<u, t>> \in m.tc /\ mk_clk_mod(P, m, u, t)

elements_fit(P, m, t) ==
  LET ns == Cardinality(nodes_at(m, t))
      es == Cardinality(edges_at(m, t))
  IN  IF set(P, "crossings") THEN ns <= 1 /\ es <= 2 /\ (ns = 0 \/ es = 0) ELSE ns + es <= 1

\* A node has as many connections as it has neighbours, a wire one on each
\* side and a crossing two; an empty tile has none and a full one some.
connections_fit(P, m, t, zs) ==
  LET es == Cardinality(edges_at(m, t))
      acc == Cardinality({u \in zs.out : <<t, u>> \in m.tc})
      iacc == Cardinality({u \in zs.in : <<u, t>> \in m.tc})
      fit(k, ik) == (zs.out # {} => acc = k) /\ (zs.in # {} => iacc = ik)
  IN  /\ \A n \in nodes_at(m, t) : fit(network_out_degree(P, n), network_in_degree(P, n))
      /\ es = 1 => fit(1, 1)
      /\ set(P, "crossings") =>
           IF Cardinality(zs.out) < 2 \/ Cardinality(zs.in) < 2 THEN es <= 1 ELSE es = 2 => fit(2, 2)
      /\ zs # NoZones => (nodes_at(m, t) = {} /\ es = 0 <=> acc + iacc = 0)

\* The length of a path: the wires on it with their delays, the nodes it has
\* less than the longest path, and the clock number of its input.
RECURSIVE all_incoming_edge_paths(_, _)
all_incoming_edge_paths(ntk, n) ==
  IF fanin_size(ntk, n) = 0 THEN {<< >>}
  ELSE UNION {{Append(p, <<k, n>>) : p \in all_incoming_edge_paths(ntk, k)} : k \in Range(fanins(ntk, n))}

path_length(P, m, p, longest) ==
  LET tiles(e) == MapThenSumSet(LAMBDA t : 1 + m.tse[t] * P.scheme.num_clocks, m.te[e])
  IN  FoldLeft(LAMBDA len, e : len + tiles(e), Len(p) - longest + m.ncl[p[1][1]], p)

\* A slip: paths that differ by whole clock cycles are taken for balanced.
LengthsInPhase(P, m, n) ==
  LET paths == all_incoming_edge_paths(P.ntk, n)
      longest == Max({Len(p) : p \in paths})
  IN  {path_length(P, m, p, longest) % P.scheme.num_clocks : p \in paths}

lengths(P, m, n) ==
  LET paths == all_incoming_edge_paths(P.ntk, n)
      longest == Max({Len(p) : p \in paths})
  IN  {path_length(P, m, p, longest) : p \in paths}

RECURSIVE closure(_)
closure(R) ==
  LET more == R \cup {<<p[1], q[2]>> : <<p, q>> \in {<<p, q>> \in R \X R : p[2] = q[1]}}
  IN  IF more = R THEN R ELSE closure(more)
tp(m) == closure(m.tc)

assigned(m, t, item) == IF Len(item) = 1 THEN m.tn[item[1]] = t ELSE t \in m.te[item]

satisfies(P, m, c) ==
  LET t == c.tile
      zs == c.zones
  IN  CASE c.kind = "elements" -> elements_fit(P, m, t)
        [] c.kind = "some tile" -> m.tn[c.item[1]] \in zs.out
        [] c.kind = "one tile" -> TRUE
        [] c.kind = "gate fanout" ->
             \A n \in nodes_at(m, t) : \A e \in Range(outgoing_edges(P.ntk, n)) : leaves(P, m, e, t, zs)
        [] c.kind = "gate fanin" ->
             \A n \in nodes_at(m, t) : \A e \in Range(fanin_edges(P.ntk, n)) : enters(P, m, e, t, zs)
        [] c.kind = "wire fanout" -> \A e \in edges_at(m, t) : leaves(P, m, e, t, zs)
        [] c.kind = "wire fanin" -> \A e \in edges_at(m, t) : enters(P, m, e, t, zs)
        [] c.kind = "connections" -> connections_fit(P, m, t, zs)
        [] c.kind \in {"sub path", "transitive"} -> TRUE
        [] c.kind = "acyclic" -> <<t, t>> \notin tp(m)
        [] c.kind = "pi clock" -> assigned(m, t, c.item) => m.ncl[c.item[1]] = (IF P.scheme.regular THEN clock_number(P.scheme, t) ELSE m.tcl[t])
        [] c.kind = "clock" -> m.tcl[t] \in 0..(P.scheme.num_clocks - 1)
        [] c.kind = "empty clock" -> nodes_at(m, t) = {} /\ edges_at(m, t) = {} => m.tcl[t] = 0
        [] c.kind = "element" -> edges_at(m, t) = {} => m.tse[t] = 0
        [] c.kind = "length" -> Cardinality(lengths(P, m, c.item[1])) = 1
        [] c.kind = "straight" -> assigned(m, t, c.item) => \E w \in zs.out : {<<w[1], t>>, <<t, w[2]>>} \subseteq m.tc
        [] c.kind = "succession" -> ~ (assigned(m, t, <<c.item[1]>>) /\ \E u \in zs.out : assigned(m, u, <<c.item[2]>>))
        [] c.kind = "enter" -> assigned(m, t, c.item) => \A u \in zs.in : <<u, t>> \in m.tc /\ Cardinality(edges_at(m, u)) <= 1
        [] c.kind = "crossing behind" -> assigned(m, t, c.item) => \A u \in zs.out : Cardinality(edges_at(m, u)) <= 1
        [] c.kind = "exit" -> assigned(m, t, c.item) => \A u \in zs.out : <<t, u>> \notin m.tc
        [] OTHER -> ~ assigned(m, t, c.item)

-----------------------------------------------------------------------------
(* Finding the assignments: nodes are placed one after the other, each     *)
(* together with the edges into it, then the tiles are connected.  What is *)
(* left out on the way violates a constraint whatever follows.             *)

\* The tiles that constraints C leave to a node or an edge.
Forbidding == {"entry", "border", "insufficient", "too early", "too late", "coupler", "no exit"}
allowed(C, T, item) == T \ {c.tile : c \in {c \in C : c.kind \in Forbidding /\ c.item = item}}

\* Sets R of tiles on which every tile has a neighbour before and behind it
\* on the way from a to b.
goes_on(P, dim, t, S) == LET z == successors(P, dim, t) IN z = {} \/ z \cap S # {}
comes_in(P, dim, t, S) == LET z == predecessors(P, dim, t) IN z = {} \/ z \cap S # {}
linked(P, dim, a, b, R) ==
  (\A t \in R \cup {a} : goes_on(P, dim, t, R \cup {b})) /\ (\A t \in R \cup {b} : comes_in(P, dim, t, R \cup {a}))

\* The union of all such sets lies in the tiles that this leaves of R.
RECURSIVE linkable(_, _, _, _, _)
linkable(P, dim, a, b, R) ==
  LET S == {t \in R : goes_on(P, dim, t, R \cup {b}) /\ comes_in(P, dim, t, R \cup {a})}
  IN  IF S = R THEN R ELSE linkable(P, dim, a, b, S)

wirings(P, C, dim, p, e) ==
  LET room == IF set(P, "crossings") THEN 2 ELSE 1
      free == {t \in allowed(C, ground_tiles(dim), e) : nodes_at(p, t) = {} /\ Cardinality(edges_at(p, t)) < room}
      a == p.tn[e[1]]
      b == p.tn[e[2]]
  IN  {[p EXCEPT !.te = @ @@ (e :> R)] : R \in {R \in SUBSET linkable(P, dim, a, b, free) : linked(P, dim, a, b, R)}}

placings(P, C, dim, p, n) ==
  {[p EXCEPT !.tn = @ @@ (n :> t)] :
     t \in {t \in allowed(C, ground_tiles(dim), <<n>>) : nodes_at(p, t) = {} /\ edges_at(p, t) = {}}}

placed_and_wired(P, C, dim) ==
  LET wire_all(S, e) == UNION {wirings(P, C, dim, p, e) : p \in S}
      place_all(S, n) == FoldLeft(wire_all, UNION {placings(P, C, dim, p, n) : p \in S}, fanin_edges(P.ntk, n))
  IN  FoldLeft(place_all, {[tn |-> << >>, te |-> << >>]}, topo_order(P.ntk))

\* As many connections out of a tile as its element asks for.
connectings(P, dim, p) ==
  LET full == {t \in ground_tiles(dim) : nodes_at(p, t) # {} \/ edges_at(p, t) # {}}
      degree(t) == MapThenSumSet(LAMBDA n : network_out_degree(P, n), nodes_at(p, t)) + Cardinality(edges_at(p, t))
      choices(t) == LET z == successors(P, dim, t)
                    IN  IF z = {} THEN {{}} ELSE kSubset(degree(t), {<<t, u>> : u \in z \cap full})
  IN  FoldSet(LAMBDA t, S : {tc \cup x : tc \in S, x \in choices(t)}, {{}}, full)

\* Clock numbers for the tiles in use, if the scheme is open.  A tile with a
\* single connection on one side has no choice there.
tile_clockings(P, dim, p, tc) ==
  LET full == {t \in ground_tiles(dim) : nodes_at(p, t) # {} \/ edges_at(p, t) # {}}
      single(c) == {d \in tc : d[1] = c[1]} = {c} \/ {d \in tc : d[2] = c[2]} = {c}
      numbers == 0..(P.scheme.num_clocks - 1)
      agree(f, c) == c[1] \in DOMAIN f /\ c[2] \in DOMAIN f /\ single(c) => f[c[2]] = (f[c[1]] + 1) % P.scheme.num_clocks
      extend(t, S) == {g \in {f @@ (t :> k) : f \in S, k \in numbers} : \A c \in tc : t \in {c[1], c[2]} => agree(g, c)}
      empty == [t \in ground_tiles(dim) \ full |-> 0]
  IN  IF P.scheme.regular THEN {<< >>} ELSE {f @@ empty : f \in FoldSet(extend, {<< >>}, full)}

\* Without path lengths the clock numbers of the inputs do not matter.
clockings(P, C, p, tcl) ==
  LET relevant == \E c \in C : c.kind = "length"
      fixed(n) == \E c \in C : c.kind = "pi clock" /\ c.item = <<n>> /\ c.tile = p.tn[n]
      number(t) == IF P.scheme.regular THEN clock_number(P.scheme, t) ELSE tcl[t]
      choices(n) == IF ~ relevant THEN {0}
                    ELSE IF fixed(n) THEN {number(p.tn[n])} ELSE 0..(P.scheme.num_clocks - 1)
  IN  {f \in [pis(P.ntk) -> 0..(P.scheme.num_clocks - 1)] : \A n \in pis(P.ntk) : f[n] \in choices(n)}

\* Delays of up to MaxDelay clock cycles.  The bound loses nothing where a
\* sum of delays of at most MaxDelay will do, as optimize minimises it.
MaxDelay == 1
delays(P, dim, p) ==
  LET wires == IF synchronizes(P) THEN UNION Range(p.te) ELSE {}
  IN  {f @@ [t \in ground_tiles(dim) |-> 0] : f \in [wires -> 0..MaxDelay]}

models(P, C, dim) ==
  LET extended(p, tc, tcl) ==
        {[tn |-> p.tn, te |-> p.te, tc |-> tc, tcl |-> tcl, ncl |-> ncl, tse |-> tse] :
           ncl \in clockings(P, C, p, tcl), tse \in delays(P, dim, p)}
      all == UNION {UNION {UNION {extended(p, tc, tcl) : tcl \in tile_clockings(P, dim, p, tc)}
                           : tc \in connectings(P, dim, p)} : p \in placed_and_wired(P, C, dim)}
  IN  {m \in all : \A c \in C : satisfies(P, m, c)}

-----------------------------------------------------------------------------
(* Optimization criteria: a solver with objectives of its own chooses among *)
(* the assignments, by the first criterion first.                          *)
minimize_wires(m) == MapThenSumSet(LAMBDA e : Cardinality(m.te[e]), DOMAIN m.te)
minimize_crossings(m) == Cardinality({t \in UNION Range(m.te) : Cardinality(edges_at(m, t)) >= 2})
minimize_synchronization_elements(m) == MapThenSumSet(LAMBDA t : m.tse[t], DOMAIN m.tse)

\* The solver's answer is the least by each criterion in turn.
optimize(P, S) ==
  LET least(T, wanted, cost(_)) ==
        IF wanted THEN LET best == Min({cost(m) : m \in T}) IN {m \in T : cost(m) = best} ELSE T
      wired == least(S, set(P, "minimize_wires"), minimize_wires)
      crossed == least(wired, set(P, "minimize_crossings"), minimize_crossings)
  IN  least(crossed, synchronizes(P), minimize_synchronization_elements)

-----------------------------------------------------------------------------
(* Reading a layout off an assignment.  d.tiles is the layout and d.branch *)
(* the tile that holds the signal of an edge; an edge without an entry     *)
(* reads the default signal, which is the tile in the north-west corner.   *)

signal_of(d, e) == IF e \in DOMAIN d.branch THEN d.branch[e] ELSE <<0, 0, 0>>

\* The next tile of edge e behind t, if there is one: the first in order.
next_tiles(P, dim, m, e, t) ==
  {u \in outgoing_clocked_zones(P.scheme, dim, t) : u \in m.te[e] /\ <<t, u>> \in m.tc}

RECURSIVE route(_, _, _, _, _, _)
route(P, dim, m, d, e, t) ==
  LET nexts == next_tiles(P, dim, m, e, t)
      u == CHOOSE u \in nexts : \A v \in nexts : u = v \/ precedes(u, v)
      w == IF u \in DOMAIN d.tiles THEN above(dim, u) ELSE u
      segment == [node |-> 0, fn |-> "buf", kids |-> <<signal_of(d, e)>>]
  IN  IF nexts = {} THEN d
      ELSE route(P, dim, m, [tiles |-> (w :> segment) @@ d.tiles, branch |-> (e :> w) @@ d.branch], e, u)

\* A slip: a gate reads its fanins' tiles instead of the ends of the wires.
AssignFanins(P, dim, m, d, n) ==
  LET t == m.tn[n]
      kids == [i \in DOMAIN fanins(P.ntk, n) |-> m.tn[fanins(P.ntk, n)[i]]]
      placed_n == [d EXCEPT !.tiles = (t :> [node |-> n, fn |-> P.ntk.fn[n], kids |-> kids]) @@ @]
      branch(g, e) == route(P, dim, m, [g EXCEPT !.branch = (e :> t) @@ @], e, t)
  IN  IF is_po(P.ntk, n) THEN d ELSE FoldLeft(branch, placed_n, outgoing_edges(P.ntk, n))

\* A node and its outgoing edges.  Outputs come later, all of them: also an
\* output node that others read is passed over here.
assign_node(P, dim, m, d, n) ==
  LET t == m.tn[n]
      kids == [i \in DOMAIN fanins(P.ntk, n) |-> signal_of(d, <<fanins(P.ntk, n)[i], n>>)]
      placed_n == [d EXCEPT !.tiles = (t :> [node |-> n, fn |-> P.ntk.fn[n], kids |-> kids]) @@ @]
      branch(g, e) == route(P, dim, m, [g EXCEPT !.branch = (e :> t) @@ @], e, t)
  IN  IF is_po(P.ntk, n) THEN d ELSE FoldLeft(branch, placed_n, outgoing_edges(P.ntk, n))

place_output(P, m, d, n) ==
  [d EXCEPT !.tiles = (m.tn[n] :> [node |-> 0, fn |-> "po", kids |-> <<signal_of(d, <<fanins(P.ntk, n)[1], n>>)>>]) @@ @]

\* The clock number of a tile holds for the crossing layer as well.
assign_layout_clocking(P, dim, m) ==
  LET number(t) == m.tcl[<<t[1], t[2], 0>>]
      all == ground_tiles(dim) \cup {above(dim, t) : t \in ground_tiles(dim)}
  IN  IF P.scheme.regular THEN P ELSE [P EXCEPT !.scheme = override_clock_number(@, [t \in all |-> number(t)])]

assign_layout(P, dim, m) ==
  LET Q == assign_layout_clocking(P, dim, m)
      gates == FoldLeft(LAMBDA d, n : assign_node(Q, dim, m, d, n), [tiles |-> << >>, branch |-> << >>], topo_order(P.ntk))
      all == FoldLeft(LAMBDA d, n : place_output(Q, m, d, n), gates, P.ntk.pos)
  IN  [tiles |-> all.tiles, dim |-> dim, scheme |-> assign_synchronization_elements(Q.scheme, m.tse),
       pis |-> [i \in 1..num_pis(P.ntk) |-> m.tn[i]], pos |-> [i \in DOMAIN P.ntk.pos |-> m.tn[P.ntk.pos[i]]]]
=============================================================================
