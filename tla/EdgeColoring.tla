---------------------------- MODULE EdgeColoring ----------------------------
(***************************************************************************)
(* The colouring that decides on which side of its fanins a node is placed *)
(* (east_south_edge_coloring in algorithms/physical_design/orthogonal.hpp, *)
(* with the colours kept by networks/views/edge_color_view.hpp).           *)
(*                                                                         *)
(* A fanout node reaches its two readers in opposite directions, a gate is *)
(* reached by all its fanins in the same direction: both rules are pushed  *)
(* through the network from edge to edge, and an edge keeps the first      *)
(* colour that it gets.                                                    *)
(***************************************************************************)
EXTENDS TechnologyNetwork

opposite_color(c) == IF c = "east" THEN "south" ELSE "east"

\* The calls that painting e with colour c leads to, in their order.
children_and_spouses(ntk, e, c) ==
  LET others(es) == SelectSeq(es, LAMBDA f : f # e)
      colored(es, d) == [i \in DOMAIN es |-> [edge |-> es[i], color |-> d]]
  IN  colored(others(outgoing_edges(ntk, e[1])), opposite_color(c))
        \o colored(others(fanin_edges(ntk, e[2])), c)

\* The recursion as a stack of calls that are still to be made.
RECURSIVE recursively_paint_edges(_, _, _)
recursively_paint_edges(ntk, color, calls) ==
  IF calls = <<>> THEN color
  ELSE LET call == Head(calls)
       IN  IF color[call.edge] # "null" THEN recursively_paint_edges(ntk, color, Tail(calls))
           ELSE recursively_paint_edges(ntk, [color EXCEPT ![call.edge] = call.color],
                  children_and_spouses(ntk, call.edge, call.color) \o Tail(calls))

\* The edges into n: all east if one of them is east already, else south.
paint_fanins(ntk, color, n) ==
  LET fes == fanin_edges(ntk, n)
      c == IF \E i \in DOMAIN fes : color[fes[i]] = "east" THEN "east" ELSE "south"
  IN  FoldLeft(LAMBDA col, e : recursively_paint_edges(ntk, col, <<[edge |-> e, color |-> c]>>), color, fes)

\* A node has the colour that all its incoming edges have at that time.
node_color(ntk, color, n) ==
  LET fes == Range(fanin_edges(ntk, n))
  IN  CASE \A e \in fes : color[e] = "east" -> "east"
        [] fes # {} /\ \A e \in fes : color[e] = "south" -> "south"
        [] OTHER -> "null"

\* The gates in reverse topological order.  Gates outside the topological
\* order and inputs keep the colour null.
east_south_edge_coloring(ntk) ==
  LET paint(ctn, n) ==
        LET color == paint_fanins(ntk, ctn.edge, n)
        IN  [edge |-> color, node |-> [ctn.node EXCEPT ![n] = node_color(ntk, color, n)]]
  IN  FoldLeft(paint, [edge |-> [e \in edges(ntk) |-> "null"], node |-> [n \in Nodes(ntk) |-> "null"]],
               Reverse(topo_gates(ntk)))
=============================================================================
