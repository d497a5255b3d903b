----------------------------- MODULE Orthogonal -----------------------------
(***************************************************************************)
(* Placement and routing by orthogonal graph drawing                       *)
(* (algorithms/physical_design/orthogonal.hpp).                            *)
(*                                                                         *)
(* The network is given fanout nodes, its edges are coloured, the size of  *)
(* the layout is computed from the colours, and then the nodes are placed  *)
(* one by one in topological order: a node coloured east opens a new       *)
(* column, one coloured south a new row, one without colour both.  Wires   *)
(* run east or south only, and cross other wires in the second layer.      *)
(*                                                                         *)
(* The layout is a function on the occupied tiles.  A tile holds the node  *)
(* of the network it implements (0 for a wire segment and for an output    *)
(* pin), its function and the tiles that it reads.                         *)
(***************************************************************************)
EXTENDS EdgeColoring, NetworkTransformation, LayoutVerification

CONSTANTS
  Networks   \* the networks that are placed and routed

VARIABLES
  src,      \* the network to place, as given
  ntk,      \* its fanout-substituted version
  ctn,      \* colours of the edges and the nodes
  dim,      \* the aspect ratio of the layout
  design,   \* lyt, node2pos, latest_pos and outputs, see below
  todo,     \* the nodes that are still to be placed, in topological order
  phase     \* how far the run has got

vars == <<src, ntk, ctn, dim, design, todo, phase>>

substitution_params == [strategy |-> "BREADTH", degree |-> 2, threshold |-> 1]

-----------------------------------------------------------------------------
(* Size prediction. *)

\* Only the first fanout is looked at.
is_eastern_po_orientation_available(n) ==
  fanouts(ntk, n) = {} \/ ctn.node[first_fanout(ntk, n)] # "east"

\* A slip: the columns for inputs whose readers lie south are forgotten.
SizeWithoutBends ==
  LET gates == Range(topo_gates(ntk))
      colored(c) == {n \in gates : ctn.node[n] = c}
      outputs == {n \in topo_nodes(ntk) : is_po(ntk, n)}
      eastern == {n \in outputs : is_eastern_po_orientation_available(n)}
  IN  <<Cardinality(colored("east")) + Cardinality(colored("null")) + Cardinality(eastern),
        num_pis(ntk) - 1 + Cardinality(colored("south")) + Cardinality(colored("null"))
          + Cardinality(outputs \ eastern),
        1>>

determine_layout_size ==
  LET gates == Range(topo_gates(ntk))
      colored(c) == {n \in gates : ctn.node[n] = c}
      outputs == {n \in topo_nodes(ntk) : is_po(ntk, n)}
      eastern == {n \in outputs : is_eastern_po_orientation_available(n)}
      bent == {e \in edges(ntk) : is_pi(ntk, e[1]) /\ ctn.node[e[2]] = "south"}
  IN  <<Cardinality(bent) + Cardinality(colored("east")) + Cardinality(colored("null"))
          + Cardinality(eastern),
        num_pis(ntk) - 1 + Cardinality(colored("south")) + Cardinality(colored("null"))
          + Cardinality(outputs \ eastern),
        1>>

-----------------------------------------------------------------------------
(* Writing to the layout. *)
occupied(lyt, t) == t \in DOMAIN lyt
put(lyt, t, n, f, kids) == (t :> [node |-> n, fn |-> f, kids |-> kids]) @@ lyt
create_buf(lyt, a, t) == put(lyt, t, 0, "buf", <<a>>)

\* A wire along the given ground tiles; over an occupied one it runs in the
\* crossing layer.  w.a is the end of the wire.
wire(lyt, from, tiles) ==
  LET extend(w, t) ==
        LET u == IF occupied(w.lyt, t) THEN above(dim, t) ELSE t
        IN  [lyt |-> create_buf(w.lyt, w.a, u), a |-> u]
  IN  FoldLeft(extend, [lyt |-> lyt, a |-> from], tiles)

\* The tiles strictly between the start and the destination.
wire_east(lyt, from, x) ==
  wire(lyt, from, [i \in 1..(x - from[1] - 1) |-> <<from[1] + i, from[2], 0>>])
wire_south(lyt, from, y) ==
  wire(lyt, from, [i \in 1..(y - from[2] - 1) |-> <<from[1], from[2] + i, 0>>])

\* Two fanins: the smaller tile is taken for the one in the north.
connect_and_place(lyt, t, n, pre1, pre2) ==
  LET northern == IF precedes(pre2, pre1) THEN pre2 ELSE pre1
      western == IF precedes(pre2, pre1) THEN pre1 ELSE pre2
      w1 == wire_south(lyt, northern, t[2])
      w2 == wire_east(w1.lyt, western, t[1])
  IN  put(w2.lyt, t, n, ntk.fn[n], <<w1.a, w2.a>>)

connect_and_place_one(lyt, t, n, pre) ==
  LET w == IF is_westwards_of(t, pre) THEN wire_east(lyt, pre, t[1]) ELSE wire_south(lyt, pre, t[2])
  IN  put(w.lyt, t, n, ntk.fn[n], <<w.a>>)

\* The design with n placed on t and the given rows and columns opened.
placed(d, lyt, n, t, cols, rows) ==
  [d EXCEPT !.lyt = lyt, !.node2pos[n] = t, !.latest_pos[1] = @ + cols, !.latest_pos[2] = @ + rows]

-----------------------------------------------------------------------------
(* An output is led to the eastern border from the east of its node, or    *)
(* from the south if a fanout takes the east.                              *)
\* A slip: no row is opened for an output that leaves to the south.
OutputInOldRow(d, n) ==
  LET n_s == d.node2pos[n]
      eastern == is_eastern_po_orientation_available(n)
      po_tile == IF eastern THEN east(dim, n_s) ELSE south(dim, n_s)
      border == eastern_border_of(dim, po_tile)
      w == wire_east(create_buf(d.lyt, n_s, po_tile), po_tile, border[1])
      at_border == is_at_eastern_border(dim, po_tile)
      pin == IF at_border THEN po_tile ELSE border
      lyt == IF at_border THEN put(d.lyt, po_tile, 0, "po", <<n_s>>) ELSE put(w.lyt, border, 0, "po", <<w.a>>)
  IN  [d EXCEPT !.lyt = lyt, !.outputs = Append(@, pin), !.latest_pos[1] = IF eastern THEN @ + 1 ELSE @]

\* A slip: the pin is reported where the wire leaves its node.
OutputAtAnker(d, n) ==
  LET n_s == d.node2pos[n]
      eastern == is_eastern_po_orientation_available(n)
      po_tile == IF eastern THEN east(dim, n_s) ELSE south(dim, n_s)
      border == eastern_border_of(dim, po_tile)
      w == wire_east(create_buf(d.lyt, n_s, po_tile), po_tile, border[1])
      at_border == is_at_eastern_border(dim, po_tile)
      lyt == IF at_border THEN put(d.lyt, po_tile, 0, "po", <<n_s>>) ELSE put(w.lyt, border, 0, "po", <<w.a>>)
  IN  [d EXCEPT !.lyt = lyt, !.outputs = Append(@, po_tile), !.latest_pos[IF eastern THEN 1 ELSE 2] = @ + 1]

create_output(d, n) ==
  LET n_s == d.node2pos[n]
      eastern == is_eastern_po_orientation_available(n)
      po_tile == IF eastern THEN east(dim, n_s) ELSE south(dim, n_s)
      anker == create_buf(d.lyt, n_s, po_tile)
      border == eastern_border_of(dim, po_tile)
      w == wire_east(anker, po_tile, border[1])
      at_border == is_at_eastern_border(dim, po_tile)
      pin == IF at_border THEN po_tile ELSE border
      lyt == IF at_border THEN put(d.lyt, pin, 0, "po", <<n_s>>) ELSE put(w.lyt, pin, 0, "po", <<w.a>>)
  IN  [d EXCEPT !.lyt = lyt, !.outputs = Append(@, pin),
                !.latest_pos[IF eastern THEN 1 ELSE 2] = @ + 1]

\* A slip: outputs are collected in the reverse order.
OutputFirst(d, n) ==
  LET e == create_output(d, n)
  IN  IF is_po(ntk, n) THEN [e EXCEPT !.outputs = <<Last(@)>> \o Front(@)] ELSE d

with_output(d, n) == IF is_po(ntk, n) THEN create_output(d, n) ELSE d

-----------------------------------------------------------------------------
(* Placing a node. *)

\* A slip: readers are led to the pin and not to the end of its wire.
InputAtPin(d, n) ==
  LET t == <<0, d.latest_pos[2], 0>>
      turn == <<d.latest_pos[1], d.latest_pos[2], 0>>
      moved == put(d.lyt, t, n, "pi", <<>>)
      w == wire_east(moved, t, turn[1])
      bend == fanouts(ntk, n) # {} /\ ctn.node[first_fanout(ntk, n)] = "south"
  IN  IF bend THEN placed(d, create_buf(w.lyt, w.a, turn), n, t, 1, 1) ELSE placed(d, moved, n, t, 0, 1)

\* An input is put into column 0.  If its reader lies south, the signal is
\* led to a column of its own first.
place_input(d, n) ==
  LET t == <<0, d.latest_pos[2], 0>>
      turn == <<d.latest_pos[1], d.latest_pos[2], 0>>
      moved == put(d.lyt, t, n, "pi", <<>>)
      w == wire_east(moved, t, turn[1])
      bend == fanouts(ntk, n) # {} /\ ctn.node[first_fanout(ntk, n)] = "south"
  IN  IF bend THEN placed(d, create_buf(w.lyt, w.a, turn), n, turn, 1, 1)
      ELSE placed(d, moved, n, t, 0, 1)

place_one_fanin(d, n) ==
  LET pre == d.node2pos[fanins(ntk, n)[1]]
      east_t == <<d.latest_pos[1], pre[2], 0>>
      south_t == <<pre[1], d.latest_pos[2], 0>>
  IN  IF ctn.node[n] = "east" THEN placed(d, connect_and_place_one(d.lyt, east_t, n, pre), n, east_t, 1, 0)
      ELSE placed(d, connect_and_place_one(d.lyt, south_t, n, pre), n, south_t, 0, 1)

\* East: in the row of the lower fanin; the upper one turns above t.
place_east(d, n, a, b) ==
  LET pre1 == IF b[2] < a[2] THEN b ELSE a
      pre2 == IF b[2] < a[2] THEN a ELSE b
      t == <<d.latest_pos[1], pre2[2], 0>>
      w == wire_east(d.lyt, pre1, t[1] + 1)
  IN  placed(d, connect_and_place(w.lyt, t, n, w.a, pre2), n, t, 1, 0)

\* South: in the column of the eastern fanin; the other one turns beside t.
place_south(d, n, a, b) ==
  LET pre1 == IF b[1] > a[1] THEN b ELSE a
      pre2 == IF b[1] > a[1] THEN a ELSE b
      t == <<pre1[1], d.latest_pos[2], 0>>
      w == wire_south(d.lyt, pre2, t[2] + 1)
  IN  placed(d, connect_and_place(w.lyt, t, n, pre1, w.a), n, t, 0, 1)

\* No colour: in a new row and a new column; both wires turn.  Which fanin
\* leaves to the east is decided by the tiles that are still empty.
place_null(d, n, a, b) ==
  LET swap == occupied(d.lyt, east(dim, a)) \/ occupied(d.lyt, south(dim, b))
      pre1 == IF swap THEN b ELSE a
      pre2 == IF swap THEN a ELSE b
      t == <<d.latest_pos[1], d.latest_pos[2], 0>>
      w1 == wire_east(d.lyt, pre1, t[1] + 1)
      w2 == wire_south(w1.lyt, pre2, t[2] + 1)
  IN  placed(d, connect_and_place(w2.lyt, t, n, w1.a, w2.a), n, t, 1, 1)

-----------------------------------------------------------------------------
Unplaced == [lyt |-> << >>, node2pos |-> << >>, latest_pos |-> <<1, 0>>, outputs |-> << >>]

Init ==
  /\ src \in Networks
  /\ ntk = EmptyNetwork
  /\ ctn = [edge |-> << >>, node |-> << >>]
  /\ dim = <<0, 0, 0>>
  /\ design = Unplaced
  /\ todo = << >>
  /\ phase = "given"

\* A network with a node of more than two fanins is refused.
Refuse ==
  /\ phase = "given"
  /\ has_high_degree_fanin_nodes(src, 2)
  /\ phase' = "refused"
  /\ UNCHANGED <<src, ntk, ctn, dim, design, todo>>

Substitute ==
  /\ phase = "given"
  /\ ~ has_high_degree_fanin_nodes(src, 2)
  /\ ntk' = fanout_substitution(src, substitution_params)
  /\ phase' = "substituted"
  /\ UNCHANGED <<src, ctn, dim, design, todo>>

Color ==
  /\ phase = "substituted"
  /\ ctn' = east_south_edge_coloring(ntk)
  /\ phase' = "colored"
  /\ UNCHANGED <<src, ntk, dim, design, todo>>

Size ==
  /\ phase = "colored"
  /\ dim' = determine_layout_size
  /\ design' = [design EXCEPT !.node2pos = [n \in Nodes(ntk) |-> DeadTile]]
  /\ todo' = topo_order(ntk)
  /\ phase' = "placing"
  /\ UNCHANGED <<src, ntk, ctn>>

Place(n, d) ==
  /\ design' = with_output(d, n)
  /\ todo' = Tail(todo)
  /\ UNCHANGED <<src, ntk, ctn, dim, phase>>

next_is(k) == phase = "placing" /\ todo # << >> /\ ~ is_pi(ntk, Head(todo)) /\ Len(fanins(ntk, Head(todo))) = k

PlaceInput ==
  /\ phase = "placing" /\ todo # << >> /\ is_pi(ntk, Head(todo))
  /\ Place(Head(todo), place_input(design, Head(todo)))

PlaceOneFanin ==
  /\ next_is(1)
  /\ Place(Head(todo), place_one_fanin(design, Head(todo)))

PlaceTwoFanins ==
  LET n == Head(todo)
      a == design.node2pos[fanins(ntk, n)[1]]
      b == design.node2pos[fanins(ntk, n)[2]]
  IN  /\ next_is(2)
      /\ \/ ctn.node[n] = "east" /\ Place(n, place_east(design, n, a, b))
         \/ ctn.node[n] = "south" /\ Place(n, place_south(design, n, a, b))
         \/ ctn.node[n] = "null" /\ Place(n, place_null(design, n, a, b))

Finish ==
  /\ phase = "placing" /\ todo = << >>
  /\ phase' = "placed"
  /\ UNCHANGED <<src, ntk, ctn, dim, design, todo>>

Next ==
  \/ Refuse \/ Substitute \/ Color \/ Size
  \/ PlaceInput \/ PlaceOneFanin \/ PlaceTwoFanins \/ Finish

Spec == Init /\ [][Next]_vars

-----------------------------------------------------------------------------
(* Properties. *)

\* The network node whose value a tile carries: wires are followed back.
carries(t) ==
  LET lyt == design.lyt
      back[u \in DOMAIN lyt] == IF lyt[u].node # 0 THEN lyt[u].node ELSE back[lyt[u].kids[1]]
  IN  back[t]

\* The finished layout; the pins of the inputs are in the order of the
\* network.
layout ==
  [tiles |-> design.lyt, dim |-> dim, scheme |-> twoddwave_clocking,
   pis |-> [i \in 1..num_pis(ntk) |->
              CHOOSE t \in DOMAIN design.lyt : design.lyt[t].fn = "pi" /\ design.lyt[t].node = i],
   pos |-> design.outputs]

\* The size computed from the colours before anything is placed is the size
\* that the placement needs, and everything stays within it.
SizePredicted ==
  /\ phase \in {"placing", "placed"} => \A t \in DOMAIN design.lyt : is_within_bounds(dim, t)
  /\ phase = "placed" => design.latest_pos = <<dim[1] + 1, dim[2] + 1>>

\* Placing and routing a node never writes to a tile that is in use.
NothingOverwritten ==
  [][\A t \in DOMAIN design.lyt : t \in DOMAIN design'.lyt /\ design'.lyt[t] = design.lyt[t]]_vars

\* Routing connects what the network connects and nothing else: a placed
\* node reads exactly its fanins, a wire segment has one reader, and a node
\* as many readers as the network gives it.
RoutedAsNetwork ==
  phase = "placed" => \A t \in DOMAIN design.lyt :
    LET c == design.lyt[t]
        readers == {u \in DOMAIN design.lyt : Contains(design.lyt[u].kids, t)}
    IN  /\ c.node # 0 => {carries(c.kids[i]) : i \in DOMAIN c.kids} = Range(fanins(ntk, c.node))
        /\ Cardinality(readers) =
             IF c.node # 0 THEN fanout_size(ntk, c.node) ELSE IF c.fn = "po" THEN 0 ELSE 1

\* The result passes the design rule check of the program without warnings.
\* The one exception is an input that no gate and no output reads: its pin
\* is reported as dangling.
LayoutValid ==
  phase = "placed" =>
    LET L == layout
    IN  /\ warnings(L) = {}
        /\ drvs(L) \subseteq {"missing connection"}
        /\ \A t \in DOMAIN L.tiles :
             dangling_inp_connection(L, t) \/ dangling_out_connection(L, t)
               => is_pi_tile(L, t) /\ fanout_size(ntk, L.tiles[t].node) = 0

\* The network as its layout presents it: one output for every node that
\* drives one, in topological order.
presented == [ntk EXCEPT !.pos = SelectSeq(topo_order(ntk), LAMBDA n : is_po(ntk, n))]

\* Read as a network, through the tiles' coordinates alone, the layout
\* computes at its output pins the functions of the nodes that drive the
\* outputs.  If each node drives one output, the outputs are in topological
\* order and every input is read, equivalence_checking accepts the layout.
OutputsComputed ==
  phase = "placed" =>
    LET L == layout
        accepted == equivalence_checking(src, L) # "NO"
    IN  /\ simulate_layout(L, assignments(ntk)) = simulate(presented)
        /\ presented.pos = ntk.pos /\ (\A n \in pis(ntk) : fanout_size(ntk, n) > 0) => accepted

\* Every signal reaches a gate or an output in the phase of the tile's clock
\* zone: the delays of paths that meet differ by whole clock cycles, and the
\* division by the number of phases in the throughput loses nothing.  The
\* throughput is found from one path for each fanin, but it is 1 if and only
\* if signals of one cycle meet in every gate, over whichever path they come.
DelaysInPhase ==
  phase = "placed" =>
    LET L == layout
        gates == {t \in DOMAIN L.tiles : L.tiles[t].fn # "buf"}
        together(t) == Cardinality(arrivals(L, t)) <= 1
    IN  /\ \A t \in gates :
             LET d == signal_delay(L, t)
             IN  /\ d.delay % L.scheme.num_clocks = clock_number(L.scheme, t)
                 /\ d.diff % L.scheme.num_clocks = 0
        /\ throughput(L) = 1 <=> \A t \in gates : together(t)
=============================================================================
