------------------------- MODULE TechnologyNetwork -------------------------
(***************************************************************************)
(* Logic networks (networks/technology_network.hpp on top of mockturtle's  *)
(* klut_network) as the physical design algorithms see them.               *)
(*                                                                         *)
(* A network is a record: fn gives the function class of every node, kids  *)
(* its fanins in order, pos the nodes that drive the primary outputs.      *)
(* Nodes are numbered in the order of their creation, the primary inputs   *)
(* first; 0 is the constant 0, which has no entry in fn and kids.          *)
(***************************************************************************)
EXTENDS Integers, Sequences, FiniteSets, SequencesExt

\* Function classes: a primary input "pi", a wire "buf", an inverter "not",
\* the symmetric gates "and", "or", "nand", "nor", "xor", "xnor" and "maj", and
\* "lt", which tells its fanins apart.
Nodes(ntk) == DOMAIN ntk.fn
is_constant(n) == n = 0
is_pi(ntk, n) == ntk.fn[n] = "pi"
is_buf(ntk, n) == ntk.fn[n] = "buf"
is_inv(ntk, n) == ntk.fn[n] = "not"
pis(ntk) == {n \in Nodes(ntk) : is_pi(ntk, n)}
num_pis(ntk) == Cardinality(pis(ntk))
is_po(ntk, n) == \E i \in DOMAIN ntk.pos : ntk.pos[i] = n
fanin_size(ntk, n) == Len(ntk.kids[n])

\* fanins(): the fanins of n in order, without constants.
fanins(ntk, n) == SelectSeq(ntk.kids[n], LAMBDA k : ~ is_constant(k))

\* fanout_view: the gates that read n.  They are visited in the order of
\* their creation, which is their numerical order.
fanouts(ntk, n) == {m \in Nodes(ntk) : Contains(ntk.kids[m], n)}
first(S) == CHOOSE m \in S : \A k \in S : m <= k
first_fanout(ntk, n) == first(fanouts(ntk, n))
ascending(S) == SetToSortSeq(S, <)

\* The reference counter of a node: one for every fanin and every primary
\* output that it drives.
fanout_size(ntk, n) ==
  Cardinality({r \in Nodes(ntk) \X (1..3) : r[2] <= fanin_size(ntk, r[1]) /\ ntk.kids[r[1]][r[2]] = n})
    + Cardinality({i \in DOMAIN ntk.pos : ntk.pos[i] = n})

is_fanout(ntk, n) == is_buf(ntk, n) /\ fanout_size(ntk, n) > 1

\* Edges are pairs of a fanin and its reader.
edges(ntk) == {e \in Nodes(ntk) \X Nodes(ntk) : Contains(ntk.kids[e[2]], e[1])}
fanin_edges(ntk, n) == [i \in DOMAIN fanins(ntk, n) |-> <<fanins(ntk, n)[i], n>>]
outgoing_edges(ntk, n) == LET fos == ascending(fanouts(ntk, n)) IN [i \in DOMAIN fos |-> <<n, fos[i]>>]

has_high_degree_fanin_nodes(ntk, threshold) ==
  \E n \in Nodes(ntk) : Len(fanins(ntk, n)) > threshold

-----------------------------------------------------------------------------
(* Construction. *)
EmptyNetwork == [fn |-> <<>>, kids |-> <<>>, pos |-> <<>>]

create_node(ntk, f, children) ==
  [ntk EXCEPT !.fn = Append(@, f), !.kids = Append(@, children)]
create_po(ntk, n) == [ntk EXCEPT !.pos = Append(@, n)]

\* substitute_po_signals: an output that is not driven by a buffer gets one.
substitute_po_signals(ntk) ==
  LET substitute(net, i) ==
        IF is_buf(ntk, ntk.pos[i]) THEN net
        ELSE [create_node(net, "buf", <<ntk.pos[i]>>) EXCEPT !.pos[i] = Len(net.fn) + 1]
  IN  FoldLeft(substitute, ntk, [i \in DOMAIN ntk.pos |-> i])

\* The node that the last create_node made.
latest(ntk) == Len(ntk.fn)

-----------------------------------------------------------------------------
(* Values of nodes that are found from those of their fanins. *)

\* Nodes are created after their fanins: the values of all nodes are found in
\* the order of their numbers.  zero is what the constant has.
along(ntk, zero, value(_, _)) ==
  LET at(vals, k) == IF is_constant(k) THEN zero ELSE vals[k]
  IN  FoldLeft(LAMBDA vals, n : Append(vals, value(n, [i \in DOMAIN ntk.kids[n] |-> at(vals, ntk.kids[n][i])])),
               << >>, [n \in 1..latest(ntk) |-> n])

\* depth_view: the length of the longest path from an input.
levels(ntk) ==
  LET lev == along(ntk, 0, LAMBDA n, v : IF is_pi(ntk, n) THEN 0 ELSE 1 + Max(Range(v)))
  IN  [n \in 0..latest(ntk) |-> IF is_constant(n) THEN 0 ELSE lev[n]]

\* topo_view: the primary inputs, then the gates below the primary outputs in
\* depth-first post-order.  Gates that no output needs are left out.  What a
\* visit of a node adds is its own post-order without what was visited before.
visit(order, cone) == order \o SelectSeq(cone, LAMBDA n : ~ Contains(order, n))
create_topo(ntk) == along(ntk, << >>, LAMBDA n, v : Append(FoldLeft(visit, << >>, v), n))
topo_order(ntk) ==
  LET drivers == SelectSeq(ntk.pos, LAMBDA n : ~ is_constant(n))
      cones == create_topo(ntk)
  IN  FoldLeft(visit, ascending(pis(ntk)), [i \in DOMAIN drivers |-> cones[drivers[i]]])
topo_gates(ntk) == SelectSeq(topo_order(ntk), LAMBDA n : ~ is_pi(ntk, n))
topo_nodes(ntk) == Range(topo_order(ntk))

-----------------------------------------------------------------------------
(* What a network computes: of every node, the set of input assignments    *)
(* that make it true.  An assignment is the set of inputs that are true.   *)
assignments(ntk) == SUBSET pis(ntk)
function_of(f, all, n, v) ==
  CASE f = "pi" -> {s \in all : n \in s}
    [] f = "buf" -> v[1]
    [] f = "not" -> all \ v[1]
    [] f = "and" -> v[1] \cap v[2]
    [] f = "or" -> v[1] \cup v[2]
    [] f = "nand" -> all \ (v[1] \cap v[2])
    [] f = "nor" -> all \ (v[1] \cup v[2])
    [] f = "xor" -> (v[1] \cup v[2]) \ (v[1] \cap v[2])
    [] f = "xnor" -> (all \ (v[1] \cup v[2])) \cup (v[1] \cap v[2])
    [] f = "lt" -> v[2] \ v[1]
    [] f = "maj" -> (v[1] \cap v[2]) \cup (v[1] \cap v[3]) \cup (v[2] \cap v[3])

simulate(ntk) ==
  LET all == assignments(ntk)
      val == along(ntk, {}, LAMBDA n, v : function_of(ntk.fn[n], all, n, v))
  IN  [i \in DOMAIN ntk.pos |-> IF is_constant(ntk.pos[i]) THEN {} ELSE val[ntk.pos[i]]]

equivalent(a, b) == num_pis(a) = num_pis(b) /\ simulate(a) = simulate(b)
=============================================================================
