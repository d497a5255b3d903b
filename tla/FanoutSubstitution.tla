------------------------- MODULE FanoutSubstitution -------------------------
(***************************************************************************)
(* fanout_substitution (algorithms/network_transformation) gives every     *)
(* node as many fanouts as its surroundings can take.                      *)
(*                                                                         *)
(* Like the other passes over networks it copies its input node by node.   *)
(* Its state is a record: new is the network being built, old2new maps a   *)
(* node of the input to its copy.  A node that has no copy yet is mapped   *)
(* to the constant 0, the default value of a node_map.                     *)
(***************************************************************************)
EXTENDS TechnologyNetwork

\* initialize_copy_network: a network with copies of the inputs only.
initialize_copy_network(ntk) ==
  [new |-> FoldLeft(LAMBDA new, pi : create_node(new, "pi", <<>>), EmptyNetwork, ascending(pis(ntk))),
   old2new |-> [n \in 0..latest(ntk) |-> IF n \in pis(ntk) THEN n ELSE 0]]

\* clone_node: append a copy of n with the given children.
clone_node(c, ntk, n, children) ==
  [c EXCEPT !.new = create_node(@, ntk.fn[n], children),
            !.old2new[n] = latest(c.new) + 1]

\* Apply op to the fanins of a node one after the other: op(c, k) returns
\* the state after fanin k was handled, with the signal in c.child.
gather(op(_, _), c, children) ==
  FoldLeft(LAMBDA g, k : LET h == op(g.c, k) IN [c |-> h.c, sigs |-> Append(g.sigs, h.child)],
           [c |-> c, sigs |-> <<>>], children)

-----------------------------------------------------------------------------
(* fanout_substitution.  ps holds strategy, degree and threshold;          *)
(* c.available maps a node to the queue of its unused fanouts.             *)

ceil_div(a, b) == (a + b - 1) \div b
at_least(a, b) == IF a > b THEN a ELSE b

num_fanout_nodes(ntk, ps, n) ==
  ceil_div(at_least(fanout_size(ntk, n) - ps.threshold, 0), at_least(ps.degree - 1, 1))

\* One buffer of the tree: DEPTH continues at the buffer made last, BREADTH
\* at the front of the queue, and offers the new buffer degree times.
grow_fanout_tree(ps, g) ==
  LET parent == IF ps.strategy = "DEPTH" THEN g.child ELSE Head(g.q)
      b == latest(g.new) + 1
  IN  [new |-> create_node(g.new, "buf", <<parent>>), child |-> b,
       q |-> IF ps.strategy = "DEPTH" THEN Append(g.q, b)
             ELSE Tail(g.q) \o [i \in 1..ps.degree |-> b]]

generate_fanout_tree(ntk, ps, c, n) ==
  LET num == num_fanout_nodes(ntk, ps, n)
      child == c.old2new[n]
      start == [new |-> c.new, child |-> child, q |-> IF ps.strategy = "DEPTH" THEN <<>> ELSE <<child>>]
      tree == FoldLeft(LAMBDA g, i : grow_fanout_tree(ps, g), start, [i \in 1..num |-> i])
  IN  IF (is_fanout(ntk, n) /\ fanout_size(ntk, n) <= ps.degree) \/ num = 0 THEN c
      ELSE [c EXCEPT !.new = tree.new, !.available[n] = tree.q]

\* A slip: the copy may have one reader more than the threshold.
FanoutAboveThreshold(ps, c, n, child) ==
  LET free == SelectSeq(c.available[n], LAMBDA b : fanout_size(c.new, b) < ps.degree)
  IN  IF fanout_size(c.new, child) > ps.threshold /\ free # <<>> THEN Head(free) ELSE child

\* The node to read n from: its copy while that has fewer readers than the
\* threshold, then the first buffer of its tree that is not full.
get_fanout(ps, c, n, child) ==
  LET free == SelectSeq(c.available[n], LAMBDA b : fanout_size(c.new, b) < ps.degree)
  IN  IF fanout_size(c.new, child) >= ps.threshold /\ c.available[n] # <<>>
      THEN Head(free) ELSE child

substitute_fanin(ps, c, k) ==
  [c |-> c, child |-> IF is_constant(k) THEN 0 ELSE get_fanout(ps, c, k, c.old2new[k])]

\* Children are gathered before the node that reads them exists, so a node
\* that reads the same signal twice asks for it twice with the same count.
substitute_gate(ntk, ps, c, n) ==
  LET g == gather(LAMBDA d, k : substitute_fanin(ps, d, k), c, ntk.kids[n])
  IN  generate_fanout_tree(ntk, ps, clone_node(g.c, ntk, n, g.sigs), n)

\* A slip: the output is driven by the number that the node had before.
PoOfOldNode(ps, c, n) == [c EXCEPT !.new = create_po(@, get_fanout(ps, c, n, n))]

substitute_po(ps, c, n) ==
  [c EXCEPT !.new = create_po(@, IF is_constant(n) THEN 0 ELSE get_fanout(ps, c, n, c.old2new[n]))]

fanout_substitution(ntk, ps) ==
  LET init == initialize_copy_network(ntk) @@ ("available" :> [n \in Nodes(ntk) |-> <<>>])
      with_pis == FoldLeft(LAMBDA c, n : generate_fanout_tree(ntk, ps, c, n), init, ascending(pis(ntk)))
      with_gates == FoldLeft(LAMBDA c, n : substitute_gate(ntk, ps, c, n), with_pis, topo_gates(ntk))
  IN  FoldLeft(LAMBDA c, n : substitute_po(ps, c, n), with_gates, ntk.pos).new

\* is_fanout_substituted: no fanout node exceeds the degree and no other
\* node the threshold.
is_fanout_substituted(ntk, ps) ==
  \A n \in Nodes(ntk) :
    fanout_size(ntk, n) <= IF is_fanout(ntk, n) THEN ps.degree ELSE ps.threshold
=============================================================================
