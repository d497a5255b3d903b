----------------------- MODULE NetworkTransformation -----------------------
(***************************************************************************)
(* The passes that prepare a network for physical design                   *)
(* (algorithms/network_transformation) beside fanout_substitution:         *)
(* network_balancing makes all paths to a node equally long, and           *)
(* inverter_balancing pulls inverters in front of a fanout node.  Both     *)
(* keep their state like FanoutSubstitution.                               *)
(***************************************************************************)
EXTENDS FanoutSubstitution

-----------------------------------------------------------------------------
(* network_balancing. *)

insert_buf_chain(c, num, child) ==
  FoldLeft(LAMBDA g, i : [c |-> [g.c EXCEPT !.new = create_node(@, "buf", <<g.child>>)],
                          child |-> latest(g.c.new) + 1],
           [c |-> c, child |-> child], [i \in 1..num |-> i])

\* A slip: inputs are not delayed.
BalanceFromInputs(ntk, lev, c, n) ==
  LET fanin(d, k) == insert_buf_chain(d, IF is_pi(ntk, k) THEN 0 ELSE lev[n] - lev[k] - 1, d.old2new[k])
      g == gather(fanin, c, ntk.kids[n])
  IN  clone_node(g.c, ntk, n, g.sigs)

balance_gate(ntk, lev, c, n) ==
  LET fanin(d, k) == insert_buf_chain(d, IF is_constant(k) THEN 0 ELSE lev[n] - lev[k] - 1, d.old2new[k])
      g == gather(fanin, c, ntk.kids[n])
  IN  clone_node(g.c, ntk, n, g.sigs)

network_balancing(ntk, unify_outputs) ==
  LET lev == levels(ntk)
      deepest == Max({lev[ntk.pos[i]] : i \in DOMAIN ntk.pos})
      gates == FoldLeft(LAMBDA c, n : balance_gate(ntk, lev, c, n), initialize_copy_network(ntk), topo_gates(ntk))
      output(c, n) == LET g == insert_buf_chain(c, IF unify_outputs THEN deepest - lev[n] ELSE 0, c.old2new[n])
                      IN  [g.c EXCEPT !.new = create_po(@, g.child)]
  IN  FoldLeft(output, gates, ntk.pos).new

is_balanced(ntk, unify_outputs) ==
  LET lev == levels(ntk)
  IN  /\ \A n \in Nodes(ntk) : \A k \in Range(fanins(ntk, n)) : lev[n] = lev[k] + 1
      /\ unify_outputs => \A i, j \in DOMAIN ntk.pos : lev[ntk.pos[i]] = lev[ntk.pos[j]]

-----------------------------------------------------------------------------
(* inverter_balancing.  A fanout node whose readers are all inverters      *)
(* becomes the inverter; its first reader becomes the fanout node and the  *)
(* second one is dropped, together with the readers it had.                *)

only_inverters(ntk, fos) == Cardinality(fos) > 1 /\ \A m \in fos : is_inv(ntk, m)

\* The fanout nodes to balance, with the inverter that becomes the fanout
\* node and the one that is dropped: the first two readers in topological
\* order (fanout_view on top of topo_view).
balanced_fanouts(ntk, order) ==
  LET readers(n) == SelectSeq(order, LAMBDA m : Contains(ntk.kids[m], n))
  IN  {[fo |-> n, new_inv |-> readers(n)[1], del_inv |-> readers(n)[2]] :
         n \in {m \in Range(order) : is_fanout(ntk, m) /\ only_inverters(ntk, Range(readers(m)))}}

\* Where a reader of k finds its signal.
balanced_source(blc, k) ==
  LET dropped == {b \in blc : b.del_inv = k}
  IN  IF dropped = {} THEN k ELSE (CHOOSE b \in dropped : TRUE).new_inv

\* The function that node n gets: the inverter and the fanout node swap.
balanced_function(ntk, blc, n) ==
  CASE \E b \in blc : b.new_inv = n -> "buf"
    [] \E b \in blc : b.fo = n -> "not"
    [] OTHER -> ntk.fn[n]

balance_inverter(ntk, blc, c, n) ==
  LET children == [i \in DOMAIN ntk.kids[n] |-> c.old2new[balanced_source(blc, ntk.kids[n][i])]]
  IN  IF balanced_source(blc, n) # n THEN c
      ELSE [clone_node(c, ntk, n, children) EXCEPT !.new.fn[latest(c.new) + 1] = balanced_function(ntk, blc, n)]

\* An output is read from the copy of its own node, also if that was dropped.
balancing_pass(ntk) ==
  LET order == topo_gates(ntk)
      blc == balanced_fanouts(ntk, order)
      gates == FoldLeft(LAMBDA c, n : balance_inverter(ntk, blc, c, n), initialize_copy_network(ntk), order)
  IN  FoldLeft(LAMBDA c, n : [c EXCEPT !.new = create_po(@, c.old2new[n])], gates, ntk.pos).new

needs_balancing(ntk) ==
  \E n \in Nodes(ntk) \ pis(ntk) : fanout_size(ntk, n) >= 2 /\ only_inverters(ntk, fanouts(ntk, n))

RECURSIVE repeat_balancing(_)
repeat_balancing(ntk) ==
  LET result == balancing_pass(ntk) IN IF needs_balancing(result) THEN repeat_balancing(result) ELSE result

\* A slip: fanouts that one pass brings together are left alone.
BalanceOnce(ntk) == balancing_pass(ntk)

\* The networks that the passes from ntk on begin with.
RECURSIVE repeated_on(_)
repeated_on(ntk) ==
  LET result == balancing_pass(ntk) IN {ntk} \cup (IF needs_balancing(result) THEN repeated_on(result) ELSE {})

\* The outputs that are driven by an inverter when a pass drops it.
dropped_outputs(ntk) ==
  LET dropped(net) == {b.del_inv : b \in balanced_fanouts(net, topo_gates(net))}
  IN  {i \in DOMAIN ntk.pos : \E net \in {ntk} \cup repeated_on(balancing_pass(ntk)) : net.pos[i] \in dropped(net)}

\* The first pass is always followed by a second one.
inverter_balancing(ntk) == repeat_balancing(balancing_pass(ntk))
=============================================================================
