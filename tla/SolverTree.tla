----------------------------- MODULE SolverTree -----------------------------
(***************************************************************************)
(* The solvers of one smt_handler of exact                                 *)
(* (algorithms/physical_design/exact.hpp): it is given layout sizes of     *)
(* growing area, generates the constraints for each, and has them checked. *)
(* The solver of a size that was refuted is kept and extended when a size  *)
(* comes that is one column or one row larger.  What was said of the old   *)
(* eastern or southern border is retracted by negating the literal that    *)
(* implied it.                                                             *)
(*                                                                         *)
(* The answers of the solver are left open here; ExactEncoding adds what   *)
(* the solver finds.                                                       *)
(***************************************************************************)
EXTENDS ExactConstraints, FanoutSubstitution

CONSTANTS
  Problems   \* records of src, scheme, topology, sizes and flags, see TreeInit

\* Sizes are highest positions.  ToPoliNano layouts are shifted, a scheme that
\* is named like a linear one of the library is one of these, and the hexagonal
\* 2DDWave is made for the arrangement of the layout.
ASSUME ProblemsAssumption ==
  \A p \in Problems :
    /\ p.sizes \in Seq(Nat \X Nat)
    /\ p.topology = << >> \/ \E a \in Arrangements : p.topology = <<a>>
    /\ set(p, "topolinano") => p.topology # << >>
    /\ p.scheme.name \in {"COLUMNAR", "ROW", "2DDWAVE", "2DDWAVEHEX"} =>
         \/ p.scheme \in LinearSchemes
         \/ \E n \in {3, 4}, a \in Arrangements : p.topology = <<a>> /\ p.scheme = twoddwave_hex_clocking(n, a)

VARIABLES
  problem,      \* the problem, with the network that is placed in ntk
  tried,        \* the number of sizes that were taken from problem.sizes
  solver_tree,  \* the stored solver states by their size
  lc,           \* counter of assumption literals
  check_point,  \* the current solver state, see fetch_solver
  phase

tree_vars == <<problem, tried, solver_tree, lc, check_point, phase>>

\* The network of the constructor of exact_impl.
topology_network(src, scheme) ==
  substitute_po_signals(
    fanout_substitution(src, [strategy |-> "BREADTH", degree |-> scheme.out_degree, threshold |-> 1]))

-----------------------------------------------------------------------------
(* Solver states. *)
lit_e == <<"e", lc>>
lit_s == <<"s", lc>>
column(ar, x) == {<<x, y, 0>> : y \in 0..ar[2]}
row(ar, y) == {<<x, y, 0>> : x \in 0..ar[1]}

\* The layout that is made for size ar.
aspect_ratio(P, ar) == <<ar[1], ar[2], IF set(P, "crossings") THEN 1 ELSE 0>> \o P.topology

\* What the solver of state st is told next: st holds the constraints added
\* so far and the literals that were negated, e and s are the ones to assume.
check_point_for(from, dim, st, e, s, off, added, updated) ==
  [from |-> from, dim |-> dim, e |-> e, s |-> s, hard |-> st.hard, off |-> st.off \cup off,
   added |-> added, updated |-> updated]
NewSolver == [hard |-> {}, off |-> {}]

\* The state found in the tree is removed from it; from says which it was.
fetch_solver(P, ar) ==
  LET narrower == <<ar[1] - 1, ar[2]>>
      shallower == <<ar[1], ar[2] - 1>>
      dim == aspect_ratio(P, ar)
  IN  CASE narrower \in DOMAIN solver_tree ->
             LET st == solver_tree[narrower]
             IN  check_point_for({narrower}, dim, st, lit_e, st.s, {st.e}, column(ar, ar[1]), column(ar, ar[1] - 1))
        [] narrower \notin DOMAIN solver_tree /\ shallower \in DOMAIN solver_tree ->
             LET st == solver_tree[shallower]
             IN  check_point_for({shallower}, dim, st, st.e, lit_s, {st.s}, row(ar, ar[2]), row(ar, ar[2] - 1))
        [] OTHER -> check_point_for({}, dim, NewSolver, lit_e, lit_s, {}, ground_tiles(dim), {})

\* A check point together with the instance generated for it.
instance(P, cp) ==
  [from |-> cp.from, dim |-> cp.dim, e |-> cp.e, s |-> cp.s, off |-> cp.off,
   hard |-> cp.hard \cup generate_smt_instance(P, cp), assumed |-> assumptions(P, cp)]

\* What binds the solver: constraints whose literals are all assumed.
active(cp) == {c \in cp.hard : c.guard \subseteq {cp.e, cp.s}} \cup cp.assumed

-----------------------------------------------------------------------------
NoCheckPoint == << >>

TreeInit ==
  /\ \E p \in Problems :
       problem = [src |-> p.src, scheme |-> p.scheme, topology |-> p.topology, sizes |-> p.sizes, flags |-> p.flags,
                  ntk |-> topology_network(p.src, p.scheme)]
  /\ tried = 0
  /\ solver_tree = << >>
  /\ lc = 0
  /\ check_point = NoCheckPoint
  /\ phase = "idle"

\* The next size of this handler; the ones before it went to other threads.
Update(i) ==
  LET cp == fetch_solver(problem, problem.sizes[i])
  IN  /\ phase = "idle"
      /\ tried' = i
      /\ solver_tree' = [ar \in DOMAIN solver_tree \ cp.from |-> solver_tree[ar]]
      /\ check_point' = instance(problem, cp)
      /\ lc' = lc + 1
      /\ phase' = "check"
      /\ UNCHANGED problem

\* The solver returns an assignment; the handler is done.
Satisfied ==
  /\ phase = "check"
  /\ phase' = "sat"
  /\ UNCHANGED <<problem, tried, solver_tree, lc, check_point>>

\* The solver refutes the instance or gives up; its state is stored.
NotSatisfiable ==
  LET size == <<check_point.dim[1], check_point.dim[2]>>
      st == [hard |-> check_point.hard, off |-> check_point.off, e |-> check_point.e, s |-> check_point.s]
  IN  /\ phase = "check"
      /\ solver_tree' = [ar \in DOMAIN solver_tree \cup {size} |-> IF ar = size THEN st ELSE solver_tree[ar]]
      /\ check_point' = NoCheckPoint
      /\ phase' = "idle"
      /\ UNCHANGED <<problem, tried, lc>>

TreeNext ==
  \/ \E i \in (tried + 1)..Len(problem.sizes) : Update(i)
  \/ Satisfied
  \/ NotSatisfiable

TreeSpec == TreeInit /\ [][TreeNext]_tree_vars

-----------------------------------------------------------------------------
(* Properties. *)

(* Constraints that only spare the solver work: a hierarchy that paths     *)
(* keep to anyway, degrees away from the growing borders, and what was     *)
(* said of a smaller layout.                                               *)
redundant(cp, c) ==
  \/ c.kind \in {"too early", "too late"}
  \/ c.kind = "insufficient" /\ ~ is_growing(cp, c.tile)
  \/ c.kind = "one tile" /\ c.zones.out # ground_tiles(cp.dim)
essential(cp) == {c \in active(cp) : ~ redundant(cp, c)}

\* What a new solver would be told for the size at hand.
new_check_point(dim, e, s) == check_point_for({}, dim, NewSolver, e, s, {}, ground_tiles(dim), {})
fresh == instance(problem, new_check_point(check_point.dim, <<"e", -1>>, <<"s", -1>>))
unguarded(C) == {[c EXCEPT !.guard = {}] : c \in C}

\* What is said of a tile when its successor is added is not said of an added
\* tile whose successor was there before: it lies in the row above or in the
\* column to the west.
overlooked(c) == c.kind = "succession" /\ \E u \in c.zones.out : u[1] < c.tile[1] \/ u[2] < c.tile[2]

\* A solver that was extended column by column and row by row is bound by
\* exactly what a new solver would be told, up to redundant constraints and
\* the overlooked successions, and it does not assume a literal that was
\* negated before.
ReuseExact ==
  phase = "check" =>
    LET told == unguarded(essential(check_point))
        expected == unguarded(essential(fresh))
    IN  /\ told \subseteq expected
        /\ \A c \in expected \ told : overlooked(c)
        /\ {check_point.e, check_point.s} \cap check_point.off = {}

\* A 2DDWave of three clocks over hexagons: two steps back count as one ahead.
steps_back == problem.scheme.name = "2DDWAVE" /\ problem.scheme.num_clocks = 3 /\ hexagonal(check_point.dim)

\* A solver that is told nothing of paths (generate_smt_instance leaves them
\* out for linear schemes) cannot close a cycle: "linear schemes; no cycles
\* by definition", one scheme on one topology excepted.
NoPathCloses ==
  phase = "check" /\ is_linear_scheme(problem.scheme) /\ ~ steps_back =>
    acyclic_flow(problem.scheme, check_point.dim)
=============================================================================
