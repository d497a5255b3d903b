--------------------------- MODULE ExactEncoding ---------------------------
(***************************************************************************)
(* One smt_handler of exact (algorithms/physical_design/exact.hpp) with    *)
(* the assignments that its solvers come to: SolverTree has the sizes and  *)
(* the constraints, ExactModels the assignments that satisfy them and the  *)
(* layouts that are read off.                                              *)
(*                                                                         *)
(* The SMT solver itself is external: it finds any assignment of           *)
(* ExactModels, the best one if there are criteria, or gives up.           *)
(***************************************************************************)
EXTENDS SolverTree, ExactModels

VARIABLES
  model,        \* the assignment that the solver has come to
  layout        \* the layout that was read off it

vars == <<tree_vars, model, layout>>

NoModel == << >>
NoLayout == << >>

Init == TreeInit /\ model = NoModel /\ layout = NoLayout

\* The solver returns an assignment, and a layout is read off it.  The
\* redundant constraints are left out here: NoModelLost states that every
\* assignment of the others satisfies them.
Satisfiable(m) ==
  /\ Satisfied
  /\ model' = m
  /\ layout' = assign_layout(problem, check_point.dim, m)

Next ==
  \/ \E i \in (tried + 1)..Len(problem.sizes) : Update(i) /\ UNCHANGED <<model, layout>>
  \/ phase = "check" /\ \E m \in optimize(problem, models(problem, essential(check_point), check_point.dim)) : Satisfiable(m)
  \/ NotSatisfiable /\ UNCHANGED <<model, layout>>

Spec == Init /\ [][Next]_vars

-----------------------------------------------------------------------------
(* Properties. *)

\* The redundant constraints rule out nothing that the others allow: no
\* layout is missed for them.
NoModelLost == phase = "sat" => \A c \in active(check_point) : satisfies(problem, model, c)

\* An output that shares its node with a reader.
shared_output == \E n \in Range(problem.ntk.pos) : fanouts(problem.ntk, n) # {}

\* Every assignment of the solver is a layout that passes the design rule
\* check and computes the network, with its pins at the border if they have
\* to be, and made of the tiles that the assignment uses only.  Networks
\* with an output that shares its node with a reader are excepted.
ModelsAreLayouts ==
  phase = "sat" /\ ~ shared_output =>
    /\ drvs(layout) = {}
    /\ set(problem, "border_io") => warnings(layout) = {}
    /\ simulate_layout(layout, assignments(problem.src)) = simulate(problem.src)
    /\ {<<t[1], t[2], 0>> : t \in DOMAIN layout.tiles} = Range(model.tn) \cup UNION Range(model.te)

\* Signals of one clock cycle arrive at every output in one phase.
arrive_together == \A t \in Range(layout.pos) : Cardinality(arrivals(layout, t)) = 1

\* An input that lies farther from the corner than one clock cycle.
late_input == \E n \in pis(problem.ntk) : model.tn[n][1] + model.tn[n][2] >= problem.scheme.num_clocks

\* Without desynchronize the signals of one clock cycle arrive at an output
\* together, and the layout is found to have a throughput of one per cycle,
\* unless there are synchronization elements, which throughput does not
\* account for.  With 2DDWave clocking and border I/Os this takes inputs in
\* the first cycle: EntryTilesSynchronise asks for it without that.
Synchronised ==
  phase = "sat" /\ ~ set(problem, "desynchronize") /\ ~ shared_output =>
    \/ /\ arrive_together
       /\ throughput(layout) = 1 \/ \E t \in DOMAIN model.tse : model.tse[t] > 0
    \/ set(problem, "border_io") /\ problem.scheme.name = "2DDWAVE" /\ late_input

\* The restriction of the inputs to the entry tiles stands for the constraint
\* that paths to an output are equally long, also with 2DDWave clocking.
EntryTilesSynchronise ==
  phase = "sat" /\ ~ set(problem, "desynchronize") /\ ~ shared_output => arrive_together
=============================================================================
