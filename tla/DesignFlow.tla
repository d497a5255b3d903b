----------------------------- MODULE DesignFlow -----------------------------
(***************************************************************************)
(* From a network to a checked layout: a client of the library transforms  *)
(* a network with the passes of NetworkTransformation (in the command line *)
(* interface these are the commands fanouts and balance) and places the    *)
(* result with Orthogonal.  The network in src is the current one.  The    *)
(* command cell makes a cell-level layout of the result.                   *)
(***************************************************************************)
EXTENDS Orthogonal, QcaOneLibrary

CONSTANTS
  Params,       \* parameters of fanout_substitution
  MaxCommands,  \* bound on the number of transformations
  MaxNodes      \* bound on the nodes of the networks that are transformed

VARIABLES
  spec,     \* the network that the client started with
  applied,  \* the transformations so far
  cells     \* the cell-level layout

flowVars == <<vars, spec, applied, cells>>

Transform(command, result, next) ==
  /\ phase = "given"
  /\ phase' = next
  /\ Len(applied) < MaxCommands /\ Len(spec.fn) <= MaxNodes
  /\ src' = result
  /\ applied' = Append(applied, command)
  /\ UNCHANGED <<ntk, ctn, dim, design, todo, spec, cells>>

Fanouts(ps) == Transform([name |-> "fanouts", ps |-> ps], fanout_substitution(src, ps), "given")

Balance(unify_outputs) ==
  Transform([name |-> "balance", unify |-> unify_outputs], network_balancing(src, unify_outputs), "given")

\* Its callers give inverter_balancing the result of a fanout_substitution
\* with the default parameters.  They do not place the result with orthogonal.
BalanceInverters ==
  /\ applied # << >> /\ applied[Len(applied)] = [name |-> "fanouts", ps |-> substitution_params]
  /\ Transform([name |-> "inverters"], inverter_balancing(src), "inverters balanced")

\* A layout with a tile that the library does not support is left as it is.
Cell ==
  /\ phase = "placed"
  /\ IF unsupported_tiles(layout) # {} THEN phase' = "unsupported" /\ UNCHANGED cells
     ELSE phase' = "cells" /\ cells' = apply_gate_library(layout)
  /\ UNCHANGED <<src, ntk, ctn, dim, design, todo, spec, applied>>

FlowInit == Init /\ spec = src /\ applied = << >> /\ cells = EmptyStorage

FlowNext ==
  \/ \E ps \in Params : Fanouts(ps)
  \/ \E unify \in BOOLEAN : Balance(unify)
  \/ BalanceInverters
  \/ Cell
  \/ Next /\ UNCHANGED <<spec, applied, cells>>

FlowSpec == FlowInit /\ [][FlowNext]_flowVars

-----------------------------------------------------------------------------
(* Properties. *)
\* No transformation changes what a network computes.  inverter_balancing is
\* looked at by InvertersPulled.
FunctionPreserved ==
  /\ phase = "given" => equivalent(spec, src)
  /\ phase = "substituted" => equivalent(src, ntk)

\* The network was substituted with ps and only balanced since.
substituted_with(ps) ==
  \E i \in DOMAIN applied :
    /\ applied[i] = [name |-> "fanouts", ps |-> ps]
    /\ \A j \in (i + 1)..Len(applied) : applied[j].name = "balance"

\* A network stays fanout-substituted when it is balanced, and substituting
\* it again with the same parameters adds nothing.
FanoutsStaySubstituted ==
  /\ phase = "given" =>
       \A ps \in Params : substituted_with(ps) =>
         /\ is_fanout_substituted(src, ps)
         /\ Len(fanout_substitution(src, ps).fn) = Len(src.fn)
  /\ phase = "substituted" => is_fanout_substituted(ntk, substitution_params)

\* network_balancing equalises all paths, also those made of fanout nodes.
PathsBalanced ==
  phase = "given" /\ applied # << >> /\ applied[Len(applied)].name = "balance"
    => is_balanced(src, applied[Len(applied)].unify)

\* inverter_balancing leaves no fanout node with inverters only behind it.
\* The outputs that were driven by an inverter which a pass dropped are the
\* constant 0, and all others keep their function.
InvertersPulled ==
  [][BalanceInverters =>
       /\ ~ needs_balancing(src')
       /\ \A i \in DOMAIN src.pos :
            IF i \in dropped_outputs(src) THEN src'.pos[i] = 0 ELSE simulate(src')[i] = simulate(src)[i]]_flowVars

\* inverter_balancing returns a network that is equivalent to its argument.
InvertersEquivalent == phase = "inverters balanced" => equivalent(spec, src)

\* The tile that a cell works for: the ground end of a via belongs to the
\* wire in the crossing layer.
owner(c) == LET t == tile_of(gate_size, c) IN IF c \in DOMAIN cells.mode THEN [t EXCEPT ![3] = 1] ELSE t

\* Cells of different owners that lie side by side.
contacts ==
  UNION {{{owner(c), owner(d)} : d \in {d \in {<<c[1] + 1, c[2], c[3]>>, <<c[1], c[2] + 1, c[3]>>} :
                                        ~ is_empty_cell(cells, d) /\ owner(c) # owner(d)}} : c \in DOMAIN cells.type}

\* The cells are wired like the gates: cells of two tiles touch if and only
\* if one tile reads the other, vias lie beside the gates' own cells, and
\* there is one pin of its kind for every input and output.  Only a layout
\* with an input that nobody reads is not supported by the library.
CellsWiredAsTiles ==
  /\ phase = "cells" =>
       LET L == layout
       IN  /\ contacts = {{p[1], p[2]} : p \in connections(L)}
           /\ \A t \in DOMAIN L.tiles :
                Cardinality({c \in DOMAIN cells.type : owner(c) = t /\ c[3] = t[3]}) = Cardinality(DOMAIN set_up_gate(L, t))
           /\ {cells.name[c] : c \in cells.inputs} = Range(L.pis) /\ Cardinality(cells.inputs) = Len(L.pis)
           /\ {cells.name[c] : c \in cells.outputs} = Range(L.pos) /\ Cardinality(cells.outputs) = Len(L.pos)
  /\ phase = "unsupported" => \E n \in pis(ntk) : fanout_size(ntk, n) = 0
=============================================================================
