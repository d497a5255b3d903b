------------------------------ MODULE CellFlow ------------------------------
(***************************************************************************)
(* From the layouts that exact finds to cells: the command cell applies    *)
(* ToPoliNano to layouts with shifted columns and Bestagon to hexagonal    *)
(* layouts with pointy tops.  The post-layout optimization of ToPoliNano   *)
(* goes row by row.                                                        *)
(***************************************************************************)
EXTENDS ExactEncoding

VARIABLES
  cells   \* s is the cell-level layout, the rest the state of its optimization

Topolinano == INSTANCE InmlTopolinanoLibrary
Bestagon == INSTANCE SidbBestagonLibrary

cellVars == <<vars, cells>>

NoCells == << >>

shifted == set(problem, "topolinano")
has_pointy_tops == hexagonal(layout.dim) /\ pointy_top(layout.dim)

\* A layout with a tile that the library does not support is left as it is.
ApplyTopolinano ==
  /\ phase = "sat" /\ shifted
  /\ IF Topolinano!unsupported_tiles(layout) # {} THEN phase' = "unsupported" /\ UNCHANGED cells
     ELSE phase' = "optimize" /\ cells' = Topolinano!begin_search(Topolinano!placed_gates(layout))
  /\ UNCHANGED <<problem, tried, solver_tree, lc, check_point, model, layout>>

OptimizeRow ==
  LET dims == Topolinano!cell_aspect_ratio(layout)
      searched == Topolinano!search_row(cells, dims)
  IN  /\ phase = "optimize"
      /\ cells' = Topolinano!next_row(searched, dims)
      /\ phase' = IF Topolinano!is_search_over(searched, dims) THEN "cells" ELSE "optimize"
      /\ UNCHANGED <<problem, tried, solver_tree, lc, check_point, model, layout>>

ApplyBestagon ==
  /\ phase = "sat" /\ has_pointy_tops
  /\ IF Bestagon!unsupported_tiles(layout) # {} THEN phase' = "unsupported" /\ UNCHANGED cells
     ELSE phase' = "cells" /\ cells' = [s |-> Bestagon!apply_gate_library(layout)]
  /\ UNCHANGED <<problem, tried, solver_tree, lc, check_point, model, layout>>

CellInit == Init /\ cells = NoCells

CellNext ==
  \/ ApplyTopolinano
  \/ OptimizeRow
  \/ ApplyBestagon
  \/ Next /\ UNCHANGED cells

CellSpec == CellInit /\ [][CellNext]_cellVars

-----------------------------------------------------------------------------
(* Properties. *)
place(t) == <<t[1], t[2]>>
ground_level == {t \in DOMAIN layout.tiles : t[3] = 0}

\* Pairs of places of which the second reads the first.
flows == {<<place(p[2]), place(p[1])>> : p \in connections(layout)}

\* Tiles are joined if and only if u reads t.  A pin that need not lie at the
\* border may touch a tile with its free end nevertheless.
JoinedAsTold(t, u, joined) ==
  LET told == <<place(t), place(u)>> \in flows
  IN  /\ told => joined
      /\ joined => told \/ (~ set(problem, "border_io") /\ (is_po_tile(layout, t) \/ is_pi_tile(layout, u)))

\* The magnets that the ground tiles are made of, before the optimization.
magnets(t) == {<<c[1], c[2]>> : c \in DOMAIN (Topolinano!assign_gate(Topolinano!EmptyStorage, t,
                 Topolinano!shifted_base(4, layout.dim[4], t), Topolinano!set_up_gate(layout, t)).type)}
touch(c, d) == (c[1] = d[1] /\ d[2] = c[2] + 1) \/ (c[2] = d[2] /\ d[1] = c[1] + 1)

\* The connected sets of magnets of wires and inverters in the ground layer.
beside(c) == {<<c[1] - 1, c[2], c[3]>>, <<c[1] + 1, c[2], c[3]>>, <<c[1], c[2] - 1, c[3]>>, <<c[1], c[2] + 1, c[3]>>}
wire_magnets(s) == {c \in DOMAIN s.type : c[3] = 0 /\ s.type[c] \in {"x", "n", "i", "o"}}
RECURSIVE spread(_, _)
spread(C, S) == LET more == S \cup (C \cap UNION {beside(c) : c \in S}) IN IF more = S THEN S ELSE spread(C, more)

\* What a net connects: its pins, the magnets of gates, couplers and
\* crossings that it touches, and how many inverter magnets it has.
connected(s, net) ==
  [pins |-> {<<s.name[c], s.type[c]>> : c \in net \cap DOMAIN s.name},
   gates |-> {d \in UNION {beside(c) : c \in net} : d \in DOMAIN s.type /\ s.type[d] \in {"d", "u", "c", "f"}},
   inverters |-> Cardinality({c \in net : s.type[c] = "n"})]
nets(s) == {connected(s, spread(wire_magnets(s), {c})) : c \in wire_magnets(s)}

\* ToPoliNano supports every layout that exact finds under its constraints.
\* Magnets of two tiles touch if and only if one tile reads the other, free
\* ends of pins excepted, and straightening the wires keeps what every net
\* connects.  It never searches a hump of two magnets for the ones in between.
MagnetsWiredAsTiles ==
  /\ phase = "optimize" /\ cells = Topolinano!begin_search(cells.s) =>
       \A t, u \in ground_level : t # u =>
         JoinedAsTold(t, u, \E c \in magnets(t), d \in magnets(u) : touch(c, d))
  /\ phase = "cells" /\ shifted =>
       /\ nets(cells.s) = nets(Topolinano!placed_gates(layout))
       /\ ~ cells.undefined
  /\ phase = "unsupported" => ~ shifted

\* The dots with which the wires of tile t end.
dots(t) == {<<c[1], c[2]>> : c \in DOMAIN (Bestagon!assign_gate(Bestagon!EmptyStorage, t,
              Bestagon!hexagonal_base(60, 46, layout.dim[4], t), Bestagon!set_up_gate(layout, t)).type)}
meet(c, d) == d[1] - c[1] \in {-4, 4} /\ d[2] - c[2] \in 1..3

\* Bestagon supports every row-clocked layout, and the wires of two tiles
\* meet if and only if one tile reads the other, free ends of pins excepted.
DotsWiredAsTiles ==
  problem.scheme.name = "ROW" /\ ~ shifted =>
    /\ phase # "unsupported"
    /\ phase = "cells" =>
         \A t, u \in ground_level : JoinedAsTold(t, u, \E c \in dots(t), d \in dots(u) : meet(c, d))
=============================================================================
