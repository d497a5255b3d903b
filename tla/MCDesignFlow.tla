---------------------------- MODULE MCDesignFlow ----------------------------
(***************************************************************************)
(* Small networks for DesignFlow: all networks of a number of inputs and   *)
(* gates in which every gate has one or two different fanins.  Gates that  *)
(* nobody reads are outputs; other nodes may be.                           *)
(***************************************************************************)
EXTENDS DesignFlow

CONSTANTS
  Shapes,      \* pairs of a number of inputs and a number of gates
  GateShapes   \* the same for networks of two-input gates only

\* The fanins that the node numbered n may have.
faninChoices(n) == {<<i>> : i \in 1..(n - 1)} \cup {<<i, j>> \in (1..(n - 1)) \X (1..(n - 1)) : i < j}

RECURSIVE gateLists(_, _)
gateLists(pi, g) ==
  IF g = 0 THEN {<< >>}
  ELSE {Append(l, f) : l \in gateLists(pi, g - 1), f \in faninChoices(pi + g)}

withGates(pi, gates) ==
  [fn |-> [n \in 1..(pi + Len(gates)) |->
             IF n <= pi THEN "pi" ELSE IF Len(gates[n - pi]) = 1 THEN "not" ELSE "and"],
   kids |-> [n \in 1..(pi + Len(gates)) |-> IF n <= pi THEN << >> ELSE gates[n - pi]],
   pos |-> << >>]

unread(net) == {n \in Nodes(net) : ~ is_pi(net, n) /\ fanouts(net, n) = {}}

networksOf(pi, g) ==
  UNION {{[net EXCEPT !.pos = ascending(P)] : P \in {S \in SUBSET Nodes(net) : unread(net) \subseteq S /\ S # {}}}
         : net \in {withGates(pi, l) : l \in gateLists(pi, g)}}

\* Networks of two-input gates that only their unread gates leave.
gatesOnly(pi, g) ==
  {[net EXCEPT !.pos = ascending(unread(net))] :
     net \in {withGates(pi, l) : l \in {k \in gateLists(pi, g) : \A i \in DOMAIN k : Len(k[i]) = 2}}}

Majority == [fn |-> <<"pi", "pi", "pi", "maj">>, kids |-> << << >>, << >>, << >>, <<1, 2, 3>> >>, pos |-> <<4>>]

\* Five inputs, which take more rows than a clock cycle has phases, and gates
\* that bring the first and the last of them together.
FiveInputs(gates, pos) ==
  [fn |-> [n \in 1..(5 + Len(gates)) |-> IF n <= 5 THEN "pi" ELSE "and"],
   kids |-> [n \in 1..(5 + Len(gates)) |-> IF n <= 5 THEN << >> ELSE gates[n - 5]], pos |-> pos]
Late == {FiveInputs(<<<<1, 5>>, <<2, 3>>, <<4, 7>>>>, <<6, 8>>),
         FiveInputs(<<<<1, 2>>, <<3, 4>>, <<5, 6>>, <<7, 8>>>>, <<9>>),
         FiveInputs(<<<<2, 5>>, <<3, 4>>, <<6, 7>>, <<1, 8>>>>, <<9>>)}

MCShapes == {<<1, 2>>, <<2, 2>>, <<1, 3>>}
MCGateShapes == {<<2, 3>>, <<3, 3>>}

\* One input and two gates are enough for inverters that have to be dropped.
MCInverterShapes == {<<1, 2>>}
MCNoShapes == {}

MCParams ==
  {[strategy |-> s, degree |-> d, threshold |-> t] :
     <<s, d, t>> \in {<<"BREADTH", 2, 1>>, <<"BREADTH", 2, 2>>, <<"DEPTH", 3, 1>>}}

MCNetworks ==
  {Majority} \cup Late \cup UNION {networksOf(s[1], s[2]) : s \in Shapes}
    \cup UNION {gatesOnly(s[1], s[2]) : s \in GateShapes}
=============================================================================
