-------------------------- MODULE MCExactEncoding --------------------------
(***************************************************************************)
(* Small problems for CellFlow.                                            *)
(***************************************************************************)
EXTENDS CellFlow

And == [fn |-> <<"pi", "pi", "and">>, kids |-> << << >>, << >>, <<1, 2>> >>, pos |-> <<3>>]
Inv == [fn |-> <<"pi", "not">>, kids |-> << << >>, <<1>> >>, pos |-> <<2>>]
Or == [And EXCEPT !.fn = <<"pi", "pi", "or">>]
Xor == [And EXCEPT !.fn = <<"pi", "pi", "xor">>]
NotAnd == [fn |-> <<"pi", "pi", "and", "not">>, kids |-> << << >>, << >>, <<1, 2>>, <<3>> >>, pos |-> <<4>>]
Fork == [fn |-> <<"pi", "not", "buf">>, kids |-> << << >>, <<1>>, <<1>> >>, pos |-> <<2, 3>>]
Swap == [fn |-> <<"pi", "pi">>, kids |-> << << >>, << >> >>, pos |-> <<2, 1>>]
Shared == [fn |-> <<"pi", "not">>, kids |-> << << >>, <<1>> >>, pos |-> <<1, 2>>]

Unequal == [fn |-> <<"pi", "pi", "not", "not", "and">>, kids |-> << << >>, << >>, <<1>>, <<3>>, <<4, 2>> >>, pos |-> <<5>>]

\* flags names the parameters that are set.
Problem(src, scheme, flags, sizes) ==
  [src |-> src, scheme |-> scheme, topology |-> << >>, sizes |-> sizes, flags |-> flags]

\* The same over hexagons.
HexProblem(src, scheme, arrangement, flags, sizes) ==
  [Problem(src, scheme, flags, sizes) EXCEPT !.topology = <<arrangement>>]

\* Highest positions, in the order of the aspect_ratio_iterator.
Square == <<<<1, 1>>, <<1, 2>>, <<2, 1>>, <<2, 2>>>>
Growing == <<<<2, 1>>, <<2, 2>>, <<3, 2>>>>
Wide == <<<<1, 1>>, <<2, 1>>, <<3, 1>>>>
Deep == <<<<1, 2>>, <<2, 2>>, <<2, 3>>>>

\* The inputs need not lie in the first cycle here.
MCEntryProblems == {Problem(And, twoddwave_3_clocking, {"border_io"}, Growing)}

MCProblems ==
  {Problem(And, s, {}, Square) : s \in {twoddwave_clocking, res_clocking, esr_clocking, cfe_clocking, bancs_clocking}}
    \cup {Problem(And, twoddwave_clocking, {"border_io"}, Square),
          Problem(And, twoddwave_3_clocking, {"border_io"}, Growing),
          Problem(And, cfe_clocking, {"desynchronize"}, <<<<2, 2>>>>),
          Problem(Swap, twoddwave_clocking, {"crossings", "border_io"}, <<<<2, 1>>, <<2, 2>>>>),
          Problem(Swap, use_clocking, {"crossings"}, <<<<2, 1>>, <<2, 2>>>>),
          Problem(Fork, twoddwave_clocking, {"border_io"}, Growing),
          Problem(Fork, use_clocking, {"straight_inverters"}, Square),
          Problem(Inv, use_clocking, {"straight_inverters", "border_io"}, Wide),
          Problem(Inv, columnar_clocking, {"border_io"}, Growing),
          Problem(Inv, row_clocking, {"border_io"}, Deep),
          Problem(Inv, row_3_clocking, {}, <<<<1, 2>>>>),
          Problem(Shared, twoddwave_clocking, {"border_io"}, <<<<2, 1>>, <<2, 2>>>>)}
    \cup {HexProblem(And, row_clocking, a, {"border_io"}, Deep) : a \in {"odd_row", "even_row"}}
    \cup {HexProblem(And, columnar_clocking, a, {}, <<<<2, 1>>, <<2, 2>>>>) : a \in {"odd_column", "even_column"}}
    \cup {HexProblem(Fork, twoddwave_hex_clocking(4, "odd_row"), "odd_row", {"border_io"}, Growing)}
    \cup {HexProblem(Inv, twoddwave_hex_clocking(4, a), a, {"straight_inverters"}, Square) : a \in {"even_row", "odd_column", "even_column"}}
    \cup {HexProblem(Inv, twoddwave_hex_clocking(3, "odd_row"), "odd_row", {}, <<<<2, 1>>>>)}
    \cup {HexProblem(Swap, row_clocking, "even_row", {"crossings", "border_io"}, <<<<1, 2>>, <<2, 2>>>>),
          HexProblem(Xor, row_clocking, "odd_row", {}, <<<<1, 2>>, <<2, 2>>>>),
          HexProblem(Fork, row_clocking, "even_row", {"border_io"}, <<<<1, 2>>, <<1, 3>>>>)}
    \cup {Problem(And, open_clocking(3, 3), {"border_io"}, <<<<1, 1>>, <<2, 1>>>>),
          Problem(Inv, open_clocking(3, 3), {"straight_inverters"}, <<<<1, 1>>, <<2, 1>>>>),
          HexProblem(Inv, open_clocking(3, 5), "even_row", {}, <<<<1, 1>>>>),
          Problem(And, twoddwave_clocking, {"border_io", "synchronization_elements"}, <<<<1, 1>>, <<2, 1>>>>),
          Problem(And, use_clocking, {"synchronization_elements", "minimize_wires"}, <<<<1, 1>>, <<1, 2>>>>),
          Problem(Unequal, esr_clocking, {"synchronization_elements"}, <<<<2, 1>>, <<3, 1>>>>),
          Problem(Swap, use_clocking, {"crossings", "minimize_crossings", "minimize_wires"}, <<<<2, 1>>, <<2, 2>>>>)}
    \cup {HexProblem(And, columnar_3_clocking, "odd_column", {"topolinano", "crossings", "border_io"}, Growing),
          HexProblem(Fork, columnar_3_clocking, "odd_column", {"topolinano", "crossings", "border_io"}, Growing),
          HexProblem(Or, columnar_3_clocking, "odd_column", {"topolinano"}, <<<<2, 2>>>>),
          HexProblem(Swap, columnar_3_clocking, "odd_column", {"topolinano", "crossings", "border_io"}, <<<<2, 1>>, <<3, 1>>>>),
          HexProblem(NotAnd, columnar_3_clocking, "odd_column", {"topolinano", "straight_inverters"}, <<<<3, 1>>, <<3, 2>>, <<4, 1>>>>)}
=============================================================================
