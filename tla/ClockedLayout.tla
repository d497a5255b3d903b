--------------------------- MODULE ClockedLayout ---------------------------
(***************************************************************************)
(* Clocking schemes (layouts/clocking_scheme.hpp) and the data flow that   *)
(* they allow between the tiles of a layout (layouts/clocked_layout.hpp    *)
(* and layouts/synchronization_element_layout.hpp).  A regular scheme      *)
(* repeats a cutout of clock numbers in both directions.                   *)
(***************************************************************************)
EXTENDS HexagonalLayout, TLC

\* A scheme: its name and degrees, the cutout of clock numbers by row and
\* column, the numbers assigned to single zones of an irregular scheme
\* (override), and the zones that hold their data for more clock cycles (se).
regular(name, num_clocks, in, out, cutout) ==
  [name |-> name, num_clocks |-> num_clocks, in_degree |-> in, out_degree |-> out, regular |-> TRUE,
   cutout |-> cutout, override |-> << >>, se |-> << >>]

open_clocking(num_clocks, max_fanin_size) ==
  [regular("OPEN", num_clocks, max_fanin_size, max_fanin_size, <<<<0>>>>) EXCEPT !.regular = FALSE]
columnar_clocking ==
  regular("COLUMNAR", 4, 3, 2, <<<<0, 1, 2, 3>>, <<0, 1, 2, 3>>, <<0, 1, 2, 3>>, <<0, 1, 2, 3>>>>)
columnar_3_clocking == regular("COLUMNAR", 3, 3, 2, <<<<0, 1, 2>>, <<0, 1, 2>>, <<0, 1, 2>>>>)
row_clocking ==
  regular("ROW", 4, 3, 2, <<<<0, 0, 0, 0>>, <<1, 1, 1, 1>>, <<2, 2, 2, 2>>, <<3, 3, 3, 3>>>>)
row_3_clocking == regular("ROW", 3, 3, 2, <<<<0, 0, 0>>, <<1, 1, 1>>, <<2, 2, 2>>>>)
twoddwave_clocking ==
  regular("2DDWAVE", 4, 2, 2, <<<<0, 1, 2, 3>>, <<1, 2, 3, 0>>, <<2, 3, 0, 1>>, <<3, 0, 1, 2>>>>)
twoddwave_3_clocking == regular("2DDWAVE", 3, 2, 2, <<<<0, 1, 2>>, <<1, 2, 0>>, <<2, 0, 1>>>>)
use_clocking ==
  regular("USE", 4, 2, 2, <<<<0, 1, 2, 3>>, <<3, 2, 1, 0>>, <<2, 3, 0, 1>>, <<1, 0, 3, 2>>>>)
res_clocking ==
  regular("RES", 4, 3, 3, <<<<3, 0, 1, 2>>, <<0, 1, 0, 3>>, <<1, 2, 3, 0>>, <<0, 3, 2, 1>>>>)
esr_clocking ==
  regular("ESR", 4, 3, 3, <<<<3, 0, 1, 2>>, <<0, 1, 2, 3>>, <<1, 2, 3, 0>>, <<0, 3, 2, 1>>>>)
cfe_clocking ==
  regular("CFE", 4, 3, 3, <<<<0, 1, 0, 1>>, <<3, 2, 3, 2>>, <<0, 1, 0, 1>>, <<3, 2, 3, 2>>>>)
bancs_clocking ==
  regular("BANCS", 3, 2, 2, <<<<0, 1, 2>>, <<2, 1, 0>>, <<2, 0, 1>>, <<1, 0, 2>>, <<1, 2, 0>>, <<0, 2, 1>>>>)

\* The same wave over hexagons advances every second row or column: the odd
\* ones are ahead of the even ones if they are shoved out, else in line.
twoddwave_hex_clocking(n, arrangement) ==
  LET ahead == IF arrangement \in {"odd_row", "odd_column"} THEN 1 ELSE 0
      wave(p, q) == (p + ((q + ahead) \div 2)) % n
      by_rows == [r \in 1..(2 * n) |-> [c \in 1..n |-> wave(c - 1, r - 1)]]
      by_columns == [r \in 1..n |-> [c \in 1..(2 * n) |-> wave(r - 1, c - 1)]]
  IN  regular("2DDWAVEHEX", n, 2, 2, IF arrangement \in {"odd_row", "even_row"} THEN by_rows ELSE by_columns)

\* A slip: a scheme with cycles is taken for a linear one.
LinearOrCFE(scheme) == scheme.name \in {"COLUMNAR", "ROW", "2DDWAVE", "2DDWAVEHEX", "CFE"}

is_linear_scheme(scheme) == scheme.name \in {"COLUMNAR", "ROW", "2DDWAVE", "2DDWAVEHEX"}

\* The linear schemes of get_clocking_scheme that do not ask for hexagons.
LinearSchemes ==
  {columnar_clocking, columnar_3_clocking, row_clocking, row_3_clocking, twoddwave_clocking, twoddwave_3_clocking}

clock_number(scheme, t) ==
  LET row == scheme.cutout[(t[2] % Len(scheme.cutout)) + 1]
  IN  IF t \in DOMAIN scheme.override THEN scheme.override[t] ELSE row[(t[1] % Len(row)) + 1]
override_clock_number(scheme, numbers) ==
  [scheme EXCEPT !.override = [t \in DOMAIN numbers |-> numbers[t] % scheme.num_clocks] @@ @, !.regular = FALSE]

\* A synchronization element trades data with zones of every clock number.
is_synchronization_element(scheme, t) == t \in DOMAIN scheme.se
get_synchronization_element(scheme, t) == IF t \in DOMAIN scheme.se THEN scheme.se[t] ELSE 0
assign_synchronization_elements(scheme, delays) ==
  LET delayed == {t \in DOMAIN delays : delays[t] # 0} IN [scheme EXCEPT !.se = [t \in delayed |-> delays[t]]]

\* u hands its data to t: they are different tiles in succeeding zones.
succeeds(scheme, u, t) == (clock_number(scheme, u) + 1) % scheme.num_clocks = clock_number(scheme, t)
feeds(scheme, u, t) ==
  /\ t # u
  /\ succeeds(scheme, u, t) \/ is_synchronization_element(scheme, t) \/ is_synchronization_element(scheme, u)
is_incoming_clocked(scheme, t, u) == feeds(scheme, u, t)
is_outgoing_clocked(scheme, t, u) == feeds(scheme, t, u)

incoming_clocked_zones(scheme, dim, t) ==
  {u \in adjacent_coordinates(dim, t) : is_incoming_clocked(scheme, t, u)}
outgoing_clocked_zones(scheme, dim, t) ==
  {u \in adjacent_coordinates(dim, t) : is_outgoing_clocked(scheme, t, u)}
in_degree(scheme, dim, t) == Cardinality(incoming_clocked_zones(scheme, dim, t))
out_degree(scheme, dim, t) == Cardinality(outgoing_clocked_zones(scheme, dim, t))

\* No tiles hand their data around in a cycle: every set of tiles has one
\* that feeds none of the others.
acyclic_flow(scheme, dim) ==
  \A S \in SUBSET ground_tiles(dim) :
    S # {} => \E t \in S : outgoing_clocked_zones(scheme, dim, t) \cap S = {}
=============================================================================
