# A TLA+ model of fiction (LocalFiction)

*fiction* designs circuits for field-coupled nanotechnologies. It reads a logic
network, places and routes it on a grid of clocked tiles (`exact`,
`orthogonal` and this fork's `ortho_*` variants), maps the gates to cells of a
technology, checks the result and writes it to files. This directory holds
TLA+ models of its core, what TLC checks of them and what TLAPS proves.

## 1. Inventory

| Part (under `include/fiction/`) | State | Operations | Hard about it | What makes it correct |
|---|---|---|---|---|
| `algorithms/iter/aspect_ratio_iterator` | number of tiles, its factors, a position | construction, `++`, factorization | boundary of the factorization; an iterator into a vector that is copied | no aspect ratio is skipped or repeated, sizes never shrink |
| `algorithms/physical_design/exact`: asynchronous exploration | shared iterator, shared result, `thread_info` list, a Z3 context per thread | fetch, skip, compare, publish, solve, report, interrupt, collect | threads, two mutexes, data that no mutex protects, interrupts that come late, timeouts | it ends, and no smaller layout is lost in any interleaving |
| same: synchronous exploration | iterator, layout, solver | the same in one loop | timeouts, skipping | the layout returned is minimal |
| same: SMT encoding | solver tree, check points, assumption literals | `fetch_solver`, `generate_smt_instance`, `assign_layout` | reuse of solver states between sizes; constraints that only speed the solver up | a reused solver is told what a new one would be; every model is a valid, equivalent, synchronised layout |
| `layouts/gate_level_layout` | nodes, two maps between nodes and tiles, reference counts sharing a word with a dead flag, inputs, outputs, counters | `create_*`, overwriting, `move_node` | long sequences of legal calls; children remembered by tile; the default tile is the word of constant 0 | maps inverse, counters exact, outputs follow their nodes |
| `utils/placement_utils` | - (calls the layout) | `reserve_input_nodes`, `reserve_register_output_nodes`, `place` | inputs are created over each other on tile (0,0) | reserved nodes keep their order and occupy no tile |
| `algorithms/physical_design/orthogonal` and `ortho_*` | colours of edges and nodes, the latest position, tiles of nodes | colouring, size prediction, wiring, placement | the size is predicted before placement; wires cross | everything lies within the predicted size, no tile is overwritten, the layout passes the design rules and computes the network |
| `algorithms/physical_design/one_pass_synthesis` | aspect ratio iterator, external solver | loop over sizes | timeouts | as for `exact` |
| `layouts/cartesian_layout`, `hexagonal_layout`, `shifted_cartesian_layout`, `tile_based_layout`, `coordinates` | aspect ratio | neighbours, borders, iteration | boundaries, parity of rows and columns | neighbourhood is symmetric, iteration is complete |
| `layouts/clocked_layout`, `clocking_scheme`, `synchronization_element_layout` | a scheme, overridden zones, extra delays | override, replace, incoming and outgoing zones | irregular schemes; delays that only some readers account for | signals that meet arrive in the same phase |
| `layouts/bounding_box` | two corners | `update_bounding_box` | loops over unsigned coordinates | encloses exactly the occupied tiles |
| `layouts/cell_level_layout` | cells, types, modes, numbers of PIs and POs | `assign_cell_type`, ... | reassigning a cell | numbers agree with the types |
| `algorithms/network_transformation/*` | network under construction | substitute fan-outs, balance paths, pull inverters | order of traversal, queues of branches, repetition | degrees within bounds, paths equal, function kept |
| `networks/*`, `networks/views/*` | network, colours, orders | - | register indices | order and classification of I/Os |
| `algorithms/verification/*`, `algorithms/properties/*` | - | design rules, equivalence, path lengths | recursion, caches | agree with their definitions |
| `algorithms/physical_design/apply_gate_library`, `technology/*` | cell layout | pattern lookup by ports, rotation, vias | patterns of neighbouring tiles have to meet | cells touch exactly where tiles are connected |
| `io/*`, `cli/*` | stores of networks and layouts | commands, readers, writers | current element of a store | - |

Interaction: a P&R algorithm transforms the network (`fanout_substitution`),
asks the iterator for sizes (`exact`, one-pass) or predicts one
(`orthogonal`), and builds a `gate_level_layout` by way of `placement_utils`;
verification and gate libraries read that layout. Threads exist only inside
`exact`.

## 2. Modules

`PROJECT.json` maps each definition to its source lines.

* **AspectRatioIterator** - `num`, `factors`, `it` of the class and two history
  variables. `factorize` emplaces the pairs in the order of the code's loop.
* **MinimalLayoutSearch** - the abstract specification of `exact`: candidates
  are settled one by one; one may be dropped only when it is unsatisfiable or
  something at most as large has been found; the answer is the best one, or
  nothing at all if time may run out (`MayGiveUp`).
* **ExactSizes** - the sizes, `area()` and `skippable()`, shared by the two
  explorations. An aspect ratio is its position in the iterator's sequence.
  Which sizes are satisfiable (`sat`) is chosen by `Init` among all sets that
  `Satisfiable` allows: the solver is external.
* **ExactExploration** - `explore_asynchronously` and `run_asynchronously`.
  One action per step between two accesses to shared state: `Register` (the
  context enters `ti_list`), `Fetch` (under `ari_mutex`, with the local
  decisions that follow), `Compare` (under `rar_mutex`), `Publish` (unprotected
  write of `worker_aspect_ratio`), `Solve`, `GiveUp` (interrupt or timeout),
  `UpdateTimeout`, `Report` (under `rar_mutex`), one `Scan` per element of
  `ti_list`, and `Collect` in the calling thread. The unprotected read of
  another thread's aspect ratio is a data race; `TornReads` chooses whether the
  build reads it in one load or its coordinates in two.
* **ExactSynchronous** - `run_synchronously`, with the same operators.
* **SynchronousSearch** - composes it with the iterator: a step of the loop that
  goes on to the next aspect ratio is a step of `operator++`.
* **GateLevelLayout** - the storage `strg` is a record with the fields of the
  code; `clear_tile`, `assign_node`, `kill_node`, ... are functions from storage
  to storage in the order the operations call them. A word is `2 * DeadBit`
  wide, so that counters wrap around like the code's. `Client` says who calls:
  `"any"` with every argument the operations take, `"careful"` as the class
  documentation advises.
* **LayoutConstruction** - extends it by `placement_utils` and the order in
  which `exact` and the sequential orthogonal algorithm call the layout. The
  numbers of PIs and ROs of the network are chosen by its initial state.
* **CartesianLayout, HexagonalLayout, ClockedLayout** - geometry and clocking as
  operators. A layout's size `dim` is its highest coordinate; a hexagonal or
  shifted Cartesian one carries its arrangement as a fourth component, and
  neighbours are found by way of cube coordinates as in the code. A clocking
  scheme is a record with the cutout of the code's table, overridden numbers and
  synchronization elements.
* **TechnologyNetwork, FanoutSubstitution, NetworkTransformation** - networks as
  records of node functions, ordered fanins and outputs; `fanout_substitution`,
  `network_balancing` and `inverter_balancing` build a new network node by node
  in topological order, with the queue of available fanouts as in the code. What
  is found from the fanins of a node (levels, topological order, function) is
  found in the order in which nodes were created (`along`).
* **EdgeColoring, Orthogonal** - `orthogonal` as a state machine: substitution,
  colouring, size, then one action per kind of node, each of which wires and
  places it and creates its output (`create_output`). `design` holds the layout,
  `node2pos`, `latest_pos` and the outputs.
* **LayoutVerification** - the program's own judgement of a finished layout:
  design rule checks, delays and throughput, equivalence. Fanins are read as the
  layout does it, through incoming data flow and in the order of coordinates.
* **FcnGateLibrary, CellLevelLayout, ApplyGateLibrary** - gates as functions
  from positions to cell types, with their rotations; the storage of cells;
  where the cells of a tile lie on each topology and how they are assigned.
* **QcaOneLibrary, InmlTopolinanoLibrary, SidbBestagonLibrary** - the patterns
  of each library and how `set_up_gate` chooses one by the ports of a tile.
  `post_layout_optimization` adds vias in QCA ONE and straightens wires in
  ToPoliNano; the latter's search for humps is a state machine over the cells of
  a row, kept as such. Of a Bestagon pattern only the dots are kept with which
  its wires end, read off the pattern: one of the wires lies a row lower than all
  other patterns.
* **DesignFlow** - composes these: a client applies transformations, places the
  network by `Orthogonal` and makes cells of the layout.
* **ExactConstraints, SolverTree** - what one `smt_handler` tells its solvers. A
  constraint is a record of its kind, its tile, the node or edge and the
  neighbouring tiles that its formula mentions, and the literals that imply it;
  each generating function of the code is an operator that yields a set of such
  records. `SolverTree` is the handler's life: `Update` takes the next size,
  fetches or extends a solver and generates the instance; `Satisfied` and
  `NotSatisfiable` are the answers, which it leaves open.
* **ExactModels, ExactEncoding** - the answers. `satisfies` gives the constraints
  their meaning, `models` enumerates what a solver could answer (Z3 is external:
  it may return any model, or give up), `optimize` chooses among them by the
  optimization criteria, one after the other as Z3 does by default, and
  `assign_layout` reads the layout off a model. `ExactEncoding` is `SolverTree` with the model and the layout:
  `Satisfiable` is `Satisfied` for one of the models that `optimize` leaves. With
  synchronization elements the sum of all delays is always minimised, unless
  `desynchronize` is set. I/O pins are always on, as the code requires.
* **CellFlow** - composes it with the command `cell`: ToPoliNano for layouts with
  shifted columns, row by row of its optimization (`OptimizeRow`), and Bestagon
  for pointy-top hexagons.
* **AspectRatioIteratorProofs, ExactSizesProofs, ExactExplorationProofs,
  ExactSynchronousProofs, GateLevelLayoutProofs, LayoutConstructionProofs,
  ClockedLayoutProofs, SolverTreeProofs** - the proofs about the module of that
  name.
* **MC...** - instances for TLC.

## 3. Runs

| Run | Instance | Shows |
|---|---|---|
| `exact_async` | 2 threads, open clocking, up to 5 tiles, every `sat` | only solvers on sizes already beaten are interrupted (`InterruptsSpareSmaller`), no smaller layout is lost (`NoSmallerLayoutLost`) although a thread skips the rotation of its own last size only; termination (`Terminates`); refinement of `MinimalLayoutSearch` (`ImplementsSearch`) |
| `exact_timeouts` | 2 threads, columnar clocking, depth 1, timeouts and torn reads | the exploration ends, uses no context before it is entered (`NoNullContext`), and what it returns is the recorded layout, which the solver found (`WinnerDelivered`) |
| `sync_search` | the loop with its iterator, start 0 or 1, up to 7 tiles, open clocking, timeouts | the iterator skips no ratio (`NoRatioSkipped`, against the set of all ratios of a size) and hands out none twice (`NoRatioTwice`); what is returned is minimal (`SmallestReturned`), termination, refinement of `MinimalLayoutSearch` |
| `construction` | 5 tiles, 0..2 PIs, 0..1 ROs, 3 more nodes | maps inverse, counters exact, constants found (`MapsInverse`, `CountsExact`, `ConstantsResolve`) although nodes overwrite each other and go to no tile; I/O classes and order (`IOClassified`), reference counts (`ReferencesExact`), nothing placed by reservation (`ReservedNowhere`), placed nodes alive |
| `design_flow` | all networks of the shapes 1 input/2 gates, 2/2, 1/3, all of 3 two-input gates over 2 or 3 inputs, three networks of five inputs, whose signals meet several cycles apart, and a majority gate, which `orthogonal` refuses; up to `MaxCommands` = 2 transformations of networks of up to `MaxNodes` = 4 nodes | transformations keep the function (`FunctionPreserved`), fanouts stay substituted (`FanoutsStaySubstituted`), paths are equal (`PathsBalanced`), inverters are pulled, with no effect but on the outputs that lose their inverter (`InvertersPulled`); orthogonal places within the predicted size (`SizePredicted`), overwrites nothing (`NothingOverwritten`), connects what the network connects (`RoutedAsNetwork`); its layout passes the design rules (`LayoutValid`), computes the outputs (`OutputsComputed`) its delays agree with the clock zones, and its throughput is one exactly if all signals of a cycle reach each gate in one phase (`DelaysInPhase`); cells touch where tiles are connected (`CellsWiredAsTiles`) |
| `exact_encoding` | 41 problems: AND, OR, XOR, inverter, fork, swap, AND with inverter, an output that is read; every clocking scheme, open clocking, four hexagonal arrangements; border I/Os, crossings, straight inverters, desynchronized, synchronization elements, minimal wires and crossings, ToPoliNano; one to four sizes each | a reused solver is bound by what a new one would be told (`ReuseExact`), where it is told nothing of paths none can close to a cycle (`NoPathCloses`), hierarchy and degrees rule nothing out (`NoModelLost`), every model is a valid and equivalent layout (`ModelsAreLayouts`), and its signals arrive together (`Synchronised`); magnets and dots of two tiles meet if and only if one tile reads the other, and straightening keeps what each net connects and the length of its inverters (`MagnetsWiredAsTiles`, `DotsWiredAsTiles`) |

Runs that end in a violation, each quoted in `findings`:

| Run | What the code does |
|---|---|
| `exact_first_ratio` | the threads never examine the first aspect ratio |
| `exact_throw` | a timeout makes `exact` throw instead of returning `nullopt` |
| `layout_alive` | a placed node is marked dead by a wrapped reference count |
| `layout_num_pos` | removing a PO leaves `num_pos` |
| `inverters_equivalent` | an output driven by an inverter that is pulled through a fanout becomes the constant 0 |
| `exact_entry_tiles` | under 2DDWave with border I/Os, inputs beyond the first diagonal start later than others, and their signals meet a clock cycle apart |

Other disagreements noticed in the code, without a run of their own:

* The postfix `++` of the iterator returns a copy whose `it` points into the
  vector of the original (`aspect_ratio_iterator.hpp:70`). Nobody uses it.
* With `TornReads`, a thread on a smaller size may be interrupted
  (`exact.hpp:2818`): `InterruptsSpareSmaller` then fails, which is why the
  theorems about it assume reads that are not torn.
* `fixed_size` sets where the iterator starts and no upper end
  (`exact.hpp:167`), unlike its documentation (`exact.hpp:75`); the command line
  sets `upper_bound` as well.
* A node created without a tile is not marked dead
  (`gate_level_layout.hpp:1526`), unlike its documentation (line 671).
* `assign_layout` passes over every node that drives an output, with its
  outgoing edges (`exact.hpp:2605`). If a gate reads such a node, which
  `fanout_substitution` with `substitute_po_signals` leaves possible, the gate
  gets the default signal and the layout is not valid. `ModelsAreLayouts`
  excepts these networks (`shared_output`). Two outputs on one node share a tile.
* A delay is assigned to the ground tile only (`exact.hpp:2670`) though it is
  counted for both wires of a crossing, and
  `critical_path_length_and_throughput` counts no delays at all.
* "rotated aspect ratios don't need to be explored" (`exact.hpp:258`) under open
  clocking: on hexagonal and shifted grids rows and columns are not alike, and
  that a size is satisfiable if its rotation is does not follow. `Satisfiable` of
  `ExactSizes` is that of Cartesian grids.
* ToPoliNano conflicts are stated when the second tile is added
  (`exact.hpp:2200`, 2269). On a solver extended by a row, a gate in the new row
  may be followed by one in the row above it, although "AND/OR/MAJ gates cannot
  be followed directly by an AND/OR/MAJ gate or a fan-out" (line 2249). If a
  scheme feeds tiles to the west, the same goes for a new column.
  `ReuseExact` says that nothing else is missed (`overlooked`).
* "linear schemes; no cycles by definition" (`exact.hpp:2412`): `2DDWAVE3` over
  hexagons, which the command line accepts, counts as linear by its name. A step to
  the upper left neighbour goes back by two zones there, modulo three one ahead,
  and (0,1), (0,2), (1,2) feed each other in a cycle, while the path constraints
  are left out. `NoPathCloses` excepts just this case (`steps_back`).
* `prevent_insufficiencies` is listed under symmetry breaking
  (`exact.hpp:2440`), but at the growing borders nothing else keeps a node off a
  tile that has too few neighbours.
* `inverter_balancing` does not handle fanouts of degree three, and a network
  that is not substituted makes its repetition endless. Its result may contain
  `and(x, x)`, which `orthogonal` places wrongly.
* `orthogonal` creates one output per node that drives outputs, in topological
  order: outputs are merged and permuted compared to the network. Gates read
  their fanins in the order of coordinates, which changes functions that are not
  symmetric. An input that nobody reads is reported as a missing connection and
  not supported by QCA ONE. Without inputs `num_pis() - 1` wraps around
  (`orthogonal.hpp:262`).
* `fanout_substitution` with degree 1 reads the front of an empty queue.
* Without border I/Os a pin may lie next to a tile it has nothing to do with. The
  patterns of pins reach across the whole tile, so that the free end of a pin may
  touch an unrelated wire, in ToPoliNano and in Bestagon. Both properties about
  these libraries except it (`JoinedAsTold`).
* Bestagon looks at four of the six neighbours of a hexagon
  (`sidb_bestagon_library.hpp:150`). Signals between neighbours of a row, which
  all schemes but `ROW` allow, are dropped without an exception if the remaining
  ports are those of a pattern. `DotsWiredAsTiles` is about `ROW`.
* A ToPoliNano hump of two magnets would be searched by `all_of` with its end
  before its beginning (`inml_topolinano_library.hpp:161`, 189);
  `MagnetsWiredAsTiles` includes that none is met. The range also leaves out the
  last but one magnet, in front of which nothing has been found in the way.
* `assign_cell_type` with another type over a pin leaves the cell among the
  inputs or outputs (`cell_level_layout.hpp:134`); no caller does that.

**Bounds.** Sizes of up to five tiles are ten aspect ratios, four pairs of
rotations and two squares. Under open clocking two threads then hold layouts of
different sizes at a time, the larger one first (4 and 5 tiles; with fewer a
rotation is always in between), and see every exit; what more threads and other
clocking schemes do is left to the proofs. All sets of satisfiable sizes are
initial states. The synchronous loop takes the iterator from 0 or 1 to 8 tiles: past the
square 4, whose root is a factor, and past sizes with one and with two pairs of
factors; starts and sizes beyond that are left to the proofs. Clients of the layout that call anything
at any time are left to the proofs as well, as are larger layouts; the two runs
that refute a claim about them need two tiles and three moves. The
construction has room for two PIs, a register output, a register input, a PO
and a gate in any order. `MaxNodes`, `MaxFanin`, `MaxMoves`, `MaxNum`, `MaxPIs`,
`MaxROs`, `MaxPlaced` bound the model only. `DeadBit` is 16 or 32 instead of
2^31, beyond any count a run reaches by increments, so that only a real
underflow touches it. Three gates give fanouts of three readers, reconvergent
paths, crossings and all colours of nodes; two transformations give every order
of substituting and balancing. For the encoding, the smallest sizes on which a
network has models, one refuted size before and one after them let a solver be
extended by columns, by rows and by both, at a corner too; delays of at most
`MaxDelay` = 1 cycle unbalance and balance two paths, and of all that balance
them the least sum is chosen. The layouts so found
contain bent, staircase and straight wires, couplers, crossings and gates in
either column of ToPoliNano, and humps to merge up and down. Tiles are symmetric where no property or action
distinguishes them.

**Fairness.** `ExactExploration` assumes weak fairness of every thread and of
the collecting loop: the operating system schedules threads, no mutex is held
across a wait, and Z3 answers on a finite instance. It does not assume that an
interrupt has an effect: Z3 may drop one that arrives outside of a check.
`ExactSynchronous` assumes that the single thread runs. The other modules state
no liveness; they may stop (no deadlock check), as their callers do.

## 4. Proofs

For every number of threads, sequence of aspect ratios, upper bound, scheme:

* `TypeCorrect` - the type invariant of the asynchronous exploration is
  inductive, with timeouts and torn reads. It includes that the interrupt loop
  stays inside `ti_list`.
* `WinnerIsDelivered`, `ContextsRegistered` - with timeouts and torn reads too. The
  first follows from `DInv`: a thread that has found a layout keeps it at the size
  it took, and the recorded size is that of a layout that is kept. The second
  from `NInv`: what is announced for a thread before it has entered its context is
  no aspect ratio, in the first of two loads as in the second, and the iterator
  is advanced before its first use, so that no result is as small.
* `SmallerFinish` - with timeouts, under `~TornReads`: a torn read interrupts a
  thread on a smaller size. From `FInv`: what a thread announces is never ahead of
  what it has, so that an interrupt which comes late still hits a size that is
  beaten.
* `Optimality` - under `~Timeouts` and `~TornReads`: a timeout loses sizes (see also
  `exact_throw`), and so does an interrupt of a smaller size. It follows from `IInv`,
  whose parts say: an announced size lies behind the iterator; an interrupted
  solver works on a size that is beaten; what a thread's control says about its
  size; the recorded result is held by a thread that has found it; every
  satisfiable size behind the iterator has been beaten or is in the hands of a
  thread (`Covered`), which is what makes optimality inductive; and what an
  answer says. The subtle cases are an interrupt for an earlier size that is
  still pending when a thread starts the next one, and the rotation of a size
  that another thread was given.
* `SynchronousTypes`, `SynchronousOptimality` - for the loop, with timeouts,
  from `SInv`: no satisfiable size has been passed. The type invariant alone is
  not inductive, as the iterator stays on its sequence only because the bound is
  checked first.
* `SynchronousImplementsSearch` - the loop implements `MinimalLayoutSearch`:
  skipping and refuting are `RuleOut`, a model found is `Accept`, returning is
  `Finish`, running out of time is `GiveUp`.

* `AsynchronousImplementsSearch` - so does the pool of threads, under
  `~Timeouts` and `~TornReads`. A candidate is open while it lies ahead of the
  iterator or is in the hands of a thread; skipping, an interrupt and a refutation
  are `RuleOut` at the moment the thread lets go of its size, `Report` of a better
  size is `Accept`, the last `Collect` is `Finish`, everything else is a stutter.
  Beyond `IInv` this needs that working threads hold distinct sizes: else one of
  them would rule out what another one is still to find.

For every start of the iterator:

* `EveryRatioVisited`, `RatiosVisitedOnce` - from `AInv`: what has been visited is
  exactly all ratios of the numbers passed and the factors of `num` up to `it`.
  The lemma that carries them is `FactorizeComplete`: the blocks that the loop
  over i emplaces are the ratios whose shorter side has i tiles, so that together
  they are all ratios, each once, although the loop stops at the root. It follows
  that every number has a factorization (`NextIsSuccessor`): the do-while of
  `next()` runs once.

For every set of tiles, number of nodes, children and moves, and every client:

* `LayoutTypes`, `MapsStayInverse`, `CountsStayExact`, `ConstantsStayResolved` -
  from `LInv`, whose core `Sound(strg)` holds between any two of the functions that
  an operation is made of: the maps agree in both directions, the constant 1 is on
  its tile and the constant 0 on its or nowhere, nodes that do not exist yet are
  nowhere, and the counters are the sizes of the sets they count. One lemma per function
  (`clear_tile`, `assign_node`, `kill_node`, ...) says what it changes. `CountsExact`
  is not inductive without the maps: `clear_tile` decrements for the node the one
  map names, whereas the sets are defined by the other.

For every number of PIs, ROs and nodes, built in the order of `LayoutConstruction`:

* `ConstructionKeepsAlive`, `ReferencesStayExact`, `IOStaysClassified`,
  `ReservationsLeaveNothing` - from `CInv`: `LInv`, and while inputs are reserved
  nothing else is in the layout (`Reserving`); inputs are the first nodes, PIs
  before ROs (`InputsFirst`); children and outputs are on occupied tiles
  (`ChildrenOccupied`, `OutputsListed`), so that a signal keeps naming the node it
  named when it was stored; `h1` is the number of references, plus the dead
  bit only for nodes nowhere (`CountsReferences`). Of `GateLevelLayout` alone, where
  clients may overwrite a tile that others read, `PlacedNodesAlive` is false, see
  `layout_alive`.

For layouts of every size, Cartesian, shifted and hexagonal (`IsLayout`):

* `LinearSchemesAcyclic` - under the linear schemes with three and four clocks no
  tiles feed each other in a cycle (`acyclic_flow`), for which `exact` relies on
  the name of the scheme. The tables of the code are shown to be a wave modulo
  the number of clocks (`StraightWaves`, `HexagonalWaves`); a neighbour is at most
  one step of the wave away, at most two for 2DDWave over hexagons
  (`CartesianNeighbours`, `HexagonalNeighbours`, by way of cube coordinates); so
  data only flows to tiles exactly one step ahead (`FlowAdvances`), and a tile
  farthest ahead feeds none of its set. With three clocks two steps back are one
  ahead: `LinearClocking` leaves out 2DDWave with three clocks over hexagons, for
  which there are cycles (section 3). It is the fact behind
  `LinearSchemesNeedNoPaths` below.
* `FlowIsMutual` - fanins are read along incoming zones, wires are placed along
  outgoing ones; the two agree for every scheme, overridden clock number and
  synchronization element, because neighbourhood is symmetric. For hexagons this
  is the round trip through cube coordinates, for rows and columns of either
  parity (`HexagonalSymmetric`).

For every network, clocking scheme, topology and choice of flags, and whatever
sizes one handler of `exact` is given in whatever order:

* `ReuseIsExact` - an extended solver is bound by what a new solver would be told
  for the size at hand. `ReuseExact` itself is not inductive: it compares the
  constraints in force with those of a new solver at the moment of a check, whereas
  the next size retracts some of them and restates others. The invariant
  `TreeInv` says of every stored state that its literals are older than the
  counter, that neither is among the negated ones (`IsState`), and that what is
  in force under its own two literals is what a new solver would be told with
  these literals (`Faithful`), up to `Passed` successions and `Spare` constraints:
  those that are redundant and stay so while the layout grows.
  The step is `Extending`, from `Carries`: for each of the generating functions,
  what of the smaller layout survives the negated literal, together with what is
  said for the added and updated tiles, is what would be said for the larger one.
  There is one lemma of this kind per function (`InstanceCarries` puts them together),
  all resting on one geometric fact: away from the border that moves, the
  neighbours and clocked zones of a tile are those of the smaller layout,
  on Cartesian and hexagonal grids of either parity, and at the moving border
  exactly the right literal guards what changes, at the corner too
  (`mk_as_if_se`). Two facts turned out to be needed that are easy to break:
  the counter `lc` gives an extended state a literal that it never had before, and
  `updated` is the whole old border. In `ReuseExact` both sides forget their literals;
  that literals do not influence what is said is `InstanceAlike`. The hard
  constraints may contain older hierarchies and degrees ("too early",
  "insufficient"): they are redundant for the larger size, which is why
  the property compares what is `essential`, and `NoModelLost` checks that the rest
  rules nothing out.
* `LinearSchemesNeedNoPaths` - `NoPathCloses`, from `TreeInv`, by which the size
  of the layout at hand is one of the sizes given, and `LinearSchemesAcyclic`.

Both are theorems of `TreeSpec`. The steps of `ExactEncoding` and `CellFlow` are
steps of `SolverTree` with more conjuncts, or leave its variables unchanged, or (the
phases of `CellFlow` behind "sat") change nothing of it but `phase`, to values other
than "check": both properties hold there as well, and `exact_encoding` checks them there.

Assumptions: `ProblemsAssumption` (sizes are pairs of numbers; ToPoliNano goes
with a shifted layout, as in `cli/cmd/physical_design/exact.hpp:118`; a scheme
that is linear by its name is one of those in `get_clocking_scheme`, and the
hexagonal 2DDWave is made for the arrangement of its layout, as
`twoddwave_hex_clocking<Lyt>` is), `SizesAssumption` (types), `RatiosAssumption` (areas never shrink,
no repetition: what the proofs about the iterator show of its sequence),
`ThreadsAssumption` and `SynchronousAssumption` (the finite cut of the sequence
reaches past the upper bound), `BoundsAssumption` (types), `LayoutAssumption` (the
constants have tiles of their own; there are fewer nodes and references than
2^31, from where on the code's 32-bit counters do wrap into the dead bit) and
`ConstructionAssumption` (types; nodes may have a child, as every output has one).
TLC evaluates them on every run.

Recursion over sequences (`FlattenSeq`, `Without`) is dealt with by the least
counterexample (`LeastNat`), which takes the place of induction: first that the
recursive function exists, then what it computes.

Only model-checked:

* termination: liveness is out of the prover's reach;
* `design_flow`: colouring, paths, delays and the repeated balancing are
  `RECURSIVE` operators, which the provers cannot be used with, and what a
  transformation keeps of a network's function is an induction over the network;
* of `exact_encoding` what is about models and layouts (`NoModelLost`,
  `ModelsAreLayouts`, `Synchronised`) and about cells (`MagnetsWiredAsTiles`,
  `DotsWiredAsTiles`): that a model is a layout is an argument about paths of any
  length, and the patterns of the libraries are finite tables that TLC goes
  through in full.

## 5. Not modelled, and the plan

* The `ortho_*` variants except for their registers (`LayoutConstruction`). They
  are experiments that resize the layout while they place, recolour nodes on the
  way and contain cases for single nodes of single benchmarks
  (`ortho_new.hpp:395`): a faithful model would be a transliteration. The command
  `ortho` calls one of them, the tests of `orthogonal` the algorithm modelled here.
* One-pass synthesis: the loop of `run_synchronously` around an external solver.
* The inner dots of Bestagon patterns: what they compute is physics. The wires of
  QCA ONE beside the centre of a side: no port asks for them.
* Readers and writers, printing, names, statistics, energy and area: formatting
  or closed formulas. `bounding_box` only serves them.
* Stores with several elements and copies of layouts that share storage.
* The time limits of the solvers in the tree (`exact.hpp:2699`).
* Constants in networks, registers in `TechnologyNetwork`.

Worth doing next: `orthogonal` with its colouring and path lengths as folds
instead of recursive operators, and with it a proof of `NothingOverwritten` and
`SizePredicted`, whose core is that each placement advances `latest_pos` beyond
all wires placed so far.
