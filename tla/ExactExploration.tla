-------------------------- MODULE ExactExploration --------------------------
(***************************************************************************)
(* The multi-threaded exploration of the exact physical design             *)
(* (algorithms/physical_design/exact.hpp, run_asynchronously and           *)
(* explore_asynchronously).  Worker threads take aspect ratios from one    *)
(* shared iterator and give each of them to an SMT solver of their own; a  *)
(* worker that finds a layout records its aspect ratio and interrupts the  *)
(* solvers of the workers on layouts at least as large.                    *)
(*                                                                         *)
(* Position 0 of ExactSizes, the default-constructed aspect ratio, is also *)
(* "no result" for the optional result_aspect_ratio.                       *)
(*                                                                         *)
(* The statistics counter num_aspect_ratios always equals ari - 1, and     *)
(* time_total is only read to decide that time is up, which the model      *)
(* leaves open: they are not variables.                                    *)
(***************************************************************************)
EXTENDS ExactSizes

CONSTANTS
  NumThreads,   \* ps.num_threads
  Timeouts,     \* whether ps.timeout can run out
  TornReads     \* whether the build reads a shared aspect ratio in two loads

Threads == 1..NumThreads

(* The finite cut of the iterator's sequence reaches far enough past       *)
(* UpperBound for every thread to see the end.                             *)
ASSUME ThreadsAssumption ==
  /\ NumThreads \in Nat \ {0}
  /\ {Timeouts, TornReads} \subseteq BOOLEAN
  /\ \A k \in Positions : k > Len(Ratios) - NumThreads => Area(k) > UpperBound

VARIABLES
  ari,       \* position of the shared aspect_ratio_iterator
  rar,       \* result_aspect_ratio, 0 if it has no value
  pc,        \* what each worker does next
  ar,        \* the aspect ratio a worker has taken
  war,       \* thread_info.worker_aspect_ratio, shared without a lock
  ctx,       \* whether thread_info.ctx has been set, shared without a lock
  lyt,       \* the size of the layout a worker's smt_handler holds
  scan,      \* the thread whose thread_info a worker looks at
  seen,      \* the worker_aspect_ratio seen by the first of two loads
  intr,      \* whether the context of a worker has a pending interrupt
  outcome,   \* what exact() has done: "running", "layout", "nullopt", "threw"
  delivered, \* the size of the layout returned, 0 for an empty one
  sat        \* the aspect ratios whose SMT instance is satisfiable

vars == <<ari, rar, pc, ar, war, ctx, lyt, scan, seen, intr, outcome,
          delivered, sat>>

(* Values of pc after which a worker's future is ready. *)
Ended == {"nullopt", "found", "threw"}

Working == {"compare", "publish", "solve", "report"}

PCs == {"start", "fetch", "timeout", "scan", "scan2"} \cup Working \cup Ended

-----------------------------------------------------------------------------
Init ==
  /\ ari = 1
  /\ rar = 0
  /\ pc = [t \in Threads |-> "start"]
  /\ ar = [t \in Threads |-> 0]
  /\ war = [t \in Threads |-> 0]
  /\ ctx = [t \in Threads |-> FALSE]
  /\ lyt = [t \in Threads |-> 0]
  /\ scan = [t \in Threads |-> 0]
  /\ seen = [t \in Threads |-> 0]
  /\ intr = [t \in Threads |-> FALSE]
  /\ outcome = "running"
  /\ delivered = 0
  /\ sat \in {S \in SUBSET Bounded : Satisfiable(S)}

Goto(t, label) == pc' = [pc EXCEPT ![t] = label]

(* A slip: the context is entered into a copy of the thread_info. *)
RegisterCopy(t) ==
  /\ pc[t] = "start"
  /\ Goto(t, "fetch")
  /\ UNCHANGED <<ari, rar, ar, war, ctx, lyt, scan, seen, intr, outcome,
                 delivered, sat>>

(* The worker enters its context into the list of thread_info. *)
Register(t) ==
  /\ pc[t] = "start"
  /\ ctx' = [ctx EXCEPT ![t] = TRUE]
  /\ Goto(t, "fetch")
  /\ UNCHANGED <<ari, rar, ar, war, lyt, scan, seen, intr, outcome,
                 delivered, sat>>

(* Under ari_mutex: ++ari; ar = *ari.  Then, on local data only, give up   *)
(* past the upper bound and skip what needs no solving.                    *)
Fetch(t) ==
  /\ pc[t] = "fetch"
  /\ ari < Len(Ratios)
  /\ ari' = ari + 1
  /\ ar' = [ar EXCEPT ![t] = ari + 1]
  /\ Goto(t, IF Area(ari + 1) > UpperBound THEN "nullopt"
             ELSE IF skippable(ari + 1, lyt[t]) THEN "fetch" ELSE "compare")
  /\ UNCHANGED <<rar, war, ctx, lyt, scan, seen, intr, outcome, delivered,
                 sat>>

(* A slip: the loop is not left when a result is available. *)
CompareSpin(t) ==
  /\ pc[t] = "compare"
  /\ Goto(t, IF rar # 0 /\ Area(rar) <= Area(ar[t]) THEN "compare"
             ELSE "publish")
  /\ UNCHANGED <<ari, rar, ar, war, ctx, lyt, scan, seen, intr, outcome,
                 delivered, sat>>

(* Under rar_mutex: stop if a result is available that is not larger. *)
Compare(t) ==
  /\ pc[t] = "compare"
  /\ Goto(t, IF rar # 0 /\ Area(rar) <= Area(ar[t]) THEN "nullopt"
             ELSE "publish")
  /\ UNCHANGED <<ari, rar, ar, war, ctx, lyt, scan, seen, intr, outcome,
                 delivered, sat>>

(* Without a lock: announce the aspect ratio, then resize the layout. *)
Publish(t) ==
  /\ pc[t] = "publish"
  /\ war' = [war EXCEPT ![t] = ar[t]]
  /\ lyt' = [lyt EXCEPT ![t] = ar[t]]
  /\ Goto(t, "solve")
  /\ UNCHANGED <<ari, rar, ar, ctx, scan, seen, intr, outcome, delivered, sat>>

(* handler.is_satisfiable() answers, and store_solver_state otherwise. *)
Solve(t) ==
  /\ pc[t] = "solve"
  /\ Goto(t, IF ar[t] \in sat THEN "report" ELSE "timeout")
  /\ UNCHANGED <<ari, rar, ar, war, ctx, lyt, scan, seen, intr, outcome,
                 delivered, sat>>

(* The check is interrupted or runs out of time.  The solver then either   *)
(* throws a z3::exception, which the worker catches to return nullopt, or  *)
(* answers "unknown", which is_satisfiable() treats like "unsatisfiable".  *)
GiveUp(t) ==
  /\ pc[t] = "solve"
  /\ intr[t] \/ Timeouts
  /\ intr' = [intr EXCEPT ![t] = FALSE]
  /\ Goto(t, "nullopt") \/ Goto(t, "timeout")
  /\ UNCHANGED <<ari, rar, ar, war, ctx, lyt, scan, seen, outcome, delivered,
                 sat>>

(* update_timeout(): an exception, outside of the try block, if no time is *)
(* left.                                                                   *)
UpdateTimeout(t) ==
  /\ pc[t] = "timeout"
  /\ Goto(t, "fetch") \/ (Timeouts /\ Goto(t, "threw"))
  /\ UNCHANGED <<ari, rar, ar, war, ctx, lyt, scan, seen, intr, outcome,
                 delivered, sat>>

(* A slip: the last layout found wins, not the smallest one. *)
ReportLast(t) ==
  /\ pc[t] = "report"
  /\ rar' = ar[t]
  /\ scan' = [scan EXCEPT ![t] = 1]
  /\ Goto(t, "scan")
  /\ UNCHANGED <<ari, ar, war, ctx, lyt, seen, intr, outcome, delivered, sat>>

(* Under rar_mutex: record the aspect ratio if it beats the recorded one. *)
Report(t) ==
  /\ pc[t] = "report"
  /\ IF rar = 0 \/ Area(rar) > Area(ar[t])
     THEN /\ rar' = ar[t]
          /\ scan' = [scan EXCEPT ![t] = 1]
          /\ Goto(t, "scan")
     ELSE Goto(t, "nullopt") /\ UNCHANGED <<rar, scan>>
  /\ UNCHANGED <<ari, ar, war, ctx, lyt, seen, intr, outcome, delivered, sat>>

(* A slip: workers on smaller layouts are interrupted instead. *)
InterruptSmaller(t, i, observed) ==
  IF observed <= Area(ar[t])
  THEN \/ intr' = [intr EXCEPT ![i] = TRUE]
       \/ pc[i] # "solve" /\ UNCHANGED intr
  ELSE UNCHANGED intr

(* The interrupt of one thread's context, given the area that was read.    *)
(* Z3 may drop the interrupt of a context that is not in a check.          *)
Interrupt(t, i, observed) ==
  IF Area(ar[t]) <= observed
  THEN \/ intr' = [intr EXCEPT ![i] = TRUE]
       \/ pc[i] # "solve" /\ UNCHANGED intr
  ELSE UNCHANGED intr

(* A slip: the loop runs past the end of ti_list. *)
NextScanPastEnd(t) ==
  IF scan[t] <= NumThreads
  THEN scan' = [scan EXCEPT ![t] = @ + 1] /\ Goto(t, "scan")
  ELSE UNCHANGED scan /\ Goto(t, "found")

(* The loop over ti_list moves to the next thread; the worker returns its  *)
(* layout after the last one.                                              *)
NextScan(t) ==
  IF scan[t] < NumThreads
  THEN scan' = [scan EXCEPT ![t] = @ + 1] /\ Goto(t, "scan")
  ELSE UNCHANGED scan /\ Goto(t, "found")

(* One round of the loop, the aspect ratio read in one load ... *)
Scan(t) ==
  /\ pc[t] = "scan"
  /\ ~ TornReads
  /\ Interrupt(t, scan[t], Area(war[scan[t]]))
  /\ NextScan(t)
  /\ UNCHANGED <<ari, rar, ar, war, ctx, lyt, seen, outcome, delivered, sat>>

(* ... or with its two fields in two loads, in either order. *)
ScanFirstLoad(t) ==
  /\ pc[t] = "scan"
  /\ TornReads
  /\ seen' = [seen EXCEPT ![t] = war[scan[t]]]
  /\ Goto(t, "scan2")
  /\ UNCHANGED <<ari, rar, ar, war, ctx, lyt, scan, intr, outcome, delivered,
                 sat>>

ScanSecondLoad(t) ==
  LET now == war[scan[t]]
  IN  /\ pc[t] = "scan2"
      /\ \/ Interrupt(t, scan[t], (X(seen[t]) + 1) * (Y(now) + 1))
         \/ Interrupt(t, scan[t], (X(now) + 1) * (Y(seen[t]) + 1))
      /\ NextScan(t)
      /\ UNCHANGED <<ari, rar, ar, war, ctx, lyt, seen, outcome, delivered,
                     sat>>

Worker(t) ==
  \/ Register(t) \/ Fetch(t) \/ Compare(t) \/ Publish(t) \/ Solve(t)
  \/ GiveUp(t) \/ UpdateTimeout(t) \/ Report(t)
  \/ Scan(t) \/ ScanFirstLoad(t) \/ ScanSecondLoad(t)

(* The layouts run_asynchronously accepts: returned by a worker and of the *)
(* width and height of the recorded aspect ratio.                          *)
Winners == {t \in Threads : /\ pc[t] = "found"
                            /\ X(lyt[t]) = X(rar) /\ Y(lyt[t]) = Y(rar)}

(* A slip: the first layout any future holds is returned. *)
CollectFirst ==
  /\ outcome = "running"
  /\ \A t \in Threads : pc[t] \in Ended
  /\ outcome' = IF rar = 0 THEN "nullopt" ELSE "layout"
  /\ delivered' = IF \E t \in Threads : pc[t] = "found"
                  THEN lyt[CHOOSE t \in Threads : pc[t] = "found"] ELSE 0
  /\ UNCHANGED <<ari, rar, pc, ar, war, ctx, lyt, scan, seen, intr, sat>>

(* run_asynchronously after its wait loop: f.get() rethrows what a worker  *)
(* threw, but is called only if there is a result.                         *)
Collect ==
  /\ outcome = "running"
  /\ \A t \in Threads : pc[t] \in Ended
  /\ outcome' = IF rar = 0 THEN "nullopt"
                ELSE IF \E t \in Threads : pc[t] = "threw" THEN "threw"
                ELSE "layout"
  /\ delivered' = IF outcome' = "layout" /\ Winners # {}
                  THEN lyt[CHOOSE t \in Winners : TRUE] ELSE 0
  /\ UNCHANGED <<ari, rar, pc, ar, war, ctx, lyt, scan, seen, intr, sat>>

(* exact() has returned. *)
Terminated == outcome # "running" /\ UNCHANGED vars

Next == (\E t \in Threads : Worker(t)) \/ Collect \/ Terminated

Spec == Init /\ [][Next]_vars

(* The operating system schedules every thread, and a solver call on a     *)
(* finite instance ends.                                                   *)
FairSpec ==
  /\ Spec
  /\ \A t \in Threads : WF_vars(Worker(t))
  /\ WF_vars(Collect)

-----------------------------------------------------------------------------
TypeOK ==
  /\ ari \in Positions
  /\ rar \in 0..ari
  /\ pc \in [Threads -> PCs]
  /\ ar \in [Threads -> 0..ari]
  /\ war \in [Threads -> 0..ari]
  /\ ctx \in [Threads -> BOOLEAN]
  /\ lyt \in [Threads -> 0..ari]
  /\ scan \in [Threads -> 0..NumThreads]
  /\ \A t \in Threads : pc[t] \in {"scan", "scan2"} => scan[t] \in Threads
  /\ seen \in [Threads -> 0..ari]
  /\ intr \in [Threads -> BOOLEAN]
  /\ outcome \in {"running", "layout", "nullopt", "threw"}
  /\ delivered \in 0..ari
  /\ sat \subseteq Bounded

(* A result at most as large as aspect ratio k has been recorded. *)
Beaten(k) == rar # 0 /\ Area(rar) <= Area(k)

(* "smaller ones may finish running" (explore_asynchronously): a solver    *)
(* that is working is interrupted only if a result at most as large as     *)
(* what it works on has been recorded.                                     *)
InterruptsSpareSmaller ==
  \A t \in Threads : pc[t] = "solve" /\ intr[t] => Beaten(ar[t])

(* The areas a worker may take the announced aspect ratio to have. *)
Observed(t) ==
  LET now == war[scan[t]]
  IN  IF pc[t] = "scan" THEN {Area(now)}
      ELSE {(X(seen[t]) + 1) * (Y(now) + 1), (X(now) + 1) * (Y(seen[t]) + 1)}

(* The context of a thread_info is dereferenced only after the thread it   *)
(* belongs to has entered it (no null pointer in the interrupt loop),      *)
(* whether its aspect ratio is read in one load or in two.                 *)
NoNullContext ==
  \A t \in Threads :
    /\ pc[t] \in {"scan", "scan2"}
    /\ \E area \in Observed(t) : Area(ar[t]) <= area
    => ctx[scan[t]]

(* A layout that exact() returns is the one whose aspect ratio was         *)
(* recorded, it satisfies the SMT instance, and it is within bounds; it is *)
(* never the empty layout the result is initialised with.                  *)
WinnerDelivered ==
  outcome = "layout" =>
    /\ delivered # 0
    /\ delivered = rar
    /\ delivered \in sat
    /\ Area(delivered) <= UpperBound

(* Optimality: among the aspect ratios behind the iterator's first one,    *)
(* none is satisfiable and smaller than the layout returned, whatever the  *)
(* interleaving of fetches, results and interrupts.                        *)
NoSmallerLayoutLost ==
  outcome # "running" =>
    \A k \in sat : k > 1 =>
      outcome = "layout" /\ Area(delivered) <= Area(k)

(* "each possible layout aspect ratio will be examined" (exact.hpp): the   *)
(* same, the first aspect ratio included.                                  *)
EveryRatioExamined ==
  outcome # "running" =>
    \A k \in sat : outcome = "layout" /\ Area(delivered) <= Area(k)

(* "std::nullopt in case a timeout or an upper bound was reached"          *)
(* (run_asynchronously): a timeout never makes exact() throw.              *)
TimeoutsDoNotThrow == outcome # "threw"

(* exact() returns: no worker waits for another one, and the interrupts    *)
(* and the upper bound end the exploration.                                *)
Terminates == <>(outcome # "running")

(* The aspect ratios not settled yet: those the iterator has not reached   *)
(* and those a worker is working on.                                       *)
Open == {k \in Bounded \ {1} :
           k > ari \/ \E t \in Threads : ar[t] = k /\ pc[t] \in Working}

Search == INSTANCE MinimalLayoutSearch WITH
  Candidates <- Bounded \ {1},
  MayGiveUp <- FALSE,
  sat <- sat \ {1},
  open <- Open,
  best <- rar,
  answer <- delivered,
  finished <- outcome # "running"

(* The exploration implements the search for a minimal layout: every step  *)
(* that drops an aspect ratio may drop it, and exact() answers the best.   *)
ImplementsSearch == Search!Spec
=============================================================================
