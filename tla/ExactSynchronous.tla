-------------------------- MODULE ExactSynchronous --------------------------
(***************************************************************************)
(* The single-threaded exploration of the exact physical design            *)
(* (algorithms/physical_design/exact.hpp, run_synchronously): one loop     *)
(* that asks one smt_handler about the aspect ratios in their order.       *)
(***************************************************************************)
EXTENDS ExactSizes

CONSTANTS
  Timeouts      \* whether ps.timeout can run out

(* The finite cut of the iterator's sequence reaches past UpperBound.      *)
ASSUME SynchronousAssumption ==
  /\ Timeouts \in BOOLEAN
  /\ Area(Len(Ratios)) > UpperBound

VARIABLES
  ari,       \* position of the aspect_ratio_iterator
  pc,        \* "head" of the loop, "solve", "found", "timeout" or "returned"
  lyt,       \* the size of the handler's layout
  outcome,   \* what exact() has done: "running", "layout" or "nullopt"
  delivered, \* the size of the layout returned, 0 if there is none
  sat        \* the aspect ratios whose SMT instance is satisfiable

vars == <<ari, pc, lyt, outcome, delivered, sat>>

Init ==
  /\ ari = 1
  /\ pc = "head"
  /\ lyt = 0
  /\ outcome = "running"
  /\ delivered = 0
  /\ sat \in {S \in SUBSET Bounded : Satisfiable(S)}

Return(what, size) ==
  /\ pc' = "returned"
  /\ outcome' = what
  /\ delivered' = size
  /\ UNCHANGED <<ari, lyt, sat>>

(* A slip: the loop has no end. *)
BoundIgnored == pc # "returned"

(* The loop condition ari <= ps.upper_bound compares the iterator's num,   *)
(* the number of tiles, with the bound.                                    *)
InBounds == Area(ari) <= UpperBound

Exhausted ==
  /\ pc = "head"
  /\ ~ InBounds
  /\ Return("nullopt", 0)

(* A slip: continue without ++ari. *)
SkipStuck ==
  /\ pc = "head"
  /\ InBounds
  /\ skippable(ari, lyt)
  /\ UNCHANGED vars

(* continue *)
Skip ==
  /\ pc = "head"
  /\ InBounds
  /\ skippable(ari, lyt)
  /\ ari' = ari + 1
  /\ UNCHANGED <<pc, lyt, outcome, delivered, sat>>

(* handler.update(ar) *)
Update ==
  /\ pc = "head"
  /\ InBounds
  /\ ~ skippable(ari, lyt)
  /\ lyt' = ari
  /\ pc' = "solve"
  /\ UNCHANGED <<ari, outcome, delivered, sat>>

(* handler.is_satisfiable() answers; store_solver_state if it is FALSE. *)
Solve ==
  /\ pc = "solve"
  /\ pc' = IF lyt \in sat THEN "found" ELSE "timeout"
  /\ UNCHANGED <<ari, lyt, outcome, delivered, sat>>

(* The statistics are taken from the layout, and it is returned. *)
Found ==
  /\ pc = "found"
  /\ Return("layout", lyt)

(* A slip: a check without an answer counts as "unsatisfiable" and the     *)
(* exploration goes on.                                                    *)
TimeoutIgnored ==
  /\ pc = "solve"
  /\ Timeouts
  /\ ari' = ari + 1
  /\ pc' = "head"
  /\ UNCHANGED <<lyt, outcome, delivered, sat>>

(* The check runs into the timeout that was set for it.  Whether Z3 throws *)
(* or answers "unknown", which is_satisfiable() takes for "unsatisfiable": *)
(* no time is left then, and update_timeout throws inside the try block.   *)
TimedOut ==
  /\ pc = "solve"
  /\ Timeouts
  /\ Return("nullopt", 0)

(* A slip: the number of tiles is advanced, not the aspect ratio. *)
AdvanceNumber ==
  /\ pc = "timeout"
  /\ ari' = CHOOSE k \in Positions : /\ Area(k) > Area(ari)
                                     /\ \A j \in Positions : Area(j) > Area(ari) => k <= j
  /\ pc' = "head"
  /\ UNCHANGED <<lyt, outcome, delivered, sat>>

(* update_timeout has time left, and the loop moves on: ++ari ... *)
Advance ==
  /\ pc = "timeout"
  /\ ari' = ari + 1
  /\ pc' = "head"
  /\ UNCHANGED <<lyt, outcome, delivered, sat>>

(* ... or it throws, which is caught. *)
TimeIsUp ==
  /\ pc = "timeout"
  /\ Timeouts
  /\ Return("nullopt", 0)

Terminated == pc = "returned" /\ UNCHANGED vars

Next ==
  \/ Exhausted \/ Skip \/ Update \/ Solve \/ Found \/ TimedOut \/ Advance
  \/ TimeIsUp \/ Terminated

Spec == Init /\ [][Next]_vars

(* A solver call on a finite instance ends. *)
FairSpec == Spec /\ WF_vars(Next)

-----------------------------------------------------------------------------
TypeOK ==
  /\ ari \in Positions
  /\ pc \in {"head", "solve", "found", "timeout", "returned"}
  /\ lyt \in 0..ari
  /\ outcome \in {"running", "layout", "nullopt"}
  /\ delivered \in 0..ari
  /\ sat \subseteq Bounded

(* "an optimal gate-level layout [...] will be found" (exact.hpp): what is *)
(* returned is satisfiable and as small as possible, even if time may run  *)
(* out, although a solver that gives up is treated like one that has       *)
(* refuted its instance.                                                   *)
SmallestReturned ==
  outcome = "layout" =>
    delivered \in sat /\ \A k \in sat : Area(delivered) <= Area(k)

(* The loop comes to an end. *)
Terminates == <>(pc = "returned")

(* The aspect ratios before ari are settled, and so is ari once the solver *)
(* has answered; all are once nullopt has been returned.                   *)
Open == {k \in Bounded : /\ outcome # "nullopt"
                         /\ k > ari \/ (k = ari /\ pc \in {"head", "solve"})}

(* The size of the layout at hand, if the solver has found one. *)
Best == IF pc = "found" \/ outcome = "layout" THEN lyt ELSE 0

Search == INSTANCE MinimalLayoutSearch WITH
  Candidates <- Bounded,
  MayGiveUp <- Timeouts,
  open <- Open,
  best <- Best,
  answer <- delivered,
  finished <- pc = "returned"

(* run_synchronously implements the search over all aspect ratios within   *)
(* the upper bound, the first one included: none is passed that could      *)
(* still be the answer, and when time runs out nothing is answered.        *)
ImplementsSearch == Search!Spec
=============================================================================
