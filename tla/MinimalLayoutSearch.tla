------------------------ MODULE MinimalLayoutSearch ------------------------
(***************************************************************************)
(* What the exact physical design promises: "an optimal gate-level layout  *)
(* for a given logic network will be found under constraints" (exact.hpp). *)
(* A set of candidate aspect ratios is searched for one of minimal area    *)
(* that the solver can satisfy.  A candidate may be dropped only when it   *)
(* cannot be satisfied or when something at most as large has been found.  *)
(***************************************************************************)
EXTENDS Naturals

CONSTANTS
  Candidates,   \* the aspect ratios to search, as positions 1, 2, ...
  Area(_),      \* the number of tiles of a candidate
  MayGiveUp     \* whether time may run out

VARIABLES
  sat,          \* the satisfiable candidates; never changes
  open,         \* candidates that are not settled yet
  best,         \* the best satisfiable candidate so far, 0 if there is none
  answer,       \* the candidate whose layout is returned, 0 if there is none
  finished      \* whether the search has answered

vars == <<sat, open, best, answer, finished>>

Beaten(k) == best # 0 /\ Area(best) <= Area(k)

Init ==
  /\ sat \subseteq Candidates
  /\ open = Candidates
  /\ best = 0
  /\ answer = 0
  /\ finished = FALSE

RuleOut(k) ==
  /\ k \in open
  /\ k \notin sat \/ Beaten(k)
  /\ open' = open \ {k}
  /\ UNCHANGED <<sat, best, answer, finished>>

Accept(k) ==
  /\ k \in open \cap sat
  /\ ~ Beaten(k)
  /\ best' = k
  /\ open' = open \ {k}
  /\ UNCHANGED <<sat, answer, finished>>

Finish ==
  /\ ~ finished
  /\ \A k \in open : Beaten(k)
  /\ finished' = TRUE
  /\ answer' = best
  /\ UNCHANGED <<sat, open, best>>

(* "std::nullopt in case a timeout [...] was reached": no second best. *)
GiveUp ==
  /\ MayGiveUp
  /\ ~ finished
  /\ finished' = TRUE
  /\ answer' = 0
  /\ open' = {}
  /\ UNCHANGED <<sat, best>>

Next ==
  \/ \E k \in Candidates : RuleOut(k) \/ Accept(k)
  \/ Finish
  \/ GiveUp

Spec == Init /\ [][Next]_vars

=============================================================================
