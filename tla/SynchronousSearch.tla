------------------------- MODULE SynchronousSearch -------------------------
(***************************************************************************)
(* The loop of run_synchronously in algorithms/physical_design/exact.hpp   *)
(* with the iterator that hands it the aspect ratios                       *)
(* (algorithms/iter/aspect_ratio_iterator.hpp).  Position ari of the loop  *)
(* in the sequence Ratios is where the iterator stands.                    *)
(***************************************************************************)
EXTENDS ExactSynchronous, AspectRatioIterator

search_vars == <<vars, iterator_vars>>

\* The iterator is constructed for the first of the Ratios.
SearchInit == Init /\ IteratorInit

\* ++ari is the operator of the iterator; nothing else moves it.
SearchNext == Next /\ IF ari' = ari THEN UNCHANGED iterator_vars ELSE Increment

\* A solver call on a finite instance ends.
SearchSpec == SearchInit /\ [][SearchNext]_search_vars /\ WF_search_vars(SearchNext)
=============================================================================
