----------------------- MODULE ExactSynchronousProofs -----------------------
(***************************************************************************)
(* Proofs about ExactSynchronous for every sequence of aspect ratios,      *)
(* upper bound and clocking scheme, with and without timeouts: the layout  *)
(* returned is minimal, and the loop implements MinimalLayoutSearch.       *)
(***************************************************************************)
EXTENDS ExactSynchronous, ExactSizesProofs

-----------------------------------------------------------------------------
(* No satisfiable aspect ratio has been passed. *)
NonePassed == \A k \in sat : ari <= k

(* What is known at each point of the loop. *)
AtHead == pc = "head" => lyt \notin sat
InLoop == pc \in {"solve", "found", "timeout"} => lyt = ari /\ Area(ari) <= UpperBound
AtFound == pc = "found" \/ outcome = "layout" => lyt = ari /\ ari \in sat
AtTimeout == pc = "timeout" => ari \notin sat
AtReturn ==
  /\ outcome = "running" <=> pc # "returned"
  /\ delivered = IF outcome = "layout" THEN lyt ELSE 0

SInv ==
  /\ TypeOK
  /\ Satisfiable(sat)
  /\ NonePassed /\ AtHead /\ InLoop /\ AtFound /\ AtTimeout /\ AtReturn

(* The bound is checked before the iterator moves on: it never runs off    *)
(* the sequence.                                                           *)
LEMMA NextPosition ==
  ASSUME ari \in Positions, Area(ari) <= UpperBound
  PROVE  ari + 1 \in Positions
<1>1. Len(Ratios) \in Nat /\ UpperBound \in Nat
  BY SizesAssumption
<1>2. ari # Len(Ratios)
  <2>1. Area(Len(Ratios)) > UpperBound /\ Area(ari) \in Nat
    BY <1>1, SynchronousAssumption, AreaNat DEF Positions
  <2> QED
    BY <1>1, <2>1
<1> QED
  BY <1>1, <1>2 DEF Positions

(* smt_handler::skippable skips nothing that the solver could satisfy: the *)
(* last size it was asked about has been refuted, and its rotation with it.*)
LEMMA SkippedUnsatisfiable ==
  ASSUME TypeOK, Satisfiable(sat), lyt \notin sat, skippable(ari, lyt)
  PROVE  ari \notin sat
<1>0. Len(Ratios) \in Nat /\ ari \in Positions /\ lyt \in 0..ari
  BY SizesAssumption DEF TypeOK
<1>1. CASE TooSmall(ari)
  BY <1>1 DEF Satisfiable
<1>2. CASE Scheme = "OPEN" /\ Rotation(ari, lyt)
  <2>1. lyt # 0
    BY <1>2 DEF Rotation, X, Y
  <2>2. lyt \in Positions
    BY <1>0, <2>1 DEF Positions
  <2> QED
    BY <1>0, <1>2, <2>2 DEF Satisfiable
<1> QED
  BY <1>1, <1>2 DEF skippable

(* The exploration starts with nothing passed and nothing asked. *)
LEMMA InitSInv == Init => SInv
<1> SUFFICES ASSUME Init
             PROVE  SInv
  OBVIOUS
<1>1. Len(Ratios) \in Nat /\ Len(Ratios) >= 1
  BY SizesAssumption
<1>2. sat \subseteq Bounded /\ Satisfiable(sat)
  BY DEF Init
<1>3. \A k \in sat : k \in 1..Len(Ratios)
  BY <1>2 DEF Bounded, Positions
<1>4. TypeOK
  BY <1>1, <1>2 DEF Init, TypeOK, Positions
<1>5. NonePassed /\ AtHead
  BY <1>3 DEF Init, NonePassed, AtHead
<1> QED
  BY <1>2, <1>4, <1>5 DEF Init, SInv, InLoop, AtFound, AtTimeout, AtReturn

(* Moving on from an aspect ratio that is not satisfiable passes none. *)
LEMMA Pass ==
  ASSUME SInv, ari \notin sat, Area(ari) <= UpperBound, ari' = ari + 1,
         lyt' = lyt, outcome' = outcome, delivered' = delivered,
         sat' = sat, pc' = "head",
         pc # "returned", lyt \notin sat
  PROVE  SInv'
<1>0. Len(Ratios) \in Nat /\ ari \in 1..Len(Ratios)
  BY SizesAssumption DEF SInv, TypeOK, Positions
<1>1. ari + 1 \in Positions
  BY NextPosition DEF SInv, TypeOK
<1>2. TypeOK'
  <2>1. lyt \in 0..ari /\ delivered \in 0..ari
    BY DEF SInv, TypeOK
  <2>2. lyt \in 0..(ari + 1) /\ delivered \in 0..(ari + 1)
    BY <1>0, <2>1
  <2> QED
    BY <1>1, <2>2 DEF SInv, TypeOK
<1>3. NonePassed'
  <2> SUFFICES ASSUME NEW k \in sat
               PROVE  ari + 1 <= k
    BY DEF NonePassed
  <2>1. ari <= k /\ ari # k
    BY DEF SInv, NonePassed
  <2>2. k \in 1..Len(Ratios)
    BY DEF SInv, TypeOK, Bounded, Positions
  <2> QED
    BY <1>0, <2>1, <2>2
<1>4. Satisfiable(sat)'
  BY DEF SInv, Satisfiable
<1>5. AtReturn' /\ AtFound'
  BY DEF SInv, AtReturn, AtFound
<1> QED
  BY <1>2, <1>3, <1>4, <1>5 DEF SInv, AtHead, InLoop, AtTimeout

(* Returning leaves everything but the outcome alone. *)
LEMMA ReturnStep ==
  ASSUME SInv, NEW what \in {"layout", "nullopt"}, NEW size,
         Return(what, size), pc # "returned",
         size = IF what = "layout" THEN lyt ELSE 0,
         what = "layout" => pc = "found"
  PROVE  SInv'
<1> USE DEF Return
<1>0. Len(Ratios) \in Nat /\ ari \in 1..Len(Ratios) /\ lyt \in 0..ari
  BY SizesAssumption DEF SInv, TypeOK, Positions
<1>1. size \in 0..ari
  BY <1>0
<1>2. TypeOK'
  BY <1>1 DEF SInv, TypeOK
<1>3. AtFound' /\ AtReturn'
  BY DEF SInv, AtFound, AtReturn
<1>4. Satisfiable(sat)'
  BY DEF SInv, Satisfiable
<1> QED
  BY <1>2, <1>3, <1>4 DEF SInv, NonePassed, AtHead, InLoop, AtTimeout

(* SInv is inductive. *)
LEMMA SInvStep ==
  ASSUME SInv, [Next]_vars
  PROVE  SInv'
<1>1. CASE Exhausted
  BY <1>1, ReturnStep DEF Exhausted
<1>2. CASE Skip
  <2>1. ari \notin sat /\ lyt \notin sat
    BY <1>2, SkippedUnsatisfiable DEF SInv, AtHead, Skip
  <2> QED
    BY <1>2, <2>1, Pass DEF Skip, InBounds
<1>3. CASE Update
  <2>1. TypeOK'
    <3>1. Len(Ratios) \in Nat /\ ari \in 1..Len(Ratios) /\ ari \in 0..ari
      BY SizesAssumption DEF SInv, TypeOK, Positions
    <3> QED
      BY <1>3, <3>1 DEF Update, SInv, TypeOK, Positions
  <2>2. Satisfiable(sat)'
    BY <1>3 DEF SInv, Satisfiable, Update
  <2>3. AtFound' /\ AtReturn'
    BY <1>3 DEF Update, SInv, AtFound, AtReturn
  <2> QED
    BY <1>3, <2>1, <2>2, <2>3 DEF Update, InBounds, SInv, NonePassed, AtHead, InLoop, AtTimeout
<1>4. CASE Solve
  <2>1. TypeOK' /\ Satisfiable(sat)'
    BY <1>4 DEF Solve, SInv, TypeOK, Satisfiable
  <2>2. AtFound' /\ AtTimeout' /\ AtReturn'
    BY <1>4 DEF Solve, SInv, InLoop, AtFound, AtTimeout, AtReturn
  <2> QED
    BY <1>4, <2>1, <2>2 DEF Solve, SInv, NonePassed, AtHead, InLoop
<1>5. CASE Found
  BY <1>5, ReturnStep DEF Found
<1>6. CASE TimedOut
  BY <1>6, ReturnStep DEF TimedOut
<1>7. CASE Advance
  <2>1. ari \notin sat /\ lyt \notin sat /\ Area(ari) <= UpperBound
    BY <1>7 DEF Advance, SInv, AtTimeout, InLoop
  <2> QED
    BY <1>7, <2>1, Pass DEF Advance
<1>8. CASE TimeIsUp
  BY <1>8, ReturnStep DEF TimeIsUp
<1>9. CASE UNCHANGED vars
  BY <1>9 DEF vars, SInv, TypeOK, Satisfiable, NonePassed, AtHead, InLoop, AtFound,
              AtTimeout, AtReturn
<1> QED
  BY <1>1, <1>2, <1>3, <1>4, <1>5, <1>6, <1>7, <1>8, <1>9 DEF Next, Terminated

(* The inductive invariant holds throughout run_synchronously. *)
LEMMA SInvAlways == Spec => []SInv
  BY InitSInv, SInvStep, PTL DEF Spec

(* The iterator never runs off its sequence, the layout never has a size   *)
(* that was not taken from it: run_synchronously keeps its types.          *)
THEOREM SynchronousTypes == Spec => []TypeOK
<1>1. SInv => TypeOK
  BY DEF SInv
<1> QED
  BY <1>1, SInvAlways, PTL

(* A layout run_synchronously returns is satisfiable and of minimal area   *)
(* among the sizes from the first one of the iterator up to the upper      *)
(* bound, whether or not time may run out.                                 *)
THEOREM SynchronousOptimality == Spec => []SmallestReturned
<1>1. SInv => SmallestReturned
  <2> SUFFICES ASSUME SInv, outcome = "layout", NEW k \in sat
               PROVE  delivered \in sat /\ Area(delivered) <= Area(k)
    BY DEF SmallestReturned, SInv, AtFound, AtReturn
  <2>1. delivered = ari /\ ari \in sat /\ ari <= k
    BY DEF SInv, AtFound, AtReturn, NonePassed
  <2>2. ari \in 0..Len(Ratios) /\ k \in 0..Len(Ratios)
    BY SizesAssumption DEF SInv, TypeOK, Bounded, Positions
  <2> QED
    BY <2>1, <2>2, AreaMono
<1> QED
  BY <1>1, SInvAlways, PTL

-----------------------------------------------------------------------------
(* Refinement: how each step looks to MinimalLayoutSearch. *)

(* The exploration starts with every aspect ratio within bounds open. *)
LEMMA SearchInit == Init => Search!Init
<1> SUFFICES ASSUME Init
             PROVE  Search!Init
  OBVIOUS
<1>1. Open = Bounded
  BY SizesAssumption DEF Init, Open, Bounded, Positions
<1> QED
  BY <1>1 DEF Init, Search!Init, Best

(* An aspect ratio that is not satisfiable is dropped. *)
LEMMA Dropped ==
  ASSUME ari \in Open, ari \notin sat, Open' = Open \ {ari}, sat' = sat,
         Best' = Best, delivered' = delivered, pc # "returned", pc' # "returned"
  PROVE  Search!Next
<1>1. Search!RuleOut(ari)
  BY DEF Search!RuleOut
<1>2. ari \in Bounded
  BY DEF Open
<1> QED
  BY <1>1, <1>2 DEF Search!Next

(* The loop returns when nothing is open that could be better. *)
LEMMA Finished ==
  ASSUME SInv, NEW what \in {"layout", "nullopt"}, Return(what, Best),
         pc # "returned", what = "layout" <=> pc = "found", Open' = Open,
         \A k \in Open : Best # 0 /\ Area(Best) <= Area(k)
  PROVE  Search!Next
<1>1. Best' = Best
  BY DEF SInv, AtReturn, Best, Return
<1>2. Search!Finish
  BY <1>1 DEF Search!Finish, Search!Beaten, Return
<1> QED
  BY <1>2 DEF Search!Next

(* Returning nullopt because time is up gives the search up. *)
LEMMA GivenUp ==
  ASSUME SInv, Timeouts, pc \in {"solve", "timeout"}, Return("nullopt", 0)
  PROVE  Search!Next
<1>1. Best' = Best
  BY DEF SInv, AtReturn, Best, Return
<1>2. Open' = {}
  BY DEF Open, Return
<1>3. Search!GiveUp
  BY <1>1, <1>2 DEF Search!GiveUp, Return
<1> QED
  BY <1>3 DEF Search!Next

(* Every step of the loop is a step of the search, or changes nothing the  *)
(* search can see.                                                         *)
LEMMA SearchStep ==
  ASSUME SInv, [Next]_vars
  PROVE  [Search!Next]_Search!vars
<1>0. /\ Len(Ratios) \in Nat /\ UpperBound \in Nat
      /\ ari \in 1..Len(Ratios) /\ Area(ari) \in Nat
  BY SizesAssumption, AreaNat DEF SInv, TypeOK, Positions
<1>1. CASE Exhausted
  <2>1. ASSUME NEW k \in Bounded
        PROVE  ~ (k >= ari)
    <3>1. k \in 1..Len(Ratios) /\ Area(k) <= UpperBound
      BY DEF Bounded, Positions
    <3>2. k >= ari => Area(ari) <= Area(k)
      BY <1>0, <3>1, AreaMono
    <3>3. Area(k) \in Nat /\ Area(ari) > UpperBound
      BY <1>0, <1>1, <3>1, AreaNat DEF Exhausted, InBounds
    <3> QED
      BY <1>0, <3>1, <3>2, <3>3
  <2>2. Open = {} /\ Open' = {}
    <3>1. \A k \in Bounded : ~ (k > ari) /\ k # ari
      <4>1. \A k \in Bounded : k \in Nat
        BY <1>0 DEF Bounded, Positions
      <4> QED
        BY <1>0, <2>1, <4>1
    <3> QED
      BY <1>1, <3>1 DEF Open, Exhausted, Return
  <2>3. Best = 0
    BY <1>1 DEF SInv, AtReturn, Best, Exhausted
  <2> QED
    BY <1>1, <2>2, <2>3, Finished DEF Exhausted
<1>2. CASE Skip
  <2>1. ari \notin sat
    BY <1>2, SkippedUnsatisfiable DEF SInv, AtHead, Skip
  <2>2. ari \in Bounded /\ ari \in Open
    BY <1>0, <1>2 DEF Skip, InBounds, Bounded, Positions, Open, SInv, AtReturn
  <2>3. Open' = Open \ {ari}
    <3>1. \A k \in Bounded : k \in Nat
      BY <1>0 DEF Bounded, Positions
    <3> QED
      BY <1>0, <1>2, <3>1 DEF Open, Skip
  <2> QED
    BY <1>2, <2>1, <2>2, <2>3, Dropped DEF Skip, Best
<1>3. CASE Update
  <2>1. Open' = Open /\ Best' = Best
    BY <1>3 DEF Update, Open, Best, SInv, AtReturn
  <2> QED
    BY <1>3, <2>1 DEF Update, Search!vars
<1>4. CASE Solve
  <2>1. lyt = ari /\ ari \in Bounded /\ ari \in Open /\ Best = 0 /\ outcome = "running"
    BY <1>0, <1>4 DEF Solve, SInv, InLoop, AtReturn, Bounded, Positions, Open, Best
  <2>2. Open' = Open \ {ari}
    <3>1. \A k \in Bounded : k \in Nat
      BY <1>0 DEF Bounded, Positions
    <3> QED
      BY <1>0, <1>4, <3>1 DEF Open, Solve
  <2>3. CASE ari \in sat
    <3>1. Best' = ari
      BY <1>4, <2>1, <2>3 DEF Best, Solve
    <3>2. Search!Accept(ari)
      BY <1>4, <2>1, <2>2, <2>3, <3>1 DEF Search!Accept, Search!Beaten, Solve
    <3> QED
      BY <2>1, <3>2 DEF Search!Next
  <2>4. CASE ari \notin sat
    <3>1. Best' = Best
      BY <1>4, <2>1, <2>4 DEF Best, Solve
    <3> QED
      BY <1>4, <2>1, <2>2, <2>4, <3>1, Dropped DEF Solve
  <2> QED
    BY <2>3, <2>4
<1>5. CASE Found
  <2>1. Best = lyt /\ lyt = ari
    BY <1>5 DEF Found, Best, SInv, InLoop
  <2>2. Open' = Open
    BY <1>5 DEF Found, Return, Open, SInv, AtReturn
  <2>3. ASSUME NEW k \in Open
        PROVE  Best # 0 /\ Area(Best) <= Area(k)
    <3>1. k > ari /\ k \in 1..Len(Ratios)
      BY <1>5 DEF Found, Open, Bounded, Positions
    <3> QED
      BY <1>0, <2>1, <3>1, AreaMono
  <2> QED
    BY <1>5, <2>1, <2>2, <2>3, Finished DEF Found
<1>6. CASE Advance
  <2>1. Open' = Open
    <3>1. \A k \in Bounded : k \in Nat
      BY <1>0 DEF Bounded, Positions
    <3> QED
      BY <1>0, <1>6, <3>1 DEF Open, Advance
  <2>2. Best' = Best
    BY <1>6 DEF Best, Advance
  <2> QED
    BY <1>6, <2>1, <2>2 DEF Advance, Search!vars
<1>7. CASE TimedOut
  BY <1>7, GivenUp DEF TimedOut
<1>8. CASE TimeIsUp
  BY <1>8, GivenUp DEF TimeIsUp
<1>9. CASE UNCHANGED vars
  BY <1>9 DEF vars, Search!vars, Open, Best
<1> QED
  BY <1>1, <1>2, <1>3, <1>4, <1>5, <1>6, <1>7, <1>8, <1>9 DEF Next, Terminated

(* run_synchronously implements the search for a minimal layout over all   *)
(* aspect ratios within the upper bound: it drops none that could still be *)
(* the answer, what it answers is the best, and it answers nothing only if *)
(* there is nothing or time has run out.                                   *)
THEOREM SynchronousImplementsSearch == Spec => ImplementsSearch
<1>1. SInv /\ [Next]_vars => [Search!Next]_Search!vars
  BY SearchStep
<1> QED
  BY <1>1, SearchInit, SInvAlways, PTL DEF Spec, ImplementsSearch, Search!Spec
=============================================================================
