----------------------- MODULE ExactExplorationProofs -----------------------
(***************************************************************************)
(* Proofs about ExactExploration for every number of threads, sequence of  *)
(* aspect ratios, upper bound and clocking scheme.                         *)
(*                                                                         *)
(* TypeOK is inductive as it stands.  The other invariants are not: that   *)
(* no smaller layout is lost depends on what every thread has done with    *)
(* every aspect ratio it took, which IInv records.                         *)
(***************************************************************************)
EXTENDS ExactExploration, ExactSizesProofs

-----------------------------------------------------------------------------
(* The loop over ti_list never leaves the list (explore_asynchronously). *)
LEMMA NextScanType ==
  ASSUME TypeOK, NEW t \in Threads, scan[t] \in Threads, NextScan(t)
  PROVE  /\ scan' \in [Threads -> 0..NumThreads]
         /\ pc' \in [Threads -> PCs]
         /\ \A i \in Threads : pc'[i] \in {"scan", "scan2"} => scan'[i] \in Threads
<1>0. NumThreads \in Nat \ {0}
  BY ThreadsAssumption
<1>1. CASE scan[t] < NumThreads
  <2>1. scan' = [scan EXCEPT ![t] = scan[t] + 1] /\ pc' = [pc EXCEPT ![t] = "scan"]
    BY <1>1 DEF NextScan, Goto
  <2>2. scan[t] + 1 \in Threads /\ scan[t] + 1 \in 0..NumThreads
    BY <1>0, <1>1 DEF Threads
  <2>3. scan' \in [Threads -> 0..NumThreads]
    BY <2>1, <2>2 DEF TypeOK
  <2>4. pc' \in [Threads -> PCs]
    BY <2>1 DEF TypeOK, PCs
  <2>5. ASSUME NEW i \in Threads, pc'[i] \in {"scan", "scan2"}
        PROVE  scan'[i] \in Threads
    <3>1. CASE i = t
      BY <2>1, <2>2, <3>1 DEF TypeOK
    <3>2. CASE i # t
      BY <2>1, <2>5, <3>2 DEF TypeOK
    <3> QED
      BY <3>1, <3>2
  <2> QED
    BY <2>3, <2>4, <2>5
<1>2. CASE ~ (scan[t] < NumThreads)
  BY <1>0, <1>2 DEF NextScan, Goto, TypeOK, PCs, Ended
<1> QED
  BY <1>1, <1>2

(* The step behind TypeCorrect: no action leaves the types. *)
LEMMA TypeStep ==
  ASSUME TypeOK, [Next]_vars
  PROVE  TypeOK'
<1>0. Len(Ratios) \in Nat /\ Len(Ratios) >= 1 /\ NumThreads \in Nat \ {0}
  BY ThreadsAssumption, SizesAssumption
<1>a. 1 \in Threads /\ 1 \in 0..NumThreads
  BY <1>0 DEF Threads
<1> USE <1>0, <1>a DEF TypeOK, Positions
<1>1. ASSUME NEW t \in Threads, Register(t)
      PROVE  TypeOK'
  BY <1>1 DEF Register, Goto, PCs
<1>2. ASSUME NEW t \in Threads, Fetch(t)
      PROVE  TypeOK'
  <2>1. PICK label \in {"nullopt", "fetch", "compare"} : Goto(t, label)
    BY <1>2 DEF Fetch
  <2>0. ari' = ari + 1 /\ ari < Len(Ratios) /\ ari \in 1..Len(Ratios)
    BY <1>2 DEF Fetch
  <2>2. ari' = ari + 1 /\ ari' \in Positions /\ \A k \in 0..ari : k \in 0..ari'
    BY <1>0, <2>0
  <2>3. ar' \in [Threads -> 0..ari']
    <3>0. 0..ari \subseteq 0..ari' /\ ari' \in 0..ari'
      <4> HIDE <1>0, <1>a DEF TypeOK, Positions
      <4> QED
        BY <2>0, <2>2
    <3>1. ar \in [Threads -> 0..ari'] /\ ari' \in 0..ari'
      <4>1. ar \in [Threads -> 0..ari]
        OBVIOUS
      <4> HIDE <1>0, <1>a DEF TypeOK, Positions
      <4> QED
        BY <3>0, <4>1
    <3>2. ar' = [ar EXCEPT ![t] = ari']
      BY <1>2 DEF Fetch
    <3> QED
      BY <3>1, <3>2
  <2>4. /\ pc' \in [Threads -> PCs]
        /\ \A i \in Threads : pc'[i] \in {"scan", "scan2"} => pc'[i] = pc[i]
    BY <2>1 DEF Goto, PCs, Working, Ended
  <2> QED
    BY <1>2, <2>2, <2>3, <2>4 DEF Fetch
<1>3. ASSUME NEW t \in Threads, Compare(t)
      PROVE  TypeOK'
  BY <1>3 DEF Compare, Goto, PCs, Working, Ended
<1>4. ASSUME NEW t \in Threads, Publish(t)
      PROVE  TypeOK'
  BY <1>4 DEF Publish, Goto, PCs, Working
<1>5. ASSUME NEW t \in Threads, Solve(t)
      PROVE  TypeOK'
  BY <1>5 DEF Solve, Goto, PCs, Working
<1>6. ASSUME NEW t \in Threads, GiveUp(t)
      PROVE  TypeOK'
  BY <1>6 DEF GiveUp, Goto, PCs, Ended
<1>7. ASSUME NEW t \in Threads, UpdateTimeout(t)
      PROVE  TypeOK'
  BY <1>7 DEF UpdateTimeout, Goto, PCs, Ended
<1>8. ASSUME NEW t \in Threads, Report(t)
      PROVE  TypeOK'
  <2>1. ASSUME rar' = ar[t], scan' = [scan EXCEPT ![t] = 1], Goto(t, "scan")
        PROVE  TypeOK'
    <3>1. /\ scan' \in [Threads -> 0..NumThreads]
          /\ \A i \in Threads : scan[i] \in Threads => scan'[i] \in Threads
          /\ scan'[t] \in Threads
      BY <2>1
    <3>2. /\ pc' \in [Threads -> PCs]
          /\ \A i \in Threads \ {t} : pc'[i] = pc[i]
      BY <2>1 DEF Goto, PCs
    <3> QED
      BY <1>8, <2>1, <3>1, <3>2 DEF Report
  <2>2. ASSUME UNCHANGED <<rar, scan>>, Goto(t, "nullopt")
        PROVE  TypeOK'
    BY <1>8, <2>2 DEF Report, Goto, PCs, Ended
  <2> QED
    BY <1>8, <2>1, <2>2 DEF Report
<1>9. ASSUME NEW t \in Threads, Scan(t)
      PROVE  TypeOK'
  <2>1. intr' \in [Threads -> BOOLEAN]
    BY <1>9 DEF Scan, Interrupt
  <2>2. NextScan(t) /\ scan[t] \in Threads
    BY <1>9 DEF Scan
  <2>3. /\ scan' \in [Threads -> 0..NumThreads]
        /\ pc' \in [Threads -> PCs]
        /\ \A i \in Threads : pc'[i] \in {"scan", "scan2"} => scan'[i] \in Threads
    BY <2>2, NextScanType
  <2> QED
    BY <1>9, <2>1, <2>3 DEF Scan
<1>10. ASSUME NEW t \in Threads, ScanFirstLoad(t)
       PROVE  TypeOK'
  BY <1>10 DEF ScanFirstLoad, Goto, PCs
<1>11. ASSUME NEW t \in Threads, ScanSecondLoad(t)
       PROVE  TypeOK'
  <2>1. intr' \in [Threads -> BOOLEAN]
    BY <1>11 DEF ScanSecondLoad, Interrupt
  <2>2. NextScan(t) /\ scan[t] \in Threads
    BY <1>11 DEF ScanSecondLoad
  <2>3. /\ scan' \in [Threads -> 0..NumThreads]
        /\ pc' \in [Threads -> PCs]
        /\ \A i \in Threads : pc'[i] \in {"scan", "scan2"} => scan'[i] \in Threads
    BY <2>2, NextScanType
  <2> QED
    BY <1>11, <2>1, <2>3 DEF ScanSecondLoad
<1>12. ASSUME Collect
       PROVE  TypeOK'
  <2>1. Winners # {} => (CHOOSE t \in Winners : TRUE) \in Threads
    BY DEF Winners
  <2>2. delivered' \in 0..ari
    BY <1>12, <2>1 DEF Collect
  <2> QED
    BY <1>12, <2>2 DEF Collect
<1>13. ASSUME Terminated \/ UNCHANGED vars
       PROVE  TypeOK'
  BY <1>13 DEF Terminated, vars
<1> QED
  BY <1>1, <1>2, <1>3, <1>4, <1>5, <1>6, <1>7, <1>8, <1>9, <1>10, <1>11,
     <1>12, <1>13 DEF Next, Worker

(* Every number of the state stays a position the iterator has reached,    *)
(* the loop over ti_list stays within the list, and every worker stays     *)
(* within the control flow of explore_asynchronously, timeouts and torn    *)
(* reads included.                                                         *)
THEOREM TypeCorrect == Spec => []TypeOK
<1>0. Len(Ratios) \in Nat /\ Len(Ratios) >= 1 /\ NumThreads \in Nat \ {0}
  BY ThreadsAssumption, SizesAssumption
<1>1. Init => TypeOK
  BY <1>0 DEF Init, TypeOK, Positions, PCs, Threads
<1>2. TypeOK /\ [Next]_vars => TypeOK'
  BY TypeStep
<1> QED
  BY <1>1, <1>2, PTL DEF Spec

-----------------------------------------------------------------------------
(***************************************************************************)
(* The inductive invariant of an exploration that neither runs out of time *)
(* nor reads a shared aspect ratio in two loads.                           *)
(***************************************************************************)

(* The size k needs no further work. *)
Settled(k) == k \in sat => Beaten(k)

(* A worker's announced aspect ratio is never ahead of the one it has. *)
AnnouncedBehind == \A t \in Threads : war[t] <= ar[t]

(* Interrupts hit only workers whose aspect ratio is beaten. *)
InterruptedBeaten == \A t \in Threads : intr[t] => Beaten(ar[t])

(* What is known about a worker at each point of its control flow. *)
ControlOf(t) ==
  /\ pc[t] \notin {"scan2", "threw"}
  /\ pc[t] = "start" => ar[t] = 0 /\ lyt[t] = 0
  /\ pc[t] # "start" => ctx[t]
  /\ pc[t] \in Working \cup {"timeout", "scan", "found"} => ar[t] > 1
  /\ pc[t] \in {"solve", "report", "timeout", "scan", "found"} => lyt[t] = ar[t]
  /\ pc[t] = "report" => ar[t] \in sat
  /\ pc[t] \in {"scan", "found"} => Beaten(ar[t])
  /\ pc[t] = "nullopt" => Area(ar[t]) > UpperBound \/ Beaten(ar[t])
  /\ pc[t] \in {"fetch", "timeout"} /\ lyt[t] # 0 => Settled(lyt[t])

Control == \A t \in Threads : ControlOf(t)

(* The recorded aspect ratio is satisfiable and its worker keeps the layout. *)
ResultHeld ==
  rar # 0 => /\ rar \in sat
             /\ \E t \in Threads : /\ pc[t] \in {"scan", "found"}
                                   /\ ar[t] = rar

(* Every size taken from the iterator is settled or being worked on. *)
Covered ==
  \A k \in sat : 1 < k /\ k <= ari =>
    Beaten(k) \/ \E t \in Threads : ar[t] = k /\ pc[t] \in Working

(* What exact() has returned agrees with the recorded aspect ratio. *)
Answered ==
  outcome # "running" =>
    /\ \A t \in Threads : pc[t] \in Ended
    /\ outcome = IF rar = 0 THEN "nullopt" ELSE "layout"
    /\ delivered = rar

IInv ==
  /\ TypeOK
  /\ Satisfiable(sat)
  /\ AnnouncedBehind
  /\ InterruptedBeaten
  /\ Control
  /\ ResultHeld
  /\ Covered
  /\ Answered

(* Every position of the state has an area, and areas grow with positions. *)
LEMMA StateAreas ==
  ASSUME TypeOK
  PROVE  /\ \A k \in 0..ari : Area(k) \in Nat
         /\ \A j, k \in 0..ari : j <= k => Area(j) <= Area(k)
         /\ rar \in 0..ari
         /\ \A t \in Threads : ar[t] \in 0..ari /\ war[t] \in 0..ari /\ lyt[t] \in 0..ari
<1>1. \A k \in 0..ari : k \in 0..Len(Ratios)
  BY SizesAssumption DEF TypeOK, Positions
<1> QED
  BY <1>1, AreaNat, AreaMono DEF TypeOK

(* A step of worker t that only changes the state of t, and records at     *)
(* most a better result, keeps what is known about the other workers.      *)
LEMMA OthersKeepControl ==
  ASSUME Control, NEW t \in Threads,
         \A i \in Threads \ {t} : /\ pc'[i] = pc[i] /\ ar'[i] = ar[i]
                                  /\ lyt'[i] = lyt[i] /\ ctx'[i] = ctx[i],
         sat' = sat,
         \A i \in Threads \ {t} : /\ Beaten(ar[i]) => Beaten(ar[i])'
                                  /\ Beaten(lyt[i]) => Beaten(lyt[i])',
         ControlOf(t)'
  PROVE  Control'
<1> SUFFICES ASSUME NEW i \in Threads, i # t
             PROVE  ControlOf(i)'
  BY DEF Control
<1> QED
  BY DEF Control, ControlOf, Settled

(* A step of worker t that neither takes an aspect ratio nor records one   *)
(* preserves the invariant if it gives up no unsettled aspect ratio, keeps *)
(* a recorded layout, and interrupts only what is beaten.                  *)
LEMMA LocalStep ==
  ASSUME IInv, TypeOK', NEW t \in Threads, NEW label,
         pc[t] \notin Ended,
         pc' = [pc EXCEPT ![t] = label],
         UNCHANGED <<ari, rar, ar, sat, outcome, delivered>>,
         \A i \in Threads \ {t} : lyt'[i] = lyt[i] /\ ctx'[i] = ctx[i],
         \A i \in Threads : war'[i] \in {war[i], ar[i]},
         \A i \in Threads : intr'[i] => intr[i] \/ Beaten(ar[i]),
         pc[t] = "scan" => label \in {"scan", "found"},
         pc[t] \in Working /\ label \notin Working => Settled(ar[t]),
         ControlOf(t)'
  PROVE  IInv'
<1>0. /\ \A i \in Threads \ {t} : pc'[i] = pc[i]
      /\ pc'[t] = label
      /\ \A k : Beaten(k)' <=> Beaten(k)
  BY DEF IInv, TypeOK, Beaten
<1>1. Satisfiable(sat)'
  BY DEF IInv, Satisfiable
<1>2. AnnouncedBehind'
  BY StateAreas DEF IInv, AnnouncedBehind
<1>3. InterruptedBeaten'
  BY <1>0 DEF IInv, InterruptedBeaten, Beaten
<1>4. Control'
  BY <1>0, OthersKeepControl DEF IInv, Beaten
<1>5. ResultHeld'
  <2> SUFFICES ASSUME rar # 0
               PROVE  \E i \in Threads : pc'[i] \in {"scan", "found"} /\ ar[i] = rar
    BY DEF IInv, ResultHeld
  <2>1. PICK i \in Threads : pc[i] \in {"scan", "found"} /\ ar[i] = rar
    BY DEF IInv, ResultHeld
  <2>2. pc'[i] \in {"scan", "found"}
    BY <1>0, <2>1 DEF Ended
  <2> QED
    BY <2>1, <2>2
<1>6. Covered'
  <2> SUFFICES ASSUME NEW k \in sat, 1 < k, k <= ari, ~ Beaten(k)
               PROVE  \E i \in Threads : ar[i] = k /\ pc'[i] \in Working
    BY <1>0 DEF Covered, Beaten
  <2>1. PICK i \in Threads : ar[i] = k /\ pc[i] \in Working
    BY DEF IInv, Covered
  <2>2. pc'[i] \in Working
    BY <1>0, <2>1 DEF Settled
  <2> QED
    BY <2>1, <2>2
<1>7. Answered'
  BY DEF IInv, Answered
<1> QED
  BY <1>1, <1>2, <1>3, <1>4, <1>5, <1>6, <1>7 DEF IInv

(* smt_handler::skippable skips nothing that could still be the answer: a  *)
(* skipped rotation is settled because the worker has settled the size it  *)
(* rotates.                                                                *)
LEMMA SkippedSettled ==
  ASSUME IInv, NEW t \in Threads, pc[t] = "fetch", ari < Len(Ratios),
         skippable(ari + 1, lyt[t])
  PROVE  Settled(ari + 1)
<1> DEFINE k == ari + 1
<1>a. lyt[t] \in 0..ari /\ ari \in 1..Len(Ratios) /\ Len(Ratios) \in Nat
  BY SizesAssumption DEF IInv, TypeOK, Positions
<1>0. k \in Positions /\ k \in 0..Len(Ratios) /\ lyt[t] \in 0..Len(Ratios)
  BY <1>a DEF Positions
<1>1. CASE TooSmall(k)
  BY <1>1 DEF IInv, Satisfiable, Settled
<1>2. CASE Scheme = "OPEN" /\ Rotation(k, lyt[t])
  <2>1. lyt[t] # 0
    BY <1>2 DEF Rotation, X, Y
  <2>2. lyt[t] \in Positions /\ lyt[t] \in 0..Len(Ratios)
    BY <1>a, <2>1 DEF Positions
  <2>3. Settled(lyt[t])
    BY <2>1 DEF IInv, Control, ControlOf
  <2>4. k \in sat => lyt[t] \in sat
    BY <1>0, <1>2, <2>2 DEF IInv, Satisfiable
  <2>5. Area(k) = Area(lyt[t])
    BY <1>0, <1>2, <2>2, RotationArea
  <2> QED
    BY <2>3, <2>4, <2>5 DEF Settled, Beaten
<1> QED
  BY <1>1, <1>2 DEF skippable

(* Taking the next aspect ratio (under ari_mutex) preserves the invariant: *)
(* what is skipped or beyond the upper bound is settled.                   *)
LEMMA FetchStep ==
  ASSUME IInv, TypeOK', NEW t \in Threads, Fetch(t)
  PROVE  IInv'
<1> DEFINE k == ari + 1
<1>1. PICK label \in {"nullopt", "fetch", "compare"} : pc' = [pc EXCEPT ![t] = label]
  BY DEF Fetch, Goto
<1>2. /\ pc[t] = "fetch" /\ ari' = k /\ ar' = [ar EXCEPT ![t] = k]
      /\ UNCHANGED <<rar, war, ctx, lyt, intr, outcome, delivered, sat>>
  BY DEF Fetch
<1>3. /\ k \in Positions /\ k > 1 /\ k \in Nat /\ ari \in Nat
      /\ \A j \in 0..ari : j < k /\ j \in Nat
  BY <1>2, SizesAssumption DEF IInv, TypeOK, Positions
<1>4. /\ pc'[t] = label /\ ar'[t] = k
      /\ \A i \in Threads \ {t} : pc'[i] = pc[i] /\ ar'[i] = ar[i]
      /\ \A j : Beaten(j)' <=> Beaten(j)
  BY <1>1, <1>2 DEF IInv, TypeOK, Beaten
<1>5. \A i \in Threads : Beaten(ar[i]) => Beaten(ar[i])'
  <2> SUFFICES ASSUME NEW i \in Threads, Beaten(ar[i])
               PROVE  Beaten(ar'[i])
    BY <1>2 DEF Beaten
  <2>1. CASE i # t
    BY <1>4, <2>1
  <2>2. CASE i = t
    <3>1. /\ Area(rar) \in Nat /\ Area(ar[t]) \in Nat /\ Area(k) \in Nat
          /\ Area(ar[t]) <= Area(k)
      <4>1. ar[t] \in 0..ari /\ rar \in 0..ari
        BY DEF IInv, TypeOK
      <4>2. ar[t] \in 0..Len(Ratios) /\ rar \in 0..Len(Ratios) /\ k \in 0..Len(Ratios)
        BY <1>3, <4>1, SizesAssumption, SMTT(40) DEF Positions
      <4>3. ar[t] <= k
        BY <1>3, <4>1
      <4> QED
        BY <4>2, <4>3, AreaNat, AreaMono
    <3> QED
      BY <1>4, <2>2, <3>1 DEF Beaten
  <2> QED
    BY <2>1, <2>2
<1>6. label # "compare" => Area(k) > UpperBound \/ Settled(k)
  <2> SUFFICES ASSUME label # "compare", ~ (Area(k) > UpperBound)
               PROVE  Settled(k)
    OBVIOUS
  <2>1. skippable(k, lyt[t])
    BY <1>1, <1>4 DEF Fetch, Goto, IInv, TypeOK
  <2> QED
    BY <1>2, <2>1, SkippedSettled DEF Fetch
<1>7. label = "nullopt" => Area(k) > UpperBound
  BY <1>1, <1>4 DEF Fetch, Goto, IInv, TypeOK
<1>8. Satisfiable(sat)'
  BY <1>2 DEF IInv, Satisfiable
<1>9. AnnouncedBehind'
  BY <1>2, <1>3, <1>4, StateAreas DEF IInv, AnnouncedBehind
<1>10. InterruptedBeaten'
  BY <1>2, <1>5 DEF IInv, InterruptedBeaten
<1>11. Control'
  <2>1. ControlOf(t)'
    <3>1. lyt[t] # 0 => Settled(lyt[t])
      BY <1>2 DEF IInv, Control, ControlOf
    <3>2. ctx[t]
      BY <1>2 DEF IInv, Control, ControlOf
    <3>3. label \in {"nullopt", "fetch", "compare"}
      OBVIOUS
    <3>4. lyt'[t] # 0 => Settled(lyt[t])'
      BY <1>2, <1>4, <3>1 DEF Settled, Beaten
    <3>5. /\ pc'[t] \in {"nullopt", "fetch", "compare"}
          /\ ar'[t] > 1
          /\ ctx'[t]
          /\ pc'[t] = "nullopt" => Area(ar'[t]) > UpperBound
      BY <1>2, <1>3, <1>4, <1>7, <3>2, <3>3
    <3> QED
      BY <3>4, <3>5 DEF ControlOf, Working
  <2> QED
    BY <1>2, <1>4, <2>1, OthersKeepControl DEF IInv, Beaten
<1>12. ResultHeld'
  BY <1>2, <1>4 DEF IInv, ResultHeld
<1>13. Covered'
  <2> SUFFICES ASSUME NEW j \in sat, 1 < j, j <= k, ~ Beaten(j)
               PROVE  \E i \in Threads : ar'[i] = j /\ pc'[i] \in Working
    BY <1>2, <1>4 DEF Covered
  <2>0. j \in Bounded /\ j \in Nat
    BY SizesAssumption DEF IInv, TypeOK, Bounded, Positions
  <2>1. CASE j = k
    <3>1. label = "compare"
      <4>1. Area(k) <= UpperBound /\ Area(k) \in Nat /\ UpperBound \in Nat
        BY <2>0, <2>1, AreaNat, SizesAssumption DEF Bounded, Positions
      <4> QED
        BY <1>6, <2>1, <4>1 DEF Settled
    <3> QED
      BY <1>4, <2>1, <3>1 DEF Working
  <2>2. CASE j # k
    <3>1. j <= ari
      BY <1>3, <2>0, <2>2
    <3>2. PICK i \in Threads : ar[i] = j /\ pc[i] \in Working
      BY <3>1 DEF IInv, Covered
    <3>3. i # t
      BY <1>2, <3>2 DEF Working
    <3> QED
      BY <1>4, <3>2, <3>3
  <2> QED
    BY <2>1, <2>2
<1>14. Answered'
  BY <1>2 DEF IInv, Answered, Ended
<1> QED
  BY <1>8, <1>9, <1>10, <1>11, <1>12, <1>13, <1>14 DEF IInv

(* Recording a result (under rar_mutex) preserves the invariant: whatever  *)
(* was beaten stays beaten, and a layout that is not recorded is.          *)
LEMMA ReportStep ==
  ASSUME IInv, TypeOK', NEW t \in Threads, Report(t)
  PROVE  IInv'
<1>1. pc[t] = "report" /\ lyt[t] = ar[t] /\ ar[t] > 1 /\ ar[t] \in sat /\ ctx[t]
  BY DEF Report, IInv, Control, ControlOf, Working
<1>2. UNCHANGED <<ari, ar, war, ctx, lyt, intr, outcome, delivered, sat>>
  BY DEF Report
<1>3. CASE ~ (rar = 0 \/ Area(rar) > Area(ar[t]))
  <2>1. pc' = [pc EXCEPT ![t] = "nullopt"] /\ UNCHANGED rar
    BY <1>3 DEF Report, Goto
  <2>2. Beaten(ar[t])
    BY <1>3, StateAreas DEF Beaten, IInv
  <2>3. ControlOf(t)'
    BY <1>1, <1>2, <2>1, <2>2 DEF ControlOf, Beaten, Working, IInv, TypeOK
  <2> QED
    BY <1>1, <1>2, <2>1, <2>2, <2>3, LocalStep DEF Ended, Settled
<1>4. CASE rar = 0 \/ Area(rar) > Area(ar[t])
  <2>1. rar' = ar[t] /\ pc' = [pc EXCEPT ![t] = "scan"]
    BY <1>4 DEF Report, Goto
  <2>2. /\ pc'[t] = "scan"
        /\ \A i \in Threads \ {t} : pc'[i] = pc[i]
    BY <2>1 DEF IInv, TypeOK
  <2>3. \A k \in 0..ari : Beaten(k) => Beaten(k)'
    <3> SUFFICES ASSUME NEW k \in 0..ari, Beaten(k)
                 PROVE  rar' # 0 /\ Area(rar') <= Area(k)
      BY DEF Beaten
    <3> QED
      BY <1>1, <1>4, <2>1, StateAreas DEF Beaten, IInv
  <2>4. Beaten(ar[t])'
    BY <1>1, <1>2, <2>1, StateAreas DEF Beaten, IInv
  <2>5. Satisfiable(sat)'
    BY <1>2 DEF IInv, Satisfiable
  <2>6. AnnouncedBehind'
    BY <1>2 DEF IInv, AnnouncedBehind
  <2>7. InterruptedBeaten'
    <3> SUFFICES ASSUME NEW i \in Threads, intr[i]
                 PROVE  Beaten(ar[i])'
      BY <1>2 DEF InterruptedBeaten
    <3>1. ar[i] \in 0..ari /\ Beaten(ar[i])
      BY StateAreas DEF IInv, InterruptedBeaten
    <3> QED
      BY <1>2, <2>3, <3>1 DEF Beaten
  <2>8. Control'
    <3>1. ControlOf(t)'
      BY <1>1, <1>2, <2>2, <2>4 DEF ControlOf, Working
    <3>2. \A i \in Threads : /\ Beaten(ar[i]) => Beaten(ar[i])'
                             /\ Beaten(lyt[i]) => Beaten(lyt[i])'
      BY <1>2, <2>3, StateAreas DEF IInv, Beaten
    <3> QED
      BY <1>2, <2>2, <3>1, <3>2, OthersKeepControl DEF IInv
  <2>9. ResultHeld'
    BY <1>1, <1>2, <2>1, <2>2 DEF ResultHeld
  <2>10. Covered'
    <3> SUFFICES ASSUME NEW k \in sat, 1 < k, k <= ari, ~ Beaten(k)'
                 PROVE  \E i \in Threads : ar[i] = k /\ pc'[i] \in Working
      BY <1>2 DEF Covered
    <3>1. k \in 0..ari
      BY SizesAssumption DEF IInv, TypeOK, Bounded, Positions
    <3>2. PICK i \in Threads : ar[i] = k /\ pc[i] \in Working
      BY <2>3, <3>1 DEF IInv, Covered
    <3>3. i # t
      BY <1>2, <2>4, <3>2 DEF Beaten
    <3> QED
      BY <2>2, <3>2, <3>3
  <2>11. Answered'
    BY <1>1, <1>2 DEF IInv, Answered, Ended
  <2> QED
    BY <2>5, <2>6, <2>7, <2>8, <2>9, <2>10, <2>11 DEF IInv
<1> QED
  BY <1>3, <1>4

(* Once every worker has ended, every satisfiable size behind the first    *)
(* one is at least as large as the recorded result: the last worker to     *)
(* take a size was stopped by the upper bound or by the result.            *)
LEMMA EndedMeansBeaten ==
  ASSUME IInv, \A t \in Threads : pc[t] \in Ended,
         NEW k \in sat, k > 1
  PROVE  Beaten(k)
<1>0. k \in Positions /\ Area(k) <= UpperBound
  BY DEF IInv, TypeOK, Bounded
<1>1. CASE k <= ari
  BY <1>1 DEF IInv, Covered, Working, Ended
<1>2. CASE ~ (k <= ari)
  <2>0. 1 \in Threads
    BY ThreadsAssumption DEF Threads
  <2>1. PICK t \in Threads : TRUE
    BY <2>0
  <2>2. Area(ar[t]) > UpperBound \/ Beaten(ar[t])
    BY DEF IInv, Control, ControlOf, Ended
  <2>3. /\ ar[t] \in 0..Len(Ratios) /\ k \in 0..Len(Ratios) /\ rar \in 0..Len(Ratios)
        /\ ar[t] <= k
    <3>1. ari \in 1..Len(Ratios) /\ ar[t] \in 0..ari /\ rar \in 0..ari
      BY DEF IInv, TypeOK, Positions
    <3>2. Len(Ratios) \in Nat /\ k \in 1..Len(Ratios)
      BY <1>0, SizesAssumption DEF Positions
    <3> QED
      BY <1>2, <3>1, <3>2
  <2>4. /\ Area(ar[t]) \in Nat /\ Area(k) \in Nat /\ Area(rar) \in Nat
        /\ Area(ar[t]) <= Area(k) /\ UpperBound \in Nat
    BY <2>3, AreaNat, AreaMono, SizesAssumption
  <2> QED
    BY <1>0, <2>2, <2>4 DEF Beaten
<1> QED
  BY <1>1, <1>2

(* run_asynchronously picks the layout of the recorded aspect ratio. *)
LEMMA CollectStep ==
  ASSUME IInv, TypeOK', ~ Timeouts, Collect
  PROVE  IInv'
<1>1. /\ UNCHANGED <<ari, rar, pc, ar, war, ctx, lyt, intr, sat>>
      /\ \A t \in Threads : pc[t] \in Ended
  BY DEF Collect
<1>2. \A t \in Threads : pc[t] # "threw"
  BY DEF IInv, Control, ControlOf
<1>3. outcome' = IF rar = 0 THEN "nullopt" ELSE "layout"
  BY <1>2 DEF Collect
<1>4. delivered' = rar
  <2>1. CASE rar = 0
    BY <1>3, <2>1 DEF Collect
  <2>2. CASE rar # 0
    <3>1. PICK t \in Threads : pc[t] = "found" /\ ar[t] = rar
      BY <1>1, <2>2 DEF IInv, ResultHeld, Ended
    <3>2. t \in Winners
      BY <3>1 DEF Winners, IInv, Control, ControlOf
    <3>3. PICK w \in Winners : delivered' = lyt[w]
      BY <1>3, <2>2, <3>2 DEF Collect
    <3>4. /\ w \in Threads /\ X(lyt[w]) = X(rar) /\ Y(lyt[w]) = Y(rar)
          /\ lyt[w] = ar[w] /\ ar[w] > 1
      BY DEF Winners, IInv, Control, ControlOf
    <3>5. lyt[w] \in Positions /\ rar \in Positions
      <4>1. /\ lyt[w] \in 0..ari /\ rar \in 0..ari
            /\ ari \in 1..Len(Ratios) /\ Len(Ratios) \in Nat
        BY <3>4, SizesAssumption DEF IInv, TypeOK, Positions
      <4> QED
        BY <2>2, <3>4, <4>1 DEF Positions
    <3> QED
      BY <3>3, <3>4, <3>5, SameRatio
  <2> QED
    BY <2>1, <2>2
<1>5. Answered'
  BY <1>1, <1>3, <1>4 DEF Answered
<1>6. /\ Satisfiable(sat)' /\ AnnouncedBehind' /\ InterruptedBeaten'
      /\ Control' /\ ResultHeld' /\ Covered'
  BY <1>1 DEF IInv, Satisfiable, AnnouncedBehind, InterruptedBeaten, Control,
     ControlOf, ResultHeld, Covered, Beaten, Settled
<1> QED
  BY <1>5, <1>6 DEF IInv

(* One round of the interrupt loop hits only workers on aspect ratios that *)
(* are beaten, because what they announced is not ahead of what they have. *)
LEMMA ScanStep ==
  ASSUME IInv, TypeOK', NEW t \in Threads, Scan(t)
  PROVE  IInv'
<1>1. /\ pc[t] = "scan" /\ lyt[t] = ar[t] /\ ar[t] > 1 /\ ctx[t] /\ Beaten(ar[t])
      /\ scan[t] \in Threads
  BY DEF Scan, IInv, TypeOK, Control, ControlOf, Working
<1>2. UNCHANGED <<ari, rar, ar, war, ctx, lyt, outcome, delivered, sat>>
  BY DEF Scan
<1>3. PICK label \in {"scan", "found"} : pc' = [pc EXCEPT ![t] = label]
  BY DEF Scan, NextScan, Goto
<1>4. \A i \in Threads : intr'[i] => intr[i] \/ Beaten(ar[i])
  <2> SUFFICES ASSUME NEW i \in Threads, intr'[i], ~ intr[i]
               PROVE  Beaten(ar[i])
    OBVIOUS
  <2>1. i = scan[t] /\ Area(ar[t]) <= Area(war[i])
    BY <1>1 DEF Scan, Interrupt, IInv, TypeOK
  <2>2. war[i] <= ar[i]
    BY DEF IInv, AnnouncedBehind
  <2> QED
    BY <1>1, <2>1, <2>2, StateAreas DEF Beaten, IInv
<1>5. ControlOf(t)'
  BY <1>1, <1>2, <1>3 DEF ControlOf, Beaten, Working, IInv, TypeOK
<1> QED
  BY <1>1, <1>2, <1>3, <1>4, <1>5, LocalStep DEF Ended, Working

(* The initial states satisfy the invariant: nothing has been taken. *)
LEMMA InitInv == Init => IInv
<1> SUFFICES ASSUME Init
             PROVE  IInv
  OBVIOUS
<1>0. Len(Ratios) \in Nat /\ Len(Ratios) >= 1 /\ NumThreads \in Nat \ {0}
  BY ThreadsAssumption, SizesAssumption
<1>1. TypeOK
  BY <1>0 DEF Init, TypeOK, Positions, PCs, Threads
<1>2. Satisfiable(sat) /\ AnnouncedBehind /\ InterruptedBeaten /\ ResultHeld
  BY DEF Init, AnnouncedBehind, InterruptedBeaten, ResultHeld
<1>3. Control
  BY DEF Init, Control, ControlOf, Working
<1>4. Covered
  <2>1. \A k \in sat : k \in Nat
    BY <1>0 DEF Init, Bounded, Positions
  <2> QED
    BY <2>1 DEF Init, Covered
<1>5. Answered
  BY DEF Init, Answered
<1> QED
  BY <1>1, <1>2, <1>3, <1>4, <1>5 DEF IInv

(* The invariant is inductive as long as time does not run out and shared  *)
(* aspect ratios are read in one load.                                     *)
LEMMA Inductive ==
  ASSUME ~ Timeouts, ~ TornReads, IInv, [Next]_vars
  PROVE  IInv'
<1>0. TypeOK'
  BY TypeStep DEF IInv
<1>1. ASSUME NEW t \in Threads, Register(t)
      PROVE  IInv'
  <2>1. /\ pc[t] = "start" /\ pc' = [pc EXCEPT ![t] = "fetch"]
        /\ ctx' = [ctx EXCEPT ![t] = TRUE]
        /\ UNCHANGED <<ari, rar, ar, war, lyt, intr, outcome, delivered, sat>>
    BY <1>1 DEF Register, Goto
  <2>2. ControlOf(t)'
    BY <2>1 DEF IInv, TypeOK, Control, ControlOf, Working
  <2>3. \A i \in Threads \ {t} : ctx'[i] = ctx[i]
    BY <2>1 DEF IInv, TypeOK
  <2> QED
    BY <1>0, <2>1, <2>2, <2>3, LocalStep DEF Ended, Working
<1>2. ASSUME NEW t \in Threads, Compare(t)
      PROVE  IInv'
  <2>1. /\ pc[t] = "compare" /\ ar[t] > 1 /\ ctx[t]
        /\ UNCHANGED <<ari, rar, ar, war, ctx, lyt, intr, outcome, delivered, sat>>
    BY <1>2 DEF Compare, IInv, Control, ControlOf, Working
  <2>2. CASE Beaten(ar[t])
    <3>1. pc' = [pc EXCEPT ![t] = "nullopt"]
      BY <1>2, <2>2 DEF Compare, Goto, Beaten
    <3>2. ControlOf(t)'
      BY <2>1, <2>2, <3>1 DEF ControlOf, Beaten, Working, IInv, TypeOK
    <3> QED
      BY <1>0, <2>1, <2>2, <3>1, <3>2, LocalStep DEF Ended, Settled
  <2>3. CASE ~ Beaten(ar[t])
    <3>1. pc' = [pc EXCEPT ![t] = "publish"]
      BY <1>2, <2>3 DEF Compare, Goto, Beaten
    <3>2. ControlOf(t)'
      BY <2>1, <3>1 DEF ControlOf, Working, IInv, TypeOK
    <3> QED
      BY <1>0, <2>1, <3>1, <3>2, LocalStep DEF Ended, Working
  <2> QED
    BY <2>2, <2>3
<1>3. ASSUME NEW t \in Threads, Publish(t)
      PROVE  IInv'
  <2>1. /\ pc[t] = "publish" /\ ar[t] > 1 /\ ctx[t]
        /\ pc' = [pc EXCEPT ![t] = "solve"]
        /\ war' = [war EXCEPT ![t] = ar[t]]
        /\ lyt' = [lyt EXCEPT ![t] = ar[t]]
        /\ UNCHANGED <<ari, rar, ar, ctx, intr, outcome, delivered, sat>>
    BY <1>3 DEF Publish, Goto, IInv, Control, ControlOf, Working
  <2>2. ControlOf(t)'
    BY <2>1 DEF ControlOf, Working, IInv, TypeOK
  <2>3. /\ \A i \in Threads \ {t} : lyt'[i] = lyt[i]
        /\ \A i \in Threads : war'[i] \in {war[i], ar[i]}
    BY <2>1 DEF IInv, TypeOK
  <2> QED
    BY <1>0, <2>1, <2>2, <2>3, LocalStep DEF Ended, Working
<1>4. ASSUME NEW t \in Threads, Solve(t)
      PROVE  IInv'
  <2>1. /\ pc[t] = "solve" /\ ar[t] > 1 /\ ctx[t] /\ lyt[t] = ar[t]
        /\ UNCHANGED <<ari, rar, ar, war, ctx, lyt, intr, outcome, delivered, sat>>
    BY <1>4 DEF Solve, IInv, Control, ControlOf, Working
  <2>2. CASE ar[t] \in sat
    <3>1. pc' = [pc EXCEPT ![t] = "report"]
      BY <1>4, <2>2 DEF Solve, Goto
    <3>2. ControlOf(t)'
      BY <2>1, <2>2, <3>1 DEF ControlOf, Working, IInv, TypeOK
    <3> QED
      BY <1>0, <2>1, <3>1, <3>2, LocalStep DEF Ended, Working
  <2>3. CASE ar[t] \notin sat
    <3>1. pc' = [pc EXCEPT ![t] = "timeout"]
      BY <1>4, <2>3 DEF Solve, Goto
    <3>2. ControlOf(t)'
      BY <2>1, <2>3, <3>1 DEF ControlOf, Working, Settled, IInv, TypeOK
    <3> QED
      BY <1>0, <2>1, <2>3, <3>1, <3>2, LocalStep DEF Ended, Settled
  <2> QED
    BY <2>2, <2>3
<1>5. ASSUME NEW t \in Threads, GiveUp(t)
      PROVE  IInv'
  <2>1. /\ pc[t] = "solve" /\ ar[t] > 1 /\ ctx[t] /\ lyt[t] = ar[t] /\ intr[t]
        /\ intr' = [intr EXCEPT ![t] = FALSE]
        /\ UNCHANGED <<ari, rar, ar, war, ctx, lyt, outcome, delivered, sat>>
    BY <1>5 DEF GiveUp, IInv, Control, ControlOf, Working
  <2>2. Beaten(ar[t])
    BY <2>1 DEF IInv, InterruptedBeaten
  <2>3. PICK label \in {"nullopt", "timeout"} : pc' = [pc EXCEPT ![t] = label]
    BY <1>5 DEF GiveUp, Goto
  <2>4. ControlOf(t)'
    BY <2>1, <2>2, <2>3 DEF ControlOf, Beaten, Settled, Working, IInv, TypeOK
  <2>5. \A i \in Threads : intr'[i] => intr[i]
    BY <2>1 DEF IInv, TypeOK
  <2> QED
    BY <1>0, <2>1, <2>2, <2>3, <2>4, <2>5, LocalStep DEF Ended, Settled
<1>6. ASSUME NEW t \in Threads, UpdateTimeout(t)
      PROVE  IInv'
  <2>1. /\ pc[t] = "timeout" /\ ctx[t]
        /\ lyt[t] # 0 => Settled(lyt[t])
        /\ pc' = [pc EXCEPT ![t] = "fetch"]
        /\ UNCHANGED <<ari, rar, ar, war, ctx, lyt, intr, outcome, delivered, sat>>
    BY <1>6 DEF UpdateTimeout, Goto, IInv, Control, ControlOf
  <2>2. ControlOf(t)'
    BY <2>1 DEF ControlOf, Working, Settled, Beaten, IInv, TypeOK
  <2> QED
    BY <1>0, <2>1, <2>2, LocalStep DEF Ended, Working
<1>7. ASSUME NEW t \in Threads, ScanFirstLoad(t) \/ ScanSecondLoad(t)
      PROVE  IInv'
  BY <1>7 DEF ScanFirstLoad, ScanSecondLoad, IInv, Control, ControlOf
<1>8. ASSUME Terminated \/ UNCHANGED vars
      PROVE  IInv'
  BY <1>0, <1>8 DEF Terminated, vars, IInv, Satisfiable, AnnouncedBehind,
     InterruptedBeaten, Control, ControlOf, ResultHeld, Covered, Answered,
     Beaten, Settled
<1> QED
  BY <1>0, <1>1, <1>2, <1>3, <1>4, <1>5, <1>6, <1>7, <1>8, FetchStep,
     ReportStep, ScanStep, CollectStep DEF Next, Worker

(* "an optimal gate-level layout [...] will be found" (exact): however the *)
(* threads interleave, exact() returns a layout that is at most as large   *)
(* as every satisfiable aspect ratio behind the iterator's first one.      *)
THEOREM Optimality ==
  ASSUME ~ Timeouts, ~ TornReads
  PROVE  Spec => []NoSmallerLayoutLost
<1>1. IInv => NoSmallerLayoutLost
  <2> SUFFICES ASSUME IInv, outcome # "running", NEW k \in sat, k > 1
               PROVE  outcome = "layout" /\ Area(delivered) <= Area(k)
    BY DEF NoSmallerLayoutLost
  <2>1. Beaten(k)
    BY EndedMeansBeaten DEF IInv, Answered
  <2> QED
    BY <2>1 DEF IInv, Answered, Beaten
<1>2. IInv /\ [Next]_vars => IInv'
  BY Inductive
<1> QED
  BY InitInv, <1>1, <1>2, PTL DEF Spec

-----------------------------------------------------------------------------
(***************************************************************************)
(* What is delivered does not depend on time or on how the announced       *)
(* aspect ratios are read: the invariant below needs neither assumption.   *)
(***************************************************************************)

(* A worker that has found a layout keeps it. *)
Keeping == {"scan", "scan2", "found"}
Kept ==
  \A t \in Threads :
    /\ pc[t] \in {"solve", "report"} \cup Keeping => lyt[t] = ar[t]
    /\ pc[t] \in {"report"} \cup Keeping => ar[t] \in sat

(* The recorded aspect ratio is that of a layout that is kept. *)
RecordedKept == rar # 0 => \E t \in Threads : pc[t] \in Keeping /\ ar[t] = rar

(* Nothing is recorded once exact() has returned. *)
AnswerRecorded ==
  outcome # "running" =>
    /\ \A t \in Threads : pc[t] \in Ended
    /\ outcome = "layout" => rar # 0 /\ delivered = rar

DInv == TypeOK /\ Kept /\ RecordedKept /\ AnswerRecorded

(* A worker that records nothing and keeps what it has found. *)
LEMMA KeepingStep ==
  ASSUME DInv, TypeOK', NEW t \in Threads, pc[t] \notin Ended,
         UNCHANGED <<rar, outcome, delivered, sat>>,
         \A i \in Threads \ {t} : pc'[i] = pc[i] /\ ar'[i] = ar[i] /\ lyt'[i] = lyt[i],
         pc'[t] \in {"solve", "report"} \cup Keeping => lyt'[t] = ar'[t],
         pc'[t] \in {"report"} \cup Keeping => ar'[t] \in sat,
         pc[t] \in Keeping => pc'[t] \in Keeping /\ ar'[t] = ar[t]
  PROVE  DInv'
<1>1. Kept'
  BY DEF DInv, Kept
<1>2. RecordedKept'
  BY DEF DInv, RecordedKept
<1>3. AnswerRecorded'
  BY DEF DInv, AnswerRecorded
<1> QED
  BY <1>1, <1>2, <1>3 DEF DInv

(* Whatever time and torn reads do, every step keeps the recorded layout. *)
LEMMA DeliveryInductive ==
  ASSUME DInv, [Next]_vars
  PROVE  DInv'
<1>0. TypeOK'
  BY TypeStep DEF DInv
<1>1. ASSUME NEW t \in Threads,
             Register(t) \/ Fetch(t) \/ Compare(t) \/ UpdateTimeout(t) \/ GiveUp(t)
      PROVE  DInv'
  <2>1. PICK label \in {"fetch", "nullopt", "compare", "publish", "timeout", "threw"} :
          pc' = [pc EXCEPT ![t] = label]
    BY <1>1 DEF Register, Fetch, Compare, UpdateTimeout, GiveUp, Goto
  <2>2. pc[t] \in {"start", "fetch", "compare", "timeout", "solve"}
    BY <1>1 DEF Register, Fetch, Compare, UpdateTimeout, GiveUp
  <2>3. /\ UNCHANGED <<rar, lyt, outcome, delivered, sat>>
        /\ \A i \in Threads \ {t} : ar'[i] = ar[i]
    BY <1>1 DEF Register, Fetch, Compare, UpdateTimeout, GiveUp, DInv, TypeOK
  <2>4. pc'[t] = label /\ \A i \in Threads \ {t} : pc'[i] = pc[i]
    BY <2>1 DEF DInv, TypeOK
  <2> QED
    BY <1>0, <2>2, <2>3, <2>4, KeepingStep DEF Keeping, Ended
<1>2. ASSUME NEW t \in Threads, Publish(t)
      PROVE  DInv'
  <2>1. /\ pc[t] = "publish" /\ pc'[t] = "solve" /\ lyt'[t] = ar[t]
        /\ \A i \in Threads \ {t} : pc'[i] = pc[i] /\ lyt'[i] = lyt[i]
        /\ UNCHANGED <<rar, ar, outcome, delivered, sat>>
    BY <1>2 DEF Publish, Goto, DInv, TypeOK
  <2> QED
    BY <1>0, <2>1, KeepingStep DEF Keeping, Ended
<1>3. ASSUME NEW t \in Threads, Solve(t)
      PROVE  DInv'
  <2>1. /\ pc[t] = "solve" /\ pc'[t] = IF ar[t] \in sat THEN "report" ELSE "timeout"
        /\ \A i \in Threads \ {t} : pc'[i] = pc[i]
        /\ UNCHANGED <<rar, ar, lyt, outcome, delivered, sat>>
    BY <1>3 DEF Solve, Goto, DInv, TypeOK
  <2>2. lyt[t] = ar[t]
    BY <2>1 DEF DInv, Kept
  <2> QED
    BY <1>0, <2>1, <2>2, KeepingStep DEF Keeping, Ended
<1>4. ASSUME NEW t \in Threads, Scan(t) \/ ScanFirstLoad(t) \/ ScanSecondLoad(t)
      PROVE  DInv'
  <2>1. pc[t] \in {"scan", "scan2"}
    BY <1>4 DEF Scan, ScanFirstLoad, ScanSecondLoad
  <2>2. PICK label \in Keeping : pc' = [pc EXCEPT ![t] = label]
    BY <1>4 DEF Scan, ScanFirstLoad, ScanSecondLoad, NextScan, Goto, Keeping
  <2>3. UNCHANGED <<rar, ar, lyt, outcome, delivered, sat>>
    BY <1>4 DEF Scan, ScanFirstLoad, ScanSecondLoad
  <2>4. pc'[t] = label /\ \A i \in Threads \ {t} : pc'[i] = pc[i]
    BY <2>2 DEF DInv, TypeOK
  <2>5. lyt[t] = ar[t] /\ ar[t] \in sat
    BY <2>1 DEF DInv, Kept, Keeping
  <2> QED
    BY <1>0, <2>1, <2>3, <2>4, <2>5, KeepingStep DEF Keeping, Ended
<1>5. ASSUME NEW t \in Threads, Report(t)
      PROVE  DInv'
  <2>1. /\ pc[t] = "report" /\ lyt[t] = ar[t] /\ ar[t] \in sat
        /\ UNCHANGED <<ar, lyt, outcome, delivered, sat>>
    BY <1>5 DEF Report, DInv, Kept
  <2>2. CASE ~ (rar = 0 \/ Area(rar) > Area(ar[t]))
    <3>1. /\ pc'[t] = "nullopt" /\ UNCHANGED rar
          /\ \A i \in Threads \ {t} : pc'[i] = pc[i]
      BY <1>5, <2>2 DEF Report, Goto, DInv, TypeOK
    <3> QED
      BY <1>0, <2>1, <3>1, KeepingStep DEF Keeping, Ended
  <2>3. CASE rar = 0 \/ Area(rar) > Area(ar[t])
    <3>1. /\ pc'[t] = "scan" /\ rar' = ar[t]
          /\ \A i \in Threads \ {t} : pc'[i] = pc[i]
      BY <1>5, <2>3 DEF Report, Goto, DInv, TypeOK
    <3>2. Kept'
      BY <2>1, <3>1 DEF DInv, Kept, Keeping
    <3>3. RecordedKept'
      BY <2>1, <3>1 DEF RecordedKept, Keeping
    <3>4. AnswerRecorded'
      BY <2>1 DEF DInv, AnswerRecorded, Ended
    <3> QED
      BY <1>0, <3>2, <3>3, <3>4 DEF DInv
  <2> QED
    BY <2>2, <2>3
<1>6. ASSUME Collect
      PROVE  DInv'
  <2>1. /\ UNCHANGED <<rar, pc, ar, lyt, sat>>
        /\ \A t \in Threads : pc[t] \in Ended
    BY <1>6 DEF Collect
  <2>2. Kept' /\ RecordedKept'
    BY <2>1 DEF DInv, Kept, RecordedKept
  <2>3. ASSUME outcome' = "layout"
        PROVE  rar # 0 /\ delivered' = rar
    <3>1. rar # 0
      BY <1>6, <2>3 DEF Collect
    <3>2. PICK t \in Threads : pc[t] = "found" /\ ar[t] = rar
      BY <2>1, <3>1 DEF DInv, RecordedKept, Keeping, Ended
    <3>3. t \in Winners
      BY <3>2 DEF Winners, DInv, Kept, Keeping
    <3>4. PICK w \in Winners : delivered' = lyt[w]
      BY <1>6, <2>3, <3>3 DEF Collect
    <3>5. /\ X(lyt[w]) = X(rar) /\ Y(lyt[w]) = Y(rar)
          /\ lyt[w] \in sat /\ rar \in sat
      BY <3>2 DEF Winners, DInv, Kept, Keeping
    <3>6. lyt[w] \in Positions /\ rar \in Positions
      BY <3>5 DEF DInv, TypeOK, Bounded
    <3> QED
      BY <3>1, <3>4, <3>5, <3>6, SameRatio
  <2>4. AnswerRecorded'
    BY <2>1, <2>3 DEF AnswerRecorded
  <2> QED
    BY <1>0, <2>2, <2>4 DEF DInv
<1>7. ASSUME UNCHANGED vars
      PROVE  DInv'
  BY <1>0, <1>7 DEF vars, DInv, Kept, RecordedKept, AnswerRecorded
<1> QED
  BY <1>1, <1>2, <1>3, <1>4, <1>5, <1>6, <1>7 DEF Next, Worker, Terminated

(* A layout that is returned is the recorded, satisfiable one              *)
(* (WinnerDelivered), also if time runs out or shared aspect ratios are    *)
(* read torn: run_asynchronously never hands out the empty layout.         *)
THEOREM WinnerIsDelivered == Spec => []WinnerDelivered
<1>1. Init => DInv
  <2> SUFFICES ASSUME Init
               PROVE  DInv
    OBVIOUS
  <2>1. TypeOK
    BY InitInv DEF IInv
  <2> QED
    BY <2>1 DEF Init, DInv, Kept, RecordedKept, AnswerRecorded, Keeping
<1>2. DInv => WinnerDelivered
  <2> SUFFICES ASSUME DInv, outcome = "layout"
               PROVE  delivered # 0 /\ delivered = rar /\ delivered \in sat /\ Area(delivered) <= UpperBound
    BY DEF WinnerDelivered
  <2>1. rar # 0 /\ delivered = rar
    BY DEF DInv, AnswerRecorded
  <2>2. rar \in sat
    BY <2>1 DEF DInv, RecordedKept, Kept
  <2> QED
    BY <2>1, <2>2 DEF DInv, TypeOK, Bounded
<1>3. DInv /\ [Next]_vars => DInv'
  BY DeliveryInductive
<1> QED
  BY <1>1, <1>2, <1>3, PTL DEF Spec

-----------------------------------------------------------------------------
(* What the interrupt loop may find in the thread_info of a thread that    *)
(* has not entered its context: no aspect ratio, in neither of two loads.  *)
Unregistered ==
  \A t \in Threads : ~ ctx[t] => pc[t] = "start" /\ war[t] = 0
UnregisteredSeen ==
  \A t \in Threads : pc[t] = "scan2" /\ ~ ctx[scan[t]] => seen[t] = 0

(* The iterator is advanced before its first use. *)
PastFirst ==
  \A t \in Threads : pc[t] \in Working \cup {"scan", "scan2"} => ar[t] > 1

NInv == TypeOK /\ Unregistered /\ UnregisteredSeen /\ PastFirst

(* Nothing is announced initially. *)
LEMMA RegistrationStarts == Init => NInv
<1> SUFFICES ASSUME Init
             PROVE  NInv
  OBVIOUS
<1>1. TypeOK
  BY InitInv DEF IInv
<1> QED
  BY <1>1 DEF Init, NInv, Unregistered, UnregisteredSeen, PastFirst, Working

(* Threads enter their contexts once and announce aspect ratios later. *)
LEMMA RegistrationInductive ==
  ASSUME NInv, [Next]_vars
  PROVE  NInv'
<1>0. TypeOK'
  BY TypeStep DEF NInv
<1>1. ASSUME NEW t \in Threads, Register(t)
      PROVE  NInv'
  <2>1. /\ pc'[t] = "fetch" /\ ctx'[t]
        /\ \A i \in Threads \ {t} : pc'[i] = pc[i] /\ ctx'[i] = ctx[i]
        /\ UNCHANGED <<ar, war, scan, seen>>
    BY <1>1 DEF Register, Goto, NInv, TypeOK
  <2>2. \A i \in Threads : ctx[i] => ctx'[i]
    BY <2>1
  <2>3. Unregistered'
    BY <2>1 DEF NInv, Unregistered
  <2>4. UnregisteredSeen'
    BY <2>1, <2>2 DEF NInv, TypeOK, UnregisteredSeen
  <2>5. PastFirst'
    BY <2>1 DEF NInv, PastFirst, Working
  <2> QED
    BY <1>0, <2>3, <2>4, <2>5 DEF NInv
<1>2. ASSUME NEW t \in Threads, Fetch(t)
      PROVE  NInv'
  <2>1. PICK label \in {"nullopt", "fetch", "compare"} : pc' = [pc EXCEPT ![t] = label]
    BY <1>2 DEF Fetch, Goto
  <2>2. /\ pc[t] = "fetch" /\ pc'[t] = label
        /\ \A i \in Threads \ {t} : pc'[i] = pc[i] /\ ar'[i] = ar[i]
        /\ ar'[t] = ari + 1 /\ UNCHANGED <<ctx, war, scan, seen>>
    BY <1>2, <2>1 DEF Fetch, NInv, TypeOK
  <2>3. ari + 1 > 1
    BY SizesAssumption DEF NInv, TypeOK, Positions
  <2>4. Unregistered' /\ UnregisteredSeen' /\ PastFirst'
    BY <2>2, <2>3 DEF NInv, Unregistered, UnregisteredSeen, PastFirst
  <2> QED
    BY <1>0, <2>4 DEF NInv
<1>3. ASSUME NEW t \in Threads, Publish(t)
      PROVE  NInv'
  <2>1. /\ pc[t] = "publish" /\ pc'[t] = "solve"
        /\ \A i \in Threads \ {t} : pc'[i] = pc[i] /\ war'[i] = war[i]
        /\ UNCHANGED <<ar, ctx, scan, seen>>
    BY <1>3 DEF Publish, Goto, NInv, TypeOK
  <2>2. Unregistered' /\ UnregisteredSeen' /\ PastFirst'
    BY <2>1 DEF NInv, Unregistered, UnregisteredSeen, PastFirst, Working
  <2> QED
    BY <1>0, <2>2 DEF NInv
<1>4. ASSUME NEW t \in Threads, ScanFirstLoad(t)
      PROVE  NInv'
  <2>1. /\ pc[t] = "scan" /\ pc'[t] = "scan2" /\ seen'[t] = war[scan[t]] /\ scan[t] \in Threads
        /\ \A i \in Threads \ {t} : pc'[i] = pc[i] /\ seen'[i] = seen[i]
        /\ UNCHANGED <<ar, war, ctx, scan>>
    BY <1>4 DEF ScanFirstLoad, Goto, NInv, TypeOK
  <2>2. Unregistered' /\ PastFirst'
    BY <2>1 DEF NInv, Unregistered, PastFirst, Working
  <2>3. UnregisteredSeen'
    BY <2>1 DEF NInv, Unregistered, UnregisteredSeen
  <2> QED
    BY <1>0, <2>2, <2>3 DEF NInv
<1>5. ASSUME NEW t \in Threads, Scan(t) \/ ScanSecondLoad(t)
      PROVE  NInv'
  <2>1. PICK label \in {"scan", "found"} : pc' = [pc EXCEPT ![t] = label]
    BY <1>5 DEF Scan, ScanSecondLoad, NextScan, Goto
  <2>2. /\ pc[t] \in {"scan", "scan2"} /\ UNCHANGED <<ar, war, ctx, seen>>
        /\ \A i \in Threads \ {t} : scan'[i] = scan[i]
    BY <1>5 DEF Scan, ScanSecondLoad, NextScan, NInv, TypeOK
  <2>3. pc'[t] = label /\ \A i \in Threads \ {t} : pc'[i] = pc[i]
    BY <2>1 DEF NInv, TypeOK
  <2>4. Unregistered' /\ UnregisteredSeen' /\ PastFirst'
    BY <2>2, <2>3 DEF NInv, Unregistered, UnregisteredSeen, PastFirst, Working
  <2> QED
    BY <1>0, <2>4 DEF NInv
<1>6. ASSUME NEW t \in Threads,
             Compare(t) \/ Solve(t) \/ GiveUp(t) \/ UpdateTimeout(t) \/ Report(t)
      PROVE  NInv'
  <2>1. PICK label \in PCs \ {"scan2"} : pc' = [pc EXCEPT ![t] = label]
    BY <1>6 DEF Compare, Solve, GiveUp, UpdateTimeout, Report, Goto, PCs, Working, Ended
  <2>2. /\ pc[t] \in Working \/ label \notin Working \cup {"scan"}
        /\ pc[t] \notin {"start", "scan2"}
        /\ UNCHANGED <<ar, war, ctx, seen>>
        /\ \A i \in Threads \ {t} : scan'[i] = scan[i]
    <3>1. /\ pc[t] \in Working \cup {"timeout"}
          /\ UNCHANGED <<ar, war, ctx, seen>>
          /\ \A i \in Threads \ {t} : scan'[i] = scan[i]
      BY <1>6 DEF Compare, Solve, GiveUp, UpdateTimeout, Report, Working, NInv, TypeOK
    <3>2. CASE pc[t] = "timeout"
      <4>1. pc'[t] \in {"fetch", "threw"}
        BY <1>6, <3>2 DEF Compare, Solve, GiveUp, UpdateTimeout, Report, Goto, NInv, TypeOK
      <4>2. pc'[t] = label
        BY <2>1 DEF NInv, TypeOK
      <4> QED
        BY <3>1, <3>2, <4>1, <4>2 DEF Working
    <3> QED
      BY <3>1, <3>2 DEF Working
  <2>3. pc'[t] = label /\ \A i \in Threads \ {t} : pc'[i] = pc[i]
    BY <2>1 DEF NInv, TypeOK
  <2>4. Unregistered'
    BY <2>2, <2>3 DEF NInv, Unregistered
  <2>5. UnregisteredSeen'
    BY <2>2, <2>3 DEF NInv, UnregisteredSeen
  <2>6. PastFirst'
    BY <2>2, <2>3 DEF NInv, PastFirst
  <2> QED
    BY <1>0, <2>4, <2>5, <2>6 DEF NInv
<1>7. ASSUME Collect \/ UNCHANGED vars
      PROVE  NInv'
  BY <1>0, <1>7 DEF Collect, vars, NInv, Unregistered, UnregisteredSeen, PastFirst
<1> QED
  BY <1>1, <1>2, <1>3, <1>4, <1>5, <1>6, <1>7 DEF Next, Worker, Terminated

(* The interrupt loop dereferences no context pointer that is still null   *)
(* (NoNullContext), with timeouts and torn reads: an unregistered thread   *)
(* shows the area of a single tile, and the iterator is advanced before    *)
(* its first use, so no result is that small.                              *)
THEOREM ContextsRegistered == Spec => []NoNullContext
<1>1. NInv => NoNullContext
  <2> SUFFICES ASSUME NInv, NEW t \in Threads, pc[t] \in {"scan", "scan2"}, ~ ctx[scan[t]],
                      NEW area \in Observed(t), Area(ar[t]) <= area
               PROVE  FALSE
    BY DEF NoNullContext
  <2>0. scan[t] \in Threads /\ ar[t] > 1
    BY DEF NInv, TypeOK, PastFirst
  <2>1. war[scan[t]] = 0 /\ (pc[t] = "scan2" => seen[t] = 0)
    BY <2>0 DEF NInv, Unregistered, UnregisteredSeen
  <2>2. X(0) = 0 /\ Y(0) = 0
    BY DEF X, Y
  <2>3. area = 1
    BY <2>1, <2>2 DEF Observed, Area
  <2>4. ar[t] \in Positions /\ ar[t] \in 0..Len(Ratios)
    <3>1. ar[t] \in 0..ari /\ ari \in 1..Len(Ratios) /\ Len(Ratios) \in Nat
      BY SizesAssumption DEF NInv, TypeOK, Positions
    <3> QED
      BY <2>0, <3>1 DEF Positions
  <2>5. Area(ar[t]) > 1 /\ Area(ar[t]) \in Nat
    BY <2>0, <2>4, AreaAboveOne, AreaNat
  <2> QED
    BY <2>3, <2>5
<1>2. Init => NInv
  BY RegistrationStarts
<1>3. NInv /\ [Next]_vars => NInv'
  BY RegistrationInductive
<1> QED
  BY <1>1, <1>2, <1>3, PTL DEF Spec

(* The worker in the interrupt loop has found a layout at least as large   *)
(* as the recorded one.                                                    *)
ScannerBeaten == \A t \in Threads : pc[t] = "scan" => Beaten(ar[t])

FInv ==
  /\ NInv
  /\ \A t \in Threads : pc[t] # "scan2"
  /\ AnnouncedBehind
  /\ InterruptedBeaten
  /\ ScannerBeaten

(* Whether time runs out or not, interrupts hit beaten sizes only as long  *)
(* as shared aspect ratios are read in one load.                           *)
LEMMA InterruptsInductive ==
  ASSUME ~ TornReads, FInv, [Next]_vars
  PROVE  FInv'
<1>0. NInv' /\ TypeOK
  BY RegistrationInductive DEF FInv, NInv
<1>1. ASSUME NEW t \in Threads,
             Register(t) \/ Compare(t) \/ Solve(t) \/ GiveUp(t) \/ UpdateTimeout(t)
      PROVE  FInv'
  <2>1. PICK label \in PCs \ {"scan", "scan2"} : pc' = [pc EXCEPT ![t] = label]
    BY <1>1 DEF Register, Compare, Solve, GiveUp, UpdateTimeout, Goto, PCs, Working, Ended
  <2>2. UNCHANGED <<rar, ar, war>> /\ \A i \in Threads : intr'[i] => intr[i]
    BY <1>0, <1>1 DEF Register, Compare, Solve, GiveUp, UpdateTimeout, TypeOK
  <2>3. pc'[t] = label /\ \A i \in Threads \ {t} : pc'[i] = pc[i]
    BY <1>0, <2>1 DEF TypeOK
  <2>4. AnnouncedBehind' /\ InterruptedBeaten'
    BY <2>2 DEF FInv, AnnouncedBehind, InterruptedBeaten, Beaten
  <2>5. ScannerBeaten' /\ \A i \in Threads : pc'[i] # "scan2"
    BY <2>2, <2>3 DEF FInv, ScannerBeaten, Beaten
  <2> QED
    BY <1>0, <2>4, <2>5 DEF FInv
<1>2. ASSUME NEW t \in Threads, Fetch(t)
      PROVE  FInv'
  <2>1. PICK label \in {"nullopt", "fetch", "compare"} : pc' = [pc EXCEPT ![t] = label]
    BY <1>2 DEF Fetch, Goto
  <2>2. /\ pc'[t] = label /\ ar'[t] = ari + 1 /\ ari < Len(Ratios)
        /\ \A i \in Threads \ {t} : pc'[i] = pc[i] /\ ar'[i] = ar[i]
        /\ UNCHANGED <<rar, war, intr>>
    BY <1>0, <1>2, <2>1 DEF Fetch, TypeOK
  <2>3. /\ ar[t] \in 0..Len(Ratios) /\ ari + 1 \in 0..Len(Ratios) /\ rar \in 0..Len(Ratios)
        /\ ar[t] <= ari + 1 /\ war[t] <= ari + 1
    <3>1. /\ ari \in 1..Len(Ratios) /\ Len(Ratios) \in Nat
          /\ ar[t] \in 0..ari /\ war[t] \in 0..ari /\ rar \in 0..ari
      BY <1>0, SizesAssumption DEF TypeOK, Positions
    <3> QED
      BY <2>2, <3>1
  <2>4. Beaten(ar[t]) => Beaten(ari + 1)
    <3>1. /\ Area(ar[t]) \in Nat /\ Area(rar) \in Nat /\ Area(ari + 1) \in Nat
          /\ Area(ar[t]) <= Area(ari + 1)
      BY <2>3, AreaNat, AreaMono
    <3> QED
      BY <3>1 DEF Beaten
  <2>5. AnnouncedBehind'
    BY <2>2, <2>3 DEF FInv, AnnouncedBehind
  <2>6. InterruptedBeaten'
    BY <2>2, <2>4 DEF FInv, InterruptedBeaten, Beaten
  <2>7. ScannerBeaten' /\ \A i \in Threads : pc'[i] # "scan2"
    BY <2>2 DEF FInv, ScannerBeaten, Beaten
  <2> QED
    BY <1>0, <2>5, <2>6, <2>7 DEF FInv
<1>3. ASSUME NEW t \in Threads, Publish(t)
      PROVE  FInv'
  <2>1. /\ pc'[t] = "solve" /\ war'[t] = ar[t] /\ ar[t] \in 0..ari /\ ari \in Nat
        /\ \A i \in Threads \ {t} : pc'[i] = pc[i] /\ war'[i] = war[i]
        /\ UNCHANGED <<rar, ar, intr>>
    BY <1>0, <1>3, SizesAssumption DEF Publish, Goto, TypeOK, Positions
  <2>2. AnnouncedBehind'
    BY <2>1 DEF FInv, AnnouncedBehind
  <2>3. InterruptedBeaten' /\ ScannerBeaten' /\ \A i \in Threads : pc'[i] # "scan2"
    BY <2>1 DEF FInv, InterruptedBeaten, ScannerBeaten, Beaten
  <2> QED
    BY <1>0, <2>2, <2>3 DEF FInv
<1>4. ASSUME NEW t \in Threads, Report(t)
      PROVE  FInv'
  <2>1. UNCHANGED <<ar, war, intr>> /\ ar[t] > 1
    BY <1>4 DEF Report, FInv, NInv, PastFirst, Working
  <2>2. PICK label \in {"scan", "nullopt"} :
          /\ pc'[t] = label /\ \A i \in Threads \ {t} : pc'[i] = pc[i]
          /\ label = "scan" => rar' = ar[t]
    BY <1>0, <1>4 DEF Report, Goto, TypeOK
  <2>3. \A k \in 0..ari : Beaten(k) => Beaten(k)'
    <3> SUFFICES ASSUME NEW k \in 0..ari, Beaten(k)
                 PROVE  rar' # 0 /\ Area(rar') <= Area(k)
      BY DEF Beaten
    <3>1. CASE rar = 0 \/ Area(rar) > Area(ar[t])
      BY <1>0, <1>4, <2>1, <3>1, StateAreas DEF Report, Beaten
    <3>2. CASE ~ (rar = 0 \/ Area(rar) > Area(ar[t]))
      BY <1>4, <3>2 DEF Report, Beaten
    <3> QED
      BY <3>1, <3>2
  <2>4. \A i \in Threads : Beaten(ar[i]) => Beaten(ar[i])'
    BY <1>0, <2>1, <2>3, StateAreas DEF Beaten
  <2>5. label = "scan" => Beaten(ar[t])'
    BY <1>0, <2>1, <2>2, StateAreas DEF Beaten
  <2>6. AnnouncedBehind' /\ InterruptedBeaten'
    BY <2>1, <2>4 DEF FInv, AnnouncedBehind, InterruptedBeaten
  <2>7. ScannerBeaten' /\ \A i \in Threads : pc'[i] # "scan2"
    BY <2>2, <2>4, <2>5 DEF FInv, ScannerBeaten
  <2> QED
    BY <1>0, <2>6, <2>7 DEF FInv
<1>5. ASSUME NEW t \in Threads, Scan(t)
      PROVE  FInv'
  <2>1. /\ scan[t] \in Threads /\ Beaten(ar[t]) /\ UNCHANGED <<rar, ar, war>>
    BY <1>0, <1>5 DEF Scan, TypeOK, FInv, ScannerBeaten
  <2>2. PICK label \in {"scan", "found"} : pc' = [pc EXCEPT ![t] = label]
    BY <1>5 DEF Scan, NextScan, Goto
  <2>3. pc'[t] = label /\ \A i \in Threads \ {t} : pc'[i] = pc[i]
    BY <1>0, <2>2 DEF TypeOK
  <2>4. ASSUME NEW i \in Threads, intr'[i], ~ intr[i]
        PROVE  Beaten(ar[i])
    <3>1. i = scan[t] /\ Area(ar[t]) <= Area(war[i])
      BY <1>0, <1>5, <2>1, <2>4 DEF Scan, Interrupt, TypeOK
    <3>2. war[i] <= ar[i]
      BY DEF FInv, AnnouncedBehind
    <3> QED
      BY <1>0, <2>1, <3>1, <3>2, StateAreas DEF Beaten
  <2>5. AnnouncedBehind' /\ InterruptedBeaten'
    BY <2>1, <2>4 DEF FInv, AnnouncedBehind, InterruptedBeaten, Beaten
  <2>6. ScannerBeaten' /\ \A i \in Threads : pc'[i] # "scan2"
    BY <2>1, <2>3 DEF FInv, ScannerBeaten, Beaten
  <2> QED
    BY <1>0, <2>5, <2>6 DEF FInv
<1>6. ASSUME NEW t \in Threads, ScanFirstLoad(t) \/ ScanSecondLoad(t)
      PROVE  FInv'
  BY <1>6 DEF ScanFirstLoad, ScanSecondLoad, FInv
<1>7. ASSUME Collect \/ UNCHANGED vars
      PROVE  FInv'
  BY <1>0, <1>7 DEF Collect, vars, FInv, AnnouncedBehind, InterruptedBeaten, ScannerBeaten, Beaten
<1> QED
  BY <1>1, <1>2, <1>3, <1>4, <1>5, <1>6, <1>7 DEF Next, Worker, Terminated

(* "smaller ones may finish running" (explore_asynchronously): no thread   *)
(* on a size smaller than every result is ever interrupted                 *)
(* (InterruptsSpareSmaller), also if time runs out.                        *)
THEOREM SmallerFinish ==
  ASSUME ~ TornReads
  PROVE  Spec => []InterruptsSpareSmaller
<1>1. FInv => InterruptsSpareSmaller
  BY DEF FInv, InterruptsSpareSmaller, InterruptedBeaten
<1>2. Init => FInv
  <2> SUFFICES ASSUME Init
               PROVE  FInv
    OBVIOUS
  <2>1. NInv
    BY RegistrationStarts
  <2> QED
    BY <2>1 DEF Init, FInv, AnnouncedBehind, InterruptedBeaten, ScannerBeaten
<1>3. FInv /\ [Next]_vars => FInv'
  BY InterruptsInductive
<1> QED
  BY <1>1, <1>2, <1>3, PTL DEF Spec

-----------------------------------------------------------------------------
(***************************************************************************)
(* Refinement: how each step of a worker looks to MinimalLayoutSearch.     *)
(* Two threads on the same aspect ratio would make one of them settle what *)
(* the other one is still working on; WorkDistinct excludes that.          *)
(***************************************************************************)

(* A worker works on an aspect ratio within bounds that no other works on. *)
WorkDistinct ==
  /\ \A t \in Threads : pc[t] \in Working => Area(ar[t]) <= UpperBound
  /\ \A i, j \in Threads :
       pc[i] \in Working /\ pc[j] \in Working /\ ar[i] = ar[j] => i = j

RInv == IInv /\ WorkDistinct

(* A step that starts no work keeps the workers apart. *)
LEMMA NoNewWork ==
  ASSUME WorkDistinct, ar' = ar,
         \A t \in Threads : pc'[t] \in Working => pc[t] \in Working
  PROVE  WorkDistinct'
  BY DEF WorkDistinct

(* ++ari and *ari under one lock (ari_mutex) give every thread an aspect   *)
(* ratio of its own.                                                       *)
LEMMA FetchKeepsDistinct ==
  ASSUME IInv, WorkDistinct, NEW t \in Threads, Fetch(t)
  PROVE  WorkDistinct'
<1> DEFINE k == ari + 1
<1>1. /\ ar' = [ar EXCEPT ![t] = k]
      /\ \E label : pc' = [pc EXCEPT ![t] = label]
      /\ pc'[t] \in Working => ~ (Area(k) > UpperBound)
  BY DEF Fetch, Goto, IInv, TypeOK, Working
<1>2. k \in 0..Len(Ratios) /\ \A j \in 0..ari : j # k
  BY SizesAssumption DEF Fetch, IInv, TypeOK, Positions
<1>3. Area(k) \in Nat /\ UpperBound \in Nat
  BY <1>2, AreaNat, SizesAssumption
<1>4. /\ \A i \in Threads \ {t} : ar'[i] = ar[i] /\ pc'[i] = pc[i] /\ ar[i] # k
      /\ ar'[t] = k
  BY <1>1, <1>2 DEF IInv, TypeOK
<1>5. \A i \in Threads : pc'[i] \in Working => Area(ar'[i]) <= UpperBound
  BY <1>1, <1>3, <1>4 DEF WorkDistinct
<1>6. ASSUME NEW i \in Threads, NEW j \in Threads, pc'[i] \in Working,
             pc'[j] \in Working, ar'[i] = ar'[j]
      PROVE  i = j
  BY <1>4, <1>6 DEF WorkDistinct
<1> QED
  BY <1>5, <1>6 DEF WorkDistinct

(* The workers stay apart. *)
LEMMA DistinctStep ==
  ASSUME RInv, [Next]_vars
  PROVE  WorkDistinct'
<1> USE DEF RInv
<1>1. ASSUME NEW t \in Threads, Fetch(t)
      PROVE  WorkDistinct'
  BY <1>1, FetchKeepsDistinct
<1>2. ASSUME NEW t \in Threads,
             \/ Register(t) \/ Compare(t) \/ Publish(t) \/ Solve(t) \/ GiveUp(t)
             \/ UpdateTimeout(t) \/ Report(t) \/ Scan(t)
             \/ ScanFirstLoad(t) \/ ScanSecondLoad(t)
      PROVE  WorkDistinct'
  <2>1. ar' = ar
    BY <1>2 DEF Register, Compare, Publish, Solve, GiveUp, UpdateTimeout, Report,
                Scan, ScanFirstLoad, ScanSecondLoad
  <2>2. \E label : /\ pc' = [pc EXCEPT ![t] = label]
                   /\ label \in Working => pc[t] \in Working
    BY <1>2 DEF Register, Compare, Publish, Solve, GiveUp, UpdateTimeout, Report,
                Scan, ScanFirstLoad, ScanSecondLoad, NextScan, Goto, Working
  <2> QED
    BY <2>1, <2>2, NoNewWork DEF IInv, TypeOK
<1>3. ASSUME Collect \/ Terminated \/ UNCHANGED vars
      PROVE  WorkDistinct'
  BY <1>3, NoNewWork DEF Collect, Terminated, vars
<1> QED
  BY <1>1, <1>2, <1>3 DEF Next, Worker

(* A worker that stops working on its aspect ratio closes it and no other. *)
LEMMA WorkerCloses ==
  ASSUME RInv, NEW t \in Threads, NEW label, pc[t] \in Working, label \notin Working,
         ari' = ari, ar' = ar, pc' = [pc EXCEPT ![t] = label]
  PROVE  /\ ar[t] \in Open /\ ar[t] \in Bounded \ {1}
         /\ Open' = Open \ {ar[t]}
<1>0. /\ ar[t] \in 0..ari /\ ari \in 1..Len(Ratios) /\ Len(Ratios) \in Nat
      /\ ar[t] > 1 /\ Area(ar[t]) <= UpperBound
  BY SizesAssumption DEF RInv, WorkDistinct, IInv, TypeOK, Positions, Control, ControlOf
<1>1. ar[t] \in Bounded \ {1} /\ ~ (ar[t] > ari)
  BY <1>0 DEF Bounded, Positions
<1>2. pc'[t] = label /\ \A i \in Threads \ {t} : pc'[i] = pc[i] /\ (pc[i] \in Working => ar[i] # ar[t])
  BY DEF RInv, IInv, TypeOK, WorkDistinct
<1>3. ASSUME NEW k
      PROVE  (\E i \in Threads : ar[i] = k /\ pc'[i] \in Working)
               <=> k # ar[t] /\ \E i \in Threads : ar[i] = k /\ pc[i] \in Working
  BY <1>2
<1>4. \A k \in Bounded \ {1} : k \in Open' <=> k \in Open /\ k # ar[t]
  BY <1>1, <1>3 DEF Open
<1> QED
  BY <1>1, <1>4 DEF Open

(* A worker that goes on without closing anything is not seen. *)
LEMMA WorkerUnseen ==
  ASSUME RInv, NEW t \in Threads, NEW label,
         pc[t] \in Working <=> label \in Working,
         UNCHANGED <<ari, ar, rar, sat, delivered, outcome>>,
         pc' = [pc EXCEPT ![t] = label]
  PROVE  UNCHANGED Search!vars
<1>1. \A i \in Threads : pc'[i] \in Working <=> pc[i] \in Working
  BY DEF RInv, IInv, TypeOK
<1>2. Open' = Open
  BY <1>1 DEF Open
<1> QED
  BY <1>2 DEF Search!vars

(* A worker that drops a settled aspect ratio rules it out. *)
LEMMA WorkerDrops ==
  ASSUME RInv, NEW t \in Threads, NEW label, pc[t] \in Working, label \notin Working,
         UNCHANGED <<ari, ar, rar, sat, delivered, outcome>>,
         pc' = [pc EXCEPT ![t] = label], Settled(ar[t])
  PROVE  Search!Next
<1>1. /\ ar[t] \in Open /\ ar[t] \in Bounded \ {1} /\ Open' = Open \ {ar[t]}
  BY WorkerCloses
<1>2. Search!RuleOut(ar[t])
  BY <1>1 DEF Search!RuleOut, Search!Beaten, Settled, Beaten
<1> QED
  BY <1>1, <1>2 DEF Search!Next

(* Taking an aspect ratio closes it only if it is skipped: beyond the      *)
(* upper bound there is nothing to close, otherwise the worker has it.     *)
LEMMA FetchSearches ==
  ASSUME RInv, NEW t \in Threads, Fetch(t)
  PROVE  [Search!Next]_Search!vars
<1> DEFINE k == ari + 1
<1>1. PICK label \in {"nullopt", "fetch", "compare"} :
        /\ pc' = [pc EXCEPT ![t] = label]
        /\ label = "nullopt" <=> Area(k) > UpperBound
        /\ label = "fetch" => skippable(k, lyt[t])
  BY DEF Fetch, Goto
<1>2. /\ pc[t] = "fetch" /\ ari' = k /\ ar' = [ar EXCEPT ![t] = k] /\ ari < Len(Ratios)
      /\ UNCHANGED <<rar, outcome, delivered, sat>>
  BY DEF Fetch
<1>3. /\ k \in Positions /\ k > 1 /\ k \in Nat /\ ari \in Nat
      /\ Area(k) \in Nat /\ UpperBound \in Nat
      /\ \A j \in Bounded : j \in Nat
  <2>1. ari \in 1..Len(Ratios) /\ Len(Ratios) \in Nat /\ UpperBound \in Nat
    BY SizesAssumption DEF RInv, IInv, TypeOK, Positions
  <2>2. k \in 1..Len(Ratios) /\ k \in 0..Len(Ratios) /\ k > 1 /\ ari \in Nat
    BY <1>2, <2>1
  <2> QED
    BY <2>1, <2>2, AreaNat DEF Positions, Bounded
<1>4. /\ pc'[t] = label /\ ar'[t] = k
      /\ \A i \in Threads \ {t} : pc'[i] = pc[i] /\ ar'[i] = ar[i]
      /\ \A i \in Threads : ar[i] # k
  <2>1. \A i \in Threads : ar[i] \in 0..ari
    BY DEF RInv, IInv, TypeOK
  <2>2. \A i \in Threads : ar[i] # k
    BY <1>3, <2>1
  <2> QED
    BY <1>1, <1>2, <2>2 DEF RInv, IInv, TypeOK
<1>5. ASSUME NEW j
      PROVE  (\E i \in Threads : ar'[i] = j /\ pc'[i] \in Working)
               <=> \/ \E i \in Threads : ar[i] = j /\ pc[i] \in Working
                   \/ j = k /\ label = "compare"
  BY <1>2, <1>4 DEF Working
<1>6. \A j \in Bounded \ {1} : j \in Open' <=>
        \/ j \in Open /\ j # k
        \/ j = k /\ label = "compare"
  <2>1. \A j \in Bounded \ {1} : /\ j > ari' <=> j > ari /\ j # k
                                /\ k > ari
    BY <1>2, <1>3
  <2>2. \A j \in Bounded \ {1} : j \in Open' <=>
          j > ari' \/ \E i \in Threads : ar'[i] = j /\ pc'[i] \in Working
    BY DEF Open
  <2> QED
    BY <1>4, <1>5, <2>1, <2>2 DEF Open
<1>7. CASE label = "compare"
  <2>1. k \in Bounded => k \in Open
    BY <1>3 DEF Open
  <2>2. Open' = Open
    BY <1>6, <1>7, <2>1 DEF Open
  <2> QED
    BY <1>2, <2>2 DEF Search!vars
<1>8. CASE label = "nullopt"
  <2>1. k \notin Bounded
    BY <1>1, <1>3, <1>8 DEF Bounded
  <2>2. Open' = Open
    BY <1>6, <1>8, <2>1 DEF Open
  <2> QED
    BY <1>2, <2>2 DEF Search!vars
<1>9. CASE label = "fetch"
  <2>1. k \in Bounded \ {1} /\ k \in Open
    BY <1>1, <1>3, <1>9 DEF Bounded, Open
  <2>2. Open' = Open \ {k}
    BY <1>6, <1>9 DEF Open
  <2>3. Settled(k)
    BY <1>1, <1>2, <1>9, SkippedSettled DEF RInv
  <2>4. Search!RuleOut(k)
    BY <1>2, <2>1, <2>2, <2>3 DEF Search!RuleOut, Search!Beaten, Settled, Beaten
  <2> QED
    BY <2>1, <2>4 DEF Search!Next
<1> QED
  BY <1>7, <1>8, <1>9

(* Recording a result accepts it; a layout that is not recorded is beaten. *)
LEMMA ReportSearches ==
  ASSUME RInv, NEW t \in Threads, Report(t)
  PROVE  Search!Next
<1>1. /\ pc[t] = "report" /\ ar[t] \in sat /\ ar[t] > 1
      /\ UNCHANGED <<ari, ar, sat, delivered, outcome>>
  BY DEF Report, RInv, IInv, Control, ControlOf, Working
<1>a. pc[t] \in Working /\ "nullopt" \notin Working /\ "scan" \notin Working
  BY <1>1 DEF Working
<1>2. CASE ~ (rar = 0 \/ Area(rar) > Area(ar[t]))
  <2>1. pc' = [pc EXCEPT ![t] = "nullopt"] /\ UNCHANGED rar
    BY <1>2 DEF Report, Goto
  <2>2. Settled(ar[t])
    BY <1>2, StateAreas DEF Settled, Beaten, RInv, IInv
  <2> QED
    BY <1>1, <1>a, <2>1, <2>2, WorkerDrops
<1>3. CASE rar = 0 \/ Area(rar) > Area(ar[t])
  <2>1. rar' = ar[t] /\ pc' = [pc EXCEPT ![t] = "scan"]
    BY <1>3 DEF Report, Goto
  <2>2. /\ ar[t] \in Open /\ ar[t] \in Bounded \ {1} /\ Open' = Open \ {ar[t]}
    BY <1>1, <1>a, <2>1, WorkerCloses
  <2>3. ~ Beaten(ar[t])
    BY <1>3, StateAreas DEF Beaten, RInv, IInv
  <2>4. Search!Accept(ar[t])
    BY <1>1, <2>1, <2>2, <2>3 DEF Search!Accept, Search!Beaten, Beaten
  <2> QED
    BY <2>2, <2>4 DEF Search!Next
<1> QED
  BY <1>2, <1>3

(* Once every worker has ended, whatever is still open is at least as      *)
(* large as the result: the iterator only moves to larger layouts.         *)
LEMMA EndedMeansOpenBeaten ==
  ASSUME IInv, \A t \in Threads : pc[t] \in Ended, NEW k \in Open
  PROVE  Beaten(k)
<1>1. k \in Positions /\ Area(k) <= UpperBound /\ k > ari
  BY DEF Open, Bounded, Working, Ended
<1>2. PICK t \in Threads : TRUE
  BY ThreadsAssumption DEF Threads
<1>3. Area(ar[t]) > UpperBound \/ Beaten(ar[t])
  BY DEF IInv, Control, ControlOf, Ended
<1>4. /\ ar[t] \in 0..Len(Ratios) /\ k \in 0..Len(Ratios) /\ rar \in 0..Len(Ratios)
      /\ ar[t] <= k
  <2>1. ari \in 1..Len(Ratios) /\ ar[t] \in 0..ari /\ rar \in 0..ari
    BY DEF IInv, TypeOK, Positions
  <2>2. Len(Ratios) \in Nat /\ k \in 1..Len(Ratios)
    BY <1>1, SizesAssumption DEF Positions
  <2> QED
    BY <1>1, <2>1, <2>2
<1>5. /\ Area(ar[t]) \in Nat /\ Area(k) \in Nat /\ Area(rar) \in Nat
      /\ Area(ar[t]) <= Area(k) /\ UpperBound \in Nat
  BY <1>4, AreaNat, AreaMono, SizesAssumption
<1> QED
  BY <1>1, <1>3, <1>5 DEF Beaten

(* Collecting the futures answers the search. *)
LEMMA CollectSearches ==
  ASSUME ~ Timeouts, RInv, Collect
  PROVE  Search!Next
<1>1. /\ UNCHANGED <<ari, rar, pc, ar, sat>> /\ outcome = "running"
      /\ \A t \in Threads : pc[t] \in Ended
  BY DEF Collect
<1>2. Open' = Open
  BY <1>1 DEF Open
<1>3. outcome' # "running" /\ delivered' = rar
  <2>1. TypeOK'
    BY TypeStep DEF RInv, IInv, Next
  <2>2. IInv'
    BY <2>1, CollectStep DEF RInv
  <2>3. outcome' # "running"
    BY DEF Collect
  <2> QED
    BY <1>1, <2>2, <2>3 DEF IInv, Answered
<1>4. \A k \in Open : Beaten(k)
  BY <1>1, EndedMeansOpenBeaten DEF RInv
<1>5. Search!Finish
  BY <1>1, <1>2, <1>3, <1>4 DEF Search!Finish, Search!Beaten, Beaten
<1> QED
  BY <1>5 DEF Search!Next

(* Every step of a worker, and run_asynchronously's return, is a step of   *)
(* the search, or changes nothing the search can see.                      *)
LEMMA ExplorationSearches ==
  ASSUME ~ Timeouts, ~ TornReads, RInv, [Next]_vars
  PROVE  [Search!Next]_Search!vars
<1>0. /\ {"compare", "publish", "solve", "report"} \subseteq Working
      /\ {"start", "fetch", "timeout", "scan", "found", "nullopt"} \cap Working = {}
  BY DEF Working
<1>1. ASSUME NEW t \in Threads, Register(t) \/ UpdateTimeout(t)
      PROVE  UNCHANGED Search!vars
  <2>1. /\ pc[t] \in {"start", "timeout"} /\ pc' = [pc EXCEPT ![t] = "fetch"]
        /\ UNCHANGED <<ari, ar, rar, sat, delivered, outcome>>
    BY <1>1 DEF Register, UpdateTimeout, Goto
  <2>2. pc[t] \in Working <=> "fetch" \in Working
    BY <1>0, <2>1
  <2> QED
    BY <2>1, <2>2, WorkerUnseen
<1>2. ASSUME NEW t \in Threads, Compare(t)
      PROVE  [Search!Next]_Search!vars
  <2>1. pc[t] = "compare" /\ UNCHANGED <<ari, ar, rar, sat, delivered, outcome>>
    BY <1>2 DEF Compare
  <2>2. CASE Beaten(ar[t])
    <3>1. pc' = [pc EXCEPT ![t] = "nullopt"]
      BY <1>2, <2>2 DEF Compare, Goto, Beaten
    <3>2. pc[t] \in Working /\ "nullopt" \notin Working /\ Settled(ar[t])
      BY <1>0, <2>1, <2>2 DEF Settled
    <3> QED
      BY <2>1, <3>1, <3>2, WorkerDrops
  <2>3. CASE ~ Beaten(ar[t])
    <3>1. pc' = [pc EXCEPT ![t] = "publish"]
      BY <1>2, <2>3 DEF Compare, Goto, Beaten
    <3>2. pc[t] \in Working <=> "publish" \in Working
      BY <1>0, <2>1
    <3> QED
      BY <2>1, <3>1, <3>2, WorkerUnseen
  <2> QED
    BY <2>2, <2>3
<1>3. ASSUME NEW t \in Threads, Publish(t)
      PROVE  UNCHANGED Search!vars
  <2>1. /\ pc[t] = "publish" /\ pc' = [pc EXCEPT ![t] = "solve"]
        /\ UNCHANGED <<ari, ar, rar, sat, delivered, outcome>>
    BY <1>3 DEF Publish, Goto
  <2>2. pc[t] \in Working <=> "solve" \in Working
    BY <1>0, <2>1
  <2> QED
    BY <2>1, <2>2, WorkerUnseen
<1>4. ASSUME NEW t \in Threads, Solve(t)
      PROVE  [Search!Next]_Search!vars
  <2>1. pc[t] = "solve" /\ UNCHANGED <<ari, ar, rar, sat, delivered, outcome>>
    BY <1>4 DEF Solve
  <2>2. CASE ar[t] \in sat
    <3>1. pc' = [pc EXCEPT ![t] = "report"]
      BY <1>4, <2>2 DEF Solve, Goto
    <3>2. pc[t] \in Working <=> "report" \in Working
      BY <1>0, <2>1
    <3> QED
      BY <2>1, <3>1, <3>2, WorkerUnseen
  <2>3. CASE ar[t] \notin sat
    <3>1. pc' = [pc EXCEPT ![t] = "timeout"]
      BY <1>4, <2>3 DEF Solve, Goto
    <3>2. pc[t] \in Working /\ "timeout" \notin Working /\ Settled(ar[t])
      BY <1>0, <2>1, <2>3 DEF Settled
    <3> QED
      BY <2>1, <3>1, <3>2, WorkerDrops
  <2> QED
    BY <2>2, <2>3
<1>5. ASSUME NEW t \in Threads, GiveUp(t)
      PROVE  Search!Next
  <2>1. /\ pc[t] = "solve" /\ intr[t]
        /\ UNCHANGED <<ari, ar, rar, sat, delivered, outcome>>
    BY <1>5 DEF GiveUp
  <2>2. PICK label \in {"nullopt", "timeout"} : pc' = [pc EXCEPT ![t] = label]
    BY <1>5 DEF GiveUp, Goto
  <2>3. pc[t] \in Working /\ label \notin Working /\ Settled(ar[t])
    BY <1>0, <2>1 DEF Settled, RInv, IInv, InterruptedBeaten
  <2> QED
    BY <2>1, <2>2, <2>3, WorkerDrops
<1>6. ASSUME NEW t \in Threads, Scan(t)
      PROVE  UNCHANGED Search!vars
  <2>1. pc[t] = "scan" /\ UNCHANGED <<ari, ar, rar, sat, delivered, outcome>>
    BY <1>6 DEF Scan
  <2>2. PICK label \in {"scan", "found"} : pc' = [pc EXCEPT ![t] = label]
    BY <1>6 DEF Scan, NextScan, Goto
  <2>3. pc[t] \in Working <=> label \in Working
    BY <1>0, <2>1
  <2> QED
    BY <2>1, <2>2, <2>3, WorkerUnseen
<1>7. ASSUME NEW t \in Threads, ScanFirstLoad(t) \/ ScanSecondLoad(t)
      PROVE  FALSE
  BY <1>7 DEF ScanFirstLoad, ScanSecondLoad, RInv, IInv, Control, ControlOf
<1>8. ASSUME Terminated \/ UNCHANGED vars
      PROVE  UNCHANGED Search!vars
  BY <1>8 DEF Terminated, vars, Search!vars, Open
<1> QED
  BY <1>1, <1>2, <1>3, <1>4, <1>5, <1>6, <1>7, <1>8, FetchSearches,
     ReportSearches, CollectSearches DEF Next, Worker

(* The search starts with every aspect ratio behind the first one open. *)
LEMMA ExplorationStarts == Init => Search!Init /\ WorkDistinct
<1> SUFFICES ASSUME Init
             PROVE  Search!Init /\ WorkDistinct
  OBVIOUS
<1>1. \A k \in Bounded \ {1} : k > 1
  BY SizesAssumption DEF Bounded, Positions
<1>2. Open = Bounded \ {1}
  BY <1>1 DEF Init, Open
<1>3. WorkDistinct
  BY DEF Init, WorkDistinct, Working
<1> QED
  BY <1>2, <1>3 DEF Init, Search!Init

(* run_asynchronously, whatever the number of threads and however they     *)
(* interleave, implements the search for a minimal layout among the aspect *)
(* ratios behind the first one: a fetch, an interrupt, a comparison or a   *)
(* refuted instance drops an aspect ratio only if it cannot be satisfied   *)
(* or something at most as large has been found, no aspect ratio is        *)
(* dropped twice, and exact() answers the best one found.                  *)
THEOREM AsynchronousImplementsSearch ==
  ASSUME ~ Timeouts, ~ TornReads
  PROVE  Spec => ImplementsSearch
<1>1. Init => RInv /\ Search!Init
  BY InitInv, ExplorationStarts DEF RInv
<1>2. RInv /\ [Next]_vars => RInv'
  BY Inductive, DistinctStep DEF RInv
<1>3. RInv /\ [Next]_vars => [Search!Next]_Search!vars
  BY ExplorationSearches
<1> QED
  BY <1>1, <1>2, <1>3, PTL DEF Spec, ImplementsSearch, Search!Spec
=============================================================================
