-------------------------- MODULE ExactSizesProofs --------------------------
(***************************************************************************)
(* Facts about aspect ratios that the proofs about both explorations rest  *)
(* on.  X, Y and Area stay folded in those proofs.                         *)
(***************************************************************************)
EXTENDS ExactSizes, TLAPS

(* The coordinates of an aspect ratio and its area are numbers, the area   *)
(* at least 1 (coordinates.hpp, area).                                     *)
LEMMA AreaNat ==
  \A k \in 0..Len(Ratios) : X(k) \in Nat /\ Y(k) \in Nat /\ Area(k) \in Nat /\ Area(k) >= 1
<1> SUFFICES ASSUME NEW k \in 0..Len(Ratios)
             PROVE  X(k) \in Nat /\ Y(k) \in Nat /\ Area(k) \in Nat /\ Area(k) >= 1
  OBVIOUS
<1>1. X(k) \in Nat /\ Y(k) \in Nat
  <2>1. CASE k = 0
    BY <2>1 DEF X, Y
  <2>2. CASE k # 0
    <3>1. k \in 1..Len(Ratios)
      BY <2>2, SizesAssumption
    <3>2. Ratios[k] \in Nat \X Nat
      BY <3>1, SizesAssumption
    <3> QED
      BY <2>2, <3>2 DEF X, Y
  <2> QED
    BY <2>1, <2>2
<1>2. \A a, b \in Nat : (a + 1) * (b + 1) \in Nat /\ (a + 1) * (b + 1) >= 1
  OBVIOUS
<1> QED
  BY <1>1, <1>2 DEF Area

(* Areas never shrink along the sequence; position 0 has the area of one   *)
(* tile, the smallest there is (aspect_ratio_iterator, operator++).        *)
LEMMA AreaMono ==
  \A j, k \in 0..Len(Ratios) : j <= k => Area(j) <= Area(k)
<1> SUFFICES ASSUME NEW j \in 0..Len(Ratios), NEW k \in 0..Len(Ratios), j <= k
             PROVE  Area(j) <= Area(k)
  OBVIOUS
<1>0. Len(Ratios) \in Nat
  BY SizesAssumption
<1>1. CASE j = 0
  <2>1. Area(j) = 1
    BY <1>1 DEF Area, X, Y
  <2> QED
    BY <2>1, AreaNat
<1>2. CASE j # 0
  <2>1. j \in Positions /\ k \in Positions
    BY <1>0, <1>2 DEF Positions
  <2> QED
    BY <2>1, RatiosAssumption
<1> QED
  BY <1>1, <1>2

(* A layout and its rotation have the same area (smt_handler::skippable). *)
LEMMA RotationArea ==
  ASSUME NEW j \in 0..Len(Ratios), NEW k \in 0..Len(Ratios), Rotation(j, k)
  PROVE  Area(j) = Area(k)
<1>1. X(j) \in Nat /\ Y(j) \in Nat
  BY AreaNat
<1>2. \A a, b \in Nat : (a + 1) * (b + 1) = (b + 1) * (a + 1)
  OBVIOUS
<1>3. Area(j) = (X(j) + 1) * (Y(j) + 1) /\ Area(k) = (Y(j) + 1) * (X(j) + 1)
  BY DEF Area, Rotation
<1> QED
  BY <1>1, <1>2, <1>3

(* Two positions of the sequence with the same coordinates are the same    *)
(* position, so the comparison of x() and y() in run_asynchronously        *)
(* identifies the winner.                                                  *)
LEMMA SameRatio ==
  ASSUME NEW j \in Positions, NEW k \in Positions, X(j) = X(k), Y(j) = Y(k)
  PROVE  j = k
<1>0. Len(Ratios) \in Nat
  BY SizesAssumption
<1>1. j # 0 /\ k # 0
  BY <1>0 DEF Positions
<1>2. Ratios[j] \in Nat \X Nat /\ Ratios[k] \in Nat \X Nat
  BY <1>0, SizesAssumption DEF Positions
<1>3. Ratios[j][1] = Ratios[k][1] /\ Ratios[j][2] = Ratios[k][2]
  BY <1>1 DEF X, Y
<1>4. Ratios[j] = Ratios[k]
  BY <1>2, <1>3
<1> QED
  BY <1>4, RatiosAssumption

(* Behind the first position no layout has a single tile. *)
LEMMA AreaAboveOne ==
  ASSUME NEW k \in Positions, k > 1
  PROVE  Area(k) > 1
<1>0. 1 \in Positions /\ Positions \subseteq 0..Len(Ratios)
  BY SizesAssumption DEF Positions
<1>1. SUFFICES ASSUME Area(k) = 1
               PROVE  FALSE
  BY <1>0, AreaNat
<1>2. Area(1) = 1
  BY <1>0, <1>1, AreaMono, AreaNat
<1>3. \A a, b \in Nat : (a + 1) * (b + 1) = 1 => a = 0 /\ b = 0
  <2> SUFFICES ASSUME NEW a \in Nat, NEW b \in Nat, (a + 1) * (b + 1) = 1
               PROVE  a = 0 /\ b = 0
    OBVIOUS
  <2>1. (a + 1) * (b + 1) = a * b + a + b + 1 /\ a * b \in Nat
    OBVIOUS
  <2> QED
    BY <2>1
<1>4. X(k) = 0 /\ Y(k) = 0 /\ X(1) = 0 /\ Y(1) = 0
  BY <1>0, <1>1, <1>2, <1>3, AreaNat DEF Area
<1> QED
  BY <1>0, <1>4, SameRatio
=============================================================================
