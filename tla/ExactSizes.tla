----------------------------- MODULE ExactSizes -----------------------------
(***************************************************************************)
(* The layout sizes the exact physical design tries                        *)
(* (algorithms/physical_design/exact.hpp) and which of them it skips.      *)
(*                                                                         *)
(* An aspect ratio is named by its position in the sequence Ratios of the  *)
(* aspect_ratio_iterator, position 1 being the element the iterator points *)
(* to after its construction.  Position 0 is the default-constructed       *)
(* aspect ratio, of coordinates (0,0).                                     *)
(***************************************************************************)
EXTENDS Naturals, Sequences

CONSTANTS
  Ratios,       \* the sequence of pairs <<x, y>> the iterator produces
  UpperBound,   \* ps.upper_bound
  Scheme,       \* the clocking scheme: "OPEN", "COLUMNAR", "ROW" or "OTHER"
  Depth,        \* depth of the network
  NumIO,        \* the larger of its numbers of PIs and POs
  BorderIO      \* ps.border_io

Positions == 1..Len(Ratios)

(* The fields of an aspect ratio, and its area() (coordinates.hpp). *)
X(k) == IF k = 0 THEN 0 ELSE Ratios[k][1]
Y(k) == IF k = 0 THEN 0 ELSE Ratios[k][2]
Area(k) == (X(k) + 1) * (Y(k) + 1)

ASSUME SizesAssumption ==
  /\ Ratios \in Seq(Nat \X Nat)
  /\ Len(Ratios) >= 1
  /\ UpperBound \in Nat
  /\ Scheme \in {"OPEN", "COLUMNAR", "ROW", "OTHER"}
  /\ Depth \in Nat
  /\ NumIO \in Nat \ {0}
  /\ BorderIO \in BOOLEAN

(* What AspectRatioIterator guarantees: areas never shrink along the       *)
(* sequence and no aspect ratio occurs twice.                              *)
ASSUME RatiosAssumption ==
  /\ \A j, k \in Positions : j <= k => Area(j) <= Area(k)
  /\ \A j, k \in Positions : Ratios[j] = Ratios[k] => j = k

-----------------------------------------------------------------------------
(* smt_handler::skippable: sizes too small for the network, and, without a *)
(* regular clocking, the rotation of the size examined last.               *)
TooSmall(k) ==
  \/ /\ Scheme = "COLUMNAR"
     /\ X(k) < Depth \/ (BorderIO /\ Y(k) < NumIO - 1)
  \/ /\ Scheme = "ROW"
     /\ Y(k) < Depth \/ (BorderIO /\ X(k) < NumIO - 1)

Rotation(k, last) == X(k) # Y(k) /\ X(k) = Y(last) /\ Y(k) = X(last)

(* A slip: half a rotation is enough to be skipped. *)
SkippableRotatedAlways(k, last) ==
  \/ TooSmall(k)
  \/ X(k) = Y(last) \/ Y(k) = X(last)

skippable(k, last) ==
  \/ TooSmall(k)
  \/ Scheme = "OPEN" /\ Rotation(k, last)

(* The sizes within the upper bound; the solver is asked about no other.   *)
Bounded == {k \in Positions : Area(k) <= UpperBound}

(* What the solver can find, external to this code.  "True if ar can       *)
(* safely be skipped because it is UNSAT anyway": layouts that are too     *)
(* small do not exist, and without a clocking scheme a layout can be       *)
(* rotated.  The second is so on Cartesian grids, which this models; on    *)
(* hexagonal and shifted ones, where skippable relies on it too, rows and  *)
(* columns are not alike and a size may be satisfiable without its         *)
(* rotation.                                                               *)
Satisfiable(S) ==
  /\ \A k \in S : ~ TooSmall(k)
  /\ Scheme = "OPEN" =>
       \A j, k \in Positions : Rotation(j, k) => (j \in S <=> k \in S)
=============================================================================
