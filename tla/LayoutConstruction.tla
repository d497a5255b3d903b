------------------------- MODULE LayoutConstruction -------------------------
(***************************************************************************)
(* How the P&R algorithms build a gate-level layout from a network         *)
(* (utils/placement_utils.hpp and its callers exact and orthogonal):       *)
(* first reserve all primary inputs and register outputs, in the order of  *)
(* the network, by creating each of them on tile (0,0) over the previous   *)
(* one; then move the reserved nodes to their tiles and create gates,      *)
(* wires, POs and RIs on empty tiles, in any order that places a node      *)
(* after its children.  Where a node goes is left open here.               *)
(***************************************************************************)
EXTENDS GateLevelLayout

CONSTANTS
  MaxPIs,     \* bound of the model: the largest ntk.num_pis()
  MaxROs,     \* bound of the model: the largest ntk.num_ros()
  MaxPlaced,  \* bound of the model: nodes created after the reservations
  Origin      \* tile (0,0)

ASSUME ConstructionAssumption ==
  /\ {MaxPIs, MaxROs, MaxPlaced} \subseteq Nat
  /\ Origin \in Tiles
  /\ MaxFanin > 0   \* outputs have a child

VARIABLES
  phase,     \* "pis" and "ros" while reserving, then "place"
  ntk        \* numbers of PIs and ROs of the network; never changes

cvars == <<vars, phase, ntk>>

(* Networks without PIs, and combinational ones without ROs, included. *)
ConstructionInit ==
  /\ Init
  /\ phase = "pis"
  /\ ntk \in [num_pis : 0..MaxPIs, num_ros : 0..MaxROs]

(* reserve_input_nodes, one round of its loop *)
ReservePI ==
  /\ phase = "pis" /\ sequential_inf.num_pis < ntk.num_pis
  /\ create_pi(Origin)
  /\ UNCHANGED <<phase, ntk>>

(* A slip: the tile is not emptied after the last input. *)
KeepLastPI ==
  /\ phase = "pis" /\ sequential_inf.num_pis = ntk.num_pis
  /\ UNCHANGED vars
  /\ phase' = "ros"
  /\ UNCHANGED ntk

(* The last PI is moved to a dead tile.  A network without PIs makes this  *)
(* a move of the constant 0.                                               *)
ReleaseLastPI ==
  /\ phase = "pis" /\ sequential_inf.num_pis = ntk.num_pis
  /\ move_node(get_node(strg, Origin), Const0, <<>>)
  /\ phase' = "ros"
  /\ UNCHANGED ntk

(* reserve_register_output_nodes *)
ReserveRO ==
  /\ phase = "ros" /\ sequential_inf.registers < ntk.num_ros
  /\ create_ro(Origin)
  /\ UNCHANGED <<phase, ntk>>

ReleaseLastRO ==
  /\ phase = "ros" /\ sequential_inf.registers = ntk.num_ros
  /\ move_node(get_node(strg, Origin), Const0, <<>>)
  /\ phase' = "place"
  /\ UNCHANGED ntk

Empty(t) == is_empty_tile(strg, t)
PlacedTiles == {t \in Tiles : ~ Empty(t)}
WithinBound == strg.size < 2 + Len(strg.inputs) + MaxPlaced

(* layout.move_node(pi2node[n], t) *)
PlaceInput ==
  /\ phase = "place"
  /\ \E i \in DOMAIN strg.inputs, t \in Tiles :
       /\ ~ placed(strg, strg.inputs[i]) /\ Empty(t)
       /\ move_node(strg.inputs[i], t, <<>>)
  /\ UNCHANGED <<phase, ntk>>

(* place(layout, t, ntk, n, a, b): wires and gates of one or more inputs *)
Place ==
  /\ phase = "place" /\ WithinBound
  /\ \E t \in Tiles, literal \in {2, 3}, arity \in 1..MaxFanin :
       \E sigs \in [1..arity -> PlacedTiles] :
         Empty(t) /\ create_node_from_literal(sigs, literal, t)
  /\ UNCHANGED <<phase, ntk>>

PlacePO ==
  /\ phase = "place" /\ WithinBound
  /\ \E t \in Tiles, sig \in PlacedTiles : Empty(t) /\ create_po(sig, t)
  /\ UNCHANGED <<phase, ntk>>

(* Every register output has one register input. *)
PlaceRI ==
  /\ phase = "place" /\ WithinBound
  /\ Cardinality({n \in Nodes : kind[n] = "ri"}) < ntk.num_ros
  /\ \E t \in Tiles, sig \in PlacedTiles : Empty(t) /\ create_ri(sig, t)
  /\ UNCHANGED <<phase, ntk>>

ConstructionNext ==
  \/ ReservePI \/ ReleaseLastPI \/ ReserveRO \/ ReleaseLastRO
  \/ PlaceInput \/ Place \/ PlacePO \/ PlaceRI

ConstructionSpec == ConstructionInit /\ [][ConstructionNext]_cvars

-----------------------------------------------------------------------------
(* "They are just registered to preserve their order" (placement_utils):   *)
(* a node is listed as a PI, RO, PO or RI exactly if it was created as     *)
(* one, whichever of POs and RIs is placed first, and the inputs keep the  *)
(* order in which they were reserved.                                      *)
IOClassified ==
  /\ \A n \in 2..(strg.size - 1) :
       /\ is_pi(strg, sequential_inf, n) <=> kind[n] = "pi"
       /\ is_ro(strg, sequential_inf, n) <=> kind[n] = "ro"
       /\ is_po(strg, sequential_inf, n) <=> kind[n] = "po"
       /\ is_ri(strg, sequential_inf, n) <=> kind[n] = "ri"
  /\ \A i, j \in DOMAIN strg.inputs : i < j => strg.inputs[i] < strg.inputs[j]

(* "The [...] nodes then exist in the layout but are not placed anywhere"  *)
(* (placement_utils): each of the two reservations leaves an empty layout, *)
(* although it has used the tile (0,0) and knows only its last occupant.   *)
ReservedNowhere ==
  [][phase' # phase =>
       /\ \A t \in Tiles : is_empty_tile(strg', t)
       /\ strg'.num_wires + strg'.num_gates = 0]_cvars

(* "Internal (data-flow independent) fan-out size (MSB indicates dead      *)
(* nodes)" (gate_level_layout.hpp): the reference count of every node is   *)
(* the number of children that name it, and no reference goes to a         *)
(* constant by way of an empty tile.                                       *)
ReferencesExact ==
  \A n \in Nodes :
    strg.h1[n] % DeadBit =
      Cardinality({mi \in Nodes \X (1..MaxFanin) :
                     /\ mi[2] \in DOMAIN strg.children[mi[1]]
                     /\ get_node(strg, strg.children[mi[1]][mi[2]]) = n})
=============================================================================
