-------------------------- MODULE GateLevelLayout --------------------------
(***************************************************************************)
(* The gate-level layout (layouts/gate_level_layout.hpp): nodes that       *)
(* compute functions, the tiles they are placed on, and the bookkeeping    *)
(* that keeps both in step.  All P&R algorithms build their result with    *)
(* these operations.                                                       *)
(*                                                                         *)
(* A signal is the 64-bit word of a tile, so signals and tiles are the     *)
(* same here.  The default tile {} is dead and its word is the word of the *)
(* constant 0: Const0 stands for both.  Node 0 is the constant 0, node 1   *)
(* the constant 1.  Of a node's function only its class is kept: the       *)
(* literals 0 and 1 of the constants, 2 of wires, 3 for every gate.        *)
(*                                                                         *)
(* The maps tile_node_map and node_tile_map are functions with a value     *)
(* that stands for a missing entry.                                        *)
(***************************************************************************)
EXTENDS Integers, Sequences, FiniteSets

CONSTANTS
  Tiles,      \* the tiles of the layout that are not dead
  MaxNodes,   \* bound of the model: nodes a run may create, constants included
  MaxFanin,   \* bound of the model: children of a node
  MaxMoves,   \* bound of the model: calls of move_node
  DeadBit,    \* 2^31 in the code: the most significant bit of data[0].h1
  Client      \* how the layout is used, see MayPlace

Const0 == "const0"
Const1 == "const1"
NoTile == "none"
Signals == Tiles \cup {Const0, Const1}
Nodes == 0..(MaxNodes - 1)
NoNode == MaxNodes
Word == 2 * DeadBit

ASSUME LayoutAssumption ==
  /\ MaxNodes \in Nat /\ MaxNodes > 2
  /\ MaxFanin \in Nat
  /\ MaxMoves \in Nat
  /\ DeadBit \in Nat /\ DeadBit > MaxNodes
  /\ DeadBit > (MaxNodes + MaxMoves) * MaxFanin
  /\ IsFiniteSet(Tiles)
  /\ Tiles \cap {Const0, Const1, NoTile} = {}
  /\ Client \in {"any", "careful"}

VARIABLES
  strg,            \* the storage that copies of a layout share
  sequential_inf,  \* numbers of PIs and POs, and of registers
  kind,            \* history: which operation created a node
  moves            \* history: the number of moves, for their bound

vars == <<strg, sequential_inf, kind, moves>>

(* The values of strg; counters and h1 are 32 bits wide. *)
Storage ==
  [size : 2..MaxNodes, fn : [Nodes -> 0..3], children : [Nodes -> Seq(Signals)],
   h1 : [Nodes -> 0..(Word - 1)], tile_node : [Signals -> Nodes \cup {NoNode}],
   node_tile : [Nodes -> Signals \cup {NoTile}], inputs : Seq(Nodes),
   outputs : Seq(Signals), num_gates : 0..(Word - 1), num_wires : 0..(Word - 1)]

-----------------------------------------------------------------------------
(* Queries. *)
dead_tile(t) == t \in {Const0, Const1}

get_node(s, sig) == IF s.tile_node[sig] = NoNode THEN 0 ELSE s.tile_node[sig]
get_tile(s, n) == IF s.node_tile[n] = NoTile THEN Const0 ELSE s.node_tile[n]
is_empty_tile(s, t) == get_node(s, t) = 0
is_constant(n) == n <= 1
is_wire(s, n) == s.fn[n] = 2
is_dead(s, n) == s.h1[n] >= DeadBit
placed(s, n) == s.node_tile[n] \in Tiles

(* The ranges of inputs and outputs are cut at num_pis and num_pos. *)
is_pi(s, q, n) == \E i \in 1..q.num_pis : i <= Len(s.inputs) /\ s.inputs[i] = n
is_ro(s, q, n) == \E i \in (q.num_pis + 1)..(q.num_pis + q.registers) :
                    i <= Len(s.inputs) /\ s.inputs[i] = n
is_po(s, q, n) == \E i \in 1..q.num_pos :
                    i <= Len(s.outputs) /\ get_node(s, s.outputs[i]) = n
is_ri(s, q, n) == \E i \in (q.num_pos + 1)..(q.num_pos + q.registers) :
                    i <= Len(s.outputs) /\ get_node(s, s.outputs[i]) = n

-----------------------------------------------------------------------------
(* Steps the operations are made of, as functions of the storage. *)

(* kill_node and revive_node set and clear the most significant bit. *)
kill_node(s, n) ==
  IF is_constant(n) \/ is_dead(s, n) THEN s ELSE [s EXCEPT !.h1[n] = @ + DeadBit]
revive_node(s, n) ==
  IF is_constant(n) \/ ~ is_dead(s, n) THEN s ELSE [s EXCEPT !.h1[n] = @ - DeadBit]

(* The count of wires or gates that node n belongs to changes by d. *)
Count(s, n, d) ==
  IF is_wire(s, n) THEN [s EXCEPT !.num_wires = (@ + Word + d) % Word]
  ELSE [s EXCEPT !.num_gates = (@ + Word + d) % Word]

(* A slip: the counts are not reduced. *)
ClearTileKeepCount(s, t) ==
  LET n == s.tile_node[t]
  IN  IF n = NoNode THEN s
      ELSE [kill_node(s, n) EXCEPT !.tile_node[t] = NoNode, !.node_tile[n] = NoTile]

(* A slip: the node keeps its entry in node_tile_map. *)
ClearTileHalf(s, t) ==
  LET n == s.tile_node[t]
  IN  IF n = NoNode THEN s
      ELSE LET c == IF dead_tile(t) THEN s ELSE Count(s, n, -1)
           IN  [kill_node(c, n) EXCEPT !.tile_node[t] = NoNode]

(* clear_tile: the entry goes, its node is marked dead.  The entry of the  *)
(* constant 0 goes too when t is the default tile.                         *)
clear_tile(s, t) ==
  LET n == s.tile_node[t]
  IN  IF n = NoNode THEN s
      ELSE LET c == IF dead_tile(t) THEN s ELSE Count(s, n, -1)
           IN  [kill_node(c, n) EXCEPT !.tile_node[t] = NoNode,
                                       !.node_tile[n] = NoTile]

(* A slip: dead tiles are assigned like others. *)
AssignDead(s, t, n) ==
  LET c == Count(clear_tile(s, t), n, 1)
  IN  [c EXCEPT !.tile_node[t] = n, !.node_tile[n] = t]

(* assign_node: whatever is on a tile is cleared; nothing on a dead tile. *)
assign_node(s, t, n) ==
  IF dead_tile(t) THEN s
  ELSE LET c == Count(clear_tile(s, t), n, 1)
       IN  [c EXCEPT !.tile_node[t] = n, !.node_tile[n] = t]

(* The references in a list of signals to node n. *)
References(s, sigs, n) ==
  Cardinality({i \in DOMAIN sigs : get_node(s, sigs[i]) = n})

(* data[0].h1 of all children in a list is incremented or decremented; it  *)
(* shares its word with the dead bit.                                      *)
reference(s, sigs) ==
  [s EXCEPT !.h1 = [n \in Nodes |-> (@[n] + References(s, sigs, n)) % Word]]
dereference(s, sigs) ==
  [s EXCEPT !.h1 = [n \in Nodes |-> (@[n] + Word - References(s, sigs, n)) % Word]]

(* The next node of the storage, with its function and children. *)
emplace(s, literal, sigs) ==
  [s EXCEPT !.size = @ + 1, !.fn[s.size] = literal, !.children[s.size] = sigs]

-----------------------------------------------------------------------------
Init ==
  /\ strg = [size |-> 2,
             fn |-> [n \in Nodes |-> IF n = 1 THEN 1 ELSE 0],
             children |-> [n \in Nodes |-> <<>>],
             h1 |-> [n \in Nodes |-> 0],
             tile_node |-> [t \in Signals |-> IF t = Const0 THEN 0
                                              ELSE IF t = Const1 THEN 1 ELSE NoNode],
             node_tile |-> [n \in Nodes |-> IF n = 0 THEN Const0
                                            ELSE IF n = 1 THEN Const1 ELSE NoTile],
             inputs |-> <<>>, outputs |-> <<>>, num_gates |-> 0, num_wires |-> 0]
  /\ sequential_inf = [num_pis |-> 0, num_pos |-> 0, registers |-> 0]
  /\ kind = [n \in Nodes |-> IF n <= 1 THEN "const" ELSE "none"]
  /\ moves = 0

Created(k) == kind' = [kind EXCEPT ![strg.size] = k] /\ UNCHANGED moves
Moved == moves < MaxMoves /\ moves' = moves + 1 /\ UNCHANGED kind

(* A slip: the PI is listed by its signal like a PO, not by its node. *)
CreatePITile(t) ==
  /\ strg.size < MaxNodes
  /\ LET s == emplace(strg, 2, <<>>)
     IN  strg' = [assign_node(s, t, strg.size) EXCEPT !.inputs = Append(@, t)]
  /\ sequential_inf' = [sequential_inf EXCEPT !.num_pis = @ + 1]
  /\ Created("pi")

create_pi(t) ==
  /\ strg.size < MaxNodes
  /\ LET s == emplace(strg, 2, <<>>)
     IN  strg' = [assign_node(s, t, strg.size) EXCEPT
                    !.inputs = Append(@, strg.size)]
  /\ sequential_inf' = [sequential_inf EXCEPT !.num_pis = @ + 1]
  /\ Created("pi")

create_ro(t) ==
  /\ strg.size < MaxNodes
  /\ LET s == emplace(strg, 2, <<>>)
     IN  strg' = [assign_node(s, t, strg.size) EXCEPT
                    !.inputs = Append(@, strg.size)]
  /\ sequential_inf' = [sequential_inf EXCEPT !.registers = @ + 1]
  /\ Created("ro")

(* A slip: the PO goes to the end of the outputs, behind the RIs. *)
CreatePOAppend(sig, t) ==
  /\ strg.size < MaxNodes
  /\ LET s == assign_node(emplace(strg, 2, <<sig>>), t, strg.size)
     IN  strg' = [reference(s, <<sig>>) EXCEPT !.outputs = Append(@, t)]
  /\ sequential_inf' = [sequential_inf EXCEPT !.num_pos = @ + 1]
  /\ Created("po")

(* A slip: the PO's child does not learn of its new fan-out. *)
CreatePOUnreferenced(sig, t) ==
  /\ strg.size < MaxNodes
  /\ sequential_inf.num_pos <= Len(strg.outputs)
  /\ LET s == assign_node(emplace(strg, 2, <<sig>>), t, strg.size)
         p == sequential_inf.num_pos
     IN  strg' = [s EXCEPT
                    !.outputs = SubSeq(@, 1, p) \o <<t>> \o SubSeq(@, p + 1, Len(@))]
  /\ sequential_inf' = [sequential_inf EXCEPT !.num_pos = @ + 1]
  /\ Created("po")

(* POs are inserted before the RIs.  The child is looked up after the PO   *)
(* has been assigned to its tile.  Where num_pos exceeds the number of     *)
(* outputs, see NumPosCounts, insert is undefined and not modelled.        *)
create_po(sig, t) ==
  /\ strg.size < MaxNodes
  /\ sequential_inf.num_pos <= Len(strg.outputs)
  /\ LET s == assign_node(emplace(strg, 2, <<sig>>), t, strg.size)
         p == sequential_inf.num_pos
     IN  strg' = [reference(s, <<sig>>) EXCEPT
                    !.outputs = SubSeq(@, 1, p) \o <<t>> \o SubSeq(@, p + 1, Len(@))]
  /\ sequential_inf' = [sequential_inf EXCEPT !.num_pos = @ + 1]
  /\ Created("po")

create_ri(sig, t) ==
  /\ strg.size < MaxNodes
  /\ LET s == assign_node(emplace(strg, 2, <<sig>>), t, strg.size)
     IN  strg' = [reference(s, <<sig>>) EXCEPT !.outputs = Append(@, t)]
  /\ UNCHANGED sequential_inf
  /\ Created("ri")

(* create_buf, create_not, create_and, ..., create_node: the children are  *)
(* looked up before the node is assigned to its tile.                      *)
create_node_from_literal(sigs, literal, t) ==
  /\ strg.size < MaxNodes
  /\ strg' = assign_node(reference(emplace(strg, literal, sigs), sigs), t, strg.size)
  /\ UNCHANGED sequential_inf
  /\ Created("node")

Replace(seq, a, b) == [i \in DOMAIN seq |-> IF seq[i] = a THEN b ELSE seq[i]]

(* std::remove and erase: seq without the elements that equal a. *)
Without(seq, a) ==
  LET kept[i \in 0..Len(seq)] ==
        IF i = 0 THEN <<>>
        ELSE IF seq[i] = a THEN kept[i - 1] ELSE Append(kept[i - 1], seq[i])
  IN  kept[Len(seq)]

(* A slip: the node is not revived after its old tile has been cleared. *)
MoveNodeNoRevive(n, t, sigs) ==
  LET old == get_tile(strg, n)
      s1 == [dereference(strg, strg.children[n]) EXCEPT !.children[n] = <<>>]
      s2 == IF t = old THEN s1 ELSE assign_node(clear_tile(s1, old), t, n)
  IN  /\ strg' = [reference(s2, sigs) EXCEPT
                    !.children[n] = sigs, !.outputs = Replace(@, old, t)]
      /\ UNCHANGED sequential_inf
      /\ Moved

(* move_node: the references to the children go, the node changes its      *)
(* place, and gets new children; the outputs follow it, or lose it when it *)
(* goes to a dead tile.  sequential_inf is left alone.                     *)
move_node(n, t, sigs) ==
  LET old == get_tile(strg, n)
      s1 == [dereference(strg, strg.children[n]) EXCEPT !.children[n] = <<>>]
      s2 == IF t = old THEN s1
            ELSE revive_node(assign_node(clear_tile(s1, old), t, n), n)
  IN  /\ strg' = [reference(s2, sigs) EXCEPT
                    !.children[n] = sigs,
                    !.outputs = IF dead_tile(t) THEN Without(@, old)
                                ELSE IF t # old THEN Replace(@, old, t) ELSE @]
      /\ UNCHANGED sequential_inf
      /\ Moved

-----------------------------------------------------------------------------
(* The layouts' users.  "any" calls the operations with every argument     *)
(* they take: tiles that are occupied, no tile at all, signals of empty    *)
(* tiles.  "careful" follows the advice of the class documentation ("a     *)
(* node can be overwritten [...] should be avoided") like the tests do: it *)
(* creates and moves nodes only to empty tiles, passes signals of nodes    *)
(* only, and gives inputs no children.                                     *)
MayPlace(t) == Client = "any" \/ (t \in Tiles /\ is_empty_tile(strg, t))
MayMove(n, t) == MayPlace(t) \/ t = get_tile(strg, n)
MayRead(sig) == Client = "any" \/ ~ is_empty_tile(strg, sig)
MayGet(n, sigs) ==
  \/ Client = "any"
  \/ sigs = <<>>
  \/ kind[n] \notin {"pi", "ro"} /\ \A i \in DOMAIN sigs : get_node(strg, sigs[i]) # n

Fanins == {sigs \in UNION {[1..i -> Tiles] : i \in 0..MaxFanin} :
             \A i \in DOMAIN sigs : MayRead(sigs[i])}

CreatePI == \E t \in Tiles \cup {Const0} : MayPlace(t) /\ create_pi(t)
CreateRO == \E t \in Tiles \cup {Const0} : MayPlace(t) /\ create_ro(t)
CreatePO == \E t \in Tiles \cup {Const0}, sig \in Tiles :
              MayPlace(t) /\ MayRead(sig) /\ create_po(sig, t)
CreateRI == \E t \in Tiles \cup {Const0}, sig \in Tiles :
              MayPlace(t) /\ MayRead(sig) /\ create_ri(sig, t)
CreateNode == \E t \in Tiles \cup {Const0}, literal \in {2, 3}, sigs \in Fanins :
                /\ sigs # <<>> /\ MayPlace(t)
                /\ create_node_from_literal(sigs, literal, t)
MoveNode == \E n \in 2..(strg.size - 1), t \in Tiles \cup {Const0}, sigs \in Fanins :
              MayMove(n, t) /\ MayGet(n, sigs) /\ move_node(n, t, sigs)

Next == CreatePI \/ CreateRO \/ CreatePO \/ CreateRI \/ CreateNode \/ MoveNode

Spec == Init /\ [][Next]_vars

-----------------------------------------------------------------------------
TypeOK ==
  /\ strg \in Storage
  /\ sequential_inf \in [num_pis : Nat, num_pos : Nat, registers : Nat]
  /\ kind \in [Nodes -> {"const", "none", "pi", "ro", "po", "ri", "node"}]
  /\ moves \in 0..MaxMoves

(* get_tile is "the inverse function of get_node": the two maps never      *)
(* disagree, so no node is on two tiles and no tile has two nodes.         *)
MapsInverse ==
  \A t \in Signals, n \in Nodes : strg.tile_node[t] = n <=> strg.node_tile[n] = t

(* num_gates and num_wires are "the number of placed nodes" of each class, *)
(* after any overwriting, moving and removing; they never wrap around.     *)
CountsExact ==
  /\ strg.num_wires = Cardinality({n \in Nodes : placed(strg, n) /\ is_wire(strg, n)})
  /\ strg.num_gates = Cardinality({n \in Nodes : placed(strg, n) /\ ~ is_wire(strg, n)})

(* The constants are found on their tiles and nowhere else, although       *)
(* moving a node without a tile clears the entry of the constant 0.        *)
ConstantsResolve ==
  /\ get_node(strg, Const0) = 0 /\ get_node(strg, Const1) = 1
  /\ get_tile(strg, 0) = Const0 /\ get_tile(strg, 1) = Const1

(* "since clear_tile marks n as dead, it has to be revived"                *)
(* (gate_level_layout.hpp:719): a node that is placed is not dead.         *)
PlacedNodesAlive == \A n \in Nodes : placed(strg, n) => ~ is_dead(strg, n)

(* CHECK(layout.num_pos() == 1) after a PO has been moved to a dead tile   *)
(* (test/layouts/gate_level_layout.cpp:1106): num_pos counts the outputs   *)
(* that are not RIs.                                                       *)
NumPosCounts ==
  (\A n \in Nodes : kind[n] # "ri") => sequential_inf.num_pos = Len(strg.outputs)
=============================================================================
