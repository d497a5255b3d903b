----------------------- MODULE LayoutConstructionProofs -----------------------
(***************************************************************************)
(* Proofs about LayoutConstruction for every set of tiles and network:     *)
(* the order in which exact and orthogonal build a layout keeps what the   *)
(* layout alone does not promise, that placed nodes are alive, reference   *)
(* counts are exact and inputs and outputs are found in their lists.       *)
(***************************************************************************)
EXTENDS LayoutConstruction, GateLevelLayoutProofs, SequenceTheorems

-----------------------------------------------------------------------------
(* The children that name node n, as pairs of a parent and an index. *)
Parents(s, n) ==
  {mi \in Nodes \X (1..MaxFanin) :
     /\ mi[2] \in DOMAIN s.children[mi[1]]
     /\ get_node(s, s.children[mi[1]][mi[2]]) = n}

(* Signals in a list name tiles that have a node. *)
Occupied(s, sigs) ==
  \A i \in DOMAIN sigs : sigs[i] \in Tiles /\ s.tile_node[sigs[i]] \in Nodes

(* While inputs are being reserved, only the origin is in use. *)
Reserving ==
  phase # "place" =>
    /\ \A n \in Nodes : placed(strg, n) => strg.node_tile[n] = Origin
    /\ \A n \in Nodes : strg.children[n] = <<>>
    /\ strg.outputs = <<>> /\ sequential_inf.num_pos = 0
    /\ strg.size = Len(strg.inputs) + 2
    /\ phase = "pis" => sequential_inf.registers = 0

(* The inputs are the first nodes, PIs before ROs, and have no children. *)
InputsFirst ==
  /\ Len(strg.inputs) = sequential_inf.num_pis + sequential_inf.registers
  /\ Len(strg.inputs) + 2 <= strg.size
  /\ \A i \in DOMAIN strg.inputs : strg.inputs[i] = i + 1
  /\ \A n \in Nodes :
       /\ kind[n] = "pi" <=> 2 <= n /\ n < sequential_inf.num_pis + 2
       /\ kind[n] = "ro" <=> /\ sequential_inf.num_pis + 2 <= n
                             /\ n < Len(strg.inputs) + 2
       /\ n < Len(strg.inputs) + 2 => strg.children[n] = <<>>
       /\ n >= strg.size => kind[n] = "none" /\ strg.children[n] = <<>>

(* Children are on occupied tiles. *)
ChildrenOccupied ==
  \A n \in Nodes : Occupied(strg, strg.children[n]) /\ Len(strg.children[n]) <= MaxFanin

(* The outputs are the POs, then the RIs, all of them on occupied tiles. *)
RIs == {n \in Nodes : kind[n] = "ri"}

OutputsListed ==
  /\ Occupied(strg, strg.outputs)
  /\ sequential_inf.num_pos <= Len(strg.outputs)
  /\ \A i \in DOMAIN strg.outputs :
       kind[strg.tile_node[strg.outputs[i]]] =
         IF i <= sequential_inf.num_pos THEN "po" ELSE "ri"
  /\ \A n \in Nodes : kind[n] \in {"po", "ri"} =>
       \E i \in DOMAIN strg.outputs : strg.tile_node[strg.outputs[i]] = n
  /\ Len(strg.outputs) = sequential_inf.num_pos + Cardinality(RIs)
  /\ phase = "place" => /\ sequential_inf.registers = ntk.num_ros
                        /\ Cardinality(RIs) <= sequential_inf.registers

(* h1 is the reference count, with the dead bit only for nodes nowhere. *)
CountsReferences ==
  \A n \in Nodes :
    /\ strg.h1[n] \in {Cardinality(Parents(strg, n)),
                       Cardinality(Parents(strg, n)) + DeadBit}
    /\ placed(strg, n) \/ n >= strg.size => strg.h1[n] = Cardinality(Parents(strg, n))

CInv ==
  /\ LInv
  /\ phase \in {"pis", "ros", "place"}
  /\ ntk \in [num_pis : Nat, num_ros : Nat]
  /\ Reserving
  /\ InputsFirst
  /\ ChildrenOccupied
  /\ OutputsListed
  /\ CountsReferences

-----------------------------------------------------------------------------
(* Reference counts are finite and leave the dead bit alone. *)
LEMMA ParentsBound ==
  ASSUME NEW s, NEW n
  PROVE  /\ IsFiniteSet(Parents(s, n)) /\ Cardinality(Parents(s, n)) \in Nat
         /\ Cardinality(Parents(s, n)) < DeadBit
<1> DEFINE All == Nodes \X (1..MaxFanin)
<1>1. MaxNodes \in Nat /\ MaxFanin \in Nat /\ MaxMoves \in Nat /\ DeadBit \in Nat
  BY LayoutAssumption
<1>2. IsFiniteSet(Nodes) /\ Cardinality(Nodes) = MaxNodes
  BY <1>1, Basics, FS_Interval DEF Nodes
<1>3. IsFiniteSet(1..MaxFanin) /\ Cardinality(1..MaxFanin) = MaxFanin
  BY <1>1, FS_Interval
<1>4. IsFiniteSet(All) /\ Cardinality(All) = MaxNodes * MaxFanin
  BY <1>2, <1>3, FS_Product
<1>5. MaxNodes * MaxFanin < DeadBit
  <2>1. (MaxNodes + MaxMoves) * MaxFanin = MaxNodes * MaxFanin + MaxMoves * MaxFanin
    BY <1>1
  <2>2. MaxMoves * MaxFanin >= 0 /\ MaxNodes * MaxFanin \in Nat
    BY <1>1
  <2>3. (MaxNodes + MaxMoves) * MaxFanin < DeadBit
    BY <1>1, LayoutAssumption
  <2> DEFINE a == MaxNodes * MaxFanin
             b == MaxMoves * MaxFanin
             c == (MaxNodes + MaxMoves) * MaxFanin
  <2>4. c = a + b /\ b \in Nat /\ a \in Nat /\ c < DeadBit
    BY <1>1, <2>1, <2>2, <2>3
  <2> HIDE DEF a, b, c
  <2>5. a < DeadBit
    BY <1>1, <2>4
  <2> QED
    BY <2>5 DEF a
<1>6. Parents(s, n) \in SUBSET All
  BY DEF Parents
<1>7. /\ IsFiniteSet(Parents(s, n)) /\ Cardinality(Parents(s, n)) <= Cardinality(All)
      /\ Cardinality(Parents(s, n)) \in Nat
  BY <1>4, <1>6, FS_Subset, FS_CardinalityType
<1> HIDE DEF All
<1> QED
  BY <1>1, <1>4, <1>5, <1>7

(* Nodes without children refer to nothing. *)
LEMMA NoParents ==
  ASSUME NEW s, \A m \in Nodes : s.children[m] = <<>>, NEW n
  PROVE  Cardinality(Parents(s, n)) = 0
<1>1. Parents(s, n) = {}
  BY DEF Parents
<1> QED
  BY <1>1, FS_EmptySet

(* Nor does an empty list. *)
LEMMA NoReferences ==
  ASSUME NEW s, NEW n
  PROVE  References(s, <<>>, n) = 0
<1>1. {i \in DOMAIN <<>> : get_node(s, <<>>[i]) = n} = {}
  OBVIOUS
<1> QED
  BY <1>1, FS_EmptySet DEF References

(* Occupied tiles that keep their nodes keep the references. *)
LEMMA ParentsSame ==
  ASSUME NEW s, NEW r, NEW n,
         \A m \in Nodes : r.children[m] = s.children[m] /\ Occupied(s, s.children[m]),
         \A u \in Tiles : s.tile_node[u] \in Nodes => r.tile_node[u] = s.tile_node[u]
  PROVE  Parents(r, n) = Parents(s, n)
<1>1. ASSUME NEW m \in Nodes, NEW i \in DOMAIN s.children[m]
      PROVE  get_node(r, s.children[m][i]) = get_node(s, s.children[m][i])
  BY DEF Occupied, get_node
<1> QED
  BY <1>1 DEF Parents

(* r is s with the children sigs of a node k that had none. *)
ChildrenAdded(r, s, k, sigs) ==
  /\ s.children[k] = <<>> /\ Occupied(s, sigs) /\ Len(sigs) <= MaxFanin
  /\ \A m \in Nodes : Occupied(s, s.children[m])
  /\ \A m \in Nodes : r.children[m] = IF m = k THEN sigs ELSE s.children[m]
  /\ \A u \in Tiles : s.tile_node[u] \in Nodes => r.tile_node[u] = s.tile_node[u]

(* A new node refers to its children once per mention. *)
LEMMA ParentsAdded ==
  ASSUME NEW s, NEW r, NEW n, NEW k \in Nodes, NEW sigs \in Seq(Tiles),
         ChildrenAdded(r, s, k, sigs)
  PROVE  Cardinality(Parents(r, n)) = Cardinality(Parents(s, n)) + References(s, sigs, n)
<1> DEFINE I == {i \in DOMAIN sigs : get_node(s, sigs[i]) = n}
           A == {k} \X I
<1>0. /\ s.children[k] = <<>> /\ Occupied(s, sigs) /\ Len(sigs) <= MaxFanin
      /\ \A m \in Nodes : Occupied(s, s.children[m])
      /\ \A m \in Nodes : r.children[m] = IF m = k THEN sigs ELSE s.children[m]
      /\ \A u \in Tiles : s.tile_node[u] \in Nodes => r.tile_node[u] = s.tile_node[u]
  BY DEF ChildrenAdded
<1>1. ASSUME NEW m \in Nodes, NEW i \in DOMAIN r.children[m]
      PROVE  get_node(r, r.children[m][i]) = get_node(s, r.children[m][i])
  BY <1>0 DEF Occupied, get_node
<1>2. DOMAIN sigs \subseteq 1..MaxFanin
  <2>1. MaxFanin \in Nat /\ Len(sigs) \in Nat /\ DOMAIN sigs = 1..Len(sigs)
    BY <1>0, LayoutAssumption
  <2> QED
    BY <1>0, <2>1
<1>3. Parents(r, n) = Parents(s, n) \cup A
  <2>1. ASSUME NEW m \in Nodes, NEW i \in 1..MaxFanin
        PROVE  <<m, i>> \in Parents(r, n) <=> <<m, i>> \in Parents(s, n) \cup A
    <3>1. CASE m = k
      <4>1. <<m, i>> \notin Parents(s, n)
        BY <1>0, <3>1 DEF Parents
      <4>2. <<m, i>> \in A <=> i \in I
        BY <3>1
      <4>3. <<m, i>> \in Parents(r, n) <=> i \in DOMAIN sigs /\ get_node(r, sigs[i]) = n
        BY <1>0, <3>1 DEF Parents
      <4> QED
        BY <1>0, <1>1, <3>1, <4>1, <4>2, <4>3
    <3>2. CASE m # k
      <4>1. <<m, i>> \notin A
        BY <3>2
      <4> QED
        BY <1>0, <1>1, <3>2, <4>1 DEF Parents
    <3> QED
      BY <3>1, <3>2
  <2>2. A \subseteq Nodes \X (1..MaxFanin)
    BY <1>2
  <2> HIDE DEF A
  <2>3. /\ Parents(r, n) \subseteq Nodes \X (1..MaxFanin)
        /\ Parents(s, n) \subseteq Nodes \X (1..MaxFanin)
    BY DEF Parents
  <2> QED
    BY <2>1, <2>2, <2>3
<1>4. Parents(s, n) \cap A = {}
  BY <1>0 DEF Parents
<1>5. IsFiniteSet(I) /\ Cardinality(I) = References(s, sigs, n) /\ Cardinality(I) \in Nat
  <2>1. IsFiniteSet(1..Len(sigs)) /\ I \in SUBSET (1..Len(sigs))
    BY FS_Interval
  <2> QED
    BY <2>1, FS_Subset, FS_CardinalityType DEF References
<1>6. IsFiniteSet(A) /\ Cardinality(A) = Cardinality(I)
  <2>1. IsFiniteSet({k}) /\ Cardinality({k}) = 1
    BY FS_Singleton
  <2> HIDE DEF I
  <2>2. IsFiniteSet(A) /\ Cardinality(A) = 1 * Cardinality(I)
    BY <1>5, <2>1, FS_Product
  <2> QED
    BY <1>5, <2>2
<1> HIDE DEF A, I
<1>7. IsFiniteSet(Parents(s, n))
  BY ParentsBound
<1>8. Cardinality(Parents(s, n) \cup A) =
        Cardinality(Parents(s, n)) + Cardinality(A) - Cardinality(Parents(s, n) \cap A)
  BY <1>6, <1>7, FS_Union
<1>9. Cardinality(Parents(s, n) \cap A) = 0
  BY <1>4, FS_EmptySet
<1>10. Cardinality(Parents(s, n)) \in Nat
  BY ParentsBound
<1> QED
  BY <1>3, <1>5, <1>6, <1>8, <1>9, <1>10

(* Facts that the steps below take from the invariant. *)
LEMMA ConstructionFacts ==
  ASSUME CInv
  PROVE  /\ Sound(strg) /\ strg \in Storage
         /\ strg.size \in 2..MaxNodes /\ strg.size \in Nat
         /\ strg.inputs \in Seq(Nodes) /\ Len(strg.inputs) \in Nat
         /\ strg.outputs \in Seq(Signals) /\ Len(strg.outputs) \in Nat
         /\ DOMAIN strg.inputs = 1..Len(strg.inputs)
         /\ DOMAIN strg.outputs = 1..Len(strg.outputs)
         /\ \A n \in Nodes : strg.children[n] \in Seq(Signals)
         /\ \A n \in Nodes : strg.h1[n] \in 0..(Word - 1)
         /\ \A n \in Nodes : strg.node_tile[n] \in Signals \cup {NoTile}
         /\ \A u \in Signals : strg.tile_node[u] \in Nodes \cup {NoNode}
         /\ sequential_inf.num_pis \in Nat /\ sequential_inf.num_pos \in Nat
         /\ sequential_inf.registers \in Nat
         /\ Origin \in Tiles /\ Tiles \subseteq Signals
         /\ \A n \in Nodes : n >= strg.size => strg.node_tile[n] = NoTile
         /\ \A n \in Nodes : n > 1 => strg.node_tile[n] \in Tiles \cup {NoTile}
<1>1. Sound(strg) /\ strg \in Storage
  BY DEF CInv, LInv, Sound
<1>2. /\ strg.size \in 2..MaxNodes /\ strg.inputs \in Seq(Nodes)
      /\ strg.outputs \in Seq(Signals)
      /\ \A n \in Nodes : strg.children[n] \in Seq(Signals)
      /\ \A n \in Nodes : strg.h1[n] \in 0..(Word - 1)
      /\ \A n \in Nodes : strg.node_tile[n] \in Signals \cup {NoTile}
      /\ \A u \in Signals : strg.tile_node[u] \in Nodes \cup {NoNode}
  BY <1>1 DEF Storage
<1>3. /\ sequential_inf.num_pis \in Nat /\ sequential_inf.num_pos \in Nat
      /\ sequential_inf.registers \in Nat
  BY DEF CInv, LInv
<1>4. strg.size \in Nat
  BY <1>2, Basics
<1>5. Origin \in Tiles /\ Tiles \subseteq Signals
  BY ConstructionAssumption, Basics
<1>6. \A n \in Nodes : n >= strg.size => strg.node_tile[n] = NoTile
  BY <1>1 DEF Sound, Unborn
<1>7. /\ Len(strg.inputs) \in Nat /\ DOMAIN strg.inputs = 1..Len(strg.inputs)
      /\ Len(strg.outputs) \in Nat /\ DOMAIN strg.outputs = 1..Len(strg.outputs)
  BY <1>2
<1>8. ASSUME NEW n \in Nodes, n > 1
      PROVE  strg.node_tile[n] \in Tiles \cup {NoTile}
  <2>1. n # 0 /\ n # 1
    BY <1>8
  <2>2. strg.tile_node[Const1] = 1
    BY <1>1, Basics DEF Sound, ConstantsHome, MapsAgree
  <2>3. strg.node_tile[n] # Const0 /\ strg.node_tile[n] # Const1
    BY <1>1, <2>1, <2>2, Basics DEF Sound, ConstantsHome, MapsAgree
  <2> QED
    BY <1>2, <2>3 DEF Signals
<1> QED
  BY <1>1, <1>2, <1>3, <1>4, <1>5, <1>6, <1>7, <1>8

(* A layout that has been constructed so far starts like any other. *)
LEMMA ConstructionStarts == ConstructionInit => CInv
<1> SUFFICES ASSUME ConstructionInit
             PROVE  CInv
  OBVIOUS
<1>1. LInv
  BY LayoutInit DEF ConstructionInit
<1>2. /\ strg.size = 2 /\ strg.inputs = <<>> /\ strg.outputs = <<>>
      /\ strg.children = [n \in Nodes |-> <<>>] /\ strg.h1 = [n \in Nodes |-> 0]
      /\ strg.node_tile = [n \in Nodes |-> IF n = 0 THEN Const0
                                           ELSE IF n = 1 THEN Const1 ELSE NoTile]
      /\ sequential_inf = [num_pis |-> 0, num_pos |-> 0, registers |-> 0]
      /\ kind = [n \in Nodes |-> IF n <= 1 THEN "const" ELSE "none"]
      /\ phase = "pis"
  BY DEF ConstructionInit, Init
<1>3. ntk \in [num_pis : Nat, num_ros : Nat]
  BY ConstructionAssumption DEF ConstructionInit
<1>4. Reserving
  BY <1>2, Basics DEF Reserving, placed
<1>5. InputsFirst
  BY <1>2, Basics DEF InputsFirst
<1>6. ChildrenOccupied
  BY <1>2, LayoutAssumption DEF ChildrenOccupied, Occupied
<1>7. OutputsListed
  <2>1. RIs = {}
    BY <1>2 DEF RIs
  <2>2. Cardinality(RIs) = 0
    BY <2>1, FS_EmptySet
  <2> QED
    BY <1>2, <2>2 DEF OutputsListed, Occupied
<1>8. CountsReferences
  <2>1. \A n \in Nodes : Cardinality(Parents(strg, n)) = 0
    BY <1>2, NoParents
  <2> QED
    BY <1>2, <2>1 DEF CountsReferences
<1> QED
  BY <1>1, <1>2, <1>3, <1>4, <1>5, <1>6, <1>7, <1>8 DEF CInv

(* reserve_input_nodes and reserve_register_output_nodes: the node that    *)
(* was on the origin is dead and nowhere, the new one is there.            *)
LEMMA ReserveEffect ==
  ASSUME CInv, phase # "place", create_pi(Origin) \/ create_ro(Origin)
  PROVE  /\ LInv' /\ strg.size \in Nodes /\ strg'.size = strg.size + 1
         /\ strg'.inputs = Append(strg.inputs, strg.size) /\ strg'.outputs = <<>>
         /\ \A m \in Nodes : strg'.children[m] = <<>>
         /\ \A m \in Nodes : placed(strg', m) => m = strg.size /\ strg'.node_tile[m] = Origin
         /\ \A m \in Nodes : strg'.h1[m] = Killed(strg, Origin, m)
<1>0. Sound(strg) /\ strg.size < MaxNodes /\ Origin \in Tiles \cup {Const0}
  BY ConstructionFacts DEF create_pi, create_ro
<1>1. LInv'
  BY <1>0, CreateInputStep DEF CInv
<1> DEFINE r == [assign_node(emplace(strg, 2, <<>>), Origin, strg.size) EXCEPT
                   !.inputs = Append(@, strg.size)]
<1>2. /\ strg.size \in Nodes /\ r.size = strg.size + 1
      /\ NodeAssigned(r, strg, Origin, strg.size)
      /\ \A m \in Nodes : r.h1[m] = Killed(strg, Origin, m)
      /\ \A m \in Nodes : r.children[m] = IF m = strg.size THEN <<>> ELSE strg.children[m]
      /\ r.inputs = Append(strg.inputs, strg.size) /\ r.outputs = strg.outputs
  BY <1>0, CreateInput
<1>3. strg' = r
  BY DEF create_pi, create_ro
<1> HIDE DEF r
<1>4. \A m \in Nodes : placed(strg, m) => strg.node_tile[m] = Origin
  BY DEF CInv, Reserving
<1>5. \A m \in Nodes : placed(r, m) => m = strg.size /\ r.node_tile[m] = Origin
  BY <1>2, <1>4, ConstructionFacts, Basics DEF NodeAssigned, placed
<1>6. strg.outputs = <<>> /\ \A m \in Nodes : strg.children[m] = <<>>
  BY DEF CInv, Reserving
<1> QED
  BY <1>1, <1>2, <1>3, <1>5, <1>6

(* Reserving one more input keeps the invariant. *)
LEMMA ReserveStep ==
  ASSUME CInv, ReservePI \/ ReserveRO
  PROVE  CInv'
<1>0. /\ phase # "place" /\ (create_pi(Origin) \/ create_ro(Origin))
      /\ phase' = phase /\ ntk' = ntk
  BY DEF ReservePI, ReserveRO
<1>1. /\ LInv' /\ strg.size \in Nodes /\ strg'.size = strg.size + 1
      /\ strg'.inputs = Append(strg.inputs, strg.size) /\ strg'.outputs = <<>>
      /\ \A m \in Nodes : strg'.children[m] = <<>>
      /\ \A m \in Nodes : placed(strg', m) => m = strg.size /\ strg'.node_tile[m] = Origin
      /\ \A m \in Nodes : strg'.h1[m] = Killed(strg, Origin, m)
  BY <1>0, ReserveEffect
<1>2. /\ strg.size = Len(strg.inputs) + 2 /\ sequential_inf.num_pos = 0
      /\ \A m \in Nodes : strg.children[m] = <<>>
      /\ phase = "pis" => sequential_inf.registers = 0
  BY <1>0 DEF CInv, Reserving
<1>3. /\ DOMAIN strg'.inputs = 1..(Len(strg.inputs) + 1)
      /\ Len(strg'.inputs) = Len(strg.inputs) + 1
      /\ \A i \in 1..Len(strg.inputs) : strg'.inputs[i] = strg.inputs[i]
      /\ strg'.inputs[Len(strg.inputs) + 1] = strg.size
  BY <1>1, ConstructionFacts
<1>4. PICK k \in {"pi", "ro"} :
        /\ kind' = [kind EXCEPT ![strg.size] = k]
        /\ k = "pi" => /\ sequential_inf' = [sequential_inf EXCEPT !.num_pis = @ + 1]
                       /\ phase = "pis"
        /\ k = "ro" => /\ sequential_inf' = [sequential_inf EXCEPT !.registers = @ + 1]
                       /\ phase = "ros"
  <2>1. CASE ReservePI
    BY <2>1 DEF ReservePI, create_pi, Created
  <2>2. CASE ReserveRO
    BY <2>2 DEF ReserveRO, create_ro, Created
  <2> QED
    BY <2>1, <2>2
<1>5. /\ k = "pi" => /\ sequential_inf'.num_pis = sequential_inf.num_pis + 1
                     /\ sequential_inf'.registers = sequential_inf.registers
      /\ k = "ro" => /\ sequential_inf'.num_pis = sequential_inf.num_pis
                     /\ sequential_inf'.registers = sequential_inf.registers + 1
      /\ sequential_inf'.num_pos = sequential_inf.num_pos
  BY <1>4 DEF CInv, LInv
<1>6. /\ \A m \in Nodes : kind'[m] = IF m = strg.size THEN k ELSE kind[m]
      /\ k = "pi" \/ k = "ro"
  BY <1>1, <1>4 DEF CInv, LInv
<1>7. Reserving'
  <2>1. strg'.size = Len(strg'.inputs) + 2
    BY <1>1, <1>2, <1>3, ConstructionFacts
  <2> QED
    BY <1>0, <1>1, <1>2, <1>4, <1>5, <2>1 DEF Reserving, placed
<1>8. InputsFirst'
  <2>1. /\ Len(strg.inputs) = sequential_inf.num_pis + sequential_inf.registers
        /\ \A i \in DOMAIN strg.inputs : strg.inputs[i] = i + 1
        /\ \A n \in Nodes :
             /\ kind[n] = "pi" <=> 2 <= n /\ n < sequential_inf.num_pis + 2
             /\ kind[n] = "ro" <=> /\ sequential_inf.num_pis + 2 <= n
                                   /\ n < Len(strg.inputs) + 2
             /\ n >= strg.size => kind[n] = "none"
    BY DEF CInv, InputsFirst
  <2>2. Len(strg'.inputs) = sequential_inf'.num_pis + sequential_inf'.registers
    <3>1. /\ sequential_inf.num_pis \in Nat /\ sequential_inf.registers \in Nat
          /\ Len(strg'.inputs) = sequential_inf.num_pis + sequential_inf.registers + 1
      BY <1>3, <2>1, ConstructionFacts
    <3>2. \/ /\ sequential_inf'.num_pis = sequential_inf.num_pis + 1
             /\ sequential_inf'.registers = sequential_inf.registers
          \/ /\ sequential_inf'.num_pis = sequential_inf.num_pis
             /\ sequential_inf'.registers = sequential_inf.registers + 1
      BY <1>5, <1>6
    <3> QED
      BY <3>1, <3>2
  <2>3. Len(strg'.inputs) + 2 <= strg'.size
    BY <1>1, <1>2, <1>3, ConstructionFacts
  <2>4. \A i \in DOMAIN strg'.inputs : strg'.inputs[i] = i + 1
    <3>1. Len(strg.inputs) \in Nat /\ DOMAIN strg.inputs = 1..Len(strg.inputs)
      BY ConstructionFacts
    <3>2. \A i \in 1..(Len(strg.inputs) + 1) :
            i \in 1..Len(strg.inputs) \/ i = Len(strg.inputs) + 1
      BY <3>1
    <3>3. \A i \in 1..Len(strg.inputs) : strg'.inputs[i] = i + 1
      BY <1>3, <2>1, <3>1
    <3>4. strg'.inputs[Len(strg.inputs) + 1] = (Len(strg.inputs) + 1) + 1
      BY <1>2, <1>3, <3>1
    <3> QED
      BY <1>3, <3>2, <3>3, <3>4
  <2>5. ASSUME NEW n \in Nodes
        PROVE  /\ kind'[n] = "pi" <=> 2 <= n /\ n < sequential_inf'.num_pis + 2
               /\ kind'[n] = "ro" <=> /\ sequential_inf'.num_pis + 2 <= n
                                      /\ n < Len(strg'.inputs) + 2
               /\ n >= strg'.size => kind'[n] = "none"
    <3>1. /\ n \in Nat /\ sequential_inf.num_pis \in Nat /\ sequential_inf.registers \in Nat
          /\ Len(strg.inputs) \in Nat
      BY ConstructionFacts, Basics
    <3>2. kind'[n] = IF n = strg.size THEN k ELSE kind[n]
      BY <1>6
    <3>3. /\ kind[n] = "pi" <=> 2 <= n /\ n < sequential_inf.num_pis + 2
          /\ kind[n] = "ro" <=> /\ sequential_inf.num_pis + 2 <= n
                                /\ n < Len(strg.inputs) + 2
          /\ n >= strg.size => kind[n] = "none"
      BY <2>1
    <3>4. CASE k = "pi"
      <4>1. /\ sequential_inf'.num_pis = sequential_inf.num_pis + 1
            /\ sequential_inf.registers = 0
        BY <1>2, <1>4, <1>5, <3>4
      <4> QED
        BY <1>1, <1>2, <1>3, <2>1, <3>1, <3>2, <3>3, <3>4, <4>1, SMTT(40)
    <3>5. CASE k = "ro"
      <4>1. sequential_inf'.num_pis = sequential_inf.num_pis
        BY <1>5, <3>5
      <4> QED
        BY <1>1, <1>2, <1>3, <2>1, <3>1, <3>2, <3>3, <3>5, <4>1, SMTT(40)
    <3> QED
      BY <1>6, <3>4, <3>5
  <2> QED
    BY <1>1, <2>2, <2>3, <2>4, <2>5 DEF InputsFirst
<1>9. ChildrenOccupied'
  BY <1>1, LayoutAssumption DEF ChildrenOccupied, Occupied
<1>10. OutputsListed'
  <2>1. RIs' = RIs
    <3>1. kind[strg.size] = "none"
      BY <1>1, ConstructionFacts, SMTT(40) DEF CInv, InputsFirst
    <3> QED
      BY <1>6, <3>1 DEF RIs
  <2>2. /\ \A n \in Nodes : kind[n] \notin {"po", "ri"}
        /\ Len(strg.outputs) = sequential_inf.num_pos + Cardinality(RIs)
        /\ strg.outputs = <<>>
    BY <1>0 DEF CInv, OutputsListed, Reserving
  <2>3. Cardinality(RIs) = 0
    <3>1. RIs = {}
      BY <2>2 DEF RIs
    <3> QED
      BY <3>1, FS_EmptySet
  <2>4. \A n \in Nodes : kind'[n] \notin {"po", "ri"}
    BY <1>6, <2>2
  <2> QED
    BY <1>0, <1>1, <1>2, <1>5, <2>1, <2>3, <2>4 DEF OutputsListed, Occupied
<1>11. CountsReferences'
  <2>1. \A n \in Nodes : Cardinality(Parents(strg, n)) = 0
    BY <1>2, NoParents
  <2>2. \A n \in Nodes : Cardinality(Parents(strg', n)) = 0
    BY <1>1, NoParents
  <2>3. \A n \in Nodes : /\ strg.h1[n] \in {0, DeadBit}
                         /\ n >= strg.size => strg.h1[n] = 0
    BY <2>1, Basics DEF CInv, CountsReferences
  <2>4. \A n \in Nodes : n >= strg.size => ~ (strg.node_tile[n] = Origin)
    BY ConstructionFacts, Basics
  <2>5. \A n \in Nodes : /\ strg'.h1[n] \in {0, DeadBit}
                         /\ n >= strg.size => strg'.h1[n] = 0
    <3>1. 0 + DeadBit = DeadBit /\ DeadBit >= DeadBit
      BY Basics
    <3> QED
      BY <1>1, <2>3, <2>4, <3>1 DEF Killed, is_dead
  <2>6. \A n \in Nodes : placed(strg', n) \/ n >= strg'.size => n >= strg.size
    BY <1>1, ConstructionFacts, Basics
  <2> QED
    BY <2>2, <2>5, <2>6, Basics DEF CountsReferences
<1> QED
  BY <1>0, <1>1, <1>7, <1>8, <1>9, <1>10, <1>11 DEF CInv

(* Giving up no children changes nothing. *)
LEMMA DetachNone ==
  ASSUME NEW s, Sound(s), NEW n \in Nodes, s.children[n] = <<>>
  PROVE  LET r == Detached(s, n)
         IN  /\ Sound(r) /\ SamePlaces(r, s) /\ r.inputs = s.inputs /\ r.outputs = s.outputs
             /\ \A m \in Nodes : r.children[m] = s.children[m] /\ r.h1[m] = s.h1[m]
<1> DEFINE r == Detached(s, n)
<1>1. /\ Sound(r) /\ SamePlaces(r, s) /\ r.inputs = s.inputs /\ r.outputs = s.outputs
      /\ \A m \in Nodes : r.children[m] = IF m = n THEN <<>> ELSE s.children[m]
      /\ \A m \in Nodes : r.h1[m] = (s.h1[m] + Word - References(s, s.children[n], m)) % Word
  BY Detach
<1> HIDE DEF r
<1>2. ASSUME NEW m \in Nodes
      PROVE  r.h1[m] = s.h1[m]
  <2>1. s.h1[m] \in 0..(Word - 1) /\ Word \in Nat
    BY Basics DEF Sound, Storage
  <2>2. References(s, s.children[n], m) = 0
    BY NoReferences
  <2>3. r.h1[m] = (s.h1[m] + Word - 0) % Word
    BY <1>1, <2>2
  <2>4. s.h1[m] + Word - 0 = s.h1[m] + Word
    BY <2>1
  <2> QED
    BY <2>1, <2>3, <2>4, ModSmall
<1> QED
  BY <1>1, <1>2 DEF r

(* Nor does getting none, but for the outputs. *)
LEMMA AttachNone ==
  ASSUME NEW s, Sound(s), NEW n \in Nodes, s.children[n] = <<>>,
         NEW old \in Tiles \cup {Const0}, NEW t \in Tiles \cup {Const0}
  PROVE  LET r == Attached(s, n, old, t, <<>>)
         IN  /\ Sound(r) /\ SamePlaces(r, s) /\ r.inputs = s.inputs
             /\ r.outputs = MovedOutputs(s.outputs, old, t)
             /\ \A m \in Nodes : r.children[m] = s.children[m] /\ r.h1[m] = s.h1[m]
<1> DEFINE none == <<>>
           r == Attached(s, n, old, t, none)
<1>0. none \in Seq(Signals)
  OBVIOUS
<1> HIDE DEF none
<1>1. /\ Sound(r) /\ SamePlaces(r, s) /\ r.inputs = s.inputs
      /\ \A m \in Nodes : r.h1[m] = (s.h1[m] + References(s, none, m)) % Word
  BY <1>0, Attach, ZenonT(60)
<1>3. /\ r.outputs = MovedOutputs(s.outputs, old, t)
      /\ r.children = [s.children EXCEPT ![n] = none]
  BY <1>0, AttachLists DEF Sound
<1>4. s.children \in [Nodes -> Seq(Signals)]
  BY DEF Sound, Storage
<1> HIDE DEF r
<1>2. ASSUME NEW m \in Nodes
      PROVE  r.h1[m] = s.h1[m]
  <2>1. s.h1[m] \in 0..(Word - 1) /\ Word \in Nat
    BY Basics DEF Sound, Storage
  <2>2. r.h1[m] = (s.h1[m] + 0) % Word
    BY <1>1, NoReferences DEF none
  <2>3. s.h1[m] + 0 = s.h1[m]
    BY <2>1
  <2> QED
    BY <2>1, <2>2, <2>3, ModSmall
<1> QED
  BY <1>1, <1>2, <1>3, <1>4 DEF r, none

(* The last step of a reservation: what is on the origin, if anything, is  *)
(* moved to a dead tile, and the layout is empty.                          *)
LEMMA ReleaseEffect ==
  ASSUME CInv, phase # "place", move_node(get_node(strg, Origin), Const0, <<>>)
  PROVE  /\ LInv' /\ strg'.size = strg.size
         /\ strg'.inputs = strg.inputs /\ strg'.outputs = <<>>
         /\ \A m \in Nodes : strg'.children[m] = <<>>
         /\ \A m \in Nodes : ~ placed(strg', m)
         /\ \A m \in Nodes : /\ strg'.h1[m] \in {0, DeadBit}
                             /\ m >= strg.size => strg'.h1[m] = 0
<1> DEFINE n == get_node(strg, Origin)
           old == get_tile(strg, n)
           d == Detached(strg, n)
           l == Relocated(d, n, old, Const0)
           r == Attached(l, n, old, Const0, <<>>)
<1>0. /\ Sound(strg) /\ Origin \in Tiles /\ Origin \in Signals
      /\ strg.tile_node[Origin] \in Nodes \cup {NoNode}
  BY ConstructionFacts
<1>1. strg' = r
  BY DEF move_node, Attached, MovedOutputs, Relocated, Detached
<1>2. n \in Nodes
  BY <1>0, Basics DEF get_node
<1>3. /\ strg.outputs = <<>> /\ \A m \in Nodes : strg.children[m] = <<>>
      /\ \A m \in Nodes : placed(strg, m) => strg.node_tile[m] = Origin
  BY DEF CInv, Reserving
<1>4. \A m \in Nodes : /\ strg.h1[m] \in {0, DeadBit}
                       /\ m >= strg.size => strg.h1[m] = 0
  <2>1. \A m \in Nodes : Cardinality(Parents(strg, m)) = 0
    BY <1>3, NoParents
  <2> QED
    BY <2>1, Basics DEF CInv, CountsReferences
<1> HIDE DEF n
<1>5. /\ Sound(d) /\ SamePlaces(d, strg) /\ d.inputs = strg.inputs /\ d.outputs = strg.outputs
      /\ \A m \in Nodes : d.children[m] = strg.children[m] /\ d.h1[m] = strg.h1[m]
  BY <1>0, <1>2, <1>3, DetachNone
<1> HIDE DEF d
<1>6. get_tile(d, n) = old
  BY <1>5 DEF get_tile, SamePlaces
<1>7. /\ Sound(l) /\ SameLists(l, d) /\ l.size = d.size /\ old \in Tiles \cup {Const0}
      /\ \A m \in Nodes : ~ placed(l, m)
      /\ \A m \in Nodes : /\ l.h1[m] \in {0, DeadBit}
                          /\ m >= strg.size => l.h1[m] = 0
  <2>1. CASE strg.tile_node[Origin] = NoNode
    <3>1. n = 0 /\ old = Const0
      <4>1. n = 0
        BY <2>1 DEF n, get_node
      <4>2. strg.node_tile[0] \in {Const0, NoTile}
        BY <1>0 DEF Sound, ConstantsHome
      <4> QED
        BY <4>1, <4>2 DEF get_tile
    <3>2. l = d
      BY <3>1 DEF Relocated
    <3>3. \A m \in Nodes : ~ placed(strg, m)
      BY <1>0, <1>3, <2>1, Basics DEF Sound, MapsAgree
    <3> QED
      BY <1>4, <1>5, <3>1, <3>2, <3>3 DEF SameLists, SamePlaces, placed
  <2>2. CASE strg.tile_node[Origin] \in Nodes
    <3>1. n = strg.tile_node[Origin] /\ strg.node_tile[n] = Origin
      BY <1>0, <2>2, Basics, ZenonT(60) DEF n, get_node, Sound, MapsAgree
    <3>2. old = Origin
      BY <1>0, <3>1, Basics DEF get_tile
    <3>3. n > 1
      <4>1. n # 0 /\ n # 1 /\ n \in Nat
        BY <1>0, <1>2, <3>1, Basics DEF Sound, ConstantsHome
      <4> QED
        BY <4>1
    <3>4. n < strg.size
      <4>1. ~ (n >= strg.size)
        BY <1>2, <3>1, ConstructionFacts, Basics
      <4> QED
        BY <1>2, <4>1, ConstructionFacts, Basics
    <3>5. n < d.size /\ Const0 # old /\ Const0 \in Tiles \cup {Const0} /\ Const0 \notin Tiles
      BY <1>0, <1>5, <3>2, <3>4, Basics DEF SamePlaces
    <3>6. /\ Sound(l) /\ SameLists(l, d) /\ l.size = d.size
          /\ \A m \in Nodes : l.node_tile[m] =
               IF m = n THEN NoTile
               ELSE IF d.node_tile[m] = old THEN NoTile ELSE d.node_tile[m]
          /\ l.h1[n] = IF is_dead(d, n) THEN d.h1[n] - DeadBit ELSE d.h1[n]
          /\ \A m \in Nodes \ {n} : l.h1[m] = Killed(d, Const0, m)
      BY <1>2, <1>5, <1>6, <3>3, <3>5, Relocate
    <3>7. \A m \in Nodes : ~ placed(l, m)
      BY <1>3, <1>5, <3>2, <3>6, Basics DEF placed, SamePlaces
    <3>8. \A m \in Nodes \ {n} : l.h1[m] = strg.h1[m]
      BY <1>5, <3>5, <3>6 DEF Killed
    <3>9. l.h1[n] \in {0, DeadBit}
      <4>1. d.h1[n] \in {0, DeadBit}
        BY <1>2, <1>4, <1>5
      <4>2. DeadBit - DeadBit = 0 /\ DeadBit >= DeadBit /\ ~ (0 >= DeadBit)
        BY Basics
      <4> QED
        BY <3>6, <4>1, <4>2 DEF is_dead
    <3>10. ~ (n >= strg.size)
      BY <1>2, <3>4, ConstructionFacts, Basics
    <3> QED
      BY <1>0, <1>4, <3>2, <3>6, <3>7, <3>8, <3>9, <3>10
  <2> QED
    BY <1>0, <2>1, <2>2
<1> HIDE DEF l
<1>8. l.children[n] = <<>> /\ Const0 \in Tiles \cup {Const0}
  BY <1>2, <1>3, <1>5, <1>7 DEF SameLists
<1>9. /\ Sound(r) /\ SamePlaces(r, l) /\ r.inputs = l.inputs
      /\ r.outputs = MovedOutputs(l.outputs, old, Const0)
      /\ \A m \in Nodes : r.children[m] = l.children[m] /\ r.h1[m] = l.h1[m]
  BY <1>2, <1>7, <1>8, AttachNone
<1> HIDE DEF r
<1>10. r.outputs = <<>>
  <2>1. l.outputs = <<>> /\ <<>> \in Seq(Signals)
    BY <1>3, <1>5, <1>7 DEF SameLists
  <2>2. Without(<<>>, old) = <<>>
    BY <2>1, WithoutSeq
  <2> QED
    BY <1>9, <2>1, <2>2 DEF MovedOutputs, dead_tile
<1>11. LInv'
  <2>1. moves' \in 0..MaxMoves /\ UNCHANGED <<sequential_inf, kind>>
    BY LayoutAssumption DEF move_node, Moved, CInv, LInv
  <2> QED
    BY <1>1, <1>9, <2>1 DEF CInv, LInv
<1>12. \A m \in Nodes : ~ placed(r, m)
  BY <1>7, <1>9 DEF placed, SamePlaces
<1> QED
  BY <1>1, <1>3, <1>5, <1>7, <1>9, <1>10, <1>11, <1>12 DEF SamePlaces, SameLists

(* After the last input of its kind the invariant holds in the next phase. *)
LEMMA ReleaseStep ==
  ASSUME CInv, ReleaseLastPI \/ ReleaseLastRO
  PROVE  CInv'
<1>0. /\ phase # "place" /\ move_node(get_node(strg, Origin), Const0, <<>>)
      /\ phase' \in {"ros", "place"} /\ ntk' = ntk
      /\ sequential_inf' = sequential_inf /\ kind' = kind
      /\ phase' = "place" => sequential_inf.registers = ntk.num_ros
  BY DEF ReleaseLastPI, ReleaseLastRO, move_node, Moved
<1>1. /\ LInv' /\ strg'.size = strg.size
      /\ strg'.inputs = strg.inputs /\ strg'.outputs = <<>>
      /\ \A m \in Nodes : strg'.children[m] = <<>>
      /\ \A m \in Nodes : ~ placed(strg', m)
      /\ \A m \in Nodes : /\ strg'.h1[m] \in {0, DeadBit}
                          /\ m >= strg.size => strg'.h1[m] = 0
  BY <1>0, ReleaseEffect
<1>2. /\ strg.size = Len(strg.inputs) + 2 /\ sequential_inf.num_pos = 0
      /\ strg.outputs = <<>>
  BY <1>0 DEF CInv, Reserving
<1>3. Reserving'
  BY <1>0, <1>1, <1>2 DEF Reserving
<1>4. InputsFirst'
  BY <1>0, <1>1 DEF CInv, InputsFirst
<1>5. ChildrenOccupied'
  BY <1>1, LayoutAssumption DEF ChildrenOccupied, Occupied
<1>6. OutputsListed'
  <2>1. /\ \A n \in Nodes : kind[n] \notin {"po", "ri"}
        /\ Len(strg.outputs) = sequential_inf.num_pos + Cardinality(RIs)
    BY <1>2 DEF CInv, OutputsListed
  <2>2. Cardinality(RIs) = 0 /\ RIs' = RIs
    <3>1. RIs = {}
      BY <2>1 DEF RIs
    <3> QED
      BY <1>0, <3>1, FS_EmptySet DEF RIs
  <2>3. 0 <= sequential_inf.registers
    BY ConstructionFacts
  <2> QED
    BY <1>0, <1>1, <1>2, <2>1, <2>2, <2>3 DEF OutputsListed, Occupied
<1>7. CountsReferences'
  <2>1. \A n \in Nodes : Cardinality(Parents(strg', n)) = 0
    BY <1>1, NoParents
  <2> QED
    BY <1>1, <2>1, Basics DEF CountsReferences
<1> QED
  BY <1>0, <1>1, <1>3, <1>4, <1>5, <1>6, <1>7 DEF CInv

(* An empty tile has no entry, whatever get_node makes of that. *)
LEMMA EmptyTile ==
  ASSUME CInv, NEW t \in Tiles
  PROVE  /\ Empty(t) => strg.tile_node[t] = NoNode /\ \A m \in Nodes : strg.node_tile[m] # t
         /\ ~ Empty(t) => strg.tile_node[t] \in Nodes
<1>1. Sound(strg) /\ strg.tile_node[t] \in Nodes \cup {NoNode} /\ t \in Signals
  BY ConstructionFacts
<1>2. strg.tile_node[t] # 0
  BY <1>1, Basics DEF Sound, MapsAgree, ConstantsHome
<1>3. Empty(t) => strg.tile_node[t] = NoNode
  BY <1>2 DEF Empty, is_empty_tile, get_node
<1>4. ~ Empty(t) => strg.tile_node[t] \in Nodes
  BY <1>1 DEF Empty, is_empty_tile, get_node
<1>5. strg.tile_node[t] = NoNode => \A m \in Nodes : strg.node_tile[m] # t
  BY <1>1, Basics DEF Sound, MapsAgree
<1> QED
  BY <1>3, <1>4, <1>5

(* A reserved input is moved from nowhere to an empty tile: it is revived, *)
(* and nothing else changes.                                               *)
LEMMA PlaceInputEffect ==
  ASSUME CInv, NEW n \in Nodes, n > 1, n < strg.size, strg.children[n] = <<>>,
         NEW t \in Tiles, ~ placed(strg, n), Empty(t), move_node(n, t, <<>>)
  PROVE  /\ LInv' /\ strg'.size = strg.size
         /\ strg'.inputs = strg.inputs /\ strg'.outputs = Replace(strg.outputs, Const0, t)
         /\ \A m \in Nodes : strg'.children[m] = strg.children[m]
         /\ \A u \in Tiles : u # t => strg'.tile_node[u] = strg.tile_node[u]
         /\ \A m \in Nodes : placed(strg', m) <=> placed(strg, m) \/ m = n
         /\ strg'.h1[n] = IF is_dead(strg, n) THEN strg.h1[n] - DeadBit ELSE strg.h1[n]
         /\ \A m \in Nodes \ {n} : strg'.h1[m] = strg.h1[m]
<1> DEFINE old == get_tile(strg, n)
           d == Detached(strg, n)
           l == Relocated(d, n, old, t)
           r == Attached(l, n, old, t, <<>>)
<1>0. /\ Sound(strg) /\ t \in Signals /\ t \in Tiles \cup {Const0}
      /\ strg.tile_node[t] = NoNode /\ \A m \in Nodes : strg.node_tile[m] # t
  BY ConstructionFacts, EmptyTile
<1>1. strg' = r
  BY DEF move_node, Attached, MovedOutputs, Relocated, Detached
<1>2. old = Const0
  <2>1. strg.node_tile[n] = NoTile
    BY ConstructionFacts DEF placed
  <2> QED
    BY <2>1 DEF get_tile
<1>3. /\ Sound(d) /\ SamePlaces(d, strg) /\ d.inputs = strg.inputs /\ d.outputs = strg.outputs
      /\ \A m \in Nodes : d.children[m] = strg.children[m] /\ d.h1[m] = strg.h1[m]
  BY <1>0, DetachNone
<1> HIDE DEF d
<1>4. get_tile(d, n) = old /\ n < d.size /\ t # old
  BY <1>2, <1>3, Basics DEF get_tile, SamePlaces
<1>5. /\ Sound(l) /\ SameLists(l, d) /\ l.size = d.size
      /\ \A u \in Signals : l.tile_node[u] =
           IF u = t /\ t \in Tiles THEN n ELSE IF u = old THEN NoNode ELSE d.tile_node[u]
      /\ \A m \in Nodes : l.node_tile[m] =
           IF m = n THEN (IF t \in Tiles THEN t ELSE NoTile)
           ELSE IF d.node_tile[m] = old \/ (t \in Tiles /\ d.node_tile[m] = t)
           THEN NoTile ELSE d.node_tile[m]
      /\ l.h1[n] = IF is_dead(d, n) THEN d.h1[n] - DeadBit ELSE d.h1[n]
      /\ \A m \in Nodes \ {n} : l.h1[m] = Killed(d, t, m)
  BY <1>0, <1>3, <1>4, Relocate
<1> HIDE DEF l
<1>6. \A u \in Tiles : u # t => l.tile_node[u] = strg.tile_node[u]
  BY <1>2, <1>3, <1>5, Basics DEF SamePlaces
<1>7. \A m \in Nodes : placed(l, m) <=> placed(strg, m) \/ m = n
  BY <1>0, <1>2, <1>3, <1>5, Basics DEF SamePlaces, placed
<1>8. l.h1[n] = IF is_dead(strg, n) THEN strg.h1[n] - DeadBit ELSE strg.h1[n]
  BY <1>3, <1>5 DEF is_dead
<1>9. \A m \in Nodes \ {n} : l.h1[m] = strg.h1[m]
  BY <1>0, <1>3, <1>5 DEF Killed, SamePlaces
<1>10. l.children[n] = <<>> /\ old \in Tiles \cup {Const0}
  BY <1>2, <1>3, <1>5 DEF SameLists
<1>11. /\ Sound(r) /\ SamePlaces(r, l) /\ r.inputs = l.inputs
       /\ r.outputs = MovedOutputs(l.outputs, old, t)
       /\ \A m \in Nodes : r.children[m] = l.children[m] /\ r.h1[m] = l.h1[m]
  BY <1>0, <1>5, <1>10, AttachNone, ZenonT(60)
<1> HIDE DEF r, old
<1>12. r.outputs = Replace(strg.outputs, Const0, t)
  BY <1>2, <1>3, <1>4, <1>5, <1>11, Basics DEF MovedOutputs, dead_tile, SameLists
<1>13. LInv'
  <2>1. moves' \in 0..MaxMoves /\ UNCHANGED <<sequential_inf, kind>>
    BY LayoutAssumption, SMTT(40) DEF move_node, Moved, CInv, LInv
  <2> QED
    BY <1>1, <1>11, <2>1 DEF CInv, LInv
<1>14. \A m \in Nodes : placed(r, m) <=> placed(strg, m) \/ m = n
  BY <1>7, <1>11 DEF placed, SamePlaces
<1>15. /\ r.size = strg.size /\ r.inputs = strg.inputs
       /\ \A m \in Nodes : r.children[m] = strg.children[m]
       /\ \A u \in Tiles : u # t => r.tile_node[u] = strg.tile_node[u]
  BY <1>3, <1>5, <1>6, <1>11 DEF SamePlaces, SameLists
<1>16. /\ r.h1[n] = IF is_dead(strg, n) THEN strg.h1[n] - DeadBit ELSE strg.h1[n]
       /\ \A m \in Nodes \ {n} : r.h1[m] = strg.h1[m]
  BY <1>8, <1>9, <1>11
<1> QED
  BY <1>1, <1>12, <1>13, <1>14, <1>15, <1>16

(* The outputs stay the same when nodes that are placed keep their tiles. *)
LEMMA ReplaceNothing ==
  ASSUME NEW S, NEW seq \in Seq(S), NEW a, NEW b \in S, \A i \in DOMAIN seq : seq[i] # a
  PROVE  Replace(seq, a, b) = seq
<1>1. Replace(seq, a, b) = [i \in DOMAIN seq |-> seq[i]]
  BY DEF Replace
<1> QED
  BY <1>1

(* Placing a reserved input keeps the invariant. *)
LEMMA PlaceInputStep ==
  ASSUME CInv, PlaceInput
  PROVE  CInv'
<1>0. PICK i \in DOMAIN strg.inputs, t \in Tiles :
        /\ ~ placed(strg, strg.inputs[i]) /\ Empty(t)
        /\ move_node(strg.inputs[i], t, <<>>)
  BY SMTT(40) DEF PlaceInput
<1>1. /\ phase = "place" /\ phase' = phase /\ ntk' = ntk
      /\ sequential_inf' = sequential_inf /\ kind' = kind
  BY <1>0, ZenonT(60) DEF PlaceInput, move_node, Moved
<1> DEFINE n == strg.inputs[i]
<1>2. n \in Nodes /\ n > 1 /\ n < strg.size /\ strg.children[n] = <<>>
  <2>1. /\ i \in 1..Len(strg.inputs) /\ Len(strg.inputs) \in Nat /\ strg.size \in Nat
        /\ n \in Nodes
    BY ConstructionFacts
  <2>2. n = i + 1 /\ Len(strg.inputs) + 2 <= strg.size
    BY DEF CInv, InputsFirst
  <2>3. n > 1 /\ n < Len(strg.inputs) + 2 /\ n < strg.size
    BY <2>1, <2>2
  <2> HIDE DEF n
  <2> QED
    BY <2>1, <2>3 DEF CInv, InputsFirst
<1> HIDE DEF n
<1>3. /\ LInv' /\ strg'.size = strg.size
      /\ strg'.inputs = strg.inputs /\ strg'.outputs = Replace(strg.outputs, Const0, t)
      /\ \A m \in Nodes : strg'.children[m] = strg.children[m]
      /\ \A u \in Tiles : u # t => strg'.tile_node[u] = strg.tile_node[u]
      /\ \A m \in Nodes : placed(strg', m) <=> placed(strg, m) \/ m = n
      /\ strg'.h1[n] = IF is_dead(strg, n) THEN strg.h1[n] - DeadBit ELSE strg.h1[n]
      /\ \A m \in Nodes \ {n} : strg'.h1[m] = strg.h1[m]
  BY <1>0, <1>2, PlaceInputEffect DEF n
<1>4. \A u \in Tiles : strg.tile_node[u] \in Nodes => strg'.tile_node[u] = strg.tile_node[u]
  BY <1>0, <1>3, EmptyTile, Basics
<1>5. strg'.outputs = strg.outputs
  <2>1. \A j \in DOMAIN strg.outputs : strg.outputs[j] # Const0
    BY Basics DEF CInv, OutputsListed, Occupied
  <2>2. strg.outputs \in Seq(Signals) /\ t \in Signals
    BY ConstructionFacts
  <2> QED
    BY <1>3, <2>1, <2>2, ReplaceNothing
<1>6. Reserving'
  BY <1>1 DEF Reserving
<1>7. InputsFirst'
  BY <1>1, <1>3 DEF CInv, InputsFirst
<1>8. ChildrenOccupied'
  <2>1. \A m \in Nodes : Occupied(strg, strg.children[m]) /\ Len(strg.children[m]) <= MaxFanin
    BY DEF CInv, ChildrenOccupied
  <2>2. \A m \in Nodes : Occupied(strg', strg.children[m])
    BY <1>4, <2>1 DEF Occupied
  <2> QED
    BY <1>3, <2>1, <2>2 DEF ChildrenOccupied
<1>9. OutputsListed'
  <2>1. Occupied(strg, strg.outputs)
    BY DEF CInv, OutputsListed
  <2>2. \A j \in DOMAIN strg.outputs :
          strg'.tile_node[strg.outputs[j]] = strg.tile_node[strg.outputs[j]]
    BY <1>4, <2>1 DEF Occupied
  <2>3. Occupied(strg', strg.outputs)
    BY <2>1, <2>2 DEF Occupied
  <2>4. RIs' = RIs
    BY <1>1 DEF RIs
  <2> QED
    BY <1>1, <1>5, <2>2, <2>3, <2>4 DEF CInv, OutputsListed
<1>10. CountsReferences'
  <2>1. ASSUME NEW m \in Nodes
        PROVE  Parents(strg', m) = Parents(strg, m)
    BY <1>3, <1>4, ParentsSame DEF CInv, ChildrenOccupied
  <2> SUFFICES ASSUME NEW m \in Nodes
               PROVE  LET c == Cardinality(Parents(strg, m))
                      IN  /\ strg'.h1[m] \in {c, c + DeadBit}
                          /\ placed(strg', m) \/ m >= strg'.size => strg'.h1[m] = c
    BY <2>1 DEF CountsReferences
  <2> DEFINE c == Cardinality(Parents(strg, m))
  <2>2. /\ c \in Nat /\ c < DeadBit /\ DeadBit \in Nat
    BY ParentsBound, Basics
  <2>3. /\ strg.h1[m] \in {c, c + DeadBit}
        /\ placed(strg, m) \/ m >= strg.size => strg.h1[m] = c
    BY DEF CInv, CountsReferences
  <2> HIDE DEF c
  <2>4. CASE m = n
    <3>1. strg'.h1[m] = c
      BY <1>3, <2>2, <2>3, <2>4 DEF is_dead
    <3> QED
      BY <3>1 DEF c
  <2>5. CASE m # n
    BY <1>3, <2>3, <2>5 DEF c
  <2> QED
    BY <2>4, <2>5
<1> QED
  BY <1>1, <1>3, <1>6, <1>7, <1>8, <1>9, <1>10 DEF CInv

-----------------------------------------------------------------------------
(* A node with the given children has been created on an empty tile. *)
NodeCreated(t, sigs) ==
  /\ LInv'
  /\ strg.size \in Nodes /\ strg'.size = strg.size + 1
  /\ strg'.inputs = strg.inputs
  /\ strg'.tile_node[t] = strg.size
  /\ \A u \in Tiles : u # t => strg'.tile_node[u] = strg.tile_node[u]
  /\ \A m \in Nodes : placed(strg', m) <=> placed(strg, m) \/ m = strg.size
  /\ \A m \in Nodes : strg'.children[m] = IF m = strg.size THEN sigs ELSE strg.children[m]
  /\ \A m \in Nodes : strg'.h1[m] = (strg.h1[m] + References(strg, sigs, m)) % Word

(* On an empty tile nothing is killed. *)
LEMMA EmptyKillsNothing ==
  ASSUME NEW s, NEW t \in Tiles, \A m \in Nodes : s.node_tile[m] # t, NEW n \in Nodes
  PROVE  Killed(s, t, n) = s.h1[n]
  BY DEF Killed

(* place, for gates and wires. *)
LEMMA PlaceEffect ==
  ASSUME CInv, NEW t \in Tiles, Empty(t), NEW literal \in 0..3,
         NEW sigs \in Seq(Tiles), create_node_from_literal(sigs, literal, t)
  PROVE  NodeCreated(t, sigs)
<1> DEFINE f == reference(emplace(strg, literal, sigs), sigs)
           r == assign_node(f, t, strg.size)
<1>0. /\ Sound(strg) /\ t \in Signals /\ t \in Tiles \cup {Const0} /\ sigs \in Seq(Signals)
      /\ \A m \in Nodes : strg.node_tile[m] # t
  BY ConstructionFacts, EmptyTile
<1>1. strg.size < MaxNodes /\ strg' = r
  BY DEF create_node_from_literal
<1>2. LInv'
  BY <1>0, CreateNodeStep DEF CInv
<1>3. /\ strg.size \in Nodes /\ r.size = strg.size + 1
      /\ NodeAssigned(r, strg, t, strg.size)
      /\ f.node_tile = strg.node_tile
      /\ \A m \in Nodes : f.h1[m] = (strg.h1[m] + References(strg, sigs, m)) % Word
      /\ \A m \in Nodes : r.h1[m] = Killed(f, t, m)
      /\ r.inputs = strg.inputs
      /\ \A m \in Nodes : r.children[m] = IF m = strg.size THEN sigs ELSE strg.children[m]
  BY <1>0, <1>1, CreateGate
<1> HIDE DEF f, r
<1>4. \A m \in Nodes : r.h1[m] = (strg.h1[m] + References(strg, sigs, m)) % Word
  <2>1. \A m \in Nodes : f.node_tile[m] # t
    BY <1>0, <1>3
  <2>2. \A m \in Nodes : Killed(f, t, m) = f.h1[m]
    BY <2>1, EmptyKillsNothing
  <2> QED
    BY <1>3, <2>2
<1>5. strg.tile_node \in [Signals -> Nodes \cup {NoNode}]
  BY <1>0 DEF Sound, Storage
<1>6. /\ r.tile_node[t] = strg.size
      /\ \A u \in Tiles : u # t => r.tile_node[u] = strg.tile_node[u]
  BY <1>0, <1>3, <1>5, Basics DEF NodeAssigned
<1>7. \A m \in Nodes : placed(r, m) <=> placed(strg, m) \/ m = strg.size
  BY <1>0, <1>3 DEF NodeAssigned, placed
<1> QED
  BY <1>1, <1>2, <1>3, <1>4, <1>6, <1>7 DEF NodeCreated

(* place, for POs and RIs: here the child is looked up when the new node   *)
(* is on its tile, which makes no difference as the child has another one. *)
LEMMA PlaceOutputEffect ==
  ASSUME CInv, NEW t \in Tiles, Empty(t), NEW sig \in Tiles, ~ Empty(sig),
         NEW outs \in Seq(Signals), strg.size < MaxNodes,
         strg' = NewOutput(strg, t, sig, outs), LInv'
  PROVE  NodeCreated(t, <<sig>>) /\ strg'.outputs = outs
<1> DEFINE r == NewOutput(strg, t, sig, outs)
<1>0. /\ Sound(strg) /\ t \in Signals /\ t \in Tiles \cup {Const0} /\ sig \in Signals
      /\ \A m \in Nodes : strg.node_tile[m] # t
  BY ConstructionFacts, EmptyTile
<1>1. /\ strg.size \in Nodes /\ r.size = strg.size + 1
      /\ NodeAssigned(r, strg, t, strg.size)
      /\ \A m \in Nodes : r.h1[m] = (Killed(strg, t, m) + References(r, <<sig>>, m)) % Word
      /\ \A m \in Nodes : r.children[m] = IF m = strg.size THEN <<sig>> ELSE strg.children[m]
      /\ r.inputs = strg.inputs /\ r.outputs = outs
  BY <1>0, CreateOutput
<1> HIDE DEF r
<1>2. strg.tile_node \in [Signals -> Nodes \cup {NoNode}]
  BY <1>0 DEF Sound, Storage
<1>3. /\ r.tile_node[t] = strg.size
      /\ \A u \in Tiles : u # t => r.tile_node[u] = strg.tile_node[u]
  BY <1>0, <1>1, <1>2, Basics DEF NodeAssigned
<1>4. get_node(r, sig) = get_node(strg, sig)
  BY <1>3 DEF get_node
<1>5. \A m \in Nodes : References(r, <<sig>>, m) = References(strg, <<sig>>, m)
  <2>1. \A i \in DOMAIN <<sig>> : <<sig>>[i] = sig
    OBVIOUS
  <2> SUFFICES ASSUME NEW m \in Nodes
               PROVE  {i \in DOMAIN <<sig>> : get_node(r, <<sig>>[i]) = m} =
                      {i \in DOMAIN <<sig>> : get_node(strg, <<sig>>[i]) = m}
    BY DEF References
  <2> QED
    BY <1>4, <2>1
<1>6. \A m \in Nodes : r.h1[m] = (strg.h1[m] + References(strg, <<sig>>, m)) % Word
  BY <1>0, <1>1, <1>5, EmptyKillsNothing
<1>7. \A m \in Nodes : placed(r, m) <=> placed(strg, m) \/ m = strg.size
  BY <1>0, <1>1 DEF NodeAssigned, placed
<1> QED
  BY <1>1, <1>3, <1>6, <1>7 DEF NodeCreated, r

(* What every creation of a node preserves; the outputs come below. *)
LEMMA CreatedKeeps ==
  ASSUME CInv, phase = "place", NEW t \in Tiles, Empty(t),
         NEW sigs \in Seq(Tiles), Len(sigs) <= MaxFanin, Occupied(strg, sigs),
         NodeCreated(t, sigs), NEW k \in {"po", "ri", "node"}, Created(k),
         phase' = phase, sequential_inf'.num_pis = sequential_inf.num_pis,
         sequential_inf'.registers = sequential_inf.registers
  PROVE  /\ Reserving' /\ InputsFirst' /\ ChildrenOccupied' /\ CountsReferences'
         /\ \A u \in Tiles : strg.tile_node[u] \in Nodes =>
              strg'.tile_node[u] = strg.tile_node[u]
         /\ kind[strg.size] = "none"
         /\ \A m \in Nodes : kind'[m] = IF m = strg.size THEN k ELSE kind[m]
<1>1. \A u \in Tiles : strg.tile_node[u] \in Nodes => strg'.tile_node[u] = strg.tile_node[u]
  BY EmptyTile, Basics DEF NodeCreated
<1>2. /\ strg.size \in Nodes /\ strg.size \in Nat /\ strg'.size = strg.size + 1
      /\ kind[strg.size] = "none" /\ strg.children[strg.size] = <<>>
      /\ \A n \in Nodes : n >= strg.size + 1 => n >= strg.size /\ n # strg.size
  <2>1. strg.size \in Nodes /\ strg.size \in Nat /\ strg'.size = strg.size + 1
    BY ConstructionFacts DEF NodeCreated
  <2>2. strg.size >= strg.size
    BY <2>1
  <2>3. kind[strg.size] = "none" /\ strg.children[strg.size] = <<>>
    BY <2>1, <2>2 DEF CInv, InputsFirst
  <2>4. \A n \in Nodes : n \in Nat
    BY Basics
  <2> QED
    BY <2>1, <2>3, <2>4
<1>3. \A m \in Nodes : kind'[m] = IF m = strg.size THEN k ELSE kind[m]
  BY DEF Created, CInv, LInv
<1>4. Reserving'
  BY DEF Reserving
<1>5. InputsFirst'
  <2>0. strg'.inputs = strg.inputs
    BY DEF NodeCreated
  <2>1. Len(strg'.inputs) = sequential_inf'.num_pis + sequential_inf'.registers
    BY <2>0 DEF CInv, InputsFirst
  <2>2. /\ Len(strg.inputs) + 2 <= strg.size /\ Len(strg.inputs) \in Nat
        /\ sequential_inf.num_pis + 2 <= strg.size
    <3>1. /\ Len(strg.inputs) + 2 <= strg.size
          /\ Len(strg.inputs) = sequential_inf.num_pis + sequential_inf.registers
      BY DEF CInv, InputsFirst
    <3> QED
      BY <3>1, ConstructionFacts, SMTT(40)
  <2>3. Len(strg'.inputs) + 2 <= strg'.size
    BY <1>2, <2>0, <2>2
  <2>4. ~ (strg.size < Len(strg.inputs) + 2)
    BY <1>2, <2>2
  <2>5. ASSUME NEW n \in Nodes
        PROVE  /\ kind'[n] = "pi" <=> 2 <= n /\ n < sequential_inf'.num_pis + 2
               /\ kind'[n] = "ro" <=> /\ sequential_inf'.num_pis + 2 <= n
                                      /\ n < Len(strg'.inputs) + 2
               /\ n < Len(strg'.inputs) + 2 => strg'.children[n] = <<>>
               /\ n >= strg'.size => kind'[n] = "none" /\ strg'.children[n] = <<>>
    <3>1. /\ kind[n] = "pi" <=> 2 <= n /\ n < sequential_inf.num_pis + 2
          /\ kind[n] = "ro" <=> /\ sequential_inf.num_pis + 2 <= n
                                /\ n < Len(strg.inputs) + 2
          /\ n < Len(strg.inputs) + 2 => strg.children[n] = <<>>
          /\ n >= strg.size => kind[n] = "none" /\ strg.children[n] = <<>>
      BY DEF CInv, InputsFirst
    <3>2. CASE n = strg.size
      <4>1. ~ (n < sequential_inf.num_pis + 2)
        BY <1>2, <2>2, <3>2, ConstructionFacts
      <4>2. ~ (n >= strg'.size)
        BY <1>2, <3>2
      <4>3. kind'[n] # "pi" /\ kind'[n] # "ro"
        BY <1>3, <3>2
      <4> QED
        BY <2>0, <2>4, <3>2, <4>1, <4>2, <4>3
    <3>3. CASE n # strg.size
      <4>1. kind'[n] = kind[n] /\ strg'.children[n] = strg.children[n]
        BY <1>3, <3>3 DEF NodeCreated
      <4>2. n >= strg'.size => n >= strg.size
        BY <1>2
      <4> QED
        BY <2>0, <3>1, <4>1, <4>2
    <3> QED
      BY <3>2, <3>3
  <2>6. \A i \in DOMAIN strg'.inputs : strg'.inputs[i] = i + 1
    BY <2>0 DEF CInv, InputsFirst
  <2> QED
    BY <2>1, <2>3, <2>5, <2>6 DEF InputsFirst
<1>6. ChildrenOccupied'
  <2>1. \A m \in Nodes : Occupied(strg, strg.children[m]) /\ Len(strg.children[m]) <= MaxFanin
    BY DEF CInv, ChildrenOccupied
  <2>2. \A m \in Nodes : Occupied(strg', strg.children[m])
    BY <1>1, <2>1 DEF Occupied
  <2>3. Occupied(strg', sigs)
    BY <1>1 DEF Occupied
  <2> QED
    BY <2>1, <2>2, <2>3 DEF NodeCreated, ChildrenOccupied
<1>7. CountsReferences'
  <2> SUFFICES ASSUME NEW m \in Nodes
               PROVE  LET c == Cardinality(Parents(strg', m))
                      IN  /\ strg'.h1[m] \in {c, c + DeadBit}
                          /\ placed(strg', m) \/ m >= strg'.size => strg'.h1[m] = c
    BY DEF CountsReferences
  <2> DEFINE b == Cardinality(Parents(strg, m))
             c == Cardinality(Parents(strg', m))
             x == References(strg, sigs, m)
  <2>1. c = b + x
    <3>1. \A n \in Nodes : Occupied(strg, strg.children[n])
      BY DEF CInv, ChildrenOccupied
    <3>2. \A n \in Nodes : strg'.children[n] = IF n = strg.size THEN sigs ELSE strg.children[n]
      BY DEF NodeCreated
    <3>3. ChildrenAdded(strg', strg, strg.size, sigs)
      BY <1>1, <1>2, <3>1, <3>2 DEF ChildrenAdded
    <3> QED
      BY <1>2, <3>3, ParentsAdded
  <2>2. /\ b \in Nat /\ c \in Nat /\ c < DeadBit /\ DeadBit \in Nat
        /\ Word \in Nat /\ Word = DeadBit + DeadBit
    BY ParentsBound, Basics
  <2>3. x \in Nat
    BY ReferencesNat
  <2>4. /\ strg.h1[m] \in {b, b + DeadBit}
        /\ placed(strg, m) \/ m >= strg.size => strg.h1[m] = b
    BY DEF CInv, CountsReferences
  <2>5. strg'.h1[m] = (strg.h1[m] + x) % Word
    BY DEF NodeCreated
  <2>6. placed(strg', m) \/ m >= strg'.size => placed(strg, m) \/ m >= strg.size
    BY <1>2 DEF NodeCreated
  <2> HIDE DEF b, c, x
  <2>7. strg'.h1[m] = strg.h1[m] + x
    <3>1. strg.h1[m] + x \in 0..(Word - 1)
      BY <2>1, <2>2, <2>3, <2>4, SMTT(40)
    <3> QED
      BY <2>2, <2>5, <3>1, ModSmall
  <2>8. strg'.h1[m] \in {c, c + DeadBit}
    BY <2>1, <2>2, <2>3, <2>4, <2>7
  <2>9. placed(strg', m) \/ m >= strg'.size => strg'.h1[m] = c
    BY <2>1, <2>4, <2>6, <2>7
  <2> QED
    BY <2>8, <2>9 DEF c
<1> QED
  BY <1>1, <1>2, <1>3, <1>4, <1>5, <1>6, <1>7

(* Gates and wires are no outputs. *)
LEMMA PlaceStep ==
  ASSUME CInv, Place
  PROVE  CInv'
<1>0. PICK t \in Tiles, literal \in {2, 3}, arity \in 1..MaxFanin :
        \E sigs \in [1..arity -> PlacedTiles] :
          Empty(t) /\ create_node_from_literal(sigs, literal, t)
  BY DEF Place
<1>1. PICK sigs \in [1..arity -> PlacedTiles] :
        Empty(t) /\ create_node_from_literal(sigs, literal, t)
  BY <1>0
<1>2. /\ phase = "place" /\ phase' = phase /\ ntk' = ntk
      /\ sequential_inf' = sequential_inf /\ Created("node")
  BY <1>1 DEF Place, create_node_from_literal
<1>3. sigs \in Seq(Tiles) /\ Len(sigs) <= MaxFanin /\ Occupied(strg, sigs)
  <2>1. arity \in Nat /\ arity <= MaxFanin
    BY LayoutAssumption
  <2>2. \A i \in 1..arity : sigs[i] \in Tiles /\ ~ Empty(sigs[i])
    BY DEF PlacedTiles
  <2>3. DOMAIN sigs = 1..arity
    OBVIOUS
  <2>4. sigs \in [1..arity -> Tiles]
    BY <2>2, <2>3
  <2>5. sigs \in Seq(Tiles) /\ Len(sigs) = arity
    BY <2>1, <2>4
  <2>6. Occupied(strg, sigs)
    BY <2>2, <2>3, EmptyTile DEF Occupied
  <2> QED
    BY <2>1, <2>5, <2>6
<1>4. literal \in 0..3
  OBVIOUS
<1>5. NodeCreated(t, sigs)
  BY <1>1, <1>3, <1>4, PlaceEffect
<1>6. /\ Reserving' /\ InputsFirst' /\ ChildrenOccupied' /\ CountsReferences'
      /\ \A u \in Tiles : strg.tile_node[u] \in Nodes =>
           strg'.tile_node[u] = strg.tile_node[u]
      /\ kind[strg.size] = "none"
      /\ \A m \in Nodes : kind'[m] = IF m = strg.size THEN "node" ELSE kind[m]
  BY <1>1, <1>2, <1>3, <1>5, CreatedKeeps
<1>7. strg'.outputs = strg.outputs
  <2>1. Sound(strg) /\ strg.size < MaxNodes /\ sigs \in Seq(Signals) /\ t \in Tiles \cup {Const0}
    BY <1>1, <1>3, ConstructionFacts DEF create_node_from_literal
  <2>2. strg' = assign_node(reference(emplace(strg, literal, sigs), sigs), t, strg.size)
    BY <1>1 DEF create_node_from_literal
  <2> QED
    BY <1>4, <2>1, <2>2, CreateGate
<1>8. OutputsListed'
  <2>1. Occupied(strg, strg.outputs)
    BY DEF CInv, OutputsListed
  <2>2. \A j \in DOMAIN strg.outputs :
          /\ strg'.tile_node[strg.outputs[j]] = strg.tile_node[strg.outputs[j]]
          /\ strg.tile_node[strg.outputs[j]] \in Nodes
    BY <1>6, <2>1 DEF Occupied
  <2>3. Occupied(strg', strg.outputs)
    BY <2>1, <2>2 DEF Occupied
  <2>4. RIs' = RIs
    BY <1>6 DEF RIs
  <2>5. \A j \in DOMAIN strg.outputs :
          kind'[strg'.tile_node[strg.outputs[j]]] = kind[strg.tile_node[strg.outputs[j]]]
    <3> SUFFICES ASSUME NEW j \in DOMAIN strg.outputs
                 PROVE  kind'[strg.tile_node[strg.outputs[j]]] =
                        kind[strg.tile_node[strg.outputs[j]]]
      BY <2>2
    <3>1. kind[strg.tile_node[strg.outputs[j]]] \in {"po", "ri"}
      BY DEF CInv, OutputsListed
    <3>2. strg.tile_node[strg.outputs[j]] # strg.size
      BY <1>6, <3>1
    <3> QED
      BY <1>6, <2>2, <3>2
  <2>6. \A n \in Nodes : kind'[n] \in {"po", "ri"} => kind[n] \in {"po", "ri"}
    BY <1>6
  <2> QED
    BY <1>2, <1>7, <2>2, <2>3, <2>4, <2>5, <2>6 DEF CInv, OutputsListed
<1> QED
  BY <1>2, <1>5, <1>6, <1>8 DEF CInv, NodeCreated

(* r is seq with e inserted behind its first q elements. *)
Inserted(r, seq, q, e) ==
  /\ DOMAIN r = 1..(Len(seq) + 1) /\ Len(r) = Len(seq) + 1
  /\ \A i \in 1..q : r[i] = seq[i]
  /\ r[q + 1] = e
  /\ \A i \in (q + 1)..Len(seq) : r[i + 1] = seq[i]

(* vector::insert, as create_po uses it. *)
LEMMA InsertAt ==
  ASSUME NEW S, NEW seq \in Seq(S), NEW q \in Nat, q <= Len(seq), NEW e \in S
  PROVE  LET r == SubSeq(seq, 1, q) \o <<e>> \o SubSeq(seq, q + 1, Len(seq))
         IN  r \in Seq(S) /\ Inserted(r, seq, q, e)
<1> DEFINE a == SubSeq(seq, 1, q)
           b == SubSeq(seq, q + 1, Len(seq))
           one == <<e>>
           ae == a \o one
           r == ae \o b
<1>0. \A u, v \in Seq(S) :
        /\ u \o v \in Seq(S) /\ Len(u \o v) = Len(u) + Len(v)
        /\ \A i \in 1..(Len(u) + Len(v)) :
             (u \o v)[i] = IF i <= Len(u) THEN u[i] ELSE v[i - Len(u)]
  BY ConcatProperties, Zenon
<1>1. /\ Len(seq) \in Nat /\ \A i \in 1..Len(seq) : seq[i] \in S
  OBVIOUS
<1>2. /\ a \in Seq(S) /\ Len(a) = q /\ \A i \in 1..q : a[i] = seq[i]
  <2>1. \A i \in 1..q : seq[i] \in S
    BY <1>1
  <2> QED
    BY <1>1, <2>1
<1>3. /\ b \in Seq(S) /\ Len(b) = Len(seq) - q
      /\ \A i \in 1..(Len(seq) - q) : b[i] = seq[q + i]
  <2>1. \A i \in (q + 1)..Len(seq) : seq[i] \in S
    BY <1>1
  <2> QED
    BY <1>1, <2>1
<1>4. one \in Seq(S) /\ Len(one) = 1 /\ one[1] = e
  OBVIOUS
<1> HIDE DEF a, b, one
<1>5. /\ ae \in Seq(S) /\ Len(ae) = q + 1 /\ ae[q + 1] = e
      /\ \A i \in 1..q : ae[i] = seq[i]
  <2>1. ae \in Seq(S) /\ Len(ae) = q + 1
    <3>1. ae \in Seq(S) /\ Len(ae) = Len(a) + Len(one)
      BY <1>0, <1>2, <1>4, Zenon
    <3> HIDE DEF ae
    <3> QED
      BY <1>2, <1>4, <3>1
  <2>2. \A i \in 1..q : ae[i] = seq[i]
    BY <1>2, <1>4
  <2>3. ae[q + 1] = e
    <3>1. q + 1 \in 1..(Len(a) + Len(one)) /\ ~ (q + 1 <= Len(a)) /\ (q + 1) - Len(a) = 1
      BY <1>2, <1>4
    <3> QED
      BY <1>0, <1>2, <1>4, <3>1, SMTT(40)
  <2> QED
    BY <2>1, <2>2, <2>3
<1> HIDE DEF ae
<1>6. r \in Seq(S) /\ Len(r) = Len(seq) + 1 /\ DOMAIN r = 1..(Len(seq) + 1)
  <2>1. r \in Seq(S) /\ Len(r) = (q + 1) + (Len(seq) - q)
    <3>1. r \in Seq(S) /\ Len(r) = Len(ae) + Len(b)
      BY <1>0, <1>3, <1>5, Zenon
    <3> HIDE DEF r
    <3> QED
      BY <1>3, <1>5, <3>1
  <2> HIDE DEF r
  <2>2. Len(r) = Len(seq) + 1
    BY <1>1, <2>1
  <2> QED
    BY <2>1, <2>2
<1>7. \A i \in 1..(q + 1) : r[i] = ae[i]
  BY <1>3, <1>5
<1>8. ASSUME NEW i \in (q + 1)..Len(seq)
      PROVE  r[i + 1] = seq[i]
  <2>1. i - q \in 1..(Len(seq) - q) /\ q + (i - q) = i /\ i + 1 = (q + 1) + (i - q)
    BY <1>1
  <2>2. r[(q + 1) + (i - q)] = b[i - q]
    BY <1>3, <1>5, <2>1
  <2>3. b[i - q] = seq[q + (i - q)]
    BY <1>3, <2>1
  <2> QED
    BY <2>1, <2>2, <2>3
<1> HIDE DEF r
<1>9. \A i \in 1..q : r[i] = seq[i]
  BY <1>5, <1>7
<1>10. r[q + 1] = e
  BY <1>5, <1>7
<1> QED
  BY <1>6, <1>8, <1>9, <1>10 DEF Inserted, r, ae, a, b, one

(* vector::push_back, as create_ri uses it. *)
LEMMA InsertLast ==
  ASSUME NEW S, NEW seq \in Seq(S), NEW e \in S
  PROVE  Append(seq, e) \in Seq(S) /\ Inserted(Append(seq, e), seq, Len(seq), e)
<1>1. Len(seq) \in Nat
  OBVIOUS
<1>2. (Len(seq) + 1)..Len(seq) = {}
  BY <1>1
<1> QED
  BY <1>1, <1>2 DEF Inserted

(* A new output keeps the POs before the RIs, whichever it is. *)
LEMMA OutputAdded ==
  ASSUME CInv, phase = "place", NEW t \in Tiles, NEW sig, NodeCreated(t, <<sig>>),
         \A u \in Tiles : strg.tile_node[u] \in Nodes =>
           strg'.tile_node[u] = strg.tile_node[u],
         NEW k \in {"po", "ri"}, kind[strg.size] = "none",
         \A m \in Nodes : kind'[m] = IF m = strg.size THEN k ELSE kind[m],
         NEW q \in Nat, Inserted(strg'.outputs, strg.outputs, q, t),
         k = "po" => /\ q = sequential_inf.num_pos
                     /\ sequential_inf'.num_pos = sequential_inf.num_pos + 1,
         k = "ri" => /\ q = Len(strg.outputs) /\ Cardinality(RIs) < ntk.num_ros
                     /\ sequential_inf'.num_pos = sequential_inf.num_pos,
         ntk' = ntk, sequential_inf'.registers = sequential_inf.registers
  PROVE  OutputsListed'
<1> DEFINE o == strg.outputs
           r == strg'.outputs
           p == sequential_inf.num_pos
           N == Len(strg.outputs)
<1>1. /\ p \in Nat /\ N \in Nat /\ DOMAIN o = 1..N
  BY ConstructionFacts
<1>2. /\ Occupied(strg, o) /\ p <= N
      /\ \A i \in DOMAIN o : kind[strg.tile_node[o[i]]] = IF i <= p THEN "po" ELSE "ri"
      /\ \A n \in Nodes : kind[n] \in {"po", "ri"} =>
           \E i \in DOMAIN o : strg.tile_node[o[i]] = n
      /\ N = p + Cardinality(RIs)
      /\ sequential_inf.registers = ntk.num_ros /\ Cardinality(RIs) <= ntk.num_ros
  BY DEF CInv, OutputsListed
<1>3. /\ DOMAIN r = 1..(N + 1) /\ Len(r) = N + 1
      /\ \A i \in 1..q : r[i] = o[i]
      /\ r[q + 1] = t
      /\ \A i \in (q + 1)..N : r[i + 1] = o[i]
  BY DEF Inserted
<1>4. strg.size \in Nodes /\ strg'.tile_node[t] = strg.size
  BY DEF NodeCreated
<1>5. q <= N
  BY <1>1, <1>2
<1>6. \A i \in 1..N : /\ o[i] \in Tiles /\ strg.tile_node[o[i]] \in Nodes
                      /\ strg'.tile_node[o[i]] = strg.tile_node[o[i]]
                      /\ strg.tile_node[o[i]] # strg.size
                      /\ kind'[strg'.tile_node[o[i]]] = IF i <= p THEN "po" ELSE "ri"
  <2> SUFFICES ASSUME NEW i \in 1..N
               PROVE  /\ o[i] \in Tiles /\ strg.tile_node[o[i]] \in Nodes
                      /\ strg'.tile_node[o[i]] = strg.tile_node[o[i]]
                      /\ strg.tile_node[o[i]] # strg.size
                      /\ kind'[strg'.tile_node[o[i]]] = IF i <= p THEN "po" ELSE "ri"
    OBVIOUS
  <2>1. o[i] \in Tiles /\ strg.tile_node[o[i]] \in Nodes
    BY <1>1, <1>2 DEF Occupied
  <2>2. strg'.tile_node[o[i]] = strg.tile_node[o[i]]
    BY <2>1
  <2>3. kind[strg.tile_node[o[i]]] = IF i <= p THEN "po" ELSE "ri"
    BY <1>1, <1>2
  <2>4. strg.tile_node[o[i]] # strg.size
    BY <2>3
  <2> QED
    BY <2>1, <2>2, <2>3, <2>4
<1> HIDE DEF o, r, p, N
<1>7. ASSUME NEW j \in 1..(N + 1)
      PROVE  \/ j \in 1..q /\ j \in 1..N /\ r[j] = o[j]
             \/ j = q + 1 /\ r[j] = t
             \/ j - 1 \in (q + 1)..N /\ j - 1 \in 1..N /\ r[j] = o[j - 1]
  <2>1. CASE j <= q
    <3>1. j \in 1..q /\ j \in 1..N
      BY <1>1, <1>5, <2>1
    <3> QED
      BY <1>3, <3>1
  <2>2. CASE j = q + 1
    BY <1>3, <2>2
  <2>3. CASE j > q + 1
    <3>1. j - 1 \in (q + 1)..N /\ j - 1 \in 1..N /\ (j - 1) + 1 = j
      BY <1>1, <2>3
    <3> QED
      BY <1>3, <3>1
  <2> QED
    BY <1>1, <2>1, <2>2, <2>3
<1>8. Occupied(strg', r)
  BY <1>3, <1>4, <1>6, <1>7 DEF Occupied
<1>9. ASSUME NEW j \in 1..(N + 1)
      PROVE  kind'[strg'.tile_node[r[j]]] =
               IF j <= sequential_inf'.num_pos THEN "po" ELSE "ri"
  <2>1. CASE j \in 1..q /\ j \in 1..N /\ r[j] = o[j]
    <3>1. kind'[strg'.tile_node[r[j]]] = IF j <= p THEN "po" ELSE "ri"
      BY <1>6, <2>1
    <3>2. j <= p <=> j <= sequential_inf'.num_pos
      BY <1>1, <2>1 DEF p
    <3> QED
      BY <3>1, <3>2
  <2>2. CASE j = q + 1 /\ r[j] = t
    <3>1. kind'[strg'.tile_node[r[j]]] = k
      BY <1>4, <2>2
    <3>2. k = "po" <=> j <= sequential_inf'.num_pos
      BY <1>1, <1>2, <2>2 DEF p, N
    <3> QED
      BY <3>1, <3>2
  <2>3. CASE j - 1 \in (q + 1)..N /\ j - 1 \in 1..N /\ r[j] = o[j - 1]
    <3>1. kind'[strg'.tile_node[r[j]]] = IF j - 1 <= p THEN "po" ELSE "ri"
      BY <1>6, <2>3
    <3>2. k = "po"
      BY <1>1, <2>3 DEF N
    <3>3. ~ (j - 1 <= p) /\ ~ (j <= sequential_inf'.num_pos)
      BY <1>1, <2>3, <3>2 DEF p
    <3> QED
      BY <3>1, <3>3
  <2> QED
    BY <1>7, <2>1, <2>2, <2>3
<1>10. ASSUME NEW n \in Nodes, kind'[n] \in {"po", "ri"}
       PROVE  \E j \in 1..(N + 1) : strg'.tile_node[r[j]] = n
  <2>1. CASE n = strg.size
    <3>1. q + 1 \in 1..(N + 1)
      BY <1>1, <1>5
    <3> QED
      BY <1>3, <1>4, <2>1, <3>1
  <2>2. CASE n # strg.size
    <3>1. PICK i \in 1..N : strg.tile_node[o[i]] = n
      <4>1. kind[n] \in {"po", "ri"}
        BY <1>10, <2>2
      <4> QED
        BY <1>1, <1>2, <4>1
    <3>2. strg'.tile_node[o[i]] = n
      BY <1>6, <3>1
    <3>3. CASE i <= q
      <4>1. i \in 1..q /\ i \in 1..(N + 1)
        BY <1>1, <3>3
      <4> QED
        BY <1>3, <3>2, <4>1
    <3>4. CASE i > q
      <4>1. i \in (q + 1)..N /\ i + 1 \in 1..(N + 1)
        BY <1>1, <3>4
      <4> QED
        BY <1>3, <3>2, <4>1
    <3> QED
      BY <1>1, <3>3, <3>4
  <2> QED
    BY <2>1, <2>2
<1>11. /\ IsFiniteSet(RIs) /\ Cardinality(RIs) \in Nat
       /\ k = "po" => Cardinality(RIs') = Cardinality(RIs)
       /\ k = "ri" => Cardinality(RIs') = Cardinality(RIs) + 1
  <2>1. RIs \in SUBSET Nodes /\ strg.size \notin RIs
    BY DEF RIs
  <2>2. IsFiniteSet(RIs) /\ Cardinality(RIs) \in Nat
    BY <2>1, NodesFinite, Basics
  <2>3. k = "po" => RIs' = RIs
    BY <1>4 DEF RIs
  <2>4. k = "ri" => RIs' = RIs \cup {strg.size}
    BY <1>4 DEF RIs
  <2>5. Cardinality(RIs \cup {strg.size}) = Cardinality(RIs) + 1
    BY <2>1, <2>2, FS_AddElement
  <2> QED
    BY <2>2, <2>3, <2>4, <2>5
<1>12. /\ sequential_inf'.num_pos <= Len(r)
       /\ Len(r) = sequential_inf'.num_pos + Cardinality(RIs')
  <2>1. CASE k = "po"
    <3>1. sequential_inf'.num_pos = p + 1 /\ Cardinality(RIs') = Cardinality(RIs)
      BY <1>11, <2>1 DEF p
    <3> QED
      BY <1>1, <1>2, <1>3, <1>11, <3>1
  <2>2. CASE k = "ri"
    <3>1. sequential_inf'.num_pos = p /\ Cardinality(RIs') = Cardinality(RIs) + 1
      BY <1>11, <2>2 DEF p
    <3> QED
      BY <1>1, <1>2, <1>3, <1>11, <3>1
  <2> QED
    BY <2>1, <2>2
<1>13. sequential_inf'.registers = ntk'.num_ros /\ Cardinality(RIs') <= sequential_inf'.registers
  <2>1. ntk.num_ros \in Nat
    BY DEF CInv
  <2>2. Cardinality(RIs') <= ntk.num_ros
    BY <1>2, <1>11, <2>1
  <2> QED
    BY <1>2, <2>2
<1> QED
  BY <1>3, <1>8, <1>9, <1>10, <1>12, <1>13 DEF OutputsListed, r

(* Placing a PO or an RI keeps the invariant. *)
LEMMA PlaceOutputStep ==
  ASSUME CInv, PlacePO \/ PlaceRI
  PROVE  CInv'
<1>0. PICK t \in Tiles, sig \in PlacedTiles :
        /\ Empty(t)
        /\ \/ create_po(sig, t)
           \/ create_ri(sig, t) /\ Cardinality(RIs) < ntk.num_ros
  BY SMTT(40) DEF PlacePO, PlaceRI, RIs
<1>1. /\ phase = "place" /\ phase' = phase /\ ntk' = ntk
      /\ sig \in Tiles /\ ~ Empty(sig)
  BY DEF PlacePO, PlaceRI, PlacedTiles
<1> DEFINE o == strg.outputs
           p == sequential_inf.num_pos
           f == Referenced(strg, t, sig)
<1>2. /\ Sound(strg) /\ strg.size < MaxNodes /\ sig \in Signals /\ t \in Signals
      /\ o \in Seq(Signals) /\ t \in Tiles \cup {Const0} /\ p \in Nat /\ Len(o) \in Nat
  BY <1>0, <1>1, ConstructionFacts DEF create_po, create_ri
<1>3. LInv'
  BY <1>0, <1>1, <1>2, CreateOutputStep DEF CInv
<1>4. f.outputs = o
  BY <1>2, ReferenceChild, ZenonT(60)
<1>5. PICK k \in {"po", "ri"}, q \in Nat, outs \in Seq(Signals) :
        /\ Created(k) /\ strg' = NewOutput(strg, t, sig, outs)
        /\ Inserted(outs, o, q, t)
        /\ k = "po" => /\ q = p
                       /\ sequential_inf' = [sequential_inf EXCEPT !.num_pos = @ + 1]
        /\ k = "ri" => /\ q = Len(o) /\ Cardinality(RIs) < ntk.num_ros
                       /\ sequential_inf' = sequential_inf
  <2>1. CASE create_po(sig, t)
    <3> DEFINE outs == SubSeq(o, 1, p) \o <<t>> \o SubSeq(o, p + 1, Len(o))
    <3>1. p <= Len(o) /\ Created("po")
          /\ sequential_inf' = [sequential_inf EXCEPT !.num_pos = @ + 1]
      BY <2>1 DEF create_po
    <3>2. outs \in Seq(Signals) /\ Inserted(outs, o, p, t)
      BY <1>2, <3>1, InsertAt
    <3>3. strg' = [f EXCEPT !.outputs = SubSeq(f.outputs, 1, p) \o <<t>>
                                        \o SubSeq(f.outputs, p + 1, Len(f.outputs))]
      BY <2>1 DEF create_po, Referenced
    <3>4. strg' = NewOutput(strg, t, sig, outs)
      BY <1>4, <3>3 DEF NewOutput
    <3> HIDE DEF outs, o, p
    <3> QED
      BY <1>2, <3>1, <3>2, <3>4
  <2>2. CASE create_ri(sig, t) /\ Cardinality(RIs) < ntk.num_ros
    <3> DEFINE outs == Append(o, t)
    <3>1. Created("ri") /\ sequential_inf' = sequential_inf
      BY <2>2 DEF create_ri
    <3>2. outs \in Seq(Signals) /\ Inserted(outs, o, Len(o), t)
      BY <1>2, InsertLast
    <3>3. strg' = [f EXCEPT !.outputs = Append(f.outputs, t)]
      BY <2>2 DEF create_ri, Referenced
    <3>4. strg' = NewOutput(strg, t, sig, outs)
      BY <1>4, <3>3 DEF NewOutput
    <3> HIDE DEF outs, o
    <3> QED
      BY <1>2, <2>2, <3>1, <3>2, <3>4
  <2> QED
    BY <1>0, <2>1, <2>2
<1>6. NodeCreated(t, <<sig>>) /\ strg'.outputs = outs
  BY <1>0, <1>1, <1>2, <1>3, <1>5, PlaceOutputEffect
<1>7. /\ sequential_inf'.num_pis = sequential_inf.num_pis
      /\ sequential_inf'.registers = sequential_inf.registers
      /\ k = "po" => sequential_inf'.num_pos = sequential_inf.num_pos + 1
      /\ k = "ri" => sequential_inf'.num_pos = sequential_inf.num_pos
  BY <1>5 DEF CInv, LInv
<1>8. <<sig>> \in Seq(Tiles) /\ Len(<<sig>>) <= MaxFanin /\ Occupied(strg, <<sig>>)
  <2>1. MaxFanin \in Nat /\ MaxFanin > 0
    BY LayoutAssumption, ConstructionAssumption
  <2>2. strg.tile_node[sig] \in Nodes
    BY <1>1, EmptyTile
  <2> QED
    BY <1>1, <2>1, <2>2 DEF Occupied
<1>9. k \in {"po", "ri", "node"}
  OBVIOUS
<1> HIDE DEF o, p, f
<1>10. /\ Reserving' /\ InputsFirst' /\ ChildrenOccupied' /\ CountsReferences'
       /\ \A u \in Tiles : strg.tile_node[u] \in Nodes =>
            strg'.tile_node[u] = strg.tile_node[u]
       /\ kind[strg.size] = "none"
       /\ \A m \in Nodes : kind'[m] = IF m = strg.size THEN k ELSE kind[m]
  BY <1>0, <1>1, <1>5, <1>6, <1>7, <1>8, <1>9, CreatedKeeps
<1>11. OutputsListed'
  <2>1. Inserted(strg'.outputs, strg.outputs, q, t)
    BY <1>5, <1>6 DEF o
  <2>2. /\ k = "po" => q = sequential_inf.num_pos
        /\ k = "ri" => q = Len(strg.outputs) /\ Cardinality(RIs) < ntk.num_ros
    BY <1>5 DEF o, p
  <2> QED
    BY <1>1, <1>6, <1>7, <1>10, <2>1, <2>2, OutputAdded
<1> QED
  BY <1>1, <1>3, <1>10, <1>11 DEF CInv

-----------------------------------------------------------------------------
(* Every step of the construction keeps the invariant. *)
LEMMA ConstructionStep == CInv /\ [ConstructionNext]_cvars => CInv'
<1> SUFFICES ASSUME CInv, [ConstructionNext]_cvars
             PROVE  CInv'
  OBVIOUS
<1>1. CASE ReservePI \/ ReserveRO
  BY <1>1, ReserveStep
<1>2. CASE ReleaseLastPI \/ ReleaseLastRO
  BY <1>2, ReleaseStep
<1>3. CASE PlaceInput
  BY <1>3, PlaceInputStep
<1>4. CASE Place
  BY <1>4, PlaceStep
<1>5. CASE PlacePO \/ PlaceRI
  BY <1>5, PlaceOutputStep
<1>6. CASE UNCHANGED cvars
  <2>1. /\ strg' = strg /\ sequential_inf' = sequential_inf /\ kind' = kind
        /\ moves' = moves /\ phase' = phase /\ ntk' = ntk
    BY <1>6 DEF cvars, vars
  <2>2. LInv'
    BY <2>1 DEF CInv, LInv
  <2>3. Reserving' /\ InputsFirst'
    BY <2>1 DEF CInv, Reserving, InputsFirst
  <2>4. ChildrenOccupied' /\ CountsReferences'
    BY <2>1 DEF CInv, ChildrenOccupied, CountsReferences
  <2>5. OutputsListed'
    BY <2>1 DEF CInv, OutputsListed, RIs
  <2> QED
    BY <2>1, <2>2, <2>3, <2>4, <2>5 DEF CInv
<1> QED
  BY <1>1, <1>2, <1>3, <1>4, <1>5, <1>6 DEF ConstructionNext

(* It holds throughout. *)
LEMMA ConstructionInvariant == ConstructionSpec => []CInv
  BY ConstructionStarts, ConstructionStep, PTL DEF ConstructionSpec

(* While exact or orthogonal builds a layout, no placed node is dead: the  *)
(* inputs that reserving them has killed are revived before they are used. *)
(* The layout alone does not promise this.                                 *)
THEOREM ConstructionKeepsAlive == ConstructionSpec => []PlacedNodesAlive
<1>1. CInv => PlacedNodesAlive
  <2> SUFFICES ASSUME CInv, NEW n \in Nodes, placed(strg, n)
               PROVE  ~ is_dead(strg, n)
    BY DEF PlacedNodesAlive
  <2>1. strg.h1[n] = Cardinality(Parents(strg, n))
    BY DEF CInv, CountsReferences
  <2>2. /\ Cardinality(Parents(strg, n)) \in Nat /\ Cardinality(Parents(strg, n)) < DeadBit
        /\ DeadBit \in Nat
    BY ParentsBound, Basics
  <2> QED
    BY <2>1, <2>2 DEF is_dead
<1> QED
  BY <1>1, ConstructionInvariant, PTL

(* The reference count of every node is the number of children that name   *)
(* it, in every layout under construction; the count never runs into the   *)
(* dead bit above it.                                                      *)
THEOREM ReferencesStayExact == ConstructionSpec => []ReferencesExact
<1>1. CInv => ReferencesExact
  <2> SUFFICES ASSUME CInv, NEW n \in Nodes
               PROVE  strg.h1[n] % DeadBit = Cardinality(Parents(strg, n))
    BY DEF ReferencesExact, Parents
  <2> DEFINE c == Cardinality(Parents(strg, n))
  <2>1. c \in 0..(DeadBit - 1) /\ DeadBit \in Nat
    BY ParentsBound, Basics
  <2>2. strg.h1[n] \in {c, c + DeadBit}
    BY DEF CInv, CountsReferences
  <2> HIDE DEF c
  <2>3. strg.h1[n] % DeadBit = c
    BY <2>1, <2>2, ModSmall
  <2> QED
    BY <2>3 DEF c
<1> QED
  BY <1>1, ConstructionInvariant, PTL

(* is_pi, is_ro, is_po and is_ri find a node exactly if it was created as  *)
(* one, and the inputs stay in the order in which they were reserved.      *)
THEOREM IOStaysClassified == ConstructionSpec => []IOClassified
<1>1. CInv => IOClassified
  <2> SUFFICES ASSUME CInv
               PROVE  IOClassified
    OBVIOUS
  <2> DEFINE q == sequential_inf
             L == Len(strg.inputs)
             M == Len(strg.outputs)
  <2>1. /\ q.num_pis \in Nat /\ q.num_pos \in Nat /\ q.registers \in Nat
        /\ L \in Nat /\ M \in Nat /\ strg.size \in 2..MaxNodes
        /\ DOMAIN strg.inputs = 1..L /\ DOMAIN strg.outputs = 1..M
    BY ConstructionFacts
  <2>2. /\ L = q.num_pis + q.registers
        /\ \A i \in 1..L : strg.inputs[i] = i + 1
        /\ \A n \in Nodes : /\ kind[n] = "pi" <=> 2 <= n /\ n < q.num_pis + 2
                            /\ kind[n] = "ro" <=> q.num_pis + 2 <= n /\ n < L + 2
    BY <2>1 DEF CInv, InputsFirst
  <2>3. /\ \A i \in 1..M : get_node(strg, strg.outputs[i]) = strg.tile_node[strg.outputs[i]]
        /\ \A i \in 1..M : kind[strg.tile_node[strg.outputs[i]]] =
                             IF i <= q.num_pos THEN "po" ELSE "ri"
        /\ \A n \in Nodes : kind[n] \in {"po", "ri"} =>
             \E i \in 1..M : strg.tile_node[strg.outputs[i]] = n
    <3>1. \A i \in 1..M : strg.tile_node[strg.outputs[i]] \in Nodes
      BY <2>1 DEF CInv, OutputsListed, Occupied
    <3>2. \A i \in 1..M : get_node(strg, strg.outputs[i]) = strg.tile_node[strg.outputs[i]]
      BY <3>1, Basics DEF get_node
    <3>3. DOMAIN strg.outputs = 1..M
      BY <2>1
    <3>4. /\ \A i \in DOMAIN strg.outputs : kind[strg.tile_node[strg.outputs[i]]] =
                             IF i <= q.num_pos THEN "po" ELSE "ri"
          /\ \A n \in Nodes : kind[n] \in {"po", "ri"} =>
               \E i \in DOMAIN strg.outputs : strg.tile_node[strg.outputs[i]] = n
      BY Zenon DEF CInv, OutputsListed
    <3> HIDE DEF M, q
    <3> QED
      BY <3>2, <3>3, <3>4
  <2>4. M <= q.num_pos + q.registers
    <3>1. CASE phase = "place"
      <4>1. M = q.num_pos + Cardinality(RIs) /\ Cardinality(RIs) <= q.registers
        BY <3>1 DEF CInv, OutputsListed
      <4>2. RIs \in SUBSET Nodes
        BY DEF RIs
      <4>3. Cardinality(RIs) \in Nat
        BY <4>2, NodesFinite, Basics
      <4> QED
        BY <2>1, <4>1, <4>3
    <3>2. CASE phase # "place"
      <4>1. M = 0
        BY <3>2 DEF CInv, Reserving
      <4> QED
        BY <2>1, <4>1
    <3> QED
      BY <3>1, <3>2
  <2> HIDE DEF L, M, q
  <2>5. ASSUME NEW n \in 2..(strg.size - 1)
        PROVE  /\ is_pi(strg, q, n) <=> kind[n] = "pi"
               /\ is_ro(strg, q, n) <=> kind[n] = "ro"
               /\ is_po(strg, q, n) <=> kind[n] = "po"
               /\ is_ri(strg, q, n) <=> kind[n] = "ri"
    <3>1. n \in Nodes /\ n \in Nat
      BY <2>1, Basics DEF Nodes
    <3>2. /\ kind[n] = "pi" <=> 2 <= n /\ n < q.num_pis + 2
          /\ kind[n] = "ro" <=> q.num_pis + 2 <= n /\ n < L + 2
      BY <2>2, <3>1
    <3>3. is_pi(strg, q, n) <=> kind[n] = "pi"
      <4>1. ASSUME is_pi(strg, q, n)
            PROVE  kind[n] = "pi"
        <5>1. PICK i \in 1..q.num_pis : i <= L /\ strg.inputs[i] = n
          BY <4>1 DEF is_pi, L
        <5>2. i \in 1..L /\ n = i + 1
          BY <2>1, <2>2, <5>1
        <5> QED
          BY <2>1, <3>1, <3>2, <5>1, <5>2
      <4>2. ASSUME kind[n] = "pi"
            PROVE  is_pi(strg, q, n)
        <5>1. /\ n - 1 \in 1..q.num_pis /\ n - 1 <= L /\ n - 1 \in 1..L
              /\ (n - 1) + 1 = n
          BY <2>1, <2>2, <3>1, <3>2, <4>2, SMTT(40)
        <5>2. strg.inputs[n - 1] = n
          BY <2>2, <5>1
        <5> QED
          BY <5>1, <5>2 DEF is_pi, L
      <4> QED
        BY <4>1, <4>2
    <3>4. is_ro(strg, q, n) <=> kind[n] = "ro"
      <4>1. ASSUME is_ro(strg, q, n)
            PROVE  kind[n] = "ro"
        <5>1. PICK i \in (q.num_pis + 1)..(q.num_pis + q.registers) :
                i <= L /\ strg.inputs[i] = n
          BY <4>1 DEF is_ro, L
        <5>2. i \in 1..L /\ n = i + 1
          BY <2>1, <2>2, <5>1, SMTT(40)
        <5> QED
          BY <2>1, <3>1, <3>2, <5>1, <5>2
      <4>2. ASSUME kind[n] = "ro"
            PROVE  is_ro(strg, q, n)
        <5>1. /\ n - 1 \in (q.num_pis + 1)..(q.num_pis + q.registers)
              /\ n - 1 <= L /\ n - 1 \in 1..L /\ (n - 1) + 1 = n
          BY <2>1, <2>2, <3>1, <3>2, <4>2, SMTT(40)
        <5>2. strg.inputs[n - 1] = n
          BY <2>2, <5>1
        <5> QED
          BY <5>1, <5>2 DEF is_ro, L
      <4> QED
        BY <4>1, <4>2
    <3>5. is_po(strg, q, n) <=> kind[n] = "po"
      <4>1. ASSUME is_po(strg, q, n)
            PROVE  kind[n] = "po"
        <5>1. PICK i \in 1..q.num_pos : i <= M /\ get_node(strg, strg.outputs[i]) = n
          BY <4>1 DEF is_po, M
        <5>2. i \in 1..M /\ i <= q.num_pos
          BY <2>1, <5>1
        <5> QED
          BY <2>3, <5>1, <5>2
      <4>2. ASSUME kind[n] = "po"
            PROVE  is_po(strg, q, n)
        <5>1. PICK i \in 1..M : strg.tile_node[strg.outputs[i]] = n
          BY <2>3, <3>1, <4>2
        <5>2. i <= q.num_pos
          BY <2>3, <4>2, <5>1
        <5>3. i \in 1..q.num_pos /\ i <= M
          BY <2>1, <5>2
        <5> QED
          BY <2>3, <5>1, <5>3 DEF is_po, M
      <4> QED
        BY <4>1, <4>2
    <3>6. is_ri(strg, q, n) <=> kind[n] = "ri"
      <4>1. ASSUME is_ri(strg, q, n)
            PROVE  kind[n] = "ri"
        <5>1. PICK i \in (q.num_pos + 1)..(q.num_pos + q.registers) :
                i <= M /\ get_node(strg, strg.outputs[i]) = n
          BY <4>1 DEF is_ri, M
        <5>2. i \in 1..M /\ ~ (i <= q.num_pos)
          BY <2>1, <5>1
        <5> QED
          BY <2>3, <5>1, <5>2
      <4>2. ASSUME kind[n] = "ri"
            PROVE  is_ri(strg, q, n)
        <5>1. PICK i \in 1..M : strg.tile_node[strg.outputs[i]] = n
          BY <2>3, <3>1, <4>2
        <5>2. ~ (i <= q.num_pos)
          BY <2>3, <4>2, <5>1
        <5>3. i \in (q.num_pos + 1)..(q.num_pos + q.registers) /\ i <= M
          BY <2>1, <2>4, <5>2
        <5> QED
          BY <2>3, <5>1, <5>3 DEF is_ri, M
      <4> QED
        BY <4>1, <4>2
    <3> QED
      BY <3>3, <3>4, <3>5, <3>6
  <2>6. \A i, j \in DOMAIN strg.inputs : i < j => strg.inputs[i] < strg.inputs[j]
    BY <2>1, <2>2, SMTT(40)
  <2> QED
    BY <2>5, <2>6 DEF IOClassified, q
<1> QED
  BY <1>1, ConstructionInvariant, PTL

(* reserve_input_nodes and reserve_register_output_nodes each leave an     *)
(* empty layout, for every number of PIs and ROs, none included.           *)
THEOREM ReservationsLeaveNothing == ConstructionSpec => ReservedNowhere
<1>1. CInv /\ [ConstructionNext]_cvars =>
        [phase' # phase =>
           /\ \A t \in Tiles : is_empty_tile(strg', t)
           /\ strg'.num_wires + strg'.num_gates = 0]_cvars
  <2> SUFFICES ASSUME CInv, ConstructionNext, phase' # phase
               PROVE  /\ \A t \in Tiles : is_empty_tile(strg', t)
                      /\ strg'.num_wires + strg'.num_gates = 0
    OBVIOUS
  <2>1. phase # "place" /\ move_node(get_node(strg, Origin), Const0, <<>>)
    BY DEF ConstructionNext, ReservePI, ReserveRO, ReleaseLastPI, ReleaseLastRO,
           PlaceInput, Place, PlacePO, PlaceRI
  <2>2. LInv' /\ \A m \in Nodes : ~ placed(strg', m)
    BY <2>1, ReleaseEffect
  <2>3. Sound(strg')
    BY <2>2 DEF LInv
  <2>4. ASSUME NEW t \in Tiles
        PROVE  is_empty_tile(strg', t)
    <3>1. t \in Signals /\ strg'.tile_node[t] \in Nodes \cup {NoNode}
      BY <2>3, Basics DEF Sound, Storage
    <3>2. strg'.tile_node[t] \notin Nodes
      BY <2>2, <2>3, <3>1 DEF Sound, MapsAgree, placed
    <3> QED
      BY <3>1, <3>2 DEF is_empty_tile, get_node
  <2>5. strg'.num_wires = 0 /\ strg'.num_gates = 0
    <3>1. Wires(strg') = {} /\ Gates(strg') = {}
      BY <2>2 DEF Wires, Gates
    <3> QED
      BY <2>3, <3>1, FS_EmptySet DEF Sound, Counted
  <2> QED
    BY <2>4, <2>5
<1> QED
  BY <1>1, ConstructionInvariant, PTL DEF ConstructionSpec, ReservedNowhere
=============================================================================
