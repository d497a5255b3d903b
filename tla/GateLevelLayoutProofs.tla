------------------------ MODULE GateLevelLayoutProofs ------------------------
(***************************************************************************)
(* Proofs about GateLevelLayout for every set of tiles, number of nodes,   *)
(* fan-in and client, the ones that overwrite tiles included.              *)
(*                                                                         *)
(* The operations are compositions of functions of the storage.  Sound(s)  *)
(* says what holds of a storage between any two of them; one lemma per     *)
(* function says what it changes and that Sound is preserved.              *)
(***************************************************************************)
EXTENDS GateLevelLayout, FiniteSetTheorems, WellFoundedInduction, TLAPS

(* Every nonempty set of naturals has a least element: the principle that  *)
(* the inductions over the storage are carried out with.                   *)
LEMMA LeastNat ==
  ASSUME NEW T \in SUBSET Nat, T # {}
  PROVE  \E x \in T : \A y \in T : x <= y
<1> DEFINE R == OpToRel(<, Nat)
<1>1. IsWellFoundedOn(R, Nat)
  BY NatLessThanWellFounded
<1>2. \A x, y \in Nat : <<y, x>> \in R <=> y < x
  BY DEF OpToRel
<1> HIDE DEF R
<1>3. PICK x \in T : \A y \in T : ~ (<<y, x>> \in R)
  BY <1>1, WFMin
<1>4. ASSUME NEW y \in T
      PROVE  x <= y
  <2>1. x \in Nat /\ y \in Nat
    OBVIOUS
  <2>2. ~ (y < x)
    BY <1>2, <1>3, <2>1
  <2> QED
    BY <2>1, <2>2
<1> QED
  BY <1>3, <1>4

(* Unsigned counters: what has not wrapped around is what was counted. *)
LEMMA ModSmall ==
  ASSUME NEW W \in Nat, NEW a \in 0..(W - 1)
  PROVE  a % W = a /\ (a + W) % W = a
  OBVIOUS

(* A counter stays in its range whatever is added. *)
LEMMA ModRange ==
  ASSUME NEW W \in Nat, W > 0, NEW a \in Int
  PROVE  a % W \in 0..(W - 1)
  OBVIOUS

(* Incrementing and decrementing a counter within its range. *)
LEMMA ModCount ==
  ASSUME NEW W \in Nat
  PROVE  /\ \A a \in 0..(W - 2) : (a + W + 1) % W = a + 1
         /\ \A a \in 1..(W - 1) : (a + W + (-1)) % W = a - 1
<1>1. ASSUME NEW a \in 0..(W - 2)
      PROVE  (a + W + 1) % W = a + 1
  <2>1. a + W + 1 = (a + 1) + W /\ a + 1 \in 0..(W - 1)
    OBVIOUS
  <2> QED
    BY <2>1, ModSmall
<1>2. ASSUME NEW a \in 1..(W - 1)
      PROVE  (a + W + (-1)) % W = a - 1
  <2>1. a + W + (-1) = (a - 1) + W /\ a - 1 \in 0..(W - 1)
    OBVIOUS
  <2> QED
    BY <2>1, ModSmall
<1> QED
  BY <1>1, <1>2

-----------------------------------------------------------------------------
-----------------------------------------------------------------------------
(* A node is on a tile exactly if the tile has the node. *)
MapsAgree(s) ==
  \A t \in Signals, n \in Nodes : s.tile_node[t] = n <=> s.node_tile[n] = t

(* The constants are on their tiles or, the constant 0, nowhere. *)
ConstantsHome(s) ==
  /\ s.node_tile[0] \in {Const0, NoTile}
  /\ s.node_tile[1] = Const1
  /\ \A n \in Nodes : s.node_tile[n] = Const0 => n = 0

(* Nodes that have not been created are nowhere. *)
Unborn(s) == \A n \in Nodes : n >= s.size => s.node_tile[n] = NoTile

Wires(s) == {n \in Nodes : placed(s, n) /\ is_wire(s, n)}
Gates(s) == {n \in Nodes : placed(s, n) /\ ~ is_wire(s, n)}

Counted(s) ==
  s.num_wires = Cardinality(Wires(s)) /\ s.num_gates = Cardinality(Gates(s))

Sound(s) ==
  /\ s \in Storage
  /\ MapsAgree(s)
  /\ ConstantsHome(s)
  /\ Unborn(s)
  /\ Counted(s)

(* Facts about the constants that the provers need again and again. *)
LEMMA Basics ==
  /\ MaxNodes \in Nat /\ MaxNodes > 2 /\ DeadBit \in Nat /\ DeadBit > MaxNodes
  /\ Word \in Nat /\ Word > MaxNodes /\ Word = DeadBit + DeadBit
  /\ NoNode \notin Nodes /\ 0 \in Nodes /\ 1 \in Nodes /\ Nodes \subseteq Nat
  /\ \A n \in Nodes : n < MaxNodes
  /\ Const0 \notin Tiles /\ Const1 \notin Tiles /\ NoTile \notin Tiles
  /\ NoTile \notin Signals /\ Tiles \subseteq Signals
  /\ Const0 \in Signals /\ Const1 \in Signals
  /\ Const0 # Const1 /\ Const0 # NoTile /\ Const1 # NoTile
<1>1. /\ MaxNodes \in Nat /\ MaxNodes > 2 /\ DeadBit \in Nat /\ DeadBit > MaxNodes
      /\ Const0 \notin Tiles /\ Const1 \notin Tiles /\ NoTile \notin Tiles
  BY LayoutAssumption
<1>2. Const0 # Const1 /\ Const0 # NoTile /\ Const1 # NoTile
  BY DEF Const0, Const1, NoTile
<1>3. /\ Word \in Nat /\ Word > MaxNodes /\ Word = DeadBit + DeadBit
      /\ NoNode \notin Nodes /\ 0 \in Nodes /\ 1 \in Nodes /\ Nodes \subseteq Nat
      /\ \A n \in Nodes : n < MaxNodes
  BY <1>1 DEF Word, NoNode, Nodes
<1> QED
  BY <1>1, <1>2, <1>3 DEF Signals

(* The sets behind the two counters are finite and below a word. *)
LEMMA NodesFinite ==
  ASSUME NEW S \in SUBSET Nodes
  PROVE  /\ IsFiniteSet(S) /\ Cardinality(S) \in 0..(Word - 1)
         /\ (\E n \in Nodes : n \notin S) => Cardinality(S) <= MaxNodes - 1
<1>1. IsFiniteSet(Nodes) /\ Cardinality(Nodes) = MaxNodes
  BY Basics, FS_Interval DEF Nodes
<1>2. /\ IsFiniteSet(S) /\ Cardinality(S) \in Nat /\ Cardinality(S) <= MaxNodes
      /\ Cardinality(S) = MaxNodes => S = Nodes
  BY <1>1, FS_Subset, FS_CardinalityType
<1>3. Cardinality(S) \in 0..(Word - 1)
  BY <1>2, Basics
<1>4. (\E n \in Nodes : n \notin S) => Cardinality(S) <= MaxNodes - 1
  BY <1>2, Basics
<1> QED
  BY <1>2, <1>3, <1>4

(* The parts of a storage that Sound is about. *)
SamePlaces(r, s) ==
  /\ r.size = s.size /\ r.fn = s.fn
  /\ r.tile_node = s.tile_node /\ r.node_tile = s.node_tile
  /\ r.num_wires = s.num_wires /\ r.num_gates = s.num_gates

(* The lists, which only creating and moving nodes change. *)
SameLists(r, s) ==
  r.children = s.children /\ r.inputs = s.inputs /\ r.outputs = s.outputs

(* Sound does not depend on lists and reference counts. *)
LEMMA SoundSame ==
  ASSUME NEW s, Sound(s), NEW r \in Storage, SamePlaces(r, s)
  PROVE  Sound(r)
<1>1. MapsAgree(r) /\ ConstantsHome(r) /\ Unborn(r)
  BY DEF Sound, SamePlaces, MapsAgree, ConstantsHome, Unborn
<1>2. Wires(r) = Wires(s) /\ Gates(r) = Gates(s)
  BY DEF SamePlaces, Wires, Gates, placed, is_wire
<1> QED
  BY <1>1, <1>2 DEF Sound, SamePlaces, Counted

(* kill_node and revive_node change the dead bit of a node only. *)
LEMMA KillNode ==
  ASSUME NEW s \in Storage, NEW n \in Nodes
  PROVE  LET r == kill_node(s, n)
         IN  /\ r \in Storage /\ SamePlaces(r, s) /\ SameLists(r, s)
             /\ \A m \in Nodes \ {n} : r.h1[m] = s.h1[m]
             /\ n > 1 => r.h1[n] = IF is_dead(s, n) THEN s.h1[n] ELSE s.h1[n] + DeadBit
             /\ n <= 1 => r.h1[n] = s.h1[n]
<1>1. s.h1 \in [Nodes -> 0..(Word - 1)] /\ s.h1[n] \in 0..(Word - 1)
  BY DEF Storage
<1>2. ~ is_dead(s, n) => s.h1[n] + DeadBit \in 0..(Word - 1)
  BY <1>1, Basics DEF is_dead
<1>3. CASE is_constant(n) \/ is_dead(s, n)
  BY <1>3, Basics DEF kill_node, SamePlaces, SameLists, is_constant
<1>4. CASE ~ (is_constant(n) \/ is_dead(s, n))
  <2>1. kill_node(s, n) = [s EXCEPT !.h1[n] = s.h1[n] + DeadBit]
    BY <1>4 DEF kill_node
  <2>2. [s.h1 EXCEPT ![n] = s.h1[n] + DeadBit] \in [Nodes -> 0..(Word - 1)]
    BY <1>1, <1>2, <1>4
  <2>3. kill_node(s, n) \in Storage
    BY <2>1, <2>2 DEF Storage
  <2> QED
    BY <1>1, <1>4, <2>1, <2>3, Basics, ZenonT(60) DEF Storage, SamePlaces, SameLists, is_constant
<1> QED
  BY <1>3, <1>4

(* revive_node, the same in the other direction. *)
LEMMA ReviveNode ==
  ASSUME NEW s \in Storage, NEW n \in Nodes
  PROVE  LET r == revive_node(s, n)
         IN  /\ r \in Storage /\ SamePlaces(r, s) /\ SameLists(r, s)
             /\ \A m \in Nodes \ {n} : r.h1[m] = s.h1[m]
             /\ n > 1 => r.h1[n] = IF is_dead(s, n) THEN s.h1[n] - DeadBit ELSE s.h1[n]
             /\ n <= 1 => r.h1[n] = s.h1[n]
<1>1. s.h1 \in [Nodes -> 0..(Word - 1)] /\ s.h1[n] \in 0..(Word - 1)
  BY DEF Storage
<1>2. is_dead(s, n) => s.h1[n] - DeadBit \in 0..(Word - 1)
  BY <1>1, Basics DEF is_dead
<1>3. CASE is_constant(n) \/ ~ is_dead(s, n)
  BY <1>3, Basics DEF revive_node, SamePlaces, SameLists, is_constant
<1>4. CASE ~ (is_constant(n) \/ ~ is_dead(s, n))
  <2>1. revive_node(s, n) = [s EXCEPT !.h1[n] = s.h1[n] - DeadBit]
    BY <1>4 DEF revive_node
  <2>2. [s.h1 EXCEPT ![n] = s.h1[n] - DeadBit] \in [Nodes -> 0..(Word - 1)]
    BY <1>1, <1>2, <1>4
  <2>3. revive_node(s, n) \in Storage
    BY <2>1, <2>2 DEF Storage
  <2> QED
    BY <1>1, <1>4, <2>1, <2>3, Basics, ZenonT(60) DEF Storage, SamePlaces, SameLists, is_constant
<1> QED
  BY <1>3, <1>4

(* One more or one less wire or gate, as long as the counter has room. *)
LEMMA CountNode ==
  ASSUME NEW s \in Storage, NEW n \in Nodes, NEW d \in {1, -1},
         (IF is_wire(s, n) THEN s.num_wires ELSE s.num_gates) + d \in 0..(Word - 1)
  PROVE  LET r == Count(s, n, d)
         IN  /\ r \in Storage /\ SameLists(r, s)
             /\ r.size = s.size /\ r.fn = s.fn /\ r.h1 = s.h1
             /\ r.tile_node = s.tile_node /\ r.node_tile = s.node_tile
             /\ r.num_wires = IF is_wire(s, n) THEN s.num_wires + d ELSE s.num_wires
             /\ r.num_gates = IF is_wire(s, n) THEN s.num_gates ELSE s.num_gates + d
<1>1. \A a \in 0..(Word - 1) : a + d \in 0..(Word - 1) => (a + Word + d) % Word = a + d
  BY Basics, ModCount
<1>2. CASE is_wire(s, n)
  <2>1. Count(s, n, d) = [s EXCEPT !.num_wires = s.num_wires + d]
    BY <1>1, <1>2 DEF Count, Storage
  <2> QED
    BY <1>2, <2>1 DEF Storage, SameLists
<1>3. CASE ~ is_wire(s, n)
  <2>1. Count(s, n, d) = [s EXCEPT !.num_gates = s.num_gates + d]
    BY <1>1, <1>3 DEF Count, Storage
  <2> QED
    BY <1>3, <2>1 DEF Storage, SameLists
<1> QED
  BY <1>2, <1>3

(* clear_tile takes the node off its tile, marks it dead, and counts it    *)
(* out; everything else stays where it is.                                 *)
LEMMA ClearTile ==
  ASSUME NEW s, Sound(s), NEW t \in Tiles \cup {Const0}
  PROVE  LET r == clear_tile(s, t)
         IN  /\ Sound(r) /\ SameLists(r, s) /\ r.size = s.size /\ r.fn = s.fn
             /\ r.tile_node = [s.tile_node EXCEPT ![t] = NoNode]
             /\ \A m \in Nodes : r.node_tile[m] =
                  IF s.node_tile[m] = t THEN NoTile ELSE s.node_tile[m]
             /\ \A m \in Nodes : r.h1[m] =
                  IF s.node_tile[m] = t /\ m > 1 /\ ~ is_dead(s, m)
                  THEN s.h1[m] + DeadBit ELSE s.h1[m]
<1> DEFINE n == s.tile_node[t]
           r == clear_tile(s, t)
<1>0. /\ s \in Storage /\ t \in Signals /\ n \in Nodes \cup {NoNode}
      /\ s.tile_node \in [Signals -> Nodes \cup {NoNode}]
      /\ s.node_tile \in [Nodes -> Signals \cup {NoTile}]
  BY Basics DEF Sound, Storage
<1>1. \A m \in Nodes : s.node_tile[m] = t <=> m = n
  BY <1>0, Basics DEF Sound, MapsAgree
<1>2. CASE n = NoNode
  <2>1. r = s
    BY <1>2 DEF clear_tile
  <2>2. s.tile_node = [s.tile_node EXCEPT ![t] = NoNode]
    BY <1>0, <1>2
  <2>3. \A m \in Nodes : s.node_tile[m] # t
    BY <1>1, <1>2, Basics
  <2> QED
    BY <2>1, <2>2, <2>3 DEF SameLists
<1>3. CASE n # NoNode
  <2> DEFINE c == IF dead_tile(t) THEN s ELSE Count(s, n, -1)
             k == kill_node(c, n)
  <2>0. n \in Nodes /\ s.node_tile[n] = t
    BY <1>0, <1>1, <1>3
  <2>1. r = [k EXCEPT !.tile_node[t] = NoNode, !.node_tile[n] = NoTile]
    BY <1>3 DEF clear_tile
  <2>2. dead_tile(t) <=> t = Const0
    BY Basics DEF dead_tile
  <2>3. t \in Tiles => IF is_wire(s, n) THEN n \in Wires(s) ELSE n \in Gates(s)
    BY <2>0 DEF Wires, Gates, placed
  <2>4. /\ Cardinality(Wires(s) \ {n}) =
             IF n \in Wires(s) THEN s.num_wires - 1 ELSE s.num_wires
        /\ Cardinality(Gates(s) \ {n}) =
             IF n \in Gates(s) THEN s.num_gates - 1 ELSE s.num_gates
        /\ Cardinality(Wires(s) \ {n}) \in 0..(Word - 1)
        /\ Cardinality(Gates(s) \ {n}) \in 0..(Word - 1)
    <3>1. Wires(s) \in SUBSET Nodes /\ Gates(s) \in SUBSET Nodes
      BY DEF Wires, Gates
    <3>2. IsFiniteSet(Wires(s)) /\ IsFiniteSet(Gates(s))
      BY <3>1, NodesFinite
    <3>3. (Wires(s) \ {n}) \in SUBSET Nodes /\ (Gates(s) \ {n}) \in SUBSET Nodes
      BY <3>1
    <3> QED
      BY <3>2, <3>3, NodesFinite, FS_RemoveElement DEF Sound, Counted
  <2>5. t = Const0 => n \notin Wires(s) /\ n \notin Gates(s)
    BY <2>0, Basics DEF Wires, Gates, placed
  <2>6. /\ c \in Storage /\ SameLists(c, s) /\ c.size = s.size /\ c.fn = s.fn /\ c.h1 = s.h1
        /\ c.tile_node = s.tile_node /\ c.node_tile = s.node_tile
        /\ c.num_wires = Cardinality(Wires(s) \ {n})
        /\ c.num_gates = Cardinality(Gates(s) \ {n})
    <3>1. CASE t = Const0
      BY <1>0, <2>2, <2>4, <2>5, <3>1 DEF SameLists
    <3>2. CASE t \in Tiles
      <4>1. c = Count(s, n, -1)
        BY <2>2, <3>2, Basics
      <4>2. (IF is_wire(s, n) THEN s.num_wires ELSE s.num_gates) + (-1) \in 0..(Word - 1)
        BY <2>3, <2>4, <3>2, <1>0, Basics DEF Storage
      <4>3. n \in Wires(s) <=> is_wire(s, n)
        BY <2>3, <3>2 DEF Wires, Gates
      <4>4. n \in Gates(s) <=> ~ is_wire(s, n)
        BY <2>3, <3>2 DEF Wires, Gates
      <4>5. /\ c \in Storage /\ SameLists(c, s)
            /\ c.size = s.size /\ c.fn = s.fn /\ c.h1 = s.h1
            /\ c.tile_node = s.tile_node /\ c.node_tile = s.node_tile
            /\ c.num_wires = IF is_wire(s, n) THEN s.num_wires + (-1) ELSE s.num_wires
            /\ c.num_gates = IF is_wire(s, n) THEN s.num_gates ELSE s.num_gates + (-1)
        BY <1>0, <2>0, <4>1, <4>2, CountNode
      <4>6. s.num_wires \in Nat /\ s.num_gates \in Nat
        BY <1>0, Basics DEF Storage
      <4> QED
        BY <2>4, <4>3, <4>4, <4>5, <4>6
    <3> QED
      BY <3>1, <3>2
  <2>7. /\ k \in Storage /\ SamePlaces(k, c) /\ SameLists(k, c)
        /\ \A m \in Nodes \ {n} : k.h1[m] = c.h1[m]
        /\ n > 1 => k.h1[n] = IF is_dead(c, n) THEN c.h1[n] ELSE c.h1[n] + DeadBit
        /\ n <= 1 => k.h1[n] = c.h1[n]
    BY <2>0, <2>6, KillNode, SMTT(40)
  <2> HIDE DEF k, c, r
  <2>8. /\ r.tile_node = [s.tile_node EXCEPT ![t] = NoNode]
        /\ r.node_tile = [s.node_tile EXCEPT ![n] = NoTile]
        /\ r.size = s.size /\ r.fn = s.fn /\ SameLists(r, s) /\ r.h1 = k.h1
        /\ r.num_wires = c.num_wires /\ r.num_gates = c.num_gates
    BY <2>1, <2>6, <2>7 DEF Storage, SamePlaces, SameLists
  <2>9. r \in Storage
    <3>1. [s.tile_node EXCEPT ![t] = NoNode] \in [Signals -> Nodes \cup {NoNode}]
      BY <1>0
    <3>2. [s.node_tile EXCEPT ![n] = NoTile] \in [Nodes -> Signals \cup {NoTile}]
      BY <1>0
    <3> QED
      BY <2>1, <2>6, <2>7, <3>1, <3>2 DEF Storage, SamePlaces
  <2>10. MapsAgree(r)
    <3> SUFFICES ASSUME NEW u \in Signals, NEW m \in Nodes
                 PROVE  r.tile_node[u] = m <=> r.node_tile[m] = u
      BY DEF MapsAgree
    <3>1. s.tile_node[u] = m <=> s.node_tile[m] = u
      BY DEF Sound, MapsAgree
    <3> QED
      BY <1>0, <1>1, <2>0, <2>8, <3>1, Basics
  <2>11. ConstantsHome(r)
    BY <1>0, <2>0, <2>8, Basics DEF Sound, ConstantsHome
  <2>12. Unborn(r)
    BY <1>0, <2>8 DEF Sound, Unborn
  <2>13. Counted(r)
    <3>1. \A m \in Nodes : placed(r, m) <=> placed(s, m) /\ m # n
      BY <1>0, <2>0, <2>8, Basics DEF placed
    <3>2. \A m \in Nodes : is_wire(r, m) <=> is_wire(s, m)
      BY <2>8 DEF is_wire
    <3>3. Wires(r) = Wires(s) \ {n} /\ Gates(r) = Gates(s) \ {n}
      BY <3>1, <3>2 DEF Wires, Gates
    <3> QED
      BY <2>6, <2>8, <3>3 DEF Counted
  <2>14. \A m \in Nodes : r.node_tile[m] = IF s.node_tile[m] = t THEN NoTile ELSE s.node_tile[m]
    BY <1>0, <1>1, <2>8
  <2>15. ASSUME NEW m \in Nodes
         PROVE  r.h1[m] = IF s.node_tile[m] = t /\ m > 1 /\ ~ is_dead(s, m)
                          THEN s.h1[m] + DeadBit ELSE s.h1[m]
    <3>1. is_dead(c, m) <=> is_dead(s, m)
      BY <2>6 DEF is_dead
    <3>2. m > 1 \/ m <= 1
      BY Basics
    <3> QED
      BY <1>1, <2>0, <2>6, <2>7, <2>8, <3>1, <3>2
  <2> QED
    BY <2>8, <2>9, <2>10, <2>11, <2>12, <2>13, <2>14, <2>15 DEF Sound, r
<1> QED
  BY <1>2, <1>3

(* assign_node puts a node that is nowhere on a tile, over whatever is     *)
(* there, and counts it in; a dead tile leaves everything alone.           *)
LEMMA AssignNode ==
  ASSUME NEW s, Sound(s), NEW t \in Tiles \cup {Const0},
         NEW n \in Nodes, n > 1, n < s.size, s.node_tile[n] = NoTile
  PROVE  LET r == assign_node(s, t, n)
         IN  /\ Sound(r) /\ SameLists(r, s) /\ r.size = s.size /\ r.fn = s.fn
             /\ t \in Tiles => r.tile_node = [s.tile_node EXCEPT ![t] = n]
             /\ t = Const0 => r.tile_node = s.tile_node
             /\ \A m \in Nodes : r.node_tile[m] =
                  IF m = n THEN (IF t \in Tiles THEN t ELSE NoTile)
                  ELSE IF t \in Tiles /\ s.node_tile[m] = t THEN NoTile
                  ELSE s.node_tile[m]
             /\ \A m \in Nodes : r.h1[m] =
                  IF t \in Tiles /\ s.node_tile[m] = t /\ m > 1 /\ ~ is_dead(s, m)
                  THEN s.h1[m] + DeadBit ELSE s.h1[m]
<1>1. CASE t = Const0
  <2>1. assign_node(s, t, n) = s
    BY <1>1 DEF assign_node, dead_tile
  <2> QED
    BY <1>1, <2>1, Basics DEF SameLists
<1>2. CASE t \in Tiles
  <2> DEFINE e == clear_tile(s, t)
             c == Count(e, n, 1)
             r == assign_node(s, t, n)
  <2>1. r = [c EXCEPT !.tile_node[t] = n, !.node_tile[n] = t]
    BY <1>2, Basics DEF assign_node, dead_tile
  <2>2. /\ Sound(e) /\ SameLists(e, s) /\ e.size = s.size /\ e.fn = s.fn
        /\ e.tile_node = [s.tile_node EXCEPT ![t] = NoNode]
        /\ \A m \in Nodes : e.node_tile[m] =
             IF s.node_tile[m] = t THEN NoTile ELSE s.node_tile[m]
        /\ \A m \in Nodes : e.h1[m] =
             IF s.node_tile[m] = t /\ m > 1 /\ ~ is_dead(s, m)
             THEN s.h1[m] + DeadBit ELSE s.h1[m]
    BY ClearTile, SMTT(40)
  <2>3. e.node_tile[n] = NoTile /\ n \notin Wires(e) /\ n \notin Gates(e) /\ e \in Storage
    BY <2>2, Basics DEF Wires, Gates, placed, Sound
  <2>4. /\ Cardinality(Wires(e) \cup {n}) = e.num_wires + 1
        /\ Cardinality(Gates(e) \cup {n}) = e.num_gates + 1
        /\ e.num_wires + 1 \in 0..(Word - 1) /\ e.num_gates + 1 \in 0..(Word - 1)
    <3>1. Wires(e) \in SUBSET Nodes /\ Gates(e) \in SUBSET Nodes
      BY DEF Wires, Gates
    <3>2. /\ IsFiniteSet(Wires(e)) /\ IsFiniteSet(Gates(e))
          /\ Cardinality(Wires(e)) <= MaxNodes - 1 /\ Cardinality(Gates(e)) <= MaxNodes - 1
      BY <2>3, <3>1, NodesFinite
    <3>3. e.num_wires = Cardinality(Wires(e)) /\ e.num_gates = Cardinality(Gates(e))
      BY <2>2 DEF Sound, Counted
    <3>4. e.num_wires \in Nat /\ e.num_gates \in Nat
      BY <2>3, Basics DEF Storage
    <3>5. /\ Cardinality(Wires(e) \cup {n}) = e.num_wires + 1
          /\ Cardinality(Gates(e) \cup {n}) = e.num_gates + 1
      BY <2>3, <3>2, <3>3, FS_AddElement, ZenonT(60)
    <3> QED
      BY <3>2, <3>3, <3>4, <3>5, Basics
  <2>5. /\ c \in Storage /\ SameLists(c, e) /\ c.size = e.size /\ c.fn = e.fn /\ c.h1 = e.h1
        /\ c.tile_node = e.tile_node /\ c.node_tile = e.node_tile
        /\ c.num_wires = IF is_wire(e, n) THEN e.num_wires + 1 ELSE e.num_wires
        /\ c.num_gates = IF is_wire(e, n) THEN e.num_gates ELSE e.num_gates + 1
    BY <2>3, <2>4, CountNode
  <2>6. /\ e.tile_node \in [Signals -> Nodes \cup {NoNode}]
        /\ e.node_tile \in [Nodes -> Signals \cup {NoTile}]
        /\ s.tile_node \in [Signals -> Nodes \cup {NoNode}]
        /\ s.node_tile \in [Nodes -> Signals \cup {NoTile}]
        /\ t \in Signals
    BY <1>2, <2>3, Basics DEF Storage, Sound
  <2> HIDE DEF e, c, r
  <2>7. /\ r.tile_node = [e.tile_node EXCEPT ![t] = n]
        /\ r.node_tile = [e.node_tile EXCEPT ![n] = t]
        /\ r.size = s.size /\ r.fn = s.fn /\ SameLists(r, s) /\ r.h1 = e.h1
        /\ r.num_wires = c.num_wires /\ r.num_gates = c.num_gates
    BY <2>1, <2>2, <2>5 DEF Storage, SameLists
  <2>8. r \in Storage
    <3>1. [e.tile_node EXCEPT ![t] = n] \in [Signals -> Nodes \cup {NoNode}]
      BY <2>6
    <3>2. [e.node_tile EXCEPT ![n] = t] \in [Nodes -> Signals \cup {NoTile}]
      BY <2>6
    <3> QED
      BY <2>1, <2>5, <3>1, <3>2 DEF Storage
  <2>9. r.tile_node = [s.tile_node EXCEPT ![t] = n]
    BY <2>2, <2>6, <2>7
  <2>10. MapsAgree(r)
    <3> SUFFICES ASSUME NEW u \in Signals, NEW m \in Nodes
                 PROVE  r.tile_node[u] = m <=> r.node_tile[m] = u
      BY DEF MapsAgree
    <3>1. e.tile_node[u] = m <=> e.node_tile[m] = u
      BY <2>2 DEF Sound, MapsAgree
    <3>2. e.tile_node[t] = NoNode /\ NoNode # m
      BY <2>2, <2>6, Basics
    <3>3. e.tile_node[t] = m <=> e.node_tile[m] = t
      BY <2>2, <2>6 DEF Sound, MapsAgree
    <3> QED
      BY <2>3, <2>6, <2>7, <3>1, <3>2, <3>3, Basics
  <2>11. ConstantsHome(r)
    BY <1>2, <2>2, <2>6, <2>7, Basics DEF Sound, ConstantsHome
  <2>12. Unborn(r)
    <3>1. s.size \in 2..MaxNodes
      BY DEF Sound, Storage
    <3>2. ~ (n >= s.size)
      BY <3>1, Basics
    <3> QED
      BY <2>2, <2>6, <2>7, <3>2 DEF Sound, Unborn
  <2>13. Counted(r)
    <3>1. \A m \in Nodes : placed(r, m) <=> placed(e, m) \/ m = n
      BY <1>2, <2>6, <2>7 DEF placed
    <3>2. \A m \in Nodes : is_wire(r, m) <=> is_wire(e, m)
      BY <2>2, <2>7 DEF is_wire
    <3>3. /\ Wires(r) = IF is_wire(e, n) THEN Wires(e) \cup {n} ELSE Wires(e)
          /\ Gates(r) = IF is_wire(e, n) THEN Gates(e) ELSE Gates(e) \cup {n}
      BY <3>1, <3>2 DEF Wires, Gates
    <3>4. Counted(e)
      BY <2>2 DEF Sound
    <3> QED
      BY <2>4, <2>5, <2>7, <3>3, <3>4 DEF Counted
  <2>14. \A m \in Nodes : r.node_tile[m] =
           IF m = n THEN t ELSE IF s.node_tile[m] = t THEN NoTile ELSE s.node_tile[m]
    BY <2>2, <2>6, <2>7
  <2> QED
    BY <1>2, <2>2, <2>7, <2>8, <2>9, <2>10, <2>11, <2>12, <2>13, <2>14, Basics DEF Sound, r
<1> QED
  BY <1>1, <1>2

(* A new node is nowhere yet. *)
LEMMA Emplace ==
  ASSUME NEW s, Sound(s), s.size < MaxNodes, NEW literal \in 0..3,
         NEW sigs \in Seq(Signals)
  PROVE  LET r == emplace(s, literal, sigs)
         IN  /\ Sound(r) /\ r.size = s.size + 1 /\ s.size \in Nodes /\ s.size > 1
             /\ r.node_tile[s.size] = NoTile
             /\ r.tile_node = s.tile_node /\ r.node_tile = s.node_tile
             /\ \A m \in Nodes : r.children[m] = IF m = s.size THEN sigs ELSE s.children[m]
             /\ r.inputs = s.inputs /\ r.outputs = s.outputs /\ r.h1 = s.h1
<1> DEFINE r == emplace(s, literal, sigs)
<1>1. s \in Storage /\ s.size \in 2..MaxNodes
  BY DEF Sound, Storage
<1>2. s.size \in Nodes /\ s.size > 1 /\ s.size + 1 \in 2..MaxNodes
  BY <1>1, Basics DEF Nodes
<1>3. s.node_tile[s.size] = NoTile
  BY <1>1, <1>2 DEF Sound, Unborn
<1>4. /\ r.size = s.size + 1
      /\ r.tile_node = s.tile_node /\ r.node_tile = s.node_tile
      /\ r.fn = [s.fn EXCEPT ![s.size] = literal]
      /\ r.children = [s.children EXCEPT ![s.size] = sigs]
      /\ r.inputs = s.inputs /\ r.outputs = s.outputs /\ r.h1 = s.h1
      /\ r.num_wires = s.num_wires /\ r.num_gates = s.num_gates
  BY <1>1 DEF emplace, Storage
<1>5. r \in Storage
  <2>1. [s.fn EXCEPT ![s.size] = literal] \in [Nodes -> 0..3]
    BY <1>1 DEF Storage
  <2>2. [s.children EXCEPT ![s.size] = sigs] \in [Nodes -> Seq(Signals)]
    BY <1>1 DEF Storage
  <2> QED
    BY <1>1, <1>2, <2>1, <2>2 DEF emplace, Storage
<1> HIDE DEF r
<1>6. MapsAgree(r) /\ ConstantsHome(r)
  BY <1>4 DEF Sound, MapsAgree, ConstantsHome
<1>7. Unborn(r)
  <2>1. \A n \in Nodes : n >= s.size + 1 => n >= s.size
    BY <1>1, <1>2, Basics
  <2> QED
    BY <1>4, <2>1 DEF Sound, Unborn
<1>8. Counted(r)
  <2>1. s.fn \in [Nodes -> 0..3]
    BY <1>1 DEF Storage
  <2>2. \A n \in Nodes : placed(r, n) <=> placed(s, n)
    BY <1>4 DEF placed
  <2>3. \A n \in Nodes : placed(s, n) => (is_wire(r, n) <=> is_wire(s, n))
    BY <1>2, <1>3, <1>4, <2>1, Basics DEF placed, is_wire
  <2>4. Wires(r) = Wires(s) /\ Gates(r) = Gates(s)
    BY <2>2, <2>3 DEF Wires, Gates
  <2> QED
    BY <1>4, <2>4 DEF Sound, Counted
<1>9. \A m \in Nodes : r.children[m] = IF m = s.size THEN sigs ELSE s.children[m]
  BY <1>1, <1>2, <1>4 DEF Storage
<1> QED
  BY <1>2, <1>3, <1>4, <1>5, <1>6, <1>7, <1>8, <1>9 DEF Sound, r

(* The references in a list of signals are finitely many. *)
LEMMA ReferencesNat ==
  ASSUME NEW s, NEW S, NEW sigs \in Seq(S), NEW n
  PROVE  References(s, sigs, n) \in Nat /\ References(s, sigs, n) <= Len(sigs)
<1>1. DOMAIN sigs = 1..Len(sigs) /\ Len(sigs) \in Nat
  OBVIOUS
<1>2. IsFiniteSet(1..Len(sigs)) /\ Cardinality(1..Len(sigs)) = Len(sigs)
  BY <1>1, FS_Interval, SMTT(40)
<1>3. {i \in DOMAIN sigs : get_node(s, sigs[i]) = n} \in SUBSET (1..Len(sigs))
  BY <1>1
<1> QED
  BY <1>2, <1>3, FS_Subset, FS_CardinalityType DEF References

(* reference and dereference change the reference counts only. *)
LEMMA Reference ==
  ASSUME NEW s \in Storage, NEW S, NEW sigs \in Seq(S)
  PROVE  LET r == reference(s, sigs)
         IN  /\ r \in Storage /\ SamePlaces(r, s) /\ SameLists(r, s)
             /\ \A n \in Nodes : r.h1[n] = (s.h1[n] + References(s, sigs, n)) % Word
<1> DEFINE f == [n \in Nodes |-> (s.h1[n] + References(s, sigs, n)) % Word]
           r == reference(s, sigs)
<1>1. r = [s EXCEPT !.h1 = f]
  BY DEF reference
<1>2. ASSUME NEW n \in Nodes
      PROVE  (s.h1[n] + References(s, sigs, n)) % Word \in 0..(Word - 1)
  <2>1. s.h1[n] \in 0..(Word - 1)
    BY DEF Storage
  <2>2. s.h1[n] + References(s, sigs, n) \in Int
    BY <2>1, ReferencesNat, Basics, SMTT(40)
  <2>3. Word \in Nat /\ Word > 0
    BY Basics
  <2> QED
    BY <2>2, <2>3, ModRange
<1>3. f \in [Nodes -> 0..(Word - 1)]
  BY <1>2
<1> HIDE DEF r
<1>4. r \in Storage /\ r.h1 = f
  <2> HIDE DEF f
  <2> QED
    BY <1>1, <1>3 DEF Storage
<1>5. SamePlaces(r, s) /\ SameLists(r, s)
  BY <1>1 DEF Storage, SamePlaces, SameLists
<1> QED
  BY <1>4, <1>5 DEF r

(* dereference, the same. *)
LEMMA Dereference ==
  ASSUME NEW s \in Storage, NEW S, NEW sigs \in Seq(S)
  PROVE  LET r == dereference(s, sigs)
         IN  /\ r \in Storage /\ SamePlaces(r, s) /\ SameLists(r, s)
             /\ \A n \in Nodes :
                  r.h1[n] = (s.h1[n] + Word - References(s, sigs, n)) % Word
<1> DEFINE f == [n \in Nodes |-> (s.h1[n] + Word - References(s, sigs, n)) % Word]
           r == dereference(s, sigs)
<1>1. r = [s EXCEPT !.h1 = f]
  BY DEF dereference
<1>2. ASSUME NEW n \in Nodes
      PROVE  (s.h1[n] + Word - References(s, sigs, n)) % Word \in 0..(Word - 1)
  <2>1. s.h1[n] \in 0..(Word - 1)
    BY DEF Storage
  <2>2. s.h1[n] + Word - References(s, sigs, n) \in Int
    BY <2>1, ReferencesNat, Basics
  <2>3. Word \in Nat /\ Word > 0
    BY Basics
  <2> QED
    BY <2>2, <2>3, ModRange
<1>3. f \in [Nodes -> 0..(Word - 1)]
  BY <1>2
<1> HIDE DEF r
<1>4. r \in Storage /\ r.h1 = f
  <2> HIDE DEF f
  <2> QED
    BY <1>1, <1>3 DEF Storage
<1>5. SamePlaces(r, s) /\ SameLists(r, s)
  BY <1>1 DEF Storage, SamePlaces, SameLists
<1> QED
  BY <1>4, <1>5 DEF r

(* The loop behind std::remove: g[i] is what is kept of the first i. *)
RemoveLoop(seq, a, len, g) ==
  g = [i \in 0..len |->
         IF i = 0 THEN <<>>
         ELSE IF seq[i] = a THEN g[i - 1] ELSE Append(g[i - 1], seq[i])]

(* It is defined for every length. *)
LEMMA WithoutDefined ==
  ASSUME NEW seq, NEW a, NEW len \in Nat
  PROVE  \E g : RemoveLoop(seq, a, len, g)
<1> DEFINE Good(n) == \E g : RemoveLoop(seq, a, n, g)
           Bad == {n \in Nat : ~ Good(n)}
<1>1. SUFFICES ASSUME Bad # {}
               PROVE  FALSE
  OBVIOUS
<1>2. PICK n \in Bad : \A m \in Bad : n <= m
  <2>1. Bad \in SUBSET Nat
    OBVIOUS
  <2> HIDE DEF Bad
  <2> QED
    BY <1>1, <2>1, LeastNat
<1>3. Good(0)
  <2> DEFINE g == [i \in 0..0 |-> <<>>]
  <2>1. RemoveLoop(seq, a, 0, g)
    BY DEF RemoveLoop
  <2> QED
    BY <2>1
<1>4. n # 0 /\ n \in Nat /\ n - 1 \in Nat /\ Good(n - 1)
  <2>1. n # 0 /\ n \in Nat /\ ~ Good(n)
    BY <1>3
  <2>2. n - 1 \in Nat /\ ~ (n <= n - 1)
    BY <2>1
  <2> HIDE DEF Good
  <2> QED
    BY <1>2, <2>1, <2>2
<1>5. Good(n)
  <2>1. PICK g : RemoveLoop(seq, a, n - 1, g)
    BY <1>4
  <2> DEFINE h == [i \in 0..n |->
               IF i < n THEN g[i]
               ELSE IF seq[n] = a THEN g[n - 1] ELSE Append(g[n - 1], seq[n])]
  <2>2. \A i \in 0..(n - 1) : h[i] = g[i] /\ i \in 0..n
    BY <1>4
  <2>3. ASSUME NEW i \in 0..n
        PROVE  h[i] = IF i = 0 THEN <<>>
                      ELSE IF seq[i] = a THEN h[i - 1] ELSE Append(h[i - 1], seq[i])
    <3>1. CASE i < n
      <4>1. i \in 0..(n - 1) /\ (i # 0 => i - 1 \in 0..(n - 1))
        BY <1>4, <3>1
      <4>2. h[i] = g[i] /\ (i # 0 => h[i - 1] = g[i - 1])
        BY <2>2, <4>1
      <4>3. g[i] = IF i = 0 THEN <<>>
                   ELSE IF seq[i] = a THEN g[i - 1] ELSE Append(g[i - 1], seq[i])
        BY <2>1, <4>1 DEF RemoveLoop
      <4> HIDE DEF h
      <4> QED
        BY <4>2, <4>3
    <3>2. CASE ~ (i < n)
      <4>1. i = n /\ i # 0 /\ n - 1 \in 0..(n - 1)
        BY <1>4, <3>2
      <4>2. h[n - 1] = g[n - 1]
        BY <2>2, <4>1
      <4>3. h[n] = IF seq[n] = a THEN g[n - 1] ELSE Append(g[n - 1], seq[n])
        BY <1>4
      <4> HIDE DEF h
      <4> QED
        BY <4>1, <4>2, <4>3
    <3> QED
      BY <3>1, <3>2
  <2>4. RemoveLoop(seq, a, n, h)
    <3>1. h = [i \in 0..n |-> h[i]]
      OBVIOUS
    <3> HIDE DEF h
    <3> QED
      BY <2>3, <3>1 DEF RemoveLoop
  <2> HIDE DEF h
  <2> QED
    BY <2>4
<1> QED
  BY <1>5

(* Removing an output leaves a list of outputs; of no outputs, none. *)
LEMMA WithoutSeq ==
  ASSUME NEW S, NEW seq \in Seq(S), NEW a
  PROVE  Without(seq, a) \in Seq(S) /\ (seq = <<>> => Without(seq, a) = <<>>)
<1> DEFINE len == Len(seq)
           kept == CHOOSE g : RemoveLoop(seq, a, len, g)
<1>0. len \in Nat /\ \A i \in 1..len : seq[i] \in S
  OBVIOUS
<1>1. RemoveLoop(seq, a, len, kept)
  <2>1. \E g : RemoveLoop(seq, a, len, g)
    BY <1>0, WithoutDefined
  <2> QED
    BY <2>1, Zenon
<1>2. Without(seq, a) = kept[len]
  BY DEF Without, RemoveLoop
<1> HIDE DEF kept, len
<1>3. \A i \in 1..len : kept[i] =
        IF seq[i] = a THEN kept[i - 1] ELSE Append(kept[i - 1], seq[i])
  <2>1. \A i \in 1..len : i \in 0..len /\ i # 0
    BY <1>0
  <2> QED
    BY <1>1, <2>1 DEF RemoveLoop
<1>4. kept[0] = <<>>
  <2>1. 0 \in 0..len
    BY <1>0
  <2> QED
    BY <1>1, <2>1, Zenon DEF RemoveLoop
<1>5. \A i \in 0..len : kept[i] \in Seq(S)
  <2> DEFINE Bad == {i \in 0..len : kept[i] \notin Seq(S)}
  <2>1. SUFFICES ASSUME Bad # {}
                 PROVE  FALSE
    OBVIOUS
  <2>2. PICK n \in Bad : \A m \in Bad : n <= m
    <3>1. Bad \in SUBSET Nat
      BY <1>0
    <3> HIDE DEF Bad
    <3> QED
      BY <2>1, <3>1, LeastNat
  <2>3. n \in 0..len /\ n # 0
    <3>1. <<>> \in Seq(S)
      OBVIOUS
    <3> QED
      BY <1>4, <3>1
  <2>4. n - 1 \in 0..len /\ n \in 1..len /\ ~ (n <= n - 1)
    BY <1>0, <2>3
  <2>5. kept[n - 1] \in Seq(S)
    BY <2>2, <2>4
  <2>6. kept[n] \in Seq(S)
    <3>1. seq[n] \in S
      BY <1>0, <2>4
    <3>2. Append(kept[n - 1], seq[n]) \in Seq(S)
      BY <2>5, <3>1
    <3> QED
      BY <1>3, <2>4, <2>5, <3>2
  <2> QED
    BY <2>6
<1>6. len \in 0..len
  BY <1>0
<1>7. seq = <<>> => len = 0
  BY DEF len
<1> QED
  BY <1>2, <1>4, <1>5, <1>6, <1>7

(* So does replacing one. *)
LEMMA ReplaceSeq ==
  ASSUME NEW S, NEW seq \in Seq(S), NEW a, NEW b \in S
  PROVE  Replace(seq, a, b) \in Seq(S) /\ Len(Replace(seq, a, b)) = Len(seq)
<1>1. Len(seq) \in Nat /\ DOMAIN seq = 1..Len(seq) /\ \A i \in 1..Len(seq) : seq[i] \in S
  OBVIOUS
<1>2. Replace(seq, a, b) \in [1..Len(seq) -> S]
  BY <1>1 DEF Replace
<1> QED
  BY <1>1, <1>2

-----------------------------------------------------------------------------
(* r is s with node n on tile t, over whatever was there; with t the       *)
(* default tile, n is nowhere.                                             *)
NodeAssigned(r, s, t, n) ==
  /\ t \in Tiles => r.tile_node = [s.tile_node EXCEPT ![t] = n]
  /\ t = Const0 => r.tile_node = s.tile_node
  /\ \A m \in Nodes : r.node_tile[m] =
       IF m = n THEN (IF t \in Tiles THEN t ELSE NoTile)
       ELSE IF t \in Tiles /\ s.node_tile[m] = t THEN NoTile
       ELSE s.node_tile[m]

(* The dead bits of r after a node has been put over the one on t in s. *)
Killed(s, t, m) ==
  IF t \in Tiles /\ s.node_tile[m] = t /\ m > 1 /\ ~ is_dead(s, m)
  THEN s.h1[m] + DeadBit ELSE s.h1[m]

(* create_pi and create_ro: a new node without children, behind all other  *)
(* inputs.                                                                 *)
LEMMA CreateInput ==
  ASSUME NEW s, Sound(s), s.size < MaxNodes, NEW t \in Tiles \cup {Const0}
  PROVE  LET r == [assign_node(emplace(s, 2, <<>>), t, s.size) EXCEPT
                     !.inputs = Append(@, s.size)]
         IN  /\ Sound(r) /\ s.size \in Nodes /\ s.size > 1 /\ r.size = s.size + 1
             /\ NodeAssigned(r, s, t, s.size)
             /\ \A m \in Nodes : r.h1[m] = Killed(s, t, m)
             /\ \A m \in Nodes : r.children[m] = IF m = s.size THEN <<>> ELSE s.children[m]
             /\ r.inputs = Append(s.inputs, s.size) /\ r.outputs = s.outputs
<1> DEFINE e == emplace(s, 2, <<>>)
           a == assign_node(e, t, s.size)
           r == [a EXCEPT !.inputs = Append(@, s.size)]
<1>1. /\ Sound(e) /\ e.size = s.size + 1 /\ s.size \in Nodes /\ s.size > 1
      /\ e.node_tile[s.size] = NoTile
      /\ e.tile_node = s.tile_node /\ e.node_tile = s.node_tile
      /\ \A m \in Nodes : e.children[m] = IF m = s.size THEN <<>> ELSE s.children[m]
      /\ e.inputs = s.inputs /\ e.outputs = s.outputs /\ e.h1 = s.h1
  <2>1. <<>> \in Seq(Signals) /\ 2 \in 0..3
    OBVIOUS
  <2> QED
    BY <2>1, Emplace, ZenonT(60)
<1> HIDE DEF e
<1>2. s.size < e.size
  <2>1. s.size \in Nat
    BY <1>1, Basics
  <2> QED
    BY <1>1, <2>1
<1>3. /\ Sound(a) /\ SameLists(a, e) /\ a.size = e.size
      /\ t \in Tiles => a.tile_node = [e.tile_node EXCEPT ![t] = s.size]
      /\ t = Const0 => a.tile_node = e.tile_node
      /\ \A m \in Nodes : a.node_tile[m] =
           IF m = s.size THEN (IF t \in Tiles THEN t ELSE NoTile)
           ELSE IF t \in Tiles /\ e.node_tile[m] = t THEN NoTile
           ELSE e.node_tile[m]
      /\ \A m \in Nodes : a.h1[m] =
           IF t \in Tiles /\ e.node_tile[m] = t /\ m > 1 /\ ~ is_dead(e, m)
           THEN e.h1[m] + DeadBit ELSE e.h1[m]
  BY <1>1, <1>2, AssignNode
<1> HIDE DEF a
<1>4. a \in Storage /\ a.inputs \in Seq(Nodes) /\ Append(a.inputs, s.size) \in Seq(Nodes)
  <2>1. a \in Storage
    BY <1>3 DEF Sound
  <2>2. a.inputs \in Seq(Nodes)
    BY <2>1 DEF Storage
  <2> QED
    BY <1>1, <2>1, <2>2
<1>5. r \in Storage /\ SamePlaces(r, a) /\ r.h1 = a.h1 /\ r.children = a.children
      /\ r.inputs = Append(a.inputs, s.size) /\ r.outputs = a.outputs
  BY <1>4 DEF Storage, SamePlaces
<1> HIDE DEF r
<1>6. Sound(r)
  BY <1>3, <1>5, SoundSame
<1>7. NodeAssigned(r, s, t, s.size)
  BY <1>1, <1>3, <1>5 DEF NodeAssigned, SamePlaces
<1>8. \A m \in Nodes : r.h1[m] = Killed(s, t, m)
  BY <1>1, <1>3, <1>5 DEF Killed, is_dead
<1> QED
  BY <1>1, <1>3, <1>5, <1>6, <1>7, <1>8 DEF SameLists, SamePlaces, r, a, e

(* create_po and create_ri: the child is referenced after the new node has *)
(* been assigned, and the list of outputs changes to outs.                 *)
Referenced(s, t, sig) ==
  reference(assign_node(emplace(s, 2, <<sig>>), t, s.size), <<sig>>)

NewOutput(s, t, sig, outs) == [Referenced(s, t, sig) EXCEPT !.outputs = outs]

(* Until the list changes, the outputs are the old ones. *)
LEMMA ReferenceChild ==
  ASSUME NEW s, Sound(s), s.size < MaxNodes, NEW t \in Tiles \cup {Const0},
         NEW sig \in Signals
  PROVE  LET f == Referenced(s, t, sig)
         IN  /\ Sound(f) /\ s.size \in Nodes /\ s.size > 1 /\ f.size = s.size + 1
             /\ NodeAssigned(f, s, t, s.size)
             /\ \A m \in Nodes : f.h1[m] =
                  (Killed(s, t, m) + References(f, <<sig>>, m)) % Word
             /\ \A m \in Nodes : f.children[m] = IF m = s.size THEN <<sig>> ELSE s.children[m]
             /\ f.inputs = s.inputs /\ f.outputs = s.outputs
<1> DEFINE e == emplace(s, 2, <<sig>>)
           a == assign_node(e, t, s.size)
           f == reference(a, <<sig>>)
<1>0. <<sig>> \in Seq(Signals) /\ 2 \in 0..3
  OBVIOUS
<1>1. /\ Sound(e) /\ e.size = s.size + 1 /\ s.size \in Nodes /\ s.size > 1
      /\ e.node_tile[s.size] = NoTile
      /\ e.tile_node = s.tile_node /\ e.node_tile = s.node_tile
      /\ \A m \in Nodes : e.children[m] = IF m = s.size THEN <<sig>> ELSE s.children[m]
      /\ e.inputs = s.inputs /\ e.outputs = s.outputs /\ e.h1 = s.h1
  BY <1>0, Emplace, ZenonT(60)
<1> HIDE DEF e
<1>2. s.size < e.size
  <2>1. s.size \in Nat
    BY <1>1, Basics
  <2> QED
    BY <1>1, <2>1
<1>3. /\ Sound(a) /\ SameLists(a, e) /\ a.size = e.size
      /\ t \in Tiles => a.tile_node = [e.tile_node EXCEPT ![t] = s.size]
      /\ t = Const0 => a.tile_node = e.tile_node
      /\ \A m \in Nodes : a.node_tile[m] =
           IF m = s.size THEN (IF t \in Tiles THEN t ELSE NoTile)
           ELSE IF t \in Tiles /\ e.node_tile[m] = t THEN NoTile
           ELSE e.node_tile[m]
      /\ \A m \in Nodes : a.h1[m] =
           IF t \in Tiles /\ e.node_tile[m] = t /\ m > 1 /\ ~ is_dead(e, m)
           THEN e.h1[m] + DeadBit ELSE e.h1[m]
  BY <1>1, <1>2, AssignNode
<1> HIDE DEF a
<1>4. a \in Storage
  BY <1>3 DEF Sound
<1>5. /\ f \in Storage /\ SamePlaces(f, a) /\ SameLists(f, a)
      /\ \A n \in Nodes : f.h1[n] = (a.h1[n] + References(a, <<sig>>, n)) % Word
  BY <1>0, <1>4, Reference
<1> HIDE DEF f
<1>6. Sound(f)
  BY <1>3, <1>5, SoundSame
<1>7. NodeAssigned(f, s, t, s.size)
  BY <1>1, <1>3, <1>5 DEF NodeAssigned, SamePlaces
<1>8. \A m \in Nodes : a.h1[m] = Killed(s, t, m)
  BY <1>1, <1>3 DEF Killed, is_dead
<1>9. \A m \in Nodes : References(a, <<sig>>, m) = References(f, <<sig>>, m)
  BY <1>5 DEF References, get_node, SamePlaces
<1>10. \A m \in Nodes : f.h1[m] = (Killed(s, t, m) + References(f, <<sig>>, m)) % Word
  BY <1>5, <1>8, <1>9
<1>11. /\ s.size \in Nodes /\ s.size > 1 /\ f.size = s.size + 1
       /\ \A m \in Nodes : f.children[m] = IF m = s.size THEN <<sig>> ELSE s.children[m]
       /\ f.inputs = s.inputs /\ f.outputs = s.outputs
  BY <1>1, <1>3, <1>5 DEF SameLists, SamePlaces
<1> QED
  BY <1>6, <1>7, <1>10, <1>11 DEF Referenced, f, a, e

(* Any list of tiles may then become the outputs. *)
LEMMA CreateOutput ==
  ASSUME NEW s, Sound(s), s.size < MaxNodes, NEW t \in Tiles \cup {Const0},
         NEW sig \in Signals, NEW outs \in Seq(Signals)
  PROVE  LET r == NewOutput(s, t, sig, outs)
         IN  /\ Sound(r) /\ s.size \in Nodes /\ s.size > 1 /\ r.size = s.size + 1
             /\ NodeAssigned(r, s, t, s.size)
             /\ \A m \in Nodes : r.h1[m] =
                  (Killed(s, t, m) + References(r, <<sig>>, m)) % Word
             /\ \A m \in Nodes : r.children[m] = IF m = s.size THEN <<sig>> ELSE s.children[m]
             /\ r.inputs = s.inputs /\ r.outputs = outs
<1> DEFINE f == Referenced(s, t, sig)
           r == NewOutput(s, t, sig, outs)
<1>1. /\ Sound(f) /\ s.size \in Nodes /\ s.size > 1 /\ f.size = s.size + 1
      /\ NodeAssigned(f, s, t, s.size)
      /\ \A m \in Nodes : f.h1[m] = (Killed(s, t, m) + References(f, <<sig>>, m)) % Word
      /\ \A m \in Nodes : f.children[m] = IF m = s.size THEN <<sig>> ELSE s.children[m]
      /\ f.inputs = s.inputs
  BY ReferenceChild
<1>2. r = [f EXCEPT !.outputs = outs]
  BY DEF NewOutput
<1> HIDE DEF f, r
<1>3. f \in Storage
  BY <1>1 DEF Sound
<1>4. r \in Storage /\ SamePlaces(r, f) /\ r.h1 = f.h1 /\ r.children = f.children
      /\ r.inputs = f.inputs /\ r.outputs = outs
  BY <1>2, <1>3 DEF Storage, SamePlaces
<1>5. Sound(r)
  BY <1>1, <1>4, SoundSame
<1>6. NodeAssigned(r, s, t, s.size)
  BY <1>1, <1>4 DEF NodeAssigned, SamePlaces
<1>7. \A m \in Nodes : References(f, <<sig>>, m) = References(r, <<sig>>, m)
  BY <1>4 DEF References, get_node, SamePlaces
<1>8. \A m \in Nodes : r.h1[m] = (Killed(s, t, m) + References(r, <<sig>>, m)) % Word
  BY <1>1, <1>4, <1>7
<1> QED
  BY <1>1, <1>4, <1>5, <1>6, <1>8 DEF SamePlaces, r

(* create_node_from_literal: the children are referenced before the node   *)
(* is assigned.                                                            *)
LEMMA CreateGate ==
  ASSUME NEW s, Sound(s), s.size < MaxNodes, NEW t \in Tiles \cup {Const0},
         NEW literal \in 0..3, NEW sigs \in Seq(Signals)
  PROVE  LET f == reference(emplace(s, literal, sigs), sigs)
             r == assign_node(f, t, s.size)
         IN  /\ Sound(r) /\ s.size \in Nodes /\ s.size > 1 /\ r.size = s.size + 1
             /\ NodeAssigned(r, s, t, s.size)
             /\ f.node_tile = s.node_tile
             /\ \A m \in Nodes : f.h1[m] = (s.h1[m] + References(s, sigs, m)) % Word
             /\ \A m \in Nodes : r.h1[m] = Killed(f, t, m)
             /\ \A m \in Nodes : r.children[m] = IF m = s.size THEN sigs ELSE s.children[m]
             /\ r.inputs = s.inputs /\ r.outputs = s.outputs
<1> DEFINE e == emplace(s, literal, sigs)
           f == reference(e, sigs)
           r == assign_node(f, t, s.size)
<1>1. /\ Sound(e) /\ e.size = s.size + 1 /\ s.size \in Nodes /\ s.size > 1
      /\ e.node_tile[s.size] = NoTile
      /\ e.tile_node = s.tile_node /\ e.node_tile = s.node_tile
      /\ \A m \in Nodes : e.children[m] = IF m = s.size THEN sigs ELSE s.children[m]
      /\ e.inputs = s.inputs /\ e.outputs = s.outputs /\ e.h1 = s.h1
  BY Emplace
<1> HIDE DEF e
<1>2. s.size < e.size
  <2>1. s.size \in Nat
    BY <1>1, Basics
  <2> QED
    BY <1>1, <2>1
<1>3. e \in Storage
  BY <1>1 DEF Sound
<1>4. /\ f \in Storage /\ SamePlaces(f, e) /\ SameLists(f, e)
      /\ \A n \in Nodes : f.h1[n] = (e.h1[n] + References(e, sigs, n)) % Word
  BY <1>3, Reference
<1> HIDE DEF f
<1>5. Sound(f) /\ s.size < f.size /\ f.node_tile[s.size] = NoTile
  BY <1>1, <1>2, <1>4, SoundSame DEF SamePlaces
<1>6. /\ Sound(r) /\ SameLists(r, f) /\ r.size = f.size
      /\ t \in Tiles => r.tile_node = [f.tile_node EXCEPT ![t] = s.size]
      /\ t = Const0 => r.tile_node = f.tile_node
      /\ \A m \in Nodes : r.node_tile[m] =
           IF m = s.size THEN (IF t \in Tiles THEN t ELSE NoTile)
           ELSE IF t \in Tiles /\ f.node_tile[m] = t THEN NoTile
           ELSE f.node_tile[m]
      /\ \A m \in Nodes : r.h1[m] =
           IF t \in Tiles /\ f.node_tile[m] = t /\ m > 1 /\ ~ is_dead(f, m)
           THEN f.h1[m] + DeadBit ELSE f.h1[m]
  BY <1>1, <1>5, AssignNode
<1> HIDE DEF r
<1>7. NodeAssigned(r, s, t, s.size)
  BY <1>1, <1>4, <1>6 DEF NodeAssigned, SamePlaces
<1>8. \A m \in Nodes : References(e, sigs, m) = References(s, sigs, m)
  BY <1>1 DEF References, get_node
<1>9. \A m \in Nodes : f.h1[m] = (s.h1[m] + References(s, sigs, m)) % Word
  BY <1>1, <1>4, <1>8
<1>10. \A m \in Nodes : r.h1[m] = Killed(f, t, m)
  BY <1>6 DEF Killed
<1>11. /\ r.size = s.size + 1 /\ f.node_tile = s.node_tile
       /\ \A m \in Nodes : r.children[m] = IF m = s.size THEN sigs ELSE s.children[m]
       /\ r.inputs = s.inputs /\ r.outputs = s.outputs
  BY <1>1, <1>4, <1>6 DEF SameLists, SamePlaces
<1> QED
  BY <1>1, <1>6, <1>7, <1>9, <1>10, <1>11 DEF r, f, e

(* move_node in three steps: the node gives up its children, changes its   *)
(* place, and gets new children and its outputs.                           *)
Detached(s, n) == [dereference(s, s.children[n]) EXCEPT !.children[n] = <<>>]

Relocated(s, n, old, t) ==
  IF t = old THEN s ELSE revive_node(assign_node(clear_tile(s, old), t, n), n)

MovedOutputs(outs, old, t) ==
  IF dead_tile(t) THEN Without(outs, old)
  ELSE IF t # old THEN Replace(outs, old, t) ELSE outs

Attached(s, n, old, t, sigs) ==
  [reference(s, sigs) EXCEPT !.children[n] = sigs, !.outputs = MovedOutputs(@, old, t)]

MovedStorage(s, n, t, sigs) ==
  Attached(Relocated(Detached(s, n), n, get_tile(s, n), t), n, get_tile(s, n), t, sigs)

(* The first step moves nothing. *)
LEMMA Detach ==
  ASSUME NEW s, Sound(s), NEW n \in Nodes
  PROVE  LET r == Detached(s, n)
         IN  /\ Sound(r) /\ SamePlaces(r, s)
             /\ r.inputs = s.inputs /\ r.outputs = s.outputs
             /\ \A m \in Nodes : r.children[m] = IF m = n THEN <<>> ELSE s.children[m]
             /\ \A m \in Nodes : r.h1[m] =
                  (s.h1[m] + Word - References(s, s.children[n], m)) % Word
<1> DEFINE d == dereference(s, s.children[n])
           r == Detached(s, n)
<1>1. s \in Storage /\ s.children[n] \in Seq(Signals)
  BY DEF Sound, Storage
<1>2. /\ d \in Storage /\ SamePlaces(d, s) /\ SameLists(d, s)
      /\ \A m \in Nodes : d.h1[m] = (s.h1[m] + Word - References(s, s.children[n], m)) % Word
  BY <1>1, Dereference
<1>3. r = [d EXCEPT !.children[n] = <<>>]
  BY DEF Detached
<1> HIDE DEF d, r
<1>4. [d.children EXCEPT ![n] = <<>>] \in [Nodes -> Seq(Signals)]
  <2>1. <<>> \in Seq(Signals) /\ d.children \in [Nodes -> Seq(Signals)]
    BY <1>2 DEF Storage
  <2> QED
    BY <2>1
<1>5. r \in Storage /\ r.children = [d.children EXCEPT ![n] = <<>>]
  BY <1>2, <1>3, <1>4 DEF Storage
<1>6. /\ SamePlaces(r, d) /\ r.inputs = d.inputs /\ r.outputs = d.outputs /\ r.h1 = d.h1
  BY <1>2, <1>3 DEF Storage, SamePlaces
<1>7. SamePlaces(r, s)
  BY <1>2, <1>6 DEF SamePlaces
<1>8. Sound(r)
  BY <1>5, <1>7, SoundSame
<1>9. \A m \in Nodes : r.children[m] = IF m = n THEN <<>> ELSE s.children[m]
  BY <1>2, <1>5 DEF SameLists, Storage
<1> QED
  BY <1>2, <1>6, <1>7, <1>8, <1>9 DEF SameLists, r

(* The second leaves the node on its new tile, or nowhere, and alive; a    *)
(* node that was on the new tile is dead and nowhere.                      *)
LEMMA Relocate ==
  ASSUME NEW s, Sound(s), NEW n \in Nodes, n > 1, n < s.size,
         NEW t \in Tiles \cup {Const0}
  PROVE  LET old == get_tile(s, n)
             r == Relocated(s, n, old, t)
         IN  /\ Sound(r) /\ SameLists(r, s) /\ r.size = s.size
             /\ old \in Tiles \cup {Const0}
             /\ t = old => r = s
             /\ t # old =>
                  /\ \A u \in Signals : r.tile_node[u] =
                       IF u = t /\ t \in Tiles THEN n
                       ELSE IF u = old THEN NoNode ELSE s.tile_node[u]
                  /\ \A m \in Nodes : r.node_tile[m] =
                       IF m = n THEN (IF t \in Tiles THEN t ELSE NoTile)
                       ELSE IF s.node_tile[m] = old \/ (t \in Tiles /\ s.node_tile[m] = t)
                       THEN NoTile ELSE s.node_tile[m]
                  /\ r.h1[n] = IF is_dead(s, n) THEN s.h1[n] - DeadBit ELSE s.h1[n]
                  /\ \A m \in Nodes \ {n} : r.h1[m] = Killed(s, t, m)
<1> DEFINE old == get_tile(s, n)
           c == clear_tile(s, old)
           a == assign_node(c, t, n)
           v == revive_node(a, n)
           r == Relocated(s, n, old, t)
<1>0. /\ s \in Storage /\ s.node_tile[n] \in Signals \cup {NoTile}
      /\ s.tile_node \in [Signals -> Nodes \cup {NoNode}]
      /\ s.node_tile \in [Nodes -> Signals \cup {NoTile}]
      /\ \A m \in Nodes : s.h1[m] \in 0..(Word - 1)
  BY DEF Sound, Storage
<1>1. n # 0 /\ n # 1
  BY Basics
<1>2. s.node_tile[n] # Const0 /\ s.node_tile[n] # Const1
  <2>1. s.node_tile[n] # Const0
    BY <1>1 DEF Sound, ConstantsHome
  <2>2. s.tile_node[Const1] = 1 
    BY Basics DEF Sound, ConstantsHome, MapsAgree
  <2> QED
    BY <1>1, <2>1, <2>2, Basics DEF Sound, MapsAgree
<1>3. /\ old \in Tiles \cup {Const0} /\ s.node_tile[n] \in {old, NoTile}
      /\ old = Const0 <=> s.node_tile[n] = NoTile
  BY <1>0, <1>2, Basics DEF get_tile, Signals
<1> HIDE DEF old
<1>4. CASE t = old
  <2>1. r = s
    BY <1>4 DEF Relocated
  <2> QED
    BY <1>3, <1>4, <2>1 DEF SameLists, old
<1>5. CASE t # old
  <2>1. r = v
    BY <1>5 DEF Relocated
  <2>2. /\ Sound(c) /\ SameLists(c, s) /\ c.size = s.size
        /\ c.tile_node = [s.tile_node EXCEPT ![old] = NoNode]
        /\ \A m \in Nodes : c.node_tile[m] =
             IF s.node_tile[m] = old THEN NoTile ELSE s.node_tile[m]
        /\ \A m \in Nodes : c.h1[m] =
             IF s.node_tile[m] = old /\ m > 1 /\ ~ is_dead(s, m)
             THEN s.h1[m] + DeadBit ELSE s.h1[m]
    BY <1>3, ClearTile, ZenonT(60)
  <2> HIDE DEF c
  <2>3. c.node_tile[n] = NoTile /\ n < c.size
    BY <1>3, <2>2
  <2>4. /\ Sound(a) /\ SameLists(a, c) /\ a.size = c.size
        /\ t \in Tiles => a.tile_node = [c.tile_node EXCEPT ![t] = n]
        /\ t = Const0 => a.tile_node = c.tile_node
        /\ \A m \in Nodes : a.node_tile[m] =
             IF m = n THEN (IF t \in Tiles THEN t ELSE NoTile)
             ELSE IF t \in Tiles /\ c.node_tile[m] = t THEN NoTile
             ELSE c.node_tile[m]
        /\ \A m \in Nodes : a.h1[m] =
             IF t \in Tiles /\ c.node_tile[m] = t /\ m > 1 /\ ~ is_dead(c, m)
             THEN c.h1[m] + DeadBit ELSE c.h1[m]
    BY <2>2, <2>3, AssignNode
  <2> HIDE DEF a
  <2>5. a \in Storage
    BY <2>4 DEF Sound
  <2>6. /\ v \in Storage /\ SamePlaces(v, a) /\ SameLists(v, a)
        /\ \A m \in Nodes \ {n} : v.h1[m] = a.h1[m]
        /\ v.h1[n] = IF is_dead(a, n) THEN a.h1[n] - DeadBit ELSE a.h1[n]
    BY <2>5, ReviveNode
  <2> HIDE DEF v, r
  <2>7. Sound(v)
    BY <2>4, <2>6, SoundSame
  <2>8. \A u \in Signals : v.tile_node[u] =
          IF u = t /\ t \in Tiles THEN n ELSE IF u = old THEN NoNode ELSE s.tile_node[u]
    <3>1. t \in Tiles \/ t = Const0
      OBVIOUS
    <3>2. c.tile_node \in [Signals -> Nodes \cup {NoNode}] /\ old \in Signals
      BY <1>3, <2>2, Basics DEF Sound, Storage
    <3> QED
      BY <1>0, <2>2, <2>4, <2>6, <3>1, <3>2, Basics DEF SamePlaces
  <2>9. \A m \in Nodes : v.node_tile[m] =
          IF m = n THEN (IF t \in Tiles THEN t ELSE NoTile)
          ELSE IF s.node_tile[m] = old \/ (t \in Tiles /\ s.node_tile[m] = t)
          THEN NoTile ELSE s.node_tile[m]
    BY <1>5, <2>2, <2>4, <2>6, Basics DEF SamePlaces
  <2>10. v.h1[n] = IF is_dead(s, n) THEN s.h1[n] - DeadBit ELSE s.h1[n]
    <3>1. a.h1[n] = c.h1[n]
      BY <2>3, <2>4, Basics
    <3>2. c.h1[n] = IF s.node_tile[n] = old /\ ~ is_dead(s, n)
                    THEN s.h1[n] + DeadBit ELSE s.h1[n]
      BY <2>2
    <3>3. s.h1[n] \in 0..(Word - 1) /\ DeadBit \in Nat /\ DeadBit > 0
      BY <1>0, Basics
    <3> QED
      BY <2>6, <3>1, <3>2, <3>3 DEF is_dead
  <2>11. ASSUME NEW m \in Nodes \ {n}
         PROVE  v.h1[m] = Killed(s, t, m)
    <3>1. v.h1[m] = a.h1[m]
      BY <2>6
    <3>2. s.node_tile[m] = old => ~ (m > 1)
      <4>1. CASE old = Const0
        BY <4>1 DEF Sound, ConstantsHome
      <4>2. CASE old \in Tiles
        <5>1. s.node_tile[n] = old /\ old \in Signals
          BY <1>3, <4>2, Basics
        <5> QED
          BY <5>1 DEF Sound, MapsAgree
      <4> QED
        BY <1>3, <4>1, <4>2
    <3>3. c.h1[m] = s.h1[m]
      BY <2>2, <3>2
    <3>4. t \in Tiles => (c.node_tile[m] = t <=> s.node_tile[m] = t)
      BY <1>5, <2>2, Basics
    <3>5. is_dead(c, m) <=> is_dead(s, m)
      BY <3>3 DEF is_dead
    <3> QED
      BY <2>4, <3>1, <3>3, <3>4, <3>5 DEF Killed
  <2>12. SameLists(v, s) /\ v.size = s.size
    BY <2>2, <2>4, <2>6 DEF SameLists, SamePlaces
  <2> QED
    BY <1>3, <1>5, <2>1, <2>7, <2>8, <2>9, <2>10, <2>11, <2>12 DEF old, r
<1> QED
  BY <1>4, <1>5

(* The third moves nothing either. *)
LEMMA Attach ==
  ASSUME NEW s, Sound(s), NEW n \in Nodes, NEW old \in Tiles \cup {Const0},
         NEW t \in Tiles \cup {Const0}, NEW sigs \in Seq(Signals)
  PROVE  LET r == Attached(s, n, old, t, sigs)
         IN  /\ Sound(r) /\ SamePlaces(r, s) /\ r.inputs = s.inputs
             /\ \A m \in Nodes : r.h1[m] = (s.h1[m] + References(s, sigs, m)) % Word
<1> DEFINE f == reference(s, sigs)
           o == MovedOutputs(s.outputs, old, t)
           r == Attached(s, n, old, t, sigs)
<1>1. s \in Storage /\ s.outputs \in Seq(Signals)
  BY DEF Sound, Storage
<1>2. /\ f \in Storage /\ SamePlaces(f, s) /\ SameLists(f, s)
      /\ \A m \in Nodes : f.h1[m] = (s.h1[m] + References(s, sigs, m)) % Word
  BY <1>1, Reference
<1>3. r = [f EXCEPT !.children[n] = sigs, !.outputs = o]
  BY <1>2 DEF Attached, SameLists
<1>4. o \in Seq(Signals)
  <2>1. t \in Signals
    BY Basics
  <2>2. Without(s.outputs, old) \in Seq(Signals)
    BY <1>1, WithoutSeq
  <2>3. Replace(s.outputs, old, t) \in Seq(Signals)
    BY <1>1, <2>1, ReplaceSeq
  <2> QED
    BY <1>1, <2>2, <2>3 DEF MovedOutputs
<1> HIDE DEF f, o, r
<1>5. [f.children EXCEPT ![n] = sigs] \in [Nodes -> Seq(Signals)]
  BY <1>2 DEF Storage
<1>6. r \in Storage /\ r.children = [f.children EXCEPT ![n] = sigs]
  BY <1>2, <1>3, <1>4, <1>5 DEF Storage
<1>7. SamePlaces(r, f) /\ r.inputs = f.inputs /\ r.outputs = o /\ r.h1 = f.h1
  BY <1>2, <1>3 DEF Storage, SamePlaces
<1>8. SamePlaces(r, s)
  BY <1>2, <1>7 DEF SamePlaces
<1>9. Sound(r)
  BY <1>6, <1>8, SoundSame
<1> QED
  BY <1>2, <1>7, <1>8, <1>9 DEF SameLists, r

(* It is the one that updates the lists. *)
LEMMA AttachLists ==
  ASSUME NEW s \in Storage, NEW n \in Nodes, NEW old \in Tiles \cup {Const0},
         NEW t \in Tiles \cup {Const0}, NEW sigs \in Seq(Signals)
  PROVE  /\ Attached(s, n, old, t, sigs).outputs = MovedOutputs(s.outputs, old, t)
         /\ Attached(s, n, old, t, sigs).children = [s.children EXCEPT ![n] = sigs]
<1> DEFINE f == reference(s, sigs)
           o == MovedOutputs(f.outputs, old, t)
<1>1. f \in Storage /\ f.outputs = s.outputs /\ f.children = s.children
  BY Reference DEF SameLists
<1>2. Attached(s, n, old, t, sigs) = [f EXCEPT !.children[n] = sigs, !.outputs = o]
  BY DEF Attached
<1> HIDE DEF f, o
<1>3. /\ Attached(s, n, old, t, sigs).outputs = o
      /\ Attached(s, n, old, t, sigs).children = [f.children EXCEPT ![n] = sigs]
  BY <1>1, <1>2 DEF Storage
<1> QED
  BY <1>1, <1>3 DEF o

(* All three together keep the storage sound. *)
LEMMA MoveStorage ==
  ASSUME NEW s, Sound(s), NEW n \in Nodes, n > 1, n < s.size,
         NEW t \in Tiles \cup {Const0}, NEW sigs \in Seq(Signals)
  PROVE  Sound(MovedStorage(s, n, t, sigs))
<1> DEFINE d == Detached(s, n)
           l == Relocated(d, n, get_tile(s, n), t)
<1>1. Sound(d) /\ SamePlaces(d, s)
  BY Detach
<1>2. get_tile(d, n) = get_tile(s, n) /\ n < d.size
  BY <1>1 DEF get_tile, SamePlaces
<1> HIDE DEF d
<1>3. Sound(l) /\ get_tile(s, n) \in Tiles \cup {Const0}
  BY <1>1, <1>2, Relocate
<1> HIDE DEF l
<1>4. Sound(Attached(l, n, get_tile(s, n), t, sigs))
  BY <1>3, Attach
<1> QED
  BY <1>4 DEF MovedStorage, l, d

-----------------------------------------------------------------------------
(* The inductive invariant. *)
LInv ==
  /\ Sound(strg)
  /\ sequential_inf \in [num_pis : Nat, num_pos : Nat, registers : Nat]
  /\ kind \in [Nodes -> {"const", "none", "pi", "ro", "po", "ri", "node"}]
  /\ moves \in 0..MaxMoves

(* A new layout has the two constants and nothing else. *)
LEMMA LayoutInit == Init => LInv
<1> SUFFICES ASSUME Init
             PROVE  LInv
  OBVIOUS
<1>1. /\ strg.size = 2 /\ strg.inputs = <<>> /\ strg.outputs = <<>>
      /\ strg.num_gates = 0 /\ strg.num_wires = 0
      /\ strg.tile_node = [t \in Signals |-> IF t = Const0 THEN 0
                                             ELSE IF t = Const1 THEN 1 ELSE NoNode]
      /\ strg.node_tile = [n \in Nodes |-> IF n = 0 THEN Const0
                                           ELSE IF n = 1 THEN Const1 ELSE NoTile]
  BY DEF Init
<1>2. strg \in Storage
  <2> DEFINE fn == [n \in Nodes |-> IF n = 1 THEN 1 ELSE 0]
             children == [n \in Nodes |-> <<>>]
             h1 == [n \in Nodes |-> 0]
  <2>1. /\ fn \in [Nodes -> 0..3] /\ children \in [Nodes -> Seq(Signals)]
        /\ h1 \in [Nodes -> 0..(Word - 1)]
    BY Basics
  <2>2. /\ strg.tile_node \in [Signals -> Nodes \cup {NoNode}]
        /\ strg.node_tile \in [Nodes -> Signals \cup {NoTile}]
    BY <1>1, Basics
  <2>3. strg = [size |-> 2, fn |-> fn, children |-> children, h1 |-> h1,
                tile_node |-> strg.tile_node, node_tile |-> strg.node_tile,
                inputs |-> <<>>, outputs |-> <<>>, num_gates |-> 0, num_wires |-> 0]
    BY DEF Init
  <2>4. <<>> \in Seq(Nodes) /\ <<>> \in Seq(Signals) /\ 0 \in 0..(Word - 1) /\ 2 \in 2..MaxNodes
    BY Basics
  <2> DEFINE none == <<>>
  <2> HIDE DEF fn, children, h1, none
  <2>5. /\ strg.tile_node = strg.tile_node /\ none \in Seq(Nodes) /\ none \in Seq(Signals)
        /\ strg = [size |-> 2, fn |-> fn, children |-> children, h1 |-> h1,
                   tile_node |-> strg.tile_node, node_tile |-> strg.node_tile,
                   inputs |-> none, outputs |-> none, num_gates |-> 0, num_wires |-> 0]
    BY <2>3, <2>4 DEF none
  <2> QED
    BY <2>1, <2>2, <2>4, <2>5 DEF Storage
<1>3. MapsAgree(strg)
  BY <1>1, Basics DEF MapsAgree
<1>4. ConstantsHome(strg)
  BY <1>1, Basics DEF ConstantsHome
<1>5. Unborn(strg)
  BY <1>1, Basics DEF Unborn
<1>6. Counted(strg)
  <2>1. \A n \in Nodes : ~ placed(strg, n)
    BY <1>1, Basics DEF placed
  <2>2. Wires(strg) = {} /\ Gates(strg) = {}
    BY <2>1 DEF Wires, Gates
  <2> QED
    BY <1>1, <2>2, FS_EmptySet DEF Counted
<1>7. /\ sequential_inf \in [num_pis : Nat, num_pos : Nat, registers : Nat]
      /\ kind \in [Nodes -> {"const", "none", "pi", "ro", "po", "ri", "node"}]
      /\ moves \in 0..MaxMoves
  BY LayoutAssumption DEF Init
<1> QED
  BY <1>2, <1>3, <1>4, <1>5, <1>6, <1>7 DEF LInv, Sound

(* The histories stay in their types. *)
LEMMA CreatedTypes ==
  ASSUME LInv, NEW k \in {"pi", "ro", "po", "ri", "node"}, Created(k)
  PROVE  /\ kind' \in [Nodes -> {"const", "none", "pi", "ro", "po", "ri", "node"}]
         /\ moves' \in 0..MaxMoves
  BY DEF LInv, Created

(* create_pi and create_ro keep the invariant, on any tile. *)
LEMMA CreateInputStep ==
  ASSUME LInv, NEW t \in Tiles \cup {Const0}, create_pi(t) \/ create_ro(t)
  PROVE  LInv'
<1>1. Sound(strg) /\ strg.size < MaxNodes
  BY DEF LInv, create_pi, create_ro
<1>2. Sound(strg')
  <2>1. strg' = [assign_node(emplace(strg, 2, <<>>), t, strg.size) EXCEPT
                   !.inputs = Append(@, strg.size)]
    BY DEF create_pi, create_ro
  <2> QED
    BY <1>1, <2>1, CreateInput
<1>3. sequential_inf' \in [num_pis : Nat, num_pos : Nat, registers : Nat]
  BY DEF LInv, create_pi, create_ro
<1>4. \E k \in {"pi", "ro"} : Created(k)
  BY DEF create_pi, create_ro
<1> QED
  BY <1>2, <1>3, <1>4, CreatedTypes DEF LInv

(* create_po and create_ri, too. *)
LEMMA CreateOutputStep ==
  ASSUME LInv, NEW t \in Tiles \cup {Const0}, NEW sig \in Tiles,
         create_po(sig, t) \/ create_ri(sig, t)
  PROVE  LInv'
<1> DEFINE f == Referenced(strg, t, sig)
           p == sequential_inf.num_pos
<1>1. /\ Sound(strg) /\ strg.size < MaxNodes /\ sig \in Signals /\ t \in Signals
      /\ strg.outputs \in Seq(Signals)
  BY Basics DEF LInv, create_po, create_ri, Sound, Storage
<1>2. f.outputs = strg.outputs
  BY <1>1, ReferenceChild, ZenonT(60)
<1>3. PICK outs \in Seq(Signals) : strg' = NewOutput(strg, t, sig, outs)
  <2>1. CASE create_po(sig, t)
    <3>1. strg' = [f EXCEPT !.outputs = SubSeq(f.outputs, 1, p) \o <<t>>
                                        \o SubSeq(f.outputs, p + 1, Len(f.outputs))]
      BY <2>1 DEF create_po, Referenced
    <3>2. p \in Nat /\ p <= Len(strg.outputs)
      BY <2>1 DEF create_po, LInv
    <3>3. /\ SubSeq(strg.outputs, 1, p) \in Seq(Signals) /\ <<t>> \in Seq(Signals)
          /\ SubSeq(strg.outputs, p + 1, Len(strg.outputs)) \in Seq(Signals)
      <4>1. \A i \in 1..p : strg.outputs[i] \in Signals
        BY <1>1, <3>2
      <4>2. \A i \in (p + 1)..Len(strg.outputs) : strg.outputs[i] \in Signals
        BY <1>1, <3>2
      <4> QED
        BY <1>1, <3>2, <4>1, <4>2
    <3>4. SubSeq(strg.outputs, 1, p) \o <<t>>
            \o SubSeq(strg.outputs, p + 1, Len(strg.outputs)) \in Seq(Signals)
      BY <3>3
    <3> QED
      BY <1>2, <3>1, <3>4 DEF NewOutput
  <2>2. CASE create_ri(sig, t)
    <3>1. strg' = [f EXCEPT !.outputs = Append(f.outputs, t)]
      BY <2>2 DEF create_ri, Referenced
    <3>2. Append(strg.outputs, t) \in Seq(Signals)
      BY <1>1
    <3> QED
      BY <1>2, <3>1, <3>2 DEF NewOutput
  <2> QED
    BY <2>1, <2>2
<1>4. Sound(strg')
  BY <1>1, <1>3, CreateOutput
<1>5. sequential_inf' \in [num_pis : Nat, num_pos : Nat, registers : Nat]
  BY SMTT(40) DEF LInv, create_po, create_ri
<1>6. \E k \in {"po", "ri"} : Created(k)
  BY DEF create_po, create_ri
<1> QED
  BY <1>4, <1>5, <1>6, CreatedTypes DEF LInv

(* create_node and the functions that call it. *)
LEMMA CreateNodeStep ==
  ASSUME LInv, NEW t \in Tiles \cup {Const0}, NEW literal \in 0..3,
         NEW sigs \in Seq(Signals), create_node_from_literal(sigs, literal, t)
  PROVE  LInv'
<1>1. Sound(strg) /\ strg.size < MaxNodes
  BY DEF LInv, create_node_from_literal
<1>2. strg' = assign_node(reference(emplace(strg, literal, sigs), sigs), t, strg.size)
  BY DEF create_node_from_literal
<1>3. Sound(strg')
  BY <1>1, <1>2, CreateGate
<1> QED
  BY <1>3, CreatedTypes DEF LInv, create_node_from_literal

(* move_node, to a tile that may be occupied, dead or the node's own. *)
LEMMA MoveNodeStep ==
  ASSUME LInv, NEW n \in Nodes, n > 1, n < strg.size,
         NEW t \in Tiles \cup {Const0}, NEW sigs \in Seq(Signals), move_node(n, t, sigs)
  PROVE  LInv'
<1>1. Sound(strg)
  BY DEF LInv
<1>2. strg' = MovedStorage(strg, n, t, sigs)
  BY DEF move_node, MovedStorage, Attached, MovedOutputs, Relocated, Detached
<1>3. Sound(strg')
  BY <1>1, <1>2, MoveStorage
<1>4. moves' \in 0..MaxMoves /\ UNCHANGED <<sequential_inf, kind>>
  BY LayoutAssumption, SMTT(40) DEF move_node, Moved, LInv
<1> QED
  BY <1>3, <1>4 DEF LInv

(* Every step of every client keeps the invariant. *)
LEMMA LayoutStep == LInv /\ [Next]_vars => LInv'
<1> SUFFICES ASSUME LInv, [Next]_vars
             PROVE  LInv'
  OBVIOUS
<1>1. \A sigs \in Fanins : sigs \in Seq(Signals)
  <2> SUFFICES ASSUME NEW i \in 0..MaxFanin, NEW sigs \in [1..i -> Tiles]
               PROVE  sigs \in Seq(Signals)
    BY DEF Fanins
  <2> QED
    BY Basics, LayoutAssumption
<1>2. CASE CreatePI
  BY <1>2, CreateInputStep DEF CreatePI
<1>3. CASE CreateRO
  BY <1>3, CreateInputStep DEF CreateRO
<1>4. CASE CreatePO
  BY <1>4, CreateOutputStep DEF CreatePO
<1>5. CASE CreateRI
  BY <1>5, CreateOutputStep DEF CreateRI
<1>6. CASE CreateNode
  <2>1. PICK t \in Tiles \cup {Const0}, literal \in {2, 3}, sigs \in Fanins :
          create_node_from_literal(sigs, literal, t)
    BY <1>6 DEF CreateNode
  <2>2. literal \in 0..3
    OBVIOUS
  <2> QED
    BY <1>1, <2>1, <2>2, CreateNodeStep
<1>7. CASE MoveNode
  <2>1. PICK n \in 2..(strg.size - 1), t \in Tiles \cup {Const0}, sigs \in Fanins :
          move_node(n, t, sigs)
    BY <1>7 DEF MoveNode
  <2>2. strg.size \in 2..MaxNodes
    BY DEF LInv, Sound, Storage
  <2>3. n \in Nodes /\ n > 1 /\ n < strg.size
    BY <2>2, Basics DEF Nodes
  <2> QED
    BY <1>1, <2>1, <2>3, MoveNodeStep
<1>8. CASE UNCHANGED vars
  BY <1>8 DEF vars, LInv
<1> QED
  BY <1>2, <1>3, <1>4, <1>5, <1>6, <1>7, <1>8 DEF Next

(* The invariant holds throughout. *)
LEMMA LayoutInvariant == Spec => []LInv
  BY LayoutInit, LayoutStep, PTL DEF Spec

(* Whatever a client does with the operations of gate_level_layout, the    *)
(* storage stays well-formed: lists hold nodes and tiles of the layout,    *)
(* and no counter leaves its 32 bits.                                      *)
THEOREM LayoutTypes == Spec => []TypeOK
<1>1. LInv => TypeOK
  BY DEF LInv, Sound, TypeOK
<1> QED
  BY <1>1, LayoutInvariant, PTL

(* tile_node_map and node_tile_map never disagree, whatever is overwritten *)
(* and moved.                                                              *)
THEOREM MapsStayInverse == Spec => []MapsInverse
<1>1. LInv => MapsInverse
  BY DEF LInv, Sound, MapsAgree, MapsInverse
<1> QED
  BY <1>1, LayoutInvariant, PTL

(* num_gates and num_wires always are the numbers of placed gates and      *)
(* wires: clear_tile, assign_node and move_node never count a node twice   *)
(* or forget one, and the unsigned counters never wrap around.             *)
THEOREM CountsStayExact == Spec => []CountsExact
<1>1. LInv => CountsExact
  BY DEF LInv, Sound, Counted, Wires, Gates, CountsExact
<1> QED
  BY <1>1, LayoutInvariant, PTL

(* The constants are found on their tiles and nowhere else, also after     *)
(* move_node has cleared the entry of the default tile.                    *)
THEOREM ConstantsStayResolved == Spec => []ConstantsResolve
<1>1. LInv => ConstantsResolve
  <2> SUFFICES ASSUME LInv
               PROVE  ConstantsResolve
    OBVIOUS
  <2>1. MapsAgree(strg) /\ ConstantsHome(strg) /\ strg \in Storage
    BY DEF LInv, Sound
  <2>2. strg.tile_node[Const0] \in Nodes \cup {NoNode}
    BY <2>1, Basics DEF Storage
  <2>3. strg.tile_node[Const0] \in Nodes => strg.tile_node[Const0] = 0
    BY <2>1, Basics, ZenonT(60) DEF MapsAgree, ConstantsHome
  <2>4. strg.tile_node[Const1] = 1
    BY <2>1, Basics DEF MapsAgree, ConstantsHome
  <2> QED
    BY <2>1, <2>2, <2>3, <2>4, Basics DEF ConstantsResolve, ConstantsHome, get_node, get_tile
<1> QED
  BY <1>1, LayoutInvariant, PTL
=============================================================================
