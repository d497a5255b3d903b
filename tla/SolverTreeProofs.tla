-------------------------- MODULE SolverTreeProofs --------------------------
(***************************************************************************)
(* Proofs that a solver of exact that is extended from size to size is     *)
(* told what a new one would be told, for every network, clocking scheme,  *)
(* topology, set of parameters and sequence of sizes.                      *)
(*                                                                         *)
(* The heart is Carries: for each family of constraints, what the extended *)
(* solver keeps, what it is told, and what a new solver would be told are  *)
(* compared when a layout grows by one column or one row.  That is a       *)
(* matter of geometry: away from the border that moves, the neighbours of  *)
(* a tile are the same in both layouts.                                    *)
(***************************************************************************)
EXTENDS SolverTree, ClockedLayoutProofs, SequenceTheorems

-----------------------------------------------------------------------------
(* Layouts that grow along axis i (1 is the x axis) from d to D. *)
Grows(i, d, D) ==
  /\ i \in {1, 2}
  /\ IsLayout(d) /\ IsLayout(D)
  /\ D[1] = (IF i = 1 THEN d[1] + 1 ELSE d[1])
  /\ D[2] = (IF i = 2 THEN d[2] + 1 ELSE d[2])
  /\ D[3] = d[3]
  /\ hexagonal(D) <=> hexagonal(d)
  /\ hexagonal(d) => D[4] = d[4]

new_border(i, D) == {t \in ground_tiles(D) : t[i] = D[i]}
old_border(i, D) == {t \in ground_tiles(D) : t[i] = D[i] - 1}

LEMMA Ground ==
  ASSUME NEW dim, IsLayout(dim)
  PROVE  /\ \A x \in 0..dim[1], y \in 0..dim[2] : <<x, y, 0>> \in ground_tiles(dim)
         /\ \A t \in ground_tiles(dim) :
              /\ t = <<t[1], t[2], 0>> /\ t[1] \in Nat /\ t[2] \in Nat /\ t[3] = 0
              /\ t[1] <= dim[1] /\ t[2] <= dim[2]
<1>1. ASSUME NEW t \in ground_tiles(dim)
      PROVE  /\ t = <<t[1], t[2], 0>> /\ t[1] \in Nat /\ t[2] \in Nat /\ t[3] = 0
             /\ t[1] <= dim[1] /\ t[2] <= dim[2]
  <2>1. PICK x \in 0..dim[1], y \in 0..dim[2] : t = <<x, y, 0>>
    BY DEF ground_tiles
  <2> QED
    BY <2>1 DEF IsLayout
<1> QED
  BY <1>1 DEF ground_tiles

(* What growth does to the tiles. *)
LEMMA GroundGrows ==
  ASSUME NEW i, NEW d, NEW D, Grows(i, d, D)
  PROVE  /\ \A t : t \in ground_tiles(D) <=> t \in ground_tiles(d) \/ t \in new_border(i, D)
         /\ \A t \in ground_tiles(d) : t \notin new_border(i, D) /\ t[i] <= d[i]
         /\ \A t \in ground_tiles(d) : t \in old_border(i, D) <=> t[i] = d[i]
         /\ \A t \in old_border(i, D) : t \in ground_tiles(d)
         /\ ground_tiles(d) # ground_tiles(D)
         /\ new_border(i, D) # {}
<1>1. d[1] \in Nat /\ d[2] \in Nat /\ D[1] \in Nat /\ D[2] \in Nat /\ i \in {1, 2}
  BY DEF Grows, IsLayout
<1>2. ASSUME NEW t \in ground_tiles(d)
      PROVE  t \in ground_tiles(D) /\ t \notin new_border(i, D) /\ t[i] <= d[i]
             /\ (t \in old_border(i, D) <=> t[i] = d[i])
  <2>1. t = <<t[1], t[2], 0>> /\ t[1] \in 0..D[1] /\ t[2] \in 0..D[2] /\ t[i] <= d[i] /\ D[i] = d[i] + 1
    BY <1>1, Ground DEF Grows
  <2>2. t \in ground_tiles(D)
    BY <2>1, Ground DEF Grows
  <2> QED
    BY <1>1, <2>1, <2>2 DEF new_border, old_border
<1>3. ASSUME NEW t \in ground_tiles(D), t \notin new_border(i, D)
      PROVE  t \in ground_tiles(d)
  <2>1. t = <<t[1], t[2], 0>> /\ t[1] \in 0..d[1] /\ t[2] \in 0..d[2]
    BY <1>1, <1>3, Ground DEF Grows, new_border
  <2> QED
    BY <2>1, Ground DEF Grows
<1>4. <<D[1], D[2], 0>> \in new_border(i, D)
  <2>1. <<D[1], D[2], 0>> \in ground_tiles(D)
    BY <1>1, Ground DEF Grows
  <2> QED
    BY <1>1, <2>1 DEF new_border
<1>5. \A t \in old_border(i, D) : t \notin new_border(i, D) /\ t \in ground_tiles(D)
  BY <1>1 DEF old_border, new_border
<1>6. new_border(i, D) \subseteq ground_tiles(D)
  BY DEF new_border
<1> QED
  BY <1>2, <1>3, <1>4, <1>5, <1>6

-----------------------------------------------------------------------------
(* Neighbours in a layout that grows. *)

LEMMA EastAndSouth ==
  ASSUME NEW dim, IsLayout(dim), NEW t \in ground_tiles(dim)
  PROVE  /\ east(dim, t) = IF t[1] = dim[1] THEN t ELSE <<t[1] + 1, t[2], 0>>
         /\ south(dim, t) = IF t[2] = dim[2] THEN t ELSE <<t[1], t[2] + 1, 0>>
<1>1. PICK x \in 0..dim[1], y \in 0..dim[2] : t = <<x, y, 0>>
  BY DEF ground_tiles
<1>2. t[1] = x /\ t[2] = y /\ x \in Nat /\ y \in Nat /\ dim[1] \in Nat /\ dim[2] \in Nat /\ x <= dim[1] /\ y <= dim[2]
  BY <1>1 DEF IsLayout
<1>3. [t EXCEPT ![1] = t[1] + 1] = <<x + 1, y, 0>> /\ [t EXCEPT ![2] = t[2] + 1] = <<x, y + 1, 0>>
  BY <1>1
<1>4. east(dim, t) = IF x = dim[1] THEN t ELSE <<x + 1, y, 0>>
  <2>1. CASE x = dim[1]
    <3>1. ~ (t[1] > dim[1]) /\ ~ (t[1] < dim[1])
      BY <1>2, <2>1
    <3> QED
      BY <2>1, <3>1 DEF east, up_to
  <2>2. CASE x # dim[1]
    <3>1. ~ (t[1] > dim[1]) /\ t[1] < dim[1]
      BY <1>2, <2>2
    <3> QED
      BY <1>3, <2>2, <3>1 DEF east, up_to
  <2> QED
    BY <2>1, <2>2
<1>5. south(dim, t) = IF y = dim[2] THEN t ELSE <<x, y + 1, 0>>
  <2>1. CASE y = dim[2]
    <3>1. ~ (t[2] > dim[2]) /\ ~ (t[2] < dim[2])
      BY <1>2, <2>1
    <3> QED
      BY <2>1, <3>1 DEF south, up_to
  <2>2. CASE y # dim[2]
    <3>1. ~ (t[2] > dim[2]) /\ t[2] < dim[2]
      BY <1>2, <2>2
    <3> QED
      BY <1>3, <2>2, <3>1 DEF south, up_to
  <2> QED
    BY <2>1, <2>2
<1> QED
  BY <1>2, <1>4, <1>5

(* A neighbour in either layout, seen from a tile of the smaller one. *)
LEMMA CartesianGrows ==
  ASSUME NEW i, NEW d, NEW D, Grows(i, d, D), NEW t \in ground_tiles(d)
  PROVE  /\ north(t) \in ground_tiles(d) /\ west(t) \in ground_tiles(d)
         /\ east(d, t) \in ground_tiles(d) /\ south(d, t) \in ground_tiles(d)
         /\ east(D, t) \in ground_tiles(D) /\ south(D, t) \in ground_tiles(D)
         /\ east(D, t) = east(d, t) \/ (east(D, t) \notin ground_tiles(d) /\ east(d, t) = t)
         /\ south(D, t) = south(d, t) \/ (south(D, t) \notin ground_tiles(d) /\ south(d, t) = t)
         /\ t[i] # d[i] => east(D, t) = east(d, t) /\ south(D, t) = south(d, t)
<1> DEFINE x == t[1]
           y == t[2]
<1>1. /\ t = <<x, y, 0>> /\ x \in 0..d[1] /\ y \in 0..d[2]
      /\ d[1] \in Nat /\ d[2] \in Nat /\ D[1] \in Nat /\ D[2] \in Nat /\ i \in {1, 2}
      /\ IsLayout(d) /\ IsLayout(D)
      /\ D[1] = d[1] \/ D[1] = d[1] + 1
      /\ D[2] = d[2] \/ D[2] = d[2] + 1
      /\ i = 1 => D[2] = d[2]
      /\ i = 2 => D[1] = d[1]
  BY Ground DEF Grows, IsLayout
<1>2. north(t) \in ground_tiles(d) /\ west(t) \in ground_tiles(d)
  <2>1. north(t) = t \/ (y # 0 /\ north(t) = <<x, y - 1, 0>>)
    BY <1>1 DEF north
  <2>2. west(t) = t \/ (x # 0 /\ west(t) = <<x - 1, y, 0>>)
    BY <1>1 DEF west
  <2>3. y # 0 => y - 1 \in 0..d[2]
    BY <1>1
  <2>4. x # 0 => x - 1 \in 0..d[1]
    BY <1>1
  <2> QED
    BY <1>1, <2>1, <2>2, <2>3, <2>4, Ground
<1>3. /\ east(d, t) = IF x = d[1] THEN t ELSE <<x + 1, y, 0>>
      /\ east(D, t) = IF x = D[1] THEN t ELSE <<x + 1, y, 0>>
      /\ south(d, t) = IF y = d[2] THEN t ELSE <<x, y + 1, 0>>
      /\ south(D, t) = IF y = D[2] THEN t ELSE <<x, y + 1, 0>>
  BY <1>1, EastAndSouth, GroundGrows
<1> HIDE DEF x, y
<1>4. /\ east(d, t) \in ground_tiles(d) /\ east(D, t) \in ground_tiles(D)
      /\ south(d, t) \in ground_tiles(d) /\ south(D, t) \in ground_tiles(D)
  <2>1. t \in ground_tiles(D)
    BY GroundGrows
  <2>2. x # d[1] => x + 1 \in 0..d[1]
    BY <1>1
  <2>3. x # D[1] => x + 1 \in 0..D[1]
    BY <1>1
  <2>4. y # d[2] => y + 1 \in 0..d[2]
    BY <1>1
  <2>5. y # D[2] => y + 1 \in 0..D[2]
    BY <1>1
  <2>6. x \in 0..D[1] /\ y \in 0..D[2]
    BY <1>1
  <2> QED
    BY <1>1, <1>3, <2>1, <2>2, <2>3, <2>4, <2>5, <2>6, Ground
<1>5. /\ <<d[1] + 1, y, 0>> \notin ground_tiles(d)
      /\ <<x, d[2] + 1, 0>> \notin ground_tiles(d)
  BY <1>1, Ground
<1>6. t[i] # d[i] => east(D, t) = east(d, t) /\ south(D, t) = south(d, t)
  <2>1. CASE i = 1
    BY <1>1, <1>3, <2>1 DEF x, y
  <2>2. CASE i = 2
    BY <1>1, <1>3, <2>2 DEF x, y
  <2> QED
    BY <1>1, <2>1, <2>2
<1>7. /\ east(D, t) = east(d, t) \/ (east(D, t) \notin ground_tiles(d) /\ east(d, t) = t)
      /\ south(D, t) = south(d, t) \/ (south(D, t) \notin ground_tiles(d) /\ south(d, t) = t)
  BY <1>1, <1>3, <1>5
<1> QED
  BY <1>2, <1>4, <1>6, <1>7

(* The same over hexagons.  Where a direction leads does not depend on the *)
(* size, only whether it leads off the layout.                             *)
LEMMA TowardsGrows ==
  ASSUME NEW i, NEW d, NEW D, Grows(i, d, D), hexagonal(d), NEW t, NEW v
  PROVE  towards(D, t, v) = towards(d, t, v) /\ (pointy_top(D) <=> pointy_top(d))
<1>1. D[4] = d[4]
  BY DEF Grows
<1> QED
  BY <1>1 DEF towards, to_cube_coordinate, to_offset_coordinate, pointy_top, shoved

(* A direction leads to a neighbouring position of the same layer. *)
LEMMA Towards ==
  ASSUME NEW dim, IsLayout(dim), hexagonal(dim), NEW t \in ground_tiles(dim), NEW v \in cube_directions
  PROVE  LET u == towards(dim, t, v)
         IN  /\ u = <<u[1], u[2], 0>> /\ u[1] \in Int /\ u[2] \in Int
             /\ on_layout(dim, u) <=> u \in ground_tiles(dim)
             /\ on_layout(dim, u) => u[1] <= t[1] + 1 /\ u[2] <= t[2] + 1
<1> DEFINE u == towards(dim, t, v)
           x == t[1]
           y == t[2]
<1>1. x \in Nat /\ y \in Nat /\ t[3] = 0 /\ dim[1] \in Nat /\ dim[2] \in Nat /\ dim[3] \in Nat
  BY Ground DEF IsLayout
<1>2. v[1] \in Int /\ v[3] \in Int
  BY DEF cube_directions
<1>3. \A p \in Int : shoved(dim, p) \in Int
  <2>1. \A p \in Int : p \div 2 \in Int /\ (p + 1) \div 2 \in Int
    OBVIOUS
  <2> QED
    BY <2>1, Shoving
<1>4. u = <<u[1], u[2], 0>> /\ u[1] \in Int /\ u[2] \in Int
  <2>1. CASE pointy_top(dim)
    <3>1. u = <<((x - shoved(dim, y)) + v[1]) + shoved(dim, y + v[3]), y + v[3], 0>>
      BY <1>1, <2>1 DEF towards, to_cube_coordinate, to_offset_coordinate, cube
    <3>2. shoved(dim, y) \in Int /\ shoved(dim, y + v[3]) \in Int
      BY <1>1, <1>2, <1>3
    <3> QED
      BY <1>1, <1>2, <3>1, <3>2
  <2>2. CASE ~ pointy_top(dim)
    <3>1. u = <<x + v[1], ((y - shoved(dim, x)) + v[3]) + shoved(dim, x + v[1]), 0>>
      BY <1>1, <2>2 DEF towards, to_cube_coordinate, to_offset_coordinate, cube
    <3>2. shoved(dim, x) \in Int /\ shoved(dim, x + v[1]) \in Int
      BY <1>1, <1>2, <1>3
    <3> QED
      BY <1>1, <1>2, <3>1, <3>2
  <2> QED
    BY <2>1, <2>2
<1> HIDE DEF u
<1>5. on_layout(dim, u) <=> u \in ground_tiles(dim)
  <2>1. on_layout(dim, u) <=> u[1] \in 0..dim[1] /\ u[2] \in 0..dim[2]
    <3>1. \A k \in 1..3 : k = 1 \/ k = 2 \/ k = 3
      OBVIOUS
    <3>2. u[3] = 0
      BY <1>4
    <3>3. is_within_bounds(dim, u) <=> u[1] <= dim[1] /\ u[2] <= dim[2]
      BY <1>1, <3>1, <3>2 DEF is_within_bounds
    <3> QED
      BY <1>1, <1>4, <3>3 DEF on_layout
  <2>2. u \in ground_tiles(dim) <=> u[1] \in 0..dim[1] /\ u[2] \in 0..dim[2]
    BY <1>1, <1>4, Ground
  <2> QED
    BY <2>1, <2>2
<1>6. on_layout(dim, u) => u[1] <= x + 1 /\ u[2] <= y + 1
  <2>1. SUFFICES ASSUME on_layout(dim, u)
                 PROVE  u[1] <= x + 1 /\ u[2] <= y + 1
    OBVIOUS
  <2>2. u \in adjacent_coordinates(dim, t)
    BY <2>1 DEF u, adjacent_coordinates
  <2>3. u[1] - x \in -1..1 /\ u[2] - y \in -1..1
    BY <2>2, HexagonalNeighbours
  <2> QED
    BY <1>1, <1>4, <2>3
<1> QED
  BY <1>4, <1>5, <1>6 DEF u

(* Whether a direction leads off the layout, before and after. *)
LEMMA OnLayoutGrows ==
  ASSUME NEW i, NEW d, NEW D, Grows(i, d, D), hexagonal(d),
         NEW t \in ground_tiles(d), NEW v \in cube_directions
  PROVE  LET u == towards(d, t, v)
         IN  /\ on_layout(d, u) <=> u \in ground_tiles(d)
             /\ on_layout(D, u) <=> u \in ground_tiles(D)
             /\ t[i] # d[i] => (on_layout(D, u) <=> on_layout(d, u))
<1> DEFINE u == towards(d, t, v)
<1>0. IsLayout(d) /\ IsLayout(D) /\ hexagonal(D) /\ i \in {1, 2} /\ D[i] = d[i] + 1 /\ d[i] \in Nat
  BY DEF Grows, IsLayout
<1>1. t \in ground_tiles(D) /\ u = towards(D, t, v)
  BY GroundGrows, TowardsGrows
<1>2. on_layout(d, u) <=> u \in ground_tiles(d)
  BY <1>0, Towards
<1>3. /\ on_layout(D, u) <=> u \in ground_tiles(D)
      /\ u[1] \in Int /\ u[2] \in Int
      /\ on_layout(D, u) => u[1] <= t[1] + 1 /\ u[2] <= t[2] + 1
  BY <1>0, <1>1, Towards
<1> HIDE DEF u
<1>4. t[1] \in Nat /\ t[2] \in Nat /\ t[i] <= d[i]
  BY <1>0, Ground
<1>5. ASSUME t[i] # d[i], on_layout(D, u)
      PROVE  u \in ground_tiles(d)
  <2>1. u[i] # D[i]
    BY <1>0, <1>3, <1>4, <1>5
  <2>2. u \notin new_border(i, D)
    BY <2>1 DEF new_border
  <2> QED
    BY <1>3, <1>5, <2>2, GroundGrows
<1>6. u \in ground_tiles(d) => u \in ground_tiles(D)
  BY GroundGrows
<1> QED
  BY <1>2, <1>3, <1>5, <1>6 DEF u

(* The neighbours of a tile stay its neighbours, and only tiles at the     *)
(* border that moves get new ones.                                         *)
LEMMA NeighboursGrow ==
  ASSUME NEW i, NEW d, NEW D, Grows(i, d, D), NEW t \in ground_tiles(d)
  PROVE  /\ adjacent_coordinates(d, t) \subseteq ground_tiles(d)
         /\ adjacent_coordinates(D, t) \subseteq ground_tiles(D)
         /\ \A u \in ground_tiles(d) : u \in adjacent_coordinates(d, t) <=> u \in adjacent_coordinates(D, t)
         /\ t[i] # d[i] => adjacent_coordinates(d, t) = adjacent_coordinates(D, t)
<1>0. hexagonal(D) <=> hexagonal(d)
  BY DEF Grows
<1>1. CASE ~ hexagonal(d)
  <2>1. /\ adjacent_coordinates(d, t) = {north(t), east(d, t), south(d, t), west(t)} \ {t}
        /\ adjacent_coordinates(D, t) = {north(t), east(D, t), south(D, t), west(t)} \ {t}
    BY <1>0, <1>1 DEF adjacent_coordinates, cardinal_neighbours
  <2>2. \A u \in ground_tiles(d) : u \in ground_tiles(D)
    BY GroundGrows
  <2> QED
    BY <1>1, <2>1, <2>2, CartesianGrows
<1>2. CASE hexagonal(d)
  <2>1. \A u : u \in adjacent_coordinates(d, t) <=>
               \E v \in cube_directions : u = towards(d, t, v) /\ on_layout(d, u)
    BY <1>2 DEF adjacent_coordinates
  <2>2. \A u : u \in adjacent_coordinates(D, t) <=>
               \E v \in cube_directions : u = towards(D, t, v) /\ on_layout(D, u)
    BY <1>0, <1>2 DEF adjacent_coordinates
  <2>3. \A v : towards(D, t, v) = towards(d, t, v)
    BY <1>2, TowardsGrows
  <2>4. \A v \in cube_directions :
          /\ on_layout(d, towards(d, t, v)) <=> towards(d, t, v) \in ground_tiles(d)
          /\ on_layout(D, towards(d, t, v)) <=> towards(d, t, v) \in ground_tiles(D)
          /\ t[i] # d[i] => (on_layout(D, towards(d, t, v)) <=> on_layout(d, towards(d, t, v)))
    BY <1>2, OnLayoutGrows
  <2>5. \A u \in ground_tiles(d) : u \in ground_tiles(D)
    BY GroundGrows
  <2>6. \A u : u \in adjacent_coordinates(d, t) => u \in ground_tiles(d)
    BY <2>1, <2>4
  <2>7. \A u : u \in adjacent_coordinates(D, t) => u \in ground_tiles(D)
    BY <2>2, <2>3, <2>4
  <2>8. \A u \in ground_tiles(d) : u \in adjacent_coordinates(d, t) <=> u \in adjacent_coordinates(D, t)
    BY <2>1, <2>2, <2>3, <2>4, <2>5
  <2>9. t[i] # d[i] => \A u : u \in adjacent_coordinates(d, t) <=> u \in adjacent_coordinates(D, t)
    BY <2>1, <2>2, <2>3, <2>4
  <2> QED
    BY <2>6, <2>7, <2>8, <2>9
<1> QED
  BY <1>1, <1>2

-----------------------------------------------------------------------------
(* Single directions. *)
LEMMA Directions ==
  /\ <<1, 0, -1>> \in cube_directions /\ <<-1, 0, 1>> \in cube_directions
  /\ <<0, -1, 1>> \in cube_directions /\ <<0, 1, -1>> \in cube_directions
  /\ <<1, -1, 0>> \in cube_directions /\ <<-1, 1, 0>> \in cube_directions
<1>1. \A a, b, c \in -1..1 : a + b + c = 0 /\ ~ (a = 0 /\ b = 0 /\ c = 0) => <<a, b, c>> \in cube_directions
  BY DEF cube_directions
<1>2. -1 \in -1..1 /\ 0 \in -1..1 /\ 1 \in -1..1
  OBVIOUS
<1> QED
  BY <1>1, <1>2

LEMMA StayGrows ==
  ASSUME NEW i, NEW d, NEW D, Grows(i, d, D), hexagonal(d), NEW t \in ground_tiles(d), NEW v \in cube_directions
  PROVE  LET before == towards_or_stay(d, t, v)
             after == towards_or_stay(D, t, v)
         IN  /\ before # t => after = before
             /\ after \in ground_tiles(d) => before = after
             /\ t[i] # d[i] => after = before
             /\ after \in ground_tiles(D)
<1> DEFINE u == towards(d, t, v)
<1>1. towards(D, t, v) = u
  BY TowardsGrows
<1>2. /\ on_layout(d, u) <=> u \in ground_tiles(d)
      /\ on_layout(D, u) <=> u \in ground_tiles(D)
      /\ t[i] # d[i] => (on_layout(D, u) <=> on_layout(d, u))
  BY OnLayoutGrows
<1>3. /\ towards_or_stay(d, t, v) = IF on_layout(d, u) THEN u ELSE t
      /\ towards_or_stay(D, t, v) = IF on_layout(D, u) THEN u ELSE t
  BY <1>1 DEF towards_or_stay
<1> HIDE DEF u
<1>4. u \in ground_tiles(d) => u \in ground_tiles(D)
  BY GroundGrows
<1>5. t \in ground_tiles(D)
  BY GroundGrows
<1> QED
  BY <1>2, <1>3, <1>4, <1>5

(* Both ways through a tile. *)
LEMMA OppositesGrow ==
  ASSUME NEW i, NEW d, NEW D, Grows(i, d, D), NEW t \in ground_tiles(d), t[i] # d[i]
  PROVE  adjacent_opposite_coordinates(D, t) = adjacent_opposite_coordinates(d, t)
<1>0. hexagonal(D) <=> hexagonal(d)
  BY DEF Grows
<1>1. east(D, t) = east(d, t) /\ south(D, t) = south(d, t)
  BY CartesianGrows
<1>2. CASE ~ hexagonal(d)
  BY <1>0, <1>1, <1>2 DEF adjacent_opposite_coordinates
<1>3. CASE hexagonal(d)
  <2>1. pointy_top(D) <=> pointy_top(d)
    BY <1>3, TowardsGrows
  <2>2. \A v \in cube_directions : towards_or_stay(D, t, v) = towards_or_stay(d, t, v)
    BY <1>3, StayGrows
  <2>3. /\ north_east(D, t) = north_east(d, t) /\ south_west(D, t) = south_west(d, t)
        /\ north_west(D, t) = north_west(d, t) /\ south_east(D, t) = south_east(d, t)
    BY <2>1, <2>2, Directions DEF north_east, south_west, north_west, south_east
  <2> QED
    BY <1>0, <1>1, <1>3, <2>1, <2>3 DEF adjacent_opposite_coordinates
<1> QED
  BY <1>2, <1>3

(* Half of a number is not less than half of its predecessor. *)
LEMMA ShovedMonotone ==
  ASSUME NEW dim, NEW p \in Int
  PROVE  shoved(dim, p - 1) \in Int /\ shoved(dim, p) \in Int /\ shoved(dim, p - 1) <= shoved(dim, p)
<1>1. /\ (p - 1) \div 2 \in Int /\ p \div 2 \in Int /\ (p - 1) \div 2 <= p \div 2
      /\ ((p - 1) + 1) \div 2 \in Int /\ (p + 1) \div 2 \in Int /\ ((p - 1) + 1) \div 2 <= (p + 1) \div 2
  OBVIOUS
<1>2. p - 1 \in Int
  OBVIOUS
<1> QED
  BY <1>1, <1>2, Shoving

(* North-west never leads south or east, south-east never north or west. *)
LEMMA Slants ==
  ASSUME NEW dim, IsLayout(dim), hexagonal(dim), NEW t \in ground_tiles(dim)
  PROVE  /\ LET u == towards(dim, t, IF pointy_top(dim) THEN <<0, 1, -1>> ELSE <<-1, 1, 0>>)
             IN  u[1] \in Int /\ u[2] \in Int /\ u[1] <= t[1] /\ u[2] <= t[2]
         /\ LET u == towards(dim, t, IF pointy_top(dim) THEN <<0, -1, 1>> ELSE <<1, -1, 0>>)
             IN  u[1] \in Int /\ u[2] \in Int /\ u[1] >= t[1] /\ u[2] >= t[2]
<1> DEFINE x == t[1]
           y == t[2]
<1>1. x \in Int /\ y \in Int
  BY Ground
<1>2. CASE pointy_top(dim)
  <2> DEFINE v == <<0, 1, -1>>
             w == <<0, -1, 1>>
  <2>0. v[1] = 0 /\ v[3] = -1 /\ w[1] = 0 /\ w[3] = 1
    OBVIOUS
  <2> HIDE DEF v, w
  <2>1. /\ towards(dim, t, v)[1] = ((x - shoved(dim, y)) + v[1]) + shoved(dim, y + v[3])
        /\ towards(dim, t, v)[2] = y + v[3]
    BY <1>2 DEF towards, to_cube_coordinate, to_offset_coordinate, cube
  <2>2. /\ towards(dim, t, w)[1] = ((x - shoved(dim, y)) + w[1]) + shoved(dim, y + w[3])
        /\ towards(dim, t, w)[2] = y + w[3]
    BY <1>2 DEF towards, to_cube_coordinate, to_offset_coordinate, cube
  <2>3. y + v[3] = y - 1 /\ y + w[3] = y + 1 /\ (y + 1) - 1 = y /\ y + 1 \in Int
    BY <1>1, <2>0
  <2>4. /\ shoved(dim, y - 1) \in Int /\ shoved(dim, y) \in Int /\ shoved(dim, y + 1) \in Int
        /\ shoved(dim, y - 1) <= shoved(dim, y) /\ shoved(dim, y) <= shoved(dim, y + 1)
    BY <1>1, <2>3, ShovedMonotone
  <2>5. /\ towards(dim, t, v)[1] = (x - shoved(dim, y)) + shoved(dim, y - 1) /\ towards(dim, t, v)[2] = y - 1
        /\ towards(dim, t, w)[1] = (x - shoved(dim, y)) + shoved(dim, y + 1) /\ towards(dim, t, w)[2] = y + 1
    BY <1>1, <2>0, <2>1, <2>2, <2>3, <2>4
  <2> HIDE DEF x, y
  <2>6. /\ towards(dim, t, v)[1] \in Int /\ towards(dim, t, v)[1] <= x /\ towards(dim, t, v)[2] \in Int
        /\ towards(dim, t, v)[2] <= y
        /\ towards(dim, t, w)[1] \in Int /\ towards(dim, t, w)[1] >= x /\ towards(dim, t, w)[2] \in Int
        /\ towards(dim, t, w)[2] >= y
    BY <1>1, <2>4, <2>5
  <2> QED
    BY <1>2, <2>6 DEF v, w, x, y
<1>3. CASE ~ pointy_top(dim)
  <2> DEFINE v == <<-1, 1, 0>>
             w == <<1, -1, 0>>
  <2>0. v[1] = -1 /\ v[3] = 0 /\ w[1] = 1 /\ w[3] = 0
    OBVIOUS
  <2> HIDE DEF v, w
  <2>1. /\ towards(dim, t, v)[2] = ((y - shoved(dim, x)) + v[3]) + shoved(dim, x + v[1])
        /\ towards(dim, t, v)[1] = x + v[1]
    BY <1>3 DEF towards, to_cube_coordinate, to_offset_coordinate, cube
  <2>2. /\ towards(dim, t, w)[2] = ((y - shoved(dim, x)) + w[3]) + shoved(dim, x + w[1])
        /\ towards(dim, t, w)[1] = x + w[1]
    BY <1>3 DEF towards, to_cube_coordinate, to_offset_coordinate, cube
  <2>3. x + v[1] = x - 1 /\ x + w[1] = x + 1 /\ (x + 1) - 1 = x /\ x + 1 \in Int
    BY <1>1, <2>0
  <2>4. /\ shoved(dim, x - 1) \in Int /\ shoved(dim, x) \in Int /\ shoved(dim, x + 1) \in Int
        /\ shoved(dim, x - 1) <= shoved(dim, x) /\ shoved(dim, x) <= shoved(dim, x + 1)
    BY <1>1, <2>3, ShovedMonotone
  <2>5. /\ towards(dim, t, v)[2] = (y - shoved(dim, x)) + shoved(dim, x - 1) /\ towards(dim, t, v)[1] = x - 1
        /\ towards(dim, t, w)[2] = (y - shoved(dim, x)) + shoved(dim, x + 1) /\ towards(dim, t, w)[1] = x + 1
    BY <1>1, <2>0, <2>1, <2>2, <2>3, <2>4
  <2> HIDE DEF x, y
  <2>6. /\ towards(dim, t, v)[1] \in Int /\ towards(dim, t, v)[1] <= x /\ towards(dim, t, v)[2] \in Int
        /\ towards(dim, t, v)[2] <= y
        /\ towards(dim, t, w)[1] \in Int /\ towards(dim, t, w)[1] >= x /\ towards(dim, t, w)[2] \in Int
        /\ towards(dim, t, w)[2] >= y
    BY <1>1, <2>4, <2>5
  <2> QED
    BY <1>3, <2>6 DEF v, w, x, y
<1> QED
  BY <1>2, <1>3

(* The directions that couplers and gates of ToPoliNano are bound to. *)
LEMMA SlantsGrow ==
  ASSUME NEW i, NEW d, NEW D, Grows(i, d, D), hexagonal(d)
  PROVE  /\ \A t \in ground_tiles(d) :
              /\ north_west(D, t) = north_west(d, t)
              /\ north_east(d, t) # t => north_east(D, t) = north_east(d, t)
              /\ south_east(d, t) # t => south_east(D, t) = south_east(d, t)
              /\ south_east(D, t) \in ground_tiles(d) => south_east(d, t) = south_east(D, t)
              /\ south_east(D, t) \in ground_tiles(D)
         /\ \A t \in new_border(i, D) : south_east(D, t) \in new_border(i, D)
<1>0. IsLayout(d) /\ IsLayout(D) /\ hexagonal(D) /\ i \in {1, 2} /\ D[i] = d[i] + 1 /\ d[i] \in Nat /\ D[i] \in Nat
  BY DEF Grows, IsLayout
<1>1. ASSUME NEW t \in ground_tiles(d)
      PROVE  /\ north_west(D, t) = north_west(d, t)
             /\ north_east(d, t) # t => north_east(D, t) = north_east(d, t)
             /\ south_east(d, t) # t => south_east(D, t) = south_east(d, t)
             /\ south_east(D, t) \in ground_tiles(d) => south_east(d, t) = south_east(D, t)
             /\ south_east(D, t) \in ground_tiles(D)
  <2> DEFINE nw == IF pointy_top(d) THEN <<0, 1, -1>> ELSE <<-1, 1, 0>>
             se == IF pointy_top(d) THEN <<0, -1, 1>> ELSE <<1, -1, 0>>
             ne == <<1, 0, -1>>
  <2>1. pointy_top(D) <=> pointy_top(d)
    BY TowardsGrows
  <2>2. nw \in cube_directions /\ se \in cube_directions /\ ne \in cube_directions
    BY Directions
  <2>3. /\ north_west(d, t) = towards_or_stay(d, t, nw) /\ north_west(D, t) = towards_or_stay(D, t, nw)
        /\ south_east(d, t) = towards_or_stay(d, t, se) /\ south_east(D, t) = towards_or_stay(D, t, se)
        /\ north_east(d, t) = towards_or_stay(d, t, ne) /\ north_east(D, t) = towards_or_stay(D, t, ne)
    BY <2>1 DEF north_west, south_east, north_east
  <2>4. LET u == towards(d, t, nw) IN u[1] \in Int /\ u[2] \in Int /\ u[1] <= t[1] /\ u[2] <= t[2]
    BY <1>0, Slants
  <2> HIDE DEF nw, se, ne
  <2>5. north_west(D, t) = north_west(d, t)
    <3> DEFINE u == towards(d, t, nw)
    <3>1. towards(D, t, nw) = u
      BY TowardsGrows
    <3>2. /\ on_layout(d, u) <=> u \in ground_tiles(d)
          /\ on_layout(D, u) <=> u \in ground_tiles(D)
      BY <2>2, OnLayoutGrows
    <3>3. u[i] # D[i]
      BY <1>0, <2>4, Ground
    <3> HIDE DEF u
    <3>4. u \in ground_tiles(D) <=> u \in ground_tiles(d)
      BY <3>3, GroundGrows DEF new_border
    <3> QED
      BY <2>3, <3>1, <3>2, <3>4 DEF u, towards_or_stay
  <2> QED
    BY <2>2, <2>3, <2>5, StayGrows
<1>2. ASSUME NEW t \in new_border(i, D)
      PROVE  south_east(D, t) \in new_border(i, D)
  <2> DEFINE se == IF pointy_top(D) THEN <<0, -1, 1>> ELSE <<1, -1, 0>>
             u == towards(D, t, se)
  <2>1. se \in cube_directions
    BY Directions
  <2>2. t \in ground_tiles(D) /\ t[i] = D[i]
    BY DEF new_border
  <2>3. u[1] \in Int /\ u[2] \in Int /\ u[1] >= t[1] /\ u[2] >= t[2]
    BY <1>0, <2>2, Slants
  <2>4. on_layout(D, u) <=> u \in ground_tiles(D)
    BY <1>0, <2>1, <2>2, Towards
  <2>5. south_east(D, t) = IF on_layout(D, u) THEN u ELSE t
    BY DEF south_east, towards_or_stay
  <2> HIDE DEF u
  <2>6. u \in ground_tiles(D) => u[i] = D[i]
    BY <1>0, <2>2, <2>3, Ground
  <2> QED
    BY <2>2, <2>4, <2>5, <2>6 DEF new_border
<1> QED
  BY <1>1, <1>2

-----------------------------------------------------------------------------
(* A solver state is extended: old is what a new solver was told for the   *)
(* smaller layout, new what one would be told for the larger, and cp what  *)
(* the extended solver is told.  lit is the literal that is negated.       *)
Extends(i, old, cp, new, lit) ==
  /\ Grows(i, old.dim, new.dim)
  /\ old.added = ground_tiles(old.dim) /\ old.updated = {}
  /\ new.added = ground_tiles(new.dim) /\ new.updated = {}
  /\ cp.dim = new.dim /\ cp.e = new.e /\ cp.s = new.s
  /\ cp.added = new_border(i, new.dim) /\ cp.updated = old_border(i, new.dim)
  /\ lit = (IF i = 1 THEN old.e ELSE old.s)
  /\ i = 1 => new.s = old.s
  /\ i = 2 => new.e = old.e
  /\ lit \notin {new.e, new.s}

(* Redundant constraints that stay redundant while the layout grows. *)
Spare(dim, c) ==
  /\ c.guard = {}
  /\ \/ c.kind \in {"too early", "too late"}
     \/ c.kind = "insufficient" /\ c.tile \in ground_tiles(dim) /\ c.tile[1] # dim[1] /\ c.tile[2] # dim[2]
     \/ c.kind = "one tile" /\ c.zones.out \subseteq ground_tiles(dim) /\ c.zones.out # ground_tiles(dim)

(* Successions that are overlooked. *)
succession(t, e, u) == constraint("succession", t, e, [in |-> {}, out |-> {u}], {})
Passed(c) == \E t, e, u : c = succession(t, e, u) /\ (u[1] < t[1] \/ u[2] < t[2])

(* What is kept of Old and what is said Now is in New, and New has nothing *)
(* else, spare and overlooked constraints aside.                           *)
Carries(lit, dim, Old, Now, New) ==
  /\ \A c \in Old : lit \notin c.guard => c \in New \/ Spare(dim, c)
  /\ \A c \in Now : c \in New \/ Spare(dim, c)
  /\ \A c \in New : c \in Now \/ (c \in Old /\ lit \notin c.guard) \/ Passed(c) \/ Spare(dim, c)

LEMMA CarriesUnion ==
  ASSUME NEW lit, NEW dim, NEW O1, NEW N1, NEW W1, NEW O2, NEW N2, NEW W2,
         Carries(lit, dim, O1, N1, W1), Carries(lit, dim, O2, N2, W2)
  PROVE  Carries(lit, dim, O1 \cup O2, N1 \cup N2, W1 \cup W2)
  BY DEF Carries

LEMMA CarriesNothing ==
  ASSUME NEW lit, NEW dim
  PROVE  Carries(lit, dim, {}, {}, {})
  BY DEF Carries

LEMMA Fields ==
  ASSUME NEW k, NEW t, NEW i, NEW z, NEW g
  PROVE  /\ constraint(k, t, i, z, g).kind = k
         /\ constraint(k, t, i, z, g).tile = t
         /\ constraint(k, t, i, z, g).zones = z
         /\ constraint(k, t, i, z, g).guard = g
         /\ [constraint(k, t, i, z, g) EXCEPT !.guard = {}] = constraint(k, t, i, z, {})
  BY DEF constraint

(* The tiles that were there, the ones that are added, and those that are  *)
(* updated.                                                                *)
LEMMA Tiles ==
  ASSUME NEW i, NEW old, NEW cp, NEW new, NEW lit, Extends(i, old, cp, new, lit)
  PROVE  /\ \A t : t \in new.added <=> t \in old.added \/ t \in cp.added
         /\ \A t \in old.added : t \notin cp.added
         /\ \A t \in cp.updated : t \in old.added
         /\ \A t \in old.added : t \notin cp.updated => t[i] # old.dim[i]
         /\ \A t \in cp.updated : t[i] = old.dim[i]
  BY GroundGrows DEF Extends

-----------------------------------------------------------------------------
(* What is said of a tile once, when it is added. *)
LEMMA ElementsCarry ==
  ASSUME NEW i, NEW old, NEW cp, NEW new, NEW lit, Extends(i, old, cp, new, lit)
  PROVE  Carries(lit, new.dim, restrict_tile_elements(old), restrict_tile_elements(cp), restrict_tile_elements(new))
  BY Tiles, Fields DEF Carries, restrict_tile_elements, for_tile

LEMMA ClocksCarry ==
  ASSUME NEW i, NEW old, NEW cp, NEW new, NEW lit, Extends(i, old, cp, new, lit)
  PROVE  Carries(lit, new.dim, restrict_clocks(old), restrict_clocks(cp), restrict_clocks(new))
  BY Tiles, Fields DEF Carries, restrict_clocks, for_tile

LEMMA SynchronizationElementsCarry ==
  ASSUME NEW i, NEW old, NEW cp, NEW new, NEW lit, Extends(i, old, cp, new, lit)
  PROVE  Carries(lit, new.dim, restrict_synchronization_elements(old), restrict_synchronization_elements(cp), restrict_synchronization_elements(new))
  BY Tiles, Fields DEF Carries, restrict_synchronization_elements, for_tile

LEMMA AcyclicCarries ==
  ASSUME NEW i, NEW old, NEW cp, NEW new, NEW lit, Extends(i, old, cp, new, lit)
  PROVE  Carries(lit, new.dim, eliminate_cycles(old), eliminate_cycles(cp), eliminate_cycles(new))
  BY Tiles, Fields DEF Carries, eliminate_cycles, for_tile

LEMMA PiClockingsCarry ==
  ASSUME NEW i, NEW old, NEW cp, NEW new, NEW lit, Extends(i, old, cp, new, lit), NEW P
  PROVE  Carries(lit, new.dim, assign_pi_clockings(P, old), assign_pi_clockings(P, cp), assign_pi_clockings(P, new))
<1> DEFINE about(t, n) == constraint("pi clock", t, <<n>>, NoZones, {})
           inputs == pis(P.ntk)
           all(x) == {about(t, n) : t \in x.added, n \in inputs}
           timed == set(P, "border_io") /\ is_linear_scheme(P.scheme)
<1>1. \A x : assign_pi_clockings(P, x) = IF timed THEN {} ELSE all(x)
  BY DEF assign_pi_clockings
<1>2. \A t, n : about(t, n).guard = {}
  BY DEF constraint
<1> HIDE DEF about, inputs, timed
<1>3. Carries(lit, new.dim, all(old), all(cp), all(new))
  BY <1>2, Tiles DEF Carries
<1> HIDE DEF all
<1> QED
  BY <1>1, <1>3, CarriesNothing

LEMMA EntryTilesCarry ==
  ASSUME NEW i, NEW old, NEW cp, NEW new, NEW lit, Extends(i, old, cp, new, lit), NEW P
  PROVE  Carries(lit, new.dim, restrict_2ddwave_entry_tiles(P, old), restrict_2ddwave_entry_tiles(P, cp),
                 restrict_2ddwave_entry_tiles(P, new))
<1> DEFINE about(n, t) == forbidden("entry", t, <<n>>)
           inputs == pis(P.ntk)
           late(t) == t[1] > P.scheme.num_clocks - 1 \/ t[2] > P.scheme.num_clocks - 1
<1>1. /\ restrict_2ddwave_entry_tiles(P, old) = {about(n, t) : n \in inputs, t \in {t \in old.added : late(t)}}
      /\ restrict_2ddwave_entry_tiles(P, cp) = {about(n, t) : n \in inputs, t \in {t \in cp.added : late(t)}}
      /\ restrict_2ddwave_entry_tiles(P, new) = {about(n, t) : n \in inputs, t \in {t \in new.added : late(t)}}
  BY DEF restrict_2ddwave_entry_tiles
<1>2. \A n, t : about(n, t).guard = {}
  BY Fields DEF forbidden
<1> HIDE DEF about, inputs, late
<1> QED
  BY <1>1, <1>2, Tiles DEF Carries

LEMMA EmptyClocksCarry ==
  ASSUME NEW i, NEW old, NEW cp, NEW new, NEW lit, Extends(i, old, cp, new, lit)
  PROVE  Carries(lit, new.dim, {for_tile("empty clock", t, NoZones, {}) : t \in old.added},
                 {for_tile("empty clock", t, NoZones, {}) : t \in cp.added},
                 {for_tile("empty clock", t, NoZones, {}) : t \in new.added})
<1> DEFINE about(t) == for_tile("empty clock", t, NoZones, {})
<1>1. \A t : about(t).guard = {}
  BY DEF for_tile, constraint
<1> HIDE DEF about
<1>2. Carries(lit, new.dim, {about(t) : t \in old.added}, {about(t) : t \in cp.added}, {about(t) : t \in new.added})
  BY <1>1, Tiles DEF Carries
<1> QED
  BY <1>2 DEF about

LEMMA CouplersCarry ==
  ASSUME NEW i, NEW old, NEW cp, NEW new, NEW lit, Extends(i, old, cp, new, lit), NEW P, hexagonal(old.dim)
  PROVE  Carries(lit, new.dim, enter_couplers(P, old), enter_couplers(P, cp), enter_couplers(P, new))
<1> DEFINE couplers == {n \in Nodes(P.ntk) : is_coupler(P, n) /\ network_in_degree(P, n) # 0}
           entry(dim, t, n) ==
             IF north_west(dim, t) = t THEN forbidden("coupler", t, <<n>>)
             ELSE constraint("enter", t, <<n>>, [in |-> {north_west(dim, t)}, out |-> {}], {})
<1>1. \A t \in old.added : north_west(new.dim, t) = north_west(old.dim, t)
  BY SlantsGrow DEF Extends
<1>2. \A t \in old.added : \A n : entry(new.dim, t, n) = entry(old.dim, t, n)
  BY <1>1
<1>3. \A t, n : entry(cp.dim, t, n) = entry(new.dim, t, n)
  BY DEF Extends
<1>4. \A dim, t, n : entry(dim, t, n).guard = {}
  BY Fields DEF forbidden
<1>5. /\ enter_couplers(P, old) = {entry(old.dim, t, n) : t \in old.added, n \in couplers}
      /\ enter_couplers(P, cp) = {entry(cp.dim, t, n) : t \in cp.added, n \in couplers}
      /\ enter_couplers(P, new) = {entry(new.dim, t, n) : t \in new.added, n \in couplers}
  BY DEF enter_couplers
<1> HIDE DEF couplers, entry
<1> QED
  BY <1>2, <1>3, <1>4, <1>5, Tiles DEF Carries

-----------------------------------------------------------------------------
(* What is said of a tile and its neighbours, as if the border stays. *)
LEMMA GuardsCarry ==
  ASSUME NEW i, NEW old, NEW cp, NEW new, NEW lit, Extends(i, old, cp, new, lit)
  PROVE  /\ \A t : mk_as_if_se(cp, t) = mk_as_if_se(new, t) /\ lit \notin mk_as_if_se(new, t)
         /\ \A t \in old.added : t \notin cp.updated => mk_as_if_se(old, t) = mk_as_if_se(new, t)
         /\ \A t \in cp.updated : lit \in mk_as_if_se(old, t)
<1>1. i \in {1, 2} /\ old.dim[1] \in Nat /\ old.dim[2] \in Nat /\ IsLayout(old.dim)
  BY DEF Extends, Grows, IsLayout
<1>2. \A t : mk_as_if_se(cp, t) = mk_as_if_se(new, t) /\ lit \notin mk_as_if_se(new, t)
  BY DEF Extends, mk_as_if_se, is_at_eastern_border, is_at_southern_border
<1>3. ASSUME NEW t \in old.added, t \notin cp.updated
      PROVE  mk_as_if_se(old, t) = mk_as_if_se(new, t)
  <2>1. t[i] # old.dim[i] /\ t[1] \in Nat /\ t[2] \in Nat /\ t[1] <= old.dim[1] /\ t[2] <= old.dim[2]
    BY <1>1, <1>3, Tiles, Ground DEF Extends
  <2>2. CASE i = 1
    <3>1. t[1] # old.dim[1] /\ t[1] # new.dim[1] /\ new.dim[2] = old.dim[2] /\ new.s = old.s
      BY <1>1, <2>1, <2>2 DEF Extends, Grows
    <3> QED
      BY <3>1 DEF mk_as_if_se, is_at_eastern_border, is_at_southern_border
  <2>3. CASE i = 2
    <3>1. t[2] # old.dim[2] /\ t[2] # new.dim[2] /\ new.dim[1] = old.dim[1] /\ new.e = old.e
      BY <1>1, <2>1, <2>3 DEF Extends, Grows
    <3> QED
      BY <3>1 DEF mk_as_if_se, is_at_eastern_border, is_at_southern_border
  <2> QED
    BY <1>1, <2>2, <2>3
<1>4. ASSUME NEW t \in cp.updated
      PROVE  lit \in mk_as_if_se(old, t)
  <2>1. t[i] = old.dim[i]
    BY <1>4, Tiles
  <2> QED
    BY <1>1, <2>1 DEF Extends, mk_as_if_se, is_at_eastern_border, is_at_southern_border
<1> QED
  BY <1>2, <1>3, <1>4

LEMMA ZonesCarry ==
  ASSUME NEW i, NEW old, NEW cp, NEW new, NEW lit, Extends(i, old, cp, new, lit), NEW P
  PROVE  /\ \A t : zones(P, cp, t) = zones(P, new, t) /\ straight_ways(P, cp, t) = straight_ways(P, new, t)
         /\ \A t \in old.added : t \notin cp.updated =>
              zones(P, old, t) = zones(P, new, t) /\ straight_ways(P, old, t) = straight_ways(P, new, t)
<1>0. cp.dim = new.dim
  BY DEF Extends
<1>1. \A t : zones(P, cp, t) = zones(P, new, t) /\ straight_ways(P, cp, t) = straight_ways(P, new, t)
  BY <1>0 DEF zones, straight_ways
<1>2. ASSUME NEW t \in old.added, t \notin cp.updated
      PROVE  zones(P, old, t) = zones(P, new, t) /\ straight_ways(P, old, t) = straight_ways(P, new, t)
  <2>1. t \in ground_tiles(old.dim) /\ t[i] # old.dim[i] /\ Grows(i, old.dim, new.dim)
    BY <1>2, Tiles DEF Extends
  <2>2. adjacent_coordinates(old.dim, t) = adjacent_coordinates(new.dim, t)
    BY <2>1, NeighboursGrow
  <2>3. adjacent_opposite_coordinates(old.dim, t) = adjacent_opposite_coordinates(new.dim, t)
    BY <2>1, OppositesGrow
  <2>4. zones(P, old, t) = zones(P, new, t)
    BY <2>2 DEF zones, predecessors, successors, incoming_clocked_zones, outgoing_clocked_zones
  <2>5. straight_ways(P, old, t) = straight_ways(P, new, t)
    BY <2>3 DEF straight_ways
  <2> QED
    BY <2>4, <2>5
<1> QED
  BY <1>1, <1>2

LEMMA NeighboursCarry ==
  ASSUME NEW i, NEW old, NEW cp, NEW new, NEW lit, Extends(i, old, cp, new, lit), NEW P, NEW kind
  PROVE  Carries(lit, new.dim, for_added_and_updated(P, old, kind), for_added_and_updated(P, cp, kind),
                 for_added_and_updated(P, new, kind))
<1> DEFINE about(x, t) == constraint(kind, t, << >>, zones(P, x, t), mk_as_if_se(x, t))
<1>1. \A t : about(cp, t) = about(new, t)
  BY GuardsCarry, ZonesCarry
<1>2. \A t \in old.added : t \notin cp.updated => about(old, t) = about(new, t)
  BY GuardsCarry, ZonesCarry
<1>3. \A t : lit \notin about(new, t).guard
  BY GuardsCarry, Fields
<1>4. \A t \in cp.updated : lit \in about(old, t).guard
  BY GuardsCarry, Fields
<1>5. /\ for_added_and_updated(P, old, kind) = {about(old, t) : t \in old.added}
      /\ for_added_and_updated(P, cp, kind) = {about(cp, t) : t \in cp.added \cup cp.updated}
      /\ for_added_and_updated(P, new, kind) = {about(new, t) : t \in new.added}
  BY DEF for_added_and_updated, for_tile, Extends
<1> HIDE DEF about
<1> QED
  BY <1>1, <1>2, <1>3, <1>4, <1>5, Tiles DEF Carries

LEMMA InvertersCarry ==
  ASSUME NEW i, NEW old, NEW cp, NEW new, NEW lit, Extends(i, old, cp, new, lit), NEW P
  PROVE  Carries(lit, new.dim, enforce_straight_inverters(P, old), enforce_straight_inverters(P, cp),
                 enforce_straight_inverters(P, new))
<1> DEFINE invs == {n \in Nodes(P.ntk) : is_inv(P.ntk, n)}
           about(x, n, t) == constraint("straight", t, <<n>>, [in |-> {}, out |-> straight_ways(P, x, t)], mk_as_if_se(x, t))
<1>0. /\ \A t : mk_as_if_se(cp, t) = mk_as_if_se(new, t) /\ straight_ways(P, cp, t) = straight_ways(P, new, t)
      /\ \A t \in old.added : t \notin cp.updated =>
           mk_as_if_se(old, t) = mk_as_if_se(new, t) /\ straight_ways(P, old, t) = straight_ways(P, new, t)
  BY GuardsCarry, ZonesCarry
<1>1. \A n, t : about(cp, n, t) = about(new, n, t)
  BY <1>0
<1>2. \A n : \A t \in old.added : t \notin cp.updated => about(old, n, t) = about(new, n, t)
  BY <1>0
<1>3. \A n, t : lit \notin about(new, n, t).guard
  BY GuardsCarry, Fields
<1>4. \A n : \A t \in cp.updated : lit \in about(old, n, t).guard
  BY GuardsCarry, Fields
<1>5. /\ enforce_straight_inverters(P, old) = {about(old, n, t) : n \in invs, t \in old.added}
      /\ enforce_straight_inverters(P, cp) = {about(cp, n, t) : n \in invs, t \in cp.added \cup cp.updated}
      /\ enforce_straight_inverters(P, new) = {about(new, n, t) : n \in invs, t \in new.added}
  BY DEF enforce_straight_inverters, Extends
<1> HIDE DEF about, invs
<1> QED
  BY <1>1, <1>2, <1>3, <1>4, <1>5, Tiles DEF Carries

-----------------------------------------------------------------------------
(* What is said of all tiles, and of the tiles away from the borders. *)
LEMMA VerticesCarry ==
  ASSUME NEW i, NEW old, NEW cp, NEW new, NEW lit, Extends(i, old, cp, new, lit), NEW P
  PROVE  Carries(lit, new.dim, restrict_vertices(P, old), restrict_vertices(P, cp), restrict_vertices(P, new))
<1> DEFINE all(x) == [in |-> {}, out |-> ground_tiles(x.dim)]
           some(x, n) == constraint("some tile", NoTile, <<n>>, all(x), {x.e, x.s})
           one(x, n) == constraint("one tile", NoTile, <<n>>, all(x), {})
           nodes == Nodes(P.ntk)
<1>1. \A x : restrict_vertices(P, x) = {some(x, n) : n \in nodes} \cup {one(x, n) : n \in nodes}
  BY DEF restrict_vertices
<1>2. \A n : some(cp, n) = some(new, n) /\ one(cp, n) = one(new, n)
  BY DEF Extends
<1>3. \A n : lit \in some(old, n).guard
  BY DEF Extends, constraint
<1>4. \A n : Spare(new.dim, one(old, n))
  <2>1. ground_tiles(old.dim) \subseteq ground_tiles(new.dim) /\ ground_tiles(old.dim) # ground_tiles(new.dim)
    BY GroundGrows DEF Extends
  <2> QED
    BY <2>1 DEF Spare, constraint
<1> HIDE DEF some, one, nodes
<1> QED
  BY <1>1, <1>2, <1>3, <1>4 DEF Carries

LEMMA LengthCarries ==
  ASSUME NEW i, NEW old, NEW cp, NEW new, NEW lit, Extends(i, old, cp, new, lit), NEW P
  PROVE  Carries(lit, new.dim, define_length(P, old), define_length(P, cp), define_length(P, new))
<1> DEFINE about(x, n) == constraint("length", NoTile, <<n>>, [in |-> {}, out |-> ground_tiles(x.dim)], {x.e, x.s})
           nodes == outputs(P)
<1>1. \A x : define_length(P, x) = {about(x, n) : n \in nodes}
  BY DEF define_length
<1>2. \A n : about(cp, n) = about(new, n)
  BY DEF Extends
<1>3. \A n : lit \in about(old, n).guard
  BY DEF Extends, constraint
<1> HIDE DEF about, nodes
<1> QED
  BY <1>1, <1>2, <1>3 DEF Carries

LEMMA SynchronizationCarries ==
  ASSUME NEW i, NEW old, NEW cp, NEW new, NEW lit, Extends(i, old, cp, new, lit), NEW P
  PROVE  Carries(lit, new.dim, global_synchronization(P, old), global_synchronization(P, cp),
                 global_synchronization(P, new))
<1> DEFINE diagonal == set(P, "border_io") /\ P.scheme.name \in {"2DDWAVE", "2DDWAVEHEX"}
           straight == set(P, "border_io") /\ P.scheme.name \in {"COLUMNAR", "ROW"}
<1>1. \A x : global_synchronization(P, x) =
             CASE diagonal -> restrict_2ddwave_entry_tiles(P, x) [] straight -> {} [] OTHER -> define_length(P, x)
  BY DEF global_synchronization
<1>2. ~ (diagonal /\ straight)
  OBVIOUS
<1> HIDE DEF diagonal, straight
<1>3. \A x : /\ diagonal => global_synchronization(P, x) = restrict_2ddwave_entry_tiles(P, x)
             /\ straight => global_synchronization(P, x) = {}
             /\ ~ diagonal /\ ~ straight => global_synchronization(P, x) = define_length(P, x)
  BY <1>1, <1>2
<1> QED
  BY <1>3, CarriesNothing, LengthCarries, EntryTilesCarry

(* A tile that was away from a border is still, and one that is away from  *)
(* it now was before unless it is updated.                                 *)
LEMMA BordersGrow ==
  ASSUME NEW i, NEW old, NEW cp, NEW new, NEW lit, Extends(i, old, cp, new, lit), NEW t \in old.added
  PROVE  /\ is_at_eastern_border(new.dim, t) => is_at_eastern_border(old.dim, t)
         /\ is_at_southern_border(new.dim, t) => is_at_southern_border(old.dim, t)
         /\ is_at_any_border(new.dim, t) => is_at_any_border(old.dim, t)
         /\ t \notin cp.updated =>
              /\ is_at_eastern_border(old.dim, t) => is_at_eastern_border(new.dim, t)
              /\ is_at_southern_border(old.dim, t) => is_at_southern_border(new.dim, t)
              /\ is_at_any_border(old.dim, t) => is_at_any_border(new.dim, t)
<1>1. /\ i \in {1, 2} /\ IsLayout(old.dim) /\ old.dim[1] \in Nat /\ old.dim[2] \in Nat
      /\ t \in ground_tiles(old.dim)
      /\ i = 1 => new.dim[1] = old.dim[1] + 1 /\ new.dim[2] = old.dim[2]
      /\ i = 2 => new.dim[1] = old.dim[1] /\ new.dim[2] = old.dim[2] + 1
  BY DEF Extends, Grows, IsLayout
<1>2. t[1] \in Nat /\ t[2] \in Nat /\ t[1] <= old.dim[1] /\ t[2] <= old.dim[2]
  BY <1>1, Ground
<1>3. t \notin cp.updated => t[i] # old.dim[i]
  BY Tiles
<1>4. CASE i = 1
  BY <1>1, <1>2, <1>3, <1>4 DEF is_at_eastern_border, is_at_southern_border, is_at_any_border
<1>5. CASE i = 2
  BY <1>1, <1>2, <1>3, <1>5 DEF is_at_eastern_border, is_at_southern_border, is_at_any_border
<1> QED
  BY <1>1, <1>4, <1>5

Away(nodes, T) == {forbidden("border", t, <<n>>) : n \in nodes, t \in T}

LEMMA AwayCarries ==
  ASSUME NEW lit, NEW dim, NEW nodes, NEW A, NEW B, NEW C,
         A \subseteq C, B \subseteq C, C \subseteq A \cup B
  PROVE  Carries(lit, dim, Away(nodes, A), Away(nodes, B), Away(nodes, C))
<1> DEFINE about(n, t) == forbidden("border", t, <<n>>)
<1>1. \A n, t : about(n, t).guard = {}
  BY DEF forbidden, constraint
<1>2. \A T : Away(nodes, T) = {about(n, t) : n \in nodes, t \in T}
  BY DEF Away
<1> HIDE DEF about
<1> QED
  BY <1>1, <1>2 DEF Carries

LEMMA BorderIoCarries ==
  ASSUME NEW i, NEW old, NEW cp, NEW new, NEW lit, Extends(i, old, cp, new, lit), NEW P
  PROVE  Carries(lit, new.dim, enforce_border_io(P, old), enforce_border_io(P, cp), enforce_border_io(P, new))
<1> DEFINE all(x) == x.added \cup x.updated
           ins == pis(P.ntk)
           outs == outputs(P)
           west_of(x) == {t \in x.added : t[1] # 0}
           north_of(x) == {t \in x.added : t[2] # 0}
           east_of(x) == {t \in all(x) : ~ is_at_eastern_border(x.dim, t)}
           south_of(x) == {t \in all(x) : ~ is_at_southern_border(x.dim, t)}
           inner(x) == {t \in all(x) : ~ is_at_any_border(x.dim, t)}
<1>1. \A x : enforce_border_io(P, x) =
             CASE P.scheme.name = "COLUMNAR" -> Away(ins, west_of(x)) \cup Away(outs, east_of(x))
               [] P.scheme.name = "ROW" -> Away(ins, north_of(x)) \cup Away(outs, south_of(x))
               [] OTHER -> Away(ins \cup outs, inner(x))
  BY DEF enforce_border_io, Away
<1>2. cp.dim = new.dim /\ old.updated = {} /\ new.updated = {}
  BY DEF Extends
<1>3. \A t : t \in all(new) <=> t \in old.added \/ t \in cp.added
  BY <1>2, Tiles
<1>4. \A nodes : Carries(lit, new.dim, Away(nodes, west_of(old)), Away(nodes, west_of(cp)), Away(nodes, west_of(new)))
  <2>1. west_of(old) \subseteq west_of(new) /\ west_of(cp) \subseteq west_of(new)
        /\ west_of(new) \subseteq west_of(old) \cup west_of(cp)
    BY Tiles
  <2> HIDE DEF west_of, north_of, east_of, south_of, inner
  <2> QED
    BY <2>1, AwayCarries
<1>5. \A nodes : Carries(lit, new.dim, Away(nodes, north_of(old)), Away(nodes, north_of(cp)), Away(nodes, north_of(new)))
  <2>1. north_of(old) \subseteq north_of(new) /\ north_of(cp) \subseteq north_of(new)
        /\ north_of(new) \subseteq north_of(old) \cup north_of(cp)
    BY Tiles
  <2> HIDE DEF west_of, north_of, east_of, south_of, inner
  <2> QED
    BY <2>1, AwayCarries
<1>6. \A nodes : Carries(lit, new.dim, Away(nodes, east_of(old)), Away(nodes, east_of(cp)), Away(nodes, east_of(new)))
  <2>1. east_of(old) \subseteq east_of(new) /\ east_of(cp) \subseteq east_of(new)
        /\ east_of(new) \subseteq east_of(old) \cup east_of(cp)
    BY <1>2, Tiles, BordersGrow
  <2> HIDE DEF west_of, north_of, east_of, south_of, inner
  <2> QED
    BY <2>1, AwayCarries
<1>7. \A nodes : Carries(lit, new.dim, Away(nodes, south_of(old)), Away(nodes, south_of(cp)), Away(nodes, south_of(new)))
  <2>1. south_of(old) \subseteq south_of(new) /\ south_of(cp) \subseteq south_of(new)
        /\ south_of(new) \subseteq south_of(old) \cup south_of(cp)
    BY <1>2, Tiles, BordersGrow
  <2> HIDE DEF west_of, north_of, east_of, south_of, inner
  <2> QED
    BY <2>1, AwayCarries
<1>8. \A nodes : Carries(lit, new.dim, Away(nodes, inner(old)), Away(nodes, inner(cp)), Away(nodes, inner(new)))
  <2>1. inner(old) \subseteq inner(new) /\ inner(cp) \subseteq inner(new)
        /\ inner(new) \subseteq inner(old) \cup inner(cp)
    BY <1>2, Tiles, BordersGrow
  <2> HIDE DEF west_of, north_of, east_of, south_of, inner
  <2> QED
    BY <2>1, AwayCarries
<1> HIDE DEF ins, outs, west_of, north_of, east_of, south_of, inner
<1>9. CASE P.scheme.name = "COLUMNAR"
  BY <1>1, <1>4, <1>6, <1>9, CarriesUnion
<1>10. CASE P.scheme.name = "ROW"
  BY <1>1, <1>5, <1>7, <1>10, CarriesUnion
<1>11. CASE P.scheme.name \notin {"COLUMNAR", "ROW"}
  BY <1>1, <1>8, <1>11
<1> QED
  BY <1>9, <1>10, <1>11

-----------------------------------------------------------------------------
(* What is said of pairs and triples of tiles when the last of them is     *)
(* added.                                                                  *)
sub_path(t, u) == for_tile("sub path", t, [in |-> {}, out |-> {u}], {})

LEMMA SubPaths ==
  ASSUME NEW P, NEW x, NEW c
  PROVE  c \in establish_sub_paths(P, x) <=>
           \E t \in ground_tiles(x.dim) : \E u \in successors(P, x.dim, t) :
             (t \in x.added \/ u \in x.added) /\ c = sub_path(t, u)
<1> DEFINE near(t) == {u \in successors(P, x.dim, t) : {t, u} \cap x.added # {}}
           T == ground_tiles(x.dim)
<1>1. establish_sub_paths(P, x) = UNION {{sub_path(t, u) : u \in near(t)} : t \in T}
  BY DEF establish_sub_paths, sub_path
<1>2. \A t, u : u \in near(t) <=> u \in successors(P, x.dim, t) /\ (t \in x.added \/ u \in x.added)
  OBVIOUS
<1> HIDE DEF near, T
<1>3. ASSUME c \in establish_sub_paths(P, x)
      PROVE  \E t \in T : \E u \in near(t) : c = sub_path(t, u)
  <2>1. PICK S \in {{sub_path(t, u) : u \in near(t)} : t \in T} : c \in S
    BY <1>1, <1>3
  <2>2. PICK t \in T : S = {sub_path(t, u) : u \in near(t)}
    BY <2>1
  <2>3. PICK u \in near(t) : c = sub_path(t, u)
    BY <2>1, <2>2
  <2> QED
    BY <2>3
<1>4. ASSUME NEW t \in T, NEW u \in near(t)
      PROVE  sub_path(t, u) \in establish_sub_paths(P, x)
  <2>1. sub_path(t, u) \in {sub_path(t, v) : v \in near(t)}
    OBVIOUS
  <2> QED
    BY <1>1, <2>1
<1> QED
  BY <1>2, <1>3, <1>4 DEF T

(* Tiles that were there have the same successors among themselves. *)
LEMMA SuccessorsGrow ==
  ASSUME NEW i, NEW d, NEW D, Grows(i, d, D), NEW P, NEW t \in ground_tiles(d)
  PROVE  /\ \A u \in successors(P, d, t) : u \in ground_tiles(d) /\ u \in successors(P, D, t)
         /\ \A u \in successors(P, D, t) : u \in ground_tiles(D) /\ (u \in ground_tiles(d) => u \in successors(P, d, t))
         /\ \A u \in outgoing_clocked_zones(P.scheme, d, t) :
              u \in ground_tiles(d) /\ u \in outgoing_clocked_zones(P.scheme, D, t)
         /\ \A u \in outgoing_clocked_zones(P.scheme, D, t) :
              u \in ground_tiles(D) /\ (u \in ground_tiles(d) => u \in outgoing_clocked_zones(P.scheme, d, t))
  BY NeighboursGrow DEF successors, outgoing_clocked_zones

LEMMA SubPathsCarry ==
  ASSUME NEW i, NEW old, NEW cp, NEW new, NEW lit, Extends(i, old, cp, new, lit), NEW P
  PROVE  Carries(lit, new.dim, establish_sub_paths(P, old), establish_sub_paths(P, cp), establish_sub_paths(P, new))
<1>1. /\ Grows(i, old.dim, new.dim) /\ cp.dim = new.dim
      /\ old.added = ground_tiles(old.dim) /\ new.added = ground_tiles(new.dim)
  BY DEF Extends
<1>2. \A t, u : sub_path(t, u).guard = {}
  BY DEF sub_path, for_tile, constraint
<1>3. ASSUME NEW c \in establish_sub_paths(P, old)
      PROVE  c \in establish_sub_paths(P, new)
  <2>0. PICK t \in ground_tiles(old.dim) : \E u \in successors(P, old.dim, t) : c = sub_path(t, u)
    BY <1>3, SubPaths
  <2>1. PICK u \in successors(P, old.dim, t) : c = sub_path(t, u)
    BY <2>0
  <2>2. t \in new.added /\ u \in successors(P, new.dim, t)
    BY <1>1, SuccessorsGrow, Tiles
  <2> QED
    BY <1>1, <2>1, <2>2, SubPaths
<1>4. ASSUME NEW c \in establish_sub_paths(P, cp)
      PROVE  c \in establish_sub_paths(P, new)
  <2>0. PICK t \in ground_tiles(new.dim) : \E u \in successors(P, new.dim, t) : c = sub_path(t, u)
    BY <1>1, <1>4, SubPaths
  <2>1. PICK u \in successors(P, new.dim, t) : c = sub_path(t, u)
    BY <2>0
  <2> QED
    BY <1>1, <2>1, SubPaths
<1>5. ASSUME NEW c \in establish_sub_paths(P, new)
      PROVE  c \in establish_sub_paths(P, cp) \/ c \in establish_sub_paths(P, old)
  <2>0. PICK t \in ground_tiles(new.dim) : \E u \in successors(P, new.dim, t) : c = sub_path(t, u)
    BY <1>5, SubPaths
  <2>1. PICK u \in successors(P, new.dim, t) : c = sub_path(t, u)
    BY <2>0
  <2>2. CASE t \in cp.added \/ u \in cp.added
    BY <1>1, <2>1, <2>2, SubPaths
  <2>3. CASE t \notin cp.added /\ u \notin cp.added
    <3>1. t \in ground_tiles(old.dim)
      BY <1>1, <2>3, Tiles
    <3>2. u \in ground_tiles(old.dim) /\ u \in successors(P, old.dim, t)
      BY <1>1, <2>3, <3>1, SuccessorsGrow, Tiles
    <3> QED
      BY <1>1, <2>1, <3>1, <3>2, SubPaths
  <2> QED
    BY <2>2, <2>3
<1> QED
  BY <1>2, <1>3, <1>4, <1>5, SubPaths DEF Carries

through(s, t, u) == for_tile("transitive", t, [in |-> {s}, out |-> {u}], {})

LEMMA TransitivePaths ==
  ASSUME NEW x, NEW c
  PROVE  c \in establish_transitive_paths(x) <=>
           \E s, t, u \in ground_tiles(x.dim) :
             /\ s # t /\ t # u /\ (s \in x.added \/ t \in x.added \/ u \in x.added)
             /\ c = through(s, t, u)
<1> DEFINE T == ground_tiles(x.dim)
           near(w) == w[1] # w[2] /\ w[2] # w[3] /\ {w[1], w[2], w[3]} \cap x.added # {}
           ways == {w \in T \X T \X T : near(w)}
<1>1. establish_transitive_paths(x) = {through(w[1], w[2], w[3]) : w \in ways}
  BY DEF establish_transitive_paths, through
<1>2. ASSUME c \in establish_transitive_paths(x)
      PROVE  \E s, t, u \in T :
               /\ s # t /\ t # u /\ (s \in x.added \/ t \in x.added \/ u \in x.added)
               /\ c = through(s, t, u)
  <2>1. PICK w \in T \X T \X T : near(w) /\ c = through(w[1], w[2], w[3])
    BY <1>1, <1>2
  <2>2. w[1] \in T /\ w[2] \in T /\ w[3] \in T
    BY <2>1
  <2>3. w[1] \in x.added \/ w[2] \in x.added \/ w[3] \in x.added
    BY <2>1
  <2> QED
    BY <2>1, <2>2, <2>3, Zenon
<1>3. ASSUME NEW s \in T, NEW t \in T, NEW u \in T,
             s # t, t # u, s \in x.added \/ t \in x.added \/ u \in x.added
      PROVE  through(s, t, u) \in establish_transitive_paths(x)
  <2> DEFINE w == <<s, t, u>>
  <2>1. w[1] = s /\ w[2] = t /\ w[3] = u /\ w \in T \X T \X T
    OBVIOUS
  <2> HIDE DEF w, T
  <2>2. w \in ways
    BY <1>3, <2>1
  <2> QED
    BY <1>1, <2>1, <2>2
<1> QED
  BY <1>2, <1>3, Zenon

LEMMA TransitivePathsCarry ==
  ASSUME NEW i, NEW old, NEW cp, NEW new, NEW lit, Extends(i, old, cp, new, lit)
  PROVE  Carries(lit, new.dim, establish_transitive_paths(old), establish_transitive_paths(cp),
                 establish_transitive_paths(new))
<1>1. /\ cp.dim = new.dim
      /\ old.added = ground_tiles(old.dim) /\ new.added = ground_tiles(new.dim)
  BY DEF Extends
<1>2. \A s, t, u : through(s, t, u).guard = {}
  BY DEF through, for_tile, constraint
<1>3. \A x, c : c \in establish_transitive_paths(x) <=>
        \E s, t, u \in ground_tiles(x.dim) :
          /\ s # t /\ t # u /\ (s \in x.added \/ t \in x.added \/ u \in x.added)
          /\ c = through(s, t, u)
  BY TransitivePaths
<1>4. \A c \in establish_transitive_paths(old) : c \in establish_transitive_paths(new) /\ c.guard = {}
  BY <1>1, <1>2, <1>3, Tiles
<1>5. \A c \in establish_transitive_paths(cp) : c \in establish_transitive_paths(new)
  BY <1>1, <1>3, Tiles
<1>6. \A c \in establish_transitive_paths(new) :
        c \in establish_transitive_paths(cp) \/ c \in establish_transitive_paths(old)
  BY <1>1, <1>3, Tiles
<1> QED
  BY <1>2, <1>4, <1>5, <1>6 DEF Carries

-----------------------------------------------------------------------------
(* ToPoliNano. *)
LEMMA Successions ==
  ASSUME NEW P, NEW x, NEW c
  PROVE  c \in prohibit_successions(P, x) <=>
           \E t \in ground_tiles(x.dim) : \E u \in outgoing_clocked_zones(P.scheme, x.dim, t) : \E e \in conflicts(P) :
             u \in x.added /\ c = succession(t, e, u)
<1> DEFINE next(t) == outgoing_clocked_zones(P.scheme, x.dim, t) \cap x.added
           T == ground_tiles(x.dim)
           E == conflicts(P)
           said(t) == {succession(t, e, u) : u \in next(t), e \in E}
<1>1. prohibit_successions(P, x) = UNION {said(t) : t \in T}
  BY DEF prohibit_successions, succession
<1>2. \A t, u : u \in next(t) <=> u \in outgoing_clocked_zones(P.scheme, x.dim, t) /\ u \in x.added
  OBVIOUS
<1> HIDE DEF next, T, E
<1>3. \A t : c \in said(t) <=> \E u \in next(t), e \in E : c = succession(t, e, u)
  OBVIOUS
<1> HIDE DEF said
<1>4. c \in prohibit_successions(P, x) <=> \E t \in T : c \in said(t)
  BY <1>1
<1>5. c \in prohibit_successions(P, x) <=> \E t \in T : \E u \in next(t) : \E e \in E : c = succession(t, e, u)
  BY <1>3, <1>4
<1> QED
  BY <1>2, <1>5 DEF T, E

(* Successions from an added tile to one that was there are overlooked. *)
LEMMA SuccessionsCarry ==
  ASSUME NEW i, NEW old, NEW cp, NEW new, NEW lit, Extends(i, old, cp, new, lit), NEW P
  PROVE  Carries(lit, new.dim, prohibit_successions(P, old), prohibit_successions(P, cp), prohibit_successions(P, new))
<1> DEFINE next(x, t) == outgoing_clocked_zones(P.scheme, x.dim, t)
<1>1. /\ Grows(i, old.dim, new.dim) /\ cp.dim = new.dim
      /\ old.added = ground_tiles(old.dim) /\ new.added = ground_tiles(new.dim)
  BY DEF Extends
<1>2. \A t, e, u : succession(t, e, u).guard = {}
  BY DEF succession, constraint
<1>3. ASSUME NEW c \in prohibit_successions(P, old)
      PROVE  c \in prohibit_successions(P, new) /\ c.guard = {}
  <2>1. PICK t \in ground_tiles(old.dim) : \E u \in next(old, t) : \E e \in conflicts(P) : c = succession(t, e, u)
    BY <1>3, Successions
  <2>2. PICK u \in next(old, t) : \E e \in conflicts(P) : c = succession(t, e, u)
    BY <2>1
  <2>3. t \in ground_tiles(new.dim) /\ u \in next(new, t) /\ u \in new.added
    BY <1>1, SuccessorsGrow, Tiles
  <2> QED
    BY <1>2, <2>2, <2>3, Successions
<1>4. ASSUME NEW c \in prohibit_successions(P, cp)
      PROVE  c \in prohibit_successions(P, new)
  <2>1. PICK t \in ground_tiles(new.dim) : \E u \in next(new, t) : \E e \in conflicts(P) :
          u \in cp.added /\ c = succession(t, e, u)
    BY <1>1, <1>4, Successions
  <2> QED
    BY <2>1, Successions, Tiles
<1>5. ASSUME NEW c \in prohibit_successions(P, new)
      PROVE  c \in prohibit_successions(P, cp) \/ c \in prohibit_successions(P, old) \/ Passed(c)
  <2>1. PICK t \in ground_tiles(new.dim) : \E u \in next(new, t) : \E e \in conflicts(P) :
          u \in new.added /\ c = succession(t, e, u)
    BY <1>5, Successions
  <2>2. PICK u \in next(new, t), e \in conflicts(P) : u \in new.added /\ c = succession(t, e, u)
    BY <2>1
  <2>3. CASE u \in cp.added
    BY <1>1, <2>2, <2>3, Successions
  <2>4. CASE u \in old.added /\ t \in old.added
    <3>1. u \in next(old, t)
      BY <1>1, <2>4, SuccessorsGrow
    <3> QED
      BY <1>1, <2>2, <2>4, <3>1, Successions
  <2>5. CASE u \in old.added /\ t \in cp.added
    <3>1. /\ i \in {1, 2} /\ t[i] = new.dim[i] /\ u[i] <= old.dim[i] /\ new.dim[i] = old.dim[i] + 1
          /\ u[1] \in Nat /\ u[2] \in Nat /\ old.dim[i] \in Nat
      BY <1>1, <2>5, GroundGrows, Ground DEF Extends, Grows, IsLayout, new_border
    <3>2. u[1] < t[1] \/ u[2] < t[2]
      BY <3>1
    <3> QED
      BY <2>2, <3>2 DEF Passed
  <2> QED
    BY <1>1, <2>2, <2>3, <2>4, <2>5, Tiles
<1> QED
  BY <1>3, <1>4, <1>5 DEF Carries

leaving(kind, t, n, u) == constraint(kind, t, <<n>>, [in |-> {}, out |-> {u}], {})

LEMMA LeavingGates ==
  ASSUME NEW P, NEW x, NEW c
  PROVE  c \in leave_gates(P, x) <=>
           \E t \in ground_tiles(x.dim) : \E n \in {n \in Nodes(P.ntk) : is_majority_gate(P, n)} :
             \/ north_east(x.dim, t) # t /\ c = leaving("crossing behind", t, n, north_east(x.dim, t))
             \/ south_east(x.dim, t) \in x.added \ {t} /\ c = leaving("exit", t, n, south_east(x.dim, t))
<1> DEFINE T == ground_tiles(x.dim)
           gates == {n \in Nodes(P.ntk) : is_majority_gate(P, n)}
           ne(t) == north_east(x.dim, t)
           se(t) == south_east(x.dim, t)
           upper(t) == {leaving("crossing behind", t, n, ne(t)) : n \in gates}
           lower(t) == {leaving("exit", t, n, se(t)) : n \in gates}
           said(t) == (IF ne(t) = t THEN {} ELSE upper(t)) \cup (IF se(t) \in x.added \ {t} THEN lower(t) ELSE {})
<1>1. leave_gates(P, x) = UNION {said(t) : t \in T}
  BY DEF leave_gates, leaving
<1>2. \A t : c \in said(t) <=> \E n \in gates :
               \/ ne(t) # t /\ c = leaving("crossing behind", t, n, ne(t))
               \/ se(t) \in x.added \ {t} /\ c = leaving("exit", t, n, se(t))
  <2> HIDE DEF gates, ne, se
  <2> QED
    OBVIOUS
<1> HIDE DEF T, said
<1>3. c \in leave_gates(P, x) <=> \E t \in T : c \in said(t)
  BY <1>1
<1> HIDE DEF gates, ne, se
<1>4. c \in leave_gates(P, x) <=> \E t \in T : \E n \in gates :
               \/ ne(t) # t /\ c = leaving("crossing behind", t, n, ne(t))
               \/ se(t) \in x.added \ {t} /\ c = leaving("exit", t, n, se(t))
  BY <1>2, <1>3
<1> QED
  BY <1>4 DEF T, gates, ne, se

LEMMA LeavingGatesCarries ==
  ASSUME NEW i, NEW old, NEW cp, NEW new, NEW lit, Extends(i, old, cp, new, lit), NEW P, hexagonal(old.dim)
  PROVE  Carries(lit, new.dim, leave_gates(P, old), leave_gates(P, cp), leave_gates(P, new))
<1> DEFINE gates == {n \in Nodes(P.ntk) : is_majority_gate(P, n)}
           says(x, t, n, c) ==
             \/ north_east(x.dim, t) # t /\ c = leaving("crossing behind", t, n, north_east(x.dim, t))
             \/ south_east(x.dim, t) \in x.added \ {t} /\ c = leaving("exit", t, n, south_east(x.dim, t))
<1>1. /\ Grows(i, old.dim, new.dim) /\ cp.dim = new.dim /\ cp.added = new_border(i, new.dim)
      /\ old.added = ground_tiles(old.dim) /\ new.added = ground_tiles(new.dim)
  BY DEF Extends
<1>2. \A x, c : c \in leave_gates(P, x) <=> \E t \in ground_tiles(x.dim) : \E n \in gates : says(x, t, n, c)
  BY LeavingGates, ZenonT(60)
<1>3. \A x, t, n, c : says(x, t, n, c) => c.guard = {}
  <2>1. \A k, t, n, u : leaving(k, t, n, u).guard = {}
    BY DEF leaving, constraint
  <2> QED
    BY <2>1
<1>4. ASSUME NEW t \in ground_tiles(old.dim), NEW n, NEW c, says(old, t, n, c)
      PROVE  t \in ground_tiles(new.dim) /\ says(new, t, n, c)
  <2>1. /\ t \in ground_tiles(new.dim)
        /\ north_east(old.dim, t) # t => north_east(new.dim, t) = north_east(old.dim, t)
        /\ south_east(old.dim, t) # t => south_east(new.dim, t) = south_east(old.dim, t)
    BY <1>1, SlantsGrow, Tiles
  <2>2. \A u \in old.added : u \in new.added
    BY Tiles
  <2> QED
    BY <1>4, <2>1, <2>2
<1>5. \A t, n, c : says(cp, t, n, c) => says(new, t, n, c)
  <2>1. \A u \in cp.added : u \in new.added
    BY Tiles
  <2> QED
    BY <1>1, <2>1
<1>6. ASSUME NEW t \in ground_tiles(new.dim), NEW n, NEW c, says(new, t, n, c)
      PROVE  says(cp, t, n, c) \/ (t \in ground_tiles(old.dim) /\ says(old, t, n, c))
  <2>1. CASE t \in cp.added
    <3>1. south_east(new.dim, t) \in cp.added
      BY <1>1, <2>1, SlantsGrow
    <3> QED
      BY <1>1, <1>6, <3>1
  <2>2. CASE t \notin cp.added
    <3>1. t \in ground_tiles(old.dim)
      BY <1>1, <2>2, Tiles
    <3>2. /\ south_east(new.dim, t) \in old.added => south_east(old.dim, t) = south_east(new.dim, t)
          /\ south_east(new.dim, t) \in cp.added \/ south_east(new.dim, t) \in old.added
      BY <1>1, <3>1, SlantsGrow, Tiles
    <3> QED
      BY <1>1, <1>6, <3>1, <3>2
  <2> QED
    BY <2>1, <2>2
<1> HIDE DEF says, gates
<1>7. \A c \in leave_gates(P, old) : c \in leave_gates(P, new) /\ c.guard = {}
  BY <1>2, <1>3, <1>4
<1>8. \A c \in leave_gates(P, cp) : c \in leave_gates(P, new)
  BY <1>1, <1>2, <1>5
<1>9. \A c \in leave_gates(P, new) : c \in leave_gates(P, cp) \/ c \in leave_gates(P, old)
  BY <1>1, <1>2, <1>6
<1> QED
  BY <1>7, <1>8, <1>9 DEF Carries

LEMMA TechnologyCarries ==
  ASSUME NEW i, NEW old, NEW cp, NEW new, NEW lit, Extends(i, old, cp, new, lit), NEW P,
         set(P, "topolinano") => hexagonal(old.dim)
  PROVE  Carries(lit, new.dim, technology_specific_constraints(P, old), technology_specific_constraints(P, cp),
                 technology_specific_constraints(P, new))
<1>1. \A x : technology_specific_constraints(P, x) =
             IF set(P, "topolinano")
             THEN (prohibit_successions(P, x) \cup enter_couplers(P, x)) \cup leave_gates(P, x)
             ELSE {}
  BY DEF technology_specific_constraints
<1>2. CASE set(P, "topolinano")
  <2>1. hexagonal(old.dim)
    BY <1>2
  <2> DEFINE two(x) == prohibit_successions(P, x) \cup enter_couplers(P, x)
  <2>2. Carries(lit, new.dim, two(old), two(cp), two(new))
    BY <2>1, SuccessionsCarry, CouplersCarry, CarriesUnion
  <2>3. Carries(lit, new.dim, leave_gates(P, old), leave_gates(P, cp), leave_gates(P, new))
    BY <2>1, LeavingGatesCarries
  <2> HIDE DEF two
  <2>4. Carries(lit, new.dim, two(old) \cup leave_gates(P, old), two(cp) \cup leave_gates(P, cp),
                two(new) \cup leave_gates(P, new))
    BY <2>2, <2>3, CarriesUnion
  <2> QED
    BY <1>1, <1>2, <2>4 DEF two
<1>3. CASE ~ set(P, "topolinano")
  BY <1>1, <1>3, CarriesNothing
<1> QED
  BY <1>2, <1>3

-----------------------------------------------------------------------------
(* Symmetry breaking. *)
LEMMA Insufficiencies ==
  ASSUME NEW P, NEW x, NEW T, NEW c \in insufficiencies(P, x, T)
  PROVE  c.kind = "insufficient" /\ c.tile \in T /\ c.guard = {}
<1> DEFINE said(t) == {forbidden("insufficient", t, j) : j \in insufficient(P, x, t)}
<1>1. PICK t \in T : c \in said(t)
  <2>1. insufficiencies(P, x, T) = UNION {said(t) : t \in T}
    BY DEF insufficiencies
  <2> HIDE DEF said
  <2> QED
    BY <2>1
<1>2. PICK j \in insufficient(P, x, t) : c = forbidden("insufficient", t, j)
  BY <1>1
<1> QED
  BY <1>2 DEF forbidden, constraint

LEMMA InsufficienciesCarry ==
  ASSUME NEW i, NEW old, NEW cp, NEW new, NEW lit, Extends(i, old, cp, new, lit), NEW P
  PROVE  Carries(lit, new.dim, prevent_insufficiencies(P, old), prevent_insufficiencies(P, cp),
                 prevent_insufficiencies(P, new))
<1>1. ASSUME NEW x, x.updated = {}, NEW c
      PROVE  c \notin prevent_insufficiencies(P, x)
  BY <1>1, Insufficiencies DEF prevent_insufficiencies
<1>2. ASSUME NEW c \in prevent_insufficiencies(P, cp)
      PROVE  Spare(new.dim, c)
  <2>1. c.kind = "insufficient" /\ c.guard = {} /\ c.tile \in cp.updated /\ ~ is_growing(cp, c.tile)
    <3> DEFINE T == {t \in cp.updated : ~ is_growing(cp, t)}
    <3>1. c \in insufficiencies(P, cp, T)
      BY <1>2 DEF prevent_insufficiencies
    <3> HIDE DEF T
    <3>2. c.kind = "insufficient" /\ c.guard = {} /\ c.tile \in T
      BY <3>1, Insufficiencies
    <3> QED
      BY <3>2 DEF T
  <2>2. cp.dim = new.dim /\ c.tile \in ground_tiles(new.dim)
    BY <2>1, Tiles DEF Extends
  <2>3. c.tile[1] # new.dim[1] /\ c.tile[2] # new.dim[2]
    BY <2>1, <2>2 DEF is_growing, mk_as_if_se, is_at_eastern_border, is_at_southern_border
  <2> QED
    BY <2>1, <2>2, <2>3 DEF Spare
<1> QED
  BY <1>1, <1>2 DEF Carries, Extends

LEMMA ConnectionsCarry ==
  ASSUME NEW i, NEW old, NEW cp, NEW new, NEW lit, Extends(i, old, cp, new, lit), NEW P
  PROVE  Carries(lit, new.dim, define_number_of_connections(P, old), define_number_of_connections(P, cp),
                 define_number_of_connections(P, new))
<1> DEFINE empty(x) == {for_tile("empty clock", t, NoZones, {}) : t \in x.added}
<1>1. \A x : define_number_of_connections(P, x) =
             for_added_and_updated(P, x, "connections") \cup (IF P.scheme.regular THEN {} ELSE empty(x))
  BY DEF define_number_of_connections
<1>2. Carries(lit, new.dim, empty(old), empty(cp), empty(new))
  BY EmptyClocksCarry
<1> HIDE DEF empty
<1> DEFINE rest(x) == IF P.scheme.regular THEN {} ELSE empty(x)
<1>3. Carries(lit, new.dim, rest(old), rest(cp), rest(new))
  BY <1>2, CarriesNothing
<1>4. Carries(lit, new.dim, for_added_and_updated(P, old, "connections"), for_added_and_updated(P, cp, "connections"),
              for_added_and_updated(P, new, "connections"))
  BY NeighboursCarry
<1> HIDE DEF rest
<1>5. Carries(lit, new.dim, for_added_and_updated(P, old, "connections") \cup rest(old),
              for_added_and_updated(P, cp, "connections") \cup rest(cp),
              for_added_and_updated(P, new, "connections") \cup rest(new))
  BY <1>3, <1>4, CarriesUnion
<1> QED
  BY <1>1, <1>5 DEF rest

LEMMA TooEarly ==
  ASSUME NEW P, NEW x
  PROVE  \A c \in utilize_hierarchical_information(P, x) : c.kind = "too early" /\ c.guard = {}
<1> DEFINE items(n) == {<<n>>} \cup Range(outgoing_edges(P.ntk, n))
           early(n) == too_early(P, x, levels(P.ntk)[n])
           about(t, i) == forbidden("too early", t, i)
           said(n) == {about(t, i) : t \in early(n), i \in items(n)}
<1>1. utilize_hierarchical_information(P, x) = IF ~ set(P, "border_io") THEN {} ELSE UNION {said(n) : n \in Nodes(P.ntk)}
  BY DEF utilize_hierarchical_information
<1> SUFFICES ASSUME NEW c \in utilize_hierarchical_information(P, x)
             PROVE  c.kind = "too early" /\ c.guard = {}
  OBVIOUS
<1>2. PICK n : c \in said(n)
  <2> HIDE DEF said
  <2> QED
    BY <1>1
<1> HIDE DEF items, early, about
<1>3. PICK t \in early(n), i \in items(n) : c = about(t, i)
  BY <1>2
<1> QED
  BY <1>3 DEF about, forbidden, constraint

LEMMA HierarchyCarries ==
  ASSUME NEW lit, NEW dim, NEW old, NEW cp, NEW new, NEW P
  PROVE  Carries(lit, dim, utilize_hierarchical_information(P, old), utilize_hierarchical_information(P, cp),
                 utilize_hierarchical_information(P, new))
  BY TooEarly DEF Carries, Spare

-----------------------------------------------------------------------------
(* All together: growth by a column or a row. *)
LEMMA InstanceCarries ==
  ASSUME NEW i, NEW old, NEW cp, NEW new, NEW lit, Extends(i, old, cp, new, lit), NEW P,
         set(P, "topolinano") => hexagonal(old.dim)
  PROVE  Carries(lit, new.dim, generate_smt_instance(P, old), generate_smt_instance(P, cp),
                 generate_smt_instance(P, new))
<1> DEFINE clocks(x) == assign_pi_clockings(P, x) \cup global_synchronization(P, x)
           paths(x) == (establish_sub_paths(P, x) \cup establish_transitive_paths(x)) \cup eliminate_cycles(x)
           p0(x) == restrict_tile_elements(x) \cup restrict_vertices(P, x)
           p1(x) == p0(x) \cup for_added_and_updated(P, x, "gate fanout") \cup for_added_and_updated(P, x, "gate fanin")
           p2(x) == p1(x) \cup for_added_and_updated(P, x, "wire fanout") \cup for_added_and_updated(P, x, "wire fanin")
           p3(x) == p2(x) \cup (IF set(P, "desynchronize") THEN {} ELSE clocks(x))
           p4(x) == p3(x) \cup (IF P.scheme.regular THEN {} ELSE restrict_clocks(x))
           p5(x) == p4(x) \cup (IF is_linear_scheme(P.scheme) THEN {} ELSE paths(x))
           p6(x) == p5(x) \cup (IF set(P, "border_io") THEN enforce_border_io(P, x) ELSE {})
           p7(x) == p6(x) \cup (IF set(P, "straight_inverters") THEN enforce_straight_inverters(P, x) ELSE {})
           p8(x) == p7(x) \cup (IF synchronizes(P) THEN restrict_synchronization_elements(x) ELSE {})
           p9(x) == p8(x) \cup technology_specific_constraints(P, x)
           p10(x) == p9(x) \cup prevent_insufficiencies(P, x) \cup define_number_of_connections(P, x)
<1>1. \A x : generate_smt_instance(P, x) = p10(x) \cup utilize_hierarchical_information(P, x)
  BY DEF generate_smt_instance, define_gate_fanout_tiles, define_gate_fanin_tiles, define_wire_fanout_tiles,
         define_wire_fanin_tiles
<1> USE CarriesUnion, CarriesNothing
<1>2. Carries(lit, new.dim, p0(old), p0(cp), p0(new))
  BY ElementsCarry, VerticesCarry
<1> HIDE DEF p0
<1>3. Carries(lit, new.dim, p1(old), p1(cp), p1(new))
  BY <1>2, NeighboursCarry
<1> HIDE DEF p1
<1>4. Carries(lit, new.dim, p2(old), p2(cp), p2(new))
  BY <1>3, NeighboursCarry
<1> HIDE DEF p2
<1>5. Carries(lit, new.dim, clocks(old), clocks(cp), clocks(new))
  BY PiClockingsCarry, SynchronizationCarries
<1> HIDE DEF clocks
<1>6. Carries(lit, new.dim, p3(old), p3(cp), p3(new))
  BY <1>4, <1>5
<1> HIDE DEF p3
<1>7. Carries(lit, new.dim, p4(old), p4(cp), p4(new))
  BY <1>6, ClocksCarry
<1> HIDE DEF p4
<1>8. Carries(lit, new.dim, paths(old), paths(cp), paths(new))
  BY SubPathsCarry, TransitivePathsCarry, AcyclicCarries
<1> HIDE DEF paths
<1>9. Carries(lit, new.dim, p5(old), p5(cp), p5(new))
  BY <1>7, <1>8
<1> HIDE DEF p5
<1>10. Carries(lit, new.dim, p6(old), p6(cp), p6(new))
  BY <1>9, BorderIoCarries
<1> HIDE DEF p6
<1>11. Carries(lit, new.dim, p7(old), p7(cp), p7(new))
  BY <1>10, InvertersCarry
<1> HIDE DEF p7
<1>12. Carries(lit, new.dim, p8(old), p8(cp), p8(new))
  BY <1>11, SynchronizationElementsCarry
<1> HIDE DEF p8
<1>13. Carries(lit, new.dim, p9(old), p9(cp), p9(new))
  BY <1>12, TechnologyCarries
<1> HIDE DEF p9
<1>14. Carries(lit, new.dim, p10(old), p10(cp), p10(new))
  BY <1>13, InsufficienciesCarry, ConnectionsCarry
<1> HIDE DEF p10
<1> QED
  BY <1>1, <1>14, HierarchyCarries

-----------------------------------------------------------------------------
(* What a new solver is told does not depend on its literals: two check    *)
(* points that differ in them only have the same constraints, apart from   *)
(* guards, and guards are made of the literals at hand.                    *)
SameTiles(x, y) == x.dim = y.dim /\ x.added = y.added /\ x.updated = y.updated

SaysTheSame(b, c) ==
  /\ b.kind = c.kind /\ b.tile = c.tile /\ b.zones = c.zones
  /\ [b EXCEPT !.guard = {}] = [c EXCEPT !.guard = {}]

Alike(x, A, B) == \A c \in A : c.guard \subseteq {x.e, x.s} /\ \E b \in B : SaysTheSame(b, c)

LEMMA ApartFromGuards ==
  ASSUME NEW k, NEW t, NEW i, NEW z, NEW g, NEW h
  PROVE  SaysTheSame(constraint(k, t, i, z, g), constraint(k, t, i, z, h))
  BY Fields DEF SaysTheSame

LEMMA Itself ==
  ASSUME NEW c
  PROVE  SaysTheSame(c, c)
  BY DEF SaysTheSame

LEMMA AlikeUnion ==
  ASSUME NEW x, NEW A1, NEW B1, NEW A2, NEW B2, Alike(x, A1, B1), Alike(x, A2, B2)
  PROVE  Alike(x, A1 \cup A2, B1 \cup B2)
  BY DEF Alike

LEMMA AlikeNothing ==
  ASSUME NEW x
  PROVE  Alike(x, {}, {})
  BY DEF Alike

LEMMA AlikeSame ==
  ASSUME NEW x, NEW A, \A c \in A : c.guard = {}
  PROVE  Alike(x, A, A)
  BY Itself DEF Alike

(* Constraints that only depend on the added tiles. *)
LEMMA AddedAlike ==
  ASSUME NEW x, NEW y, SameTiles(x, y), NEW P
  PROVE  /\ Alike(x, restrict_tile_elements(x), restrict_tile_elements(y))
         /\ Alike(x, restrict_clocks(x), restrict_clocks(y))
         /\ Alike(x, restrict_synchronization_elements(x), restrict_synchronization_elements(y))
         /\ Alike(x, eliminate_cycles(x), eliminate_cycles(y))
         /\ Alike(x, assign_pi_clockings(P, x), assign_pi_clockings(P, y))
         /\ Alike(x, restrict_2ddwave_entry_tiles(P, x), restrict_2ddwave_entry_tiles(P, y))
         /\ Alike(x, {for_tile("empty clock", t, NoZones, {}) : t \in x.added},
                  {for_tile("empty clock", t, NoZones, {}) : t \in y.added})
         /\ Alike(x, enforce_border_io(P, x), enforce_border_io(P, y))
<1>1. x.added = y.added /\ x.updated = y.updated /\ x.dim = y.dim
  BY DEF SameTiles
<1>2. \A k, t, n : forbidden(k, t, n).guard = {} /\ for_tile(k, t, NoZones, {}).guard = {}
                   /\ constraint(k, t, n, NoZones, {}).guard = {}
  BY DEF forbidden, for_tile, constraint
<1>3. Alike(x, restrict_tile_elements(x), restrict_tile_elements(y))
  <2>1. restrict_tile_elements(x) = restrict_tile_elements(y)
    BY <1>1 DEF restrict_tile_elements
  <2>2. \A c \in restrict_tile_elements(x) : c.guard = {}
    BY <1>2 DEF restrict_tile_elements
  <2> QED
    BY <2>1, <2>2, AlikeSame
<1>4. Alike(x, restrict_clocks(x), restrict_clocks(y))
  <2>1. restrict_clocks(x) = restrict_clocks(y)
    BY <1>1 DEF restrict_clocks
  <2>2. \A c \in restrict_clocks(x) : c.guard = {}
    BY <1>2 DEF restrict_clocks
  <2> QED
    BY <2>1, <2>2, AlikeSame
<1>5. Alike(x, restrict_synchronization_elements(x), restrict_synchronization_elements(y))
  <2>1. restrict_synchronization_elements(x) = restrict_synchronization_elements(y)
    BY <1>1 DEF restrict_synchronization_elements
  <2>2. \A c \in restrict_synchronization_elements(x) : c.guard = {}
    BY <1>2 DEF restrict_synchronization_elements
  <2> QED
    BY <2>1, <2>2, AlikeSame
<1>6. Alike(x, eliminate_cycles(x), eliminate_cycles(y))
  <2>1. eliminate_cycles(x) = eliminate_cycles(y)
    BY <1>1 DEF eliminate_cycles
  <2>2. \A c \in eliminate_cycles(x) : c.guard = {}
    BY <1>2 DEF eliminate_cycles
  <2> QED
    BY <2>1, <2>2, AlikeSame
<1>7. Alike(x, assign_pi_clockings(P, x), assign_pi_clockings(P, y))
  <2>1. assign_pi_clockings(P, x) = assign_pi_clockings(P, y)
    BY <1>1 DEF assign_pi_clockings
  <2>2. \A c \in assign_pi_clockings(P, x) : c.guard = {}
    <3> DEFINE about(t, n) == constraint("pi clock", t, <<n>>, NoZones, {})
               inputs == pis(P.ntk)
               all == {about(t, n) : t \in x.added, n \in inputs}
    <3>1. \A t, n : about(t, n).guard = {}
      BY <1>2
    <3>2. assign_pi_clockings(P, x) = IF set(P, "border_io") /\ is_linear_scheme(P.scheme) THEN {} ELSE all
      BY DEF assign_pi_clockings
    <3> HIDE DEF about, inputs
    <3>3. \A c \in all : c.guard = {}
      BY <3>1
    <3> HIDE DEF all
    <3> QED
      BY <3>2, <3>3
  <2> QED
    BY <2>1, <2>2, AlikeSame
<1>8. Alike(x, restrict_2ddwave_entry_tiles(P, x), restrict_2ddwave_entry_tiles(P, y))
  <2>1. restrict_2ddwave_entry_tiles(P, x) = restrict_2ddwave_entry_tiles(P, y)
    BY <1>1 DEF restrict_2ddwave_entry_tiles
  <2>2. \A c \in restrict_2ddwave_entry_tiles(P, x) : c.guard = {}
    <3> DEFINE about(n, t) == forbidden("entry", t, <<n>>)
    <3>1. \A t, n : about(n, t).guard = {}
      BY <1>2
    <3>2. restrict_2ddwave_entry_tiles(P, x) =
            {about(n, t) : n \in pis(P.ntk),
               t \in {t \in x.added : t[1] > P.scheme.num_clocks - 1 \/ t[2] > P.scheme.num_clocks - 1}}
      BY DEF restrict_2ddwave_entry_tiles
    <3> HIDE DEF about
    <3> QED
      BY <3>1, <3>2
  <2> QED
    BY <2>1, <2>2, AlikeSame
<1>9. Alike(x, {for_tile("empty clock", t, NoZones, {}) : t \in x.added},
            {for_tile("empty clock", t, NoZones, {}) : t \in y.added})
  <2> DEFINE about(t) == for_tile("empty clock", t, NoZones, {})
  <2>1. \A t : about(t).guard = {}
    BY <1>2
  <2> HIDE DEF about
  <2>2. Alike(x, {about(t) : t \in x.added}, {about(t) : t \in y.added})
    BY <1>1, <2>1, Itself DEF Alike
  <2> QED
    BY <2>2 DEF about
<1>10. Alike(x, enforce_border_io(P, x), enforce_border_io(P, y))
  <2>1. enforce_border_io(P, x) = enforce_border_io(P, y)
    BY <1>1 DEF enforce_border_io
  <2>2. \A c \in enforce_border_io(P, x) : c.guard = {}
    <3>1. \A nodes, T : \A c \in Away(nodes, T) : c.guard = {}
      <4> DEFINE about(n, t) == forbidden("border", t, <<n>>)
      <4>1. \A nodes, T : Away(nodes, T) = {about(n, t) : n \in nodes, t \in T}
        BY DEF Away
      <4>2. \A n, t : about(n, t).guard = {}
        BY <1>2
      <4> HIDE DEF about
      <4> QED
        BY <4>1, <4>2
    <3> DEFINE all == x.added \cup x.updated
               a == Away(pis(P.ntk), {t \in x.added : t[1] # 0})
               b == Away(outputs(P), {t \in all : ~ is_at_eastern_border(x.dim, t)})
               c == Away(pis(P.ntk), {t \in x.added : t[2] # 0})
               d == Away(outputs(P), {t \in all : ~ is_at_southern_border(x.dim, t)})
               f == Away(pis(P.ntk) \cup outputs(P), {t \in all : ~ is_at_any_border(x.dim, t)})
    <3>2. enforce_border_io(P, x) =
            CASE P.scheme.name = "COLUMNAR" -> a \cup b [] P.scheme.name = "ROW" -> c \cup d [] OTHER -> f
      BY DEF enforce_border_io, Away
    <3>3. /\ \A r \in a \cup b : r.guard = {}
          /\ \A r \in c \cup d : r.guard = {}
          /\ \A r \in f : r.guard = {}
      BY <3>1
    <3> HIDE DEF a, b, c, d, f
    <3> QED
      BY <3>2, <3>3
  <2> QED
    BY <2>1, <2>2, AlikeSame
<1> QED
  BY <1>3, <1>4, <1>5, <1>6, <1>7, <1>8, <1>9, <1>10

(* Constraints of pairs and triples of tiles. *)
LEMMA PairsAlike ==
  ASSUME NEW x, NEW y, SameTiles(x, y), NEW P
  PROVE  /\ Alike(x, establish_sub_paths(P, x), establish_sub_paths(P, y))
         /\ Alike(x, establish_transitive_paths(x), establish_transitive_paths(y))
         /\ Alike(x, prohibit_successions(P, x), prohibit_successions(P, y))
         /\ Alike(x, leave_gates(P, x), leave_gates(P, y))
         /\ Alike(x, enter_couplers(P, x), enter_couplers(P, y))
<1>1. x.added = y.added /\ x.updated = y.updated /\ x.dim = y.dim
  BY DEF SameTiles
<1>2. Alike(x, establish_sub_paths(P, x), establish_sub_paths(P, y))
  <2>1. establish_sub_paths(P, x) = establish_sub_paths(P, y)
    BY <1>1 DEF establish_sub_paths
  <2>2. \A t, u : sub_path(t, u).guard = {}
    BY DEF sub_path, for_tile, constraint
  <2>3. \A c \in establish_sub_paths(P, x) : c.guard = {}
    BY <2>2, SubPaths
  <2> QED
    BY <2>1, <2>3, AlikeSame
<1>3. Alike(x, establish_transitive_paths(x), establish_transitive_paths(y))
  <2>1. establish_transitive_paths(x) = establish_transitive_paths(y)
    BY <1>1 DEF establish_transitive_paths
  <2>2. \A s, t, u : through(s, t, u).guard = {}
    BY DEF through, for_tile, constraint
  <2>3. \A c \in establish_transitive_paths(x) : c.guard = {}
    BY <2>2, TransitivePaths
  <2> QED
    BY <2>1, <2>3, AlikeSame
<1>4. Alike(x, prohibit_successions(P, x), prohibit_successions(P, y))
  <2>1. prohibit_successions(P, x) = prohibit_successions(P, y)
    BY <1>1 DEF prohibit_successions
  <2>2. \A t, e, u : succession(t, e, u).guard = {}
    BY DEF succession, constraint
  <2>3. \A c \in prohibit_successions(P, x) : c.guard = {}
    BY <2>2, Successions
  <2> QED
    BY <2>1, <2>3, AlikeSame
<1>5. Alike(x, leave_gates(P, x), leave_gates(P, y))
  <2>1. leave_gates(P, x) = leave_gates(P, y)
    BY <1>1 DEF leave_gates
  <2> DEFINE says(z, t, n, c) ==
               \/ north_east(z.dim, t) # t /\ c = leaving("crossing behind", t, n, north_east(z.dim, t))
               \/ south_east(z.dim, t) \in z.added \ {t} /\ c = leaving("exit", t, n, south_east(z.dim, t))
             gates == {n \in Nodes(P.ntk) : is_majority_gate(P, n)}
  <2>2. \A z, t, n, c : says(z, t, n, c) => c.guard = {}
    <3>1. \A k, t, n, u : leaving(k, t, n, u).guard = {}
      BY DEF leaving, constraint
    <3> QED
      BY <3>1
  <2>3. \A c \in leave_gates(P, x) : c.guard = {}
    <3>1. \A z, c : c \in leave_gates(P, z) <=> \E t \in ground_tiles(z.dim) : \E n \in gates : says(z, t, n, c)
      BY LeavingGates, ZenonT(60)
    <3> HIDE DEF says, gates
    <3> QED
      BY <2>2, <3>1
  <2> QED
    BY <2>1, <2>3, AlikeSame
<1>6. Alike(x, enter_couplers(P, x), enter_couplers(P, y))
  <2> DEFINE couplers == {n \in Nodes(P.ntk) : is_coupler(P, n) /\ network_in_degree(P, n) # 0}
             entry(dim, t, n) ==
               IF north_west(dim, t) = t THEN forbidden("coupler", t, <<n>>)
               ELSE constraint("enter", t, <<n>>, [in |-> {north_west(dim, t)}, out |-> {}], {})
  <2>1. \A dim, t, n : entry(dim, t, n).guard = {}
    BY Fields DEF forbidden
  <2>2. \A z : enter_couplers(P, z) = {entry(z.dim, t, n) : t \in z.added, n \in couplers}
    BY DEF enter_couplers
  <2> HIDE DEF entry, couplers
  <2> QED
    BY <1>1, <2>1, <2>2, Itself DEF Alike
<1> QED
  BY <1>2, <1>3, <1>4, <1>5, <1>6

(* Constraints with guards. *)
LEMMA GuardedAlike ==
  ASSUME NEW x, NEW y, SameTiles(x, y), NEW P
  PROVE  /\ \A kind : Alike(x, for_added_and_updated(P, x, kind), for_added_and_updated(P, y, kind))
         /\ Alike(x, enforce_straight_inverters(P, x), enforce_straight_inverters(P, y))
         /\ Alike(x, restrict_vertices(P, x), restrict_vertices(P, y))
         /\ Alike(x, define_length(P, x), define_length(P, y))
<1>1. x.added = y.added /\ x.updated = y.updated /\ x.dim = y.dim
  BY DEF SameTiles
<1>2. \A t : mk_as_if_se(x, t) \subseteq {x.e, x.s}
  BY DEF mk_as_if_se
<1>3. ASSUME NEW kind
      PROVE  Alike(x, for_added_and_updated(P, x, kind), for_added_and_updated(P, y, kind))
  <2> DEFINE about(z, t) == constraint(kind, t, << >>, zones(P, z, t), mk_as_if_se(z, t))
  <2>1. \A z : for_added_and_updated(P, z, kind) = {about(z, t) : t \in z.added \cup z.updated}
    BY DEF for_added_and_updated, for_tile
  <2>2. \A t : zones(P, x, t) = zones(P, y, t)
    BY <1>1 DEF zones
  <2>3. \A t : about(x, t).guard \subseteq {x.e, x.s}
    BY <1>2, Fields
  <2>5. \A t : SaysTheSame(about(y, t), about(x, t))
    BY <2>2, ApartFromGuards
  <2> HIDE DEF about
  <2> QED
    BY <1>1, <2>1, <2>3, <2>5 DEF Alike
<1>4. Alike(x, enforce_straight_inverters(P, x), enforce_straight_inverters(P, y))
  <2> DEFINE invs == {n \in Nodes(P.ntk) : is_inv(P.ntk, n)}
             about(z, n, t) == constraint("straight", t, <<n>>, [in |-> {}, out |-> straight_ways(P, z, t)], mk_as_if_se(z, t))
  <2>1. \A z : enforce_straight_inverters(P, z) = {about(z, n, t) : n \in invs, t \in z.added \cup z.updated}
    BY DEF enforce_straight_inverters
  <2>2. \A t : straight_ways(P, x, t) = straight_ways(P, y, t)
    BY <1>1 DEF straight_ways
  <2>3. \A n, t : about(x, n, t).guard \subseteq {x.e, x.s}
    BY <1>2, Fields
  <2>5. \A n, t : SaysTheSame(about(y, n, t), about(x, n, t))
    BY <2>2, ApartFromGuards
  <2> HIDE DEF about, invs
  <2> QED
    BY <1>1, <2>1, <2>3, <2>5 DEF Alike
<1>5. Alike(x, restrict_vertices(P, x), restrict_vertices(P, y))
  <2> DEFINE all(z) == [in |-> {}, out |-> ground_tiles(z.dim)]
             some(z, n) == constraint("some tile", NoTile, <<n>>, all(z), {z.e, z.s})
             one(z, n) == constraint("one tile", NoTile, <<n>>, all(z), {})
             nodes == Nodes(P.ntk)
  <2>1. \A z : restrict_vertices(P, z) = {some(z, n) : n \in nodes} \cup {one(z, n) : n \in nodes}
    BY DEF restrict_vertices
  <2>2. all(x) = all(y)
    BY <1>1
  <2> HIDE DEF all
  <2>3. \A n : some(x, n).guard \subseteq {x.e, x.s}
    BY DEF constraint
  <2>5. \A n : SaysTheSame(some(y, n), some(x, n))
    BY <2>2, ApartFromGuards
  <2>4. \A n : one(x, n) = one(y, n) /\ one(x, n).guard = {}
    BY <2>2 DEF constraint
  <2> HIDE DEF some, one, nodes
  <2> QED
    BY <2>1, <2>3, <2>4, <2>5, Itself DEF Alike
<1>6. Alike(x, define_length(P, x), define_length(P, y))
  <2> DEFINE all(z) == [in |-> {}, out |-> ground_tiles(z.dim)]
             about(z, n) == constraint("length", NoTile, <<n>>, all(z), {z.e, z.s})
             nodes == outputs(P)
  <2>1. \A z : define_length(P, z) = {about(z, n) : n \in nodes}
    BY DEF define_length
  <2>2. all(x) = all(y)
    BY <1>1
  <2> HIDE DEF all
  <2>3. \A n : about(x, n).guard \subseteq {x.e, x.s}
    BY DEF constraint
  <2>5. \A n : SaysTheSame(about(y, n), about(x, n))
    BY <2>2, ApartFromGuards
  <2> HIDE DEF about, nodes
  <2> QED
    BY <2>1, <2>3, <2>5 DEF Alike
<1> QED
  BY <1>3, <1>4, <1>5, <1>6

LEMMA InstanceAlike ==
  ASSUME NEW x, NEW y, SameTiles(x, y), x.updated = {}, NEW P
  PROVE  Alike(x, generate_smt_instance(P, x), generate_smt_instance(P, y))
<1> DEFINE sync(z) ==
             CASE set(P, "border_io") /\ P.scheme.name \in {"2DDWAVE", "2DDWAVEHEX"} -> restrict_2ddwave_entry_tiles(P, z)
               [] set(P, "border_io") /\ P.scheme.name \in {"COLUMNAR", "ROW"} -> {}
               [] OTHER -> define_length(P, z)
           clocks(z) == assign_pi_clockings(P, z) \cup sync(z)
           paths(z) == (establish_sub_paths(P, z) \cup establish_transitive_paths(z)) \cup eliminate_cycles(z)
           near(z) == (prohibit_successions(P, z) \cup enter_couplers(P, z)) \cup leave_gates(P, z)
           empty(z) == {for_tile("empty clock", t, NoZones, {}) : t \in z.added}
           p0(z) == restrict_tile_elements(z) \cup restrict_vertices(P, z)
           p1(z) == p0(z) \cup for_added_and_updated(P, z, "gate fanout") \cup for_added_and_updated(P, z, "gate fanin")
           p2(z) == p1(z) \cup for_added_and_updated(P, z, "wire fanout") \cup for_added_and_updated(P, z, "wire fanin")
           p3(z) == p2(z) \cup (IF set(P, "desynchronize") THEN {} ELSE clocks(z))
           p4(z) == p3(z) \cup (IF P.scheme.regular THEN {} ELSE restrict_clocks(z))
           p5(z) == p4(z) \cup (IF is_linear_scheme(P.scheme) THEN {} ELSE paths(z))
           p6(z) == p5(z) \cup (IF set(P, "border_io") THEN enforce_border_io(P, z) ELSE {})
           p7(z) == p6(z) \cup (IF set(P, "straight_inverters") THEN enforce_straight_inverters(P, z) ELSE {})
           p8(z) == p7(z) \cup (IF synchronizes(P) THEN restrict_synchronization_elements(z) ELSE {})
           p9(z) == p8(z) \cup (IF set(P, "topolinano") THEN near(z) ELSE {})
           rest(z) == IF P.scheme.regular THEN {} ELSE empty(z)
           p10(z) == p9(z) \cup prevent_insufficiencies(P, z)
                       \cup (for_added_and_updated(P, z, "connections") \cup rest(z))
<1>1. \A z : generate_smt_instance(P, z) = p10(z) \cup utilize_hierarchical_information(P, z)
  BY DEF generate_smt_instance, define_gate_fanout_tiles, define_gate_fanin_tiles, define_wire_fanout_tiles,
         define_wire_fanin_tiles, global_synchronization, technology_specific_constraints,
         define_number_of_connections
<1> USE AlikeUnion, AlikeNothing
<1>2. Alike(x, p0(x), p0(y))
  BY AddedAlike, GuardedAlike
<1> HIDE DEF p0
<1>3. Alike(x, p1(x), p1(y))
  BY <1>2, GuardedAlike
<1> HIDE DEF p1
<1>4. Alike(x, p2(x), p2(y))
  BY <1>3, GuardedAlike
<1> HIDE DEF p2
<1>5. Alike(x, sync(x), sync(y))
  <2>1. Alike(x, restrict_2ddwave_entry_tiles(P, x), restrict_2ddwave_entry_tiles(P, y))
        /\ Alike(x, define_length(P, x), define_length(P, y))
    BY AddedAlike, GuardedAlike
  <2> QED
    BY <2>1
<1> HIDE DEF sync
<1>6. Alike(x, clocks(x), clocks(y))
  BY <1>5, AddedAlike
<1> HIDE DEF clocks
<1>7. Alike(x, p3(x), p3(y))
  BY <1>4, <1>6
<1> HIDE DEF p3
<1>8. Alike(x, p4(x), p4(y))
  BY <1>7, AddedAlike
<1> HIDE DEF p4
<1>9. Alike(x, paths(x), paths(y))
  BY PairsAlike, AddedAlike
<1> HIDE DEF paths
<1>10. Alike(x, p5(x), p5(y))
  BY <1>8, <1>9
<1> HIDE DEF p5
<1>11. Alike(x, p6(x), p6(y))
  BY <1>10, AddedAlike
<1> HIDE DEF p6
<1>12. Alike(x, p7(x), p7(y))
  BY <1>11, GuardedAlike
<1> HIDE DEF p7
<1>13. Alike(x, p8(x), p8(y))
  BY <1>12, AddedAlike
<1> HIDE DEF p8
<1>14. Alike(x, near(x), near(y))
  BY PairsAlike
<1> HIDE DEF near
<1>15. Alike(x, p9(x), p9(y))
  BY <1>13, <1>14
<1> HIDE DEF p9
<1>16. Alike(x, rest(x), rest(y))
  <2>1. Alike(x, empty(x), empty(y))
    BY AddedAlike
  <2> HIDE DEF empty
  <2> QED
    BY <2>1
<1> HIDE DEF rest
<1>17. Alike(x, prevent_insufficiencies(P, x), prevent_insufficiencies(P, y))
  <2>1. ASSUME NEW c
        PROVE  c \notin prevent_insufficiencies(P, x)
    BY Insufficiencies DEF prevent_insufficiencies
  <2> QED
    BY <2>1 DEF Alike
<1>18. Alike(x, p10(x), p10(y))
  <2>1. Alike(x, for_added_and_updated(P, x, "connections") \cup rest(x), for_added_and_updated(P, y, "connections") \cup rest(y))
    BY <1>16, GuardedAlike
  <2> QED
    BY <1>15, <1>17, <2>1
<1> HIDE DEF p10
<1>19. Alike(x, utilize_hierarchical_information(P, x), utilize_hierarchical_information(P, y))
  <2>1. utilize_hierarchical_information(P, x) = utilize_hierarchical_information(P, y)
    BY DEF utilize_hierarchical_information, too_early, SameTiles
  <2> QED
    BY <2>1, TooEarly, AlikeSame
<1> QED
  BY <1>1, <1>18, <1>19

-----------------------------------------------------------------------------
(* The sizes that a handler is given, and their layouts. *)
IsProblem(P) ==
  /\ P.sizes \in Seq(Nat \X Nat)
  /\ P.topology = << >> \/ \E a \in Arrangements : P.topology = <<a>>
  /\ set(P, "topolinano") => P.topology # << >>
  /\ is_linear_scheme(P.scheme) =>
       \/ P.scheme \in LinearSchemes
       \/ \E n \in {3, 4}, a \in Arrangements : P.topology = <<a>> /\ P.scheme = twoddwave_hex_clocking(n, a)

LEMMA Sizes ==
  ASSUME NEW P, IsProblem(P), NEW ar \in Nat \X Nat
  PROVE  LET dim == aspect_ratio(P, ar)
         IN  /\ IsLayout(dim)
             /\ dim[1] = ar[1] /\ dim[2] = ar[2] /\ dim[3] = (IF set(P, "crossings") THEN 1 ELSE 0)
             /\ hexagonal(dim) <=> P.topology # << >>
             /\ hexagonal(dim) => P.topology = <<dim[4]>>
<1> DEFINE z == IF set(P, "crossings") THEN 1 ELSE 0
           dim == aspect_ratio(P, ar)
<1>1. ar[1] \in Nat /\ ar[2] \in Nat /\ z \in Nat
  OBVIOUS
<1>2. dim = <<ar[1], ar[2], z>> \o P.topology
  BY DEF aspect_ratio
<1> HIDE DEF z, dim
<1>3. CASE P.topology = << >>
  <2>1. dim = <<ar[1], ar[2], z>>
    BY <1>2, <1>3
  <2>2. dim[1] = ar[1] /\ dim[2] = ar[2] /\ dim[3] = z /\ Len(dim) = 3
    BY <2>1
  <2> QED
    BY <1>1, <1>3, <2>2 DEF dim, z, IsLayout, hexagonal
<1>4. ASSUME NEW a \in Arrangements, P.topology = <<a>>
      PROVE  dim[1] = ar[1] /\ dim[2] = ar[2] /\ dim[3] = z /\ dim[4] = a /\ Len(dim) = 4
  <2> DEFINE S == {ar[1], ar[2], z, a}
             s == <<ar[1], ar[2], z>>
             u == <<a>>
  <2>1. s \in Seq(S) /\ Len(s) = 3 /\ s[1] = ar[1] /\ s[2] = ar[2] /\ s[3] = z /\ u \in Seq(S) /\ Len(u) = 1 /\ u[1] = a
    OBVIOUS
  <2>2. dim = s \o u
    BY <1>2, <1>4
  <2> HIDE DEF S, s, u
  <2>3. /\ Len(dim) = Len(s) + Len(u)
        /\ \A k \in 1..(Len(s) + Len(u)) : dim[k] = IF k <= Len(s) THEN s[k] ELSE u[k - Len(s)]
    BY <2>1, <2>2, ConcatProperties
  <2>4. \A k \in 1..4 : dim[k] = IF k <= 3 THEN s[k] ELSE u[k - 3]
    BY <2>1, <2>3
  <2> QED
    BY <2>1, <2>3, <2>4
<1>5. CASE \E a \in Arrangements : P.topology = <<a>>
  <2>1. PICK a \in Arrangements : P.topology = <<a>>
    BY <1>5
  <2>2. P.topology # << >>
    BY <2>1
  <2> QED
    BY <1>1, <1>4, <2>1, <2>2 DEF dim, z, IsLayout, hexagonal
<1> QED
  BY <1>3, <1>5 DEF IsProblem

(* A column, a row. *)
LEMMA Borders ==
  ASSUME NEW P, IsProblem(P), NEW ar \in Nat \X Nat
  PROVE  LET dim == aspect_ratio(P, ar)
         IN  /\ column(ar, ar[1]) = new_border(1, dim)
             /\ ar[1] # 0 => column(ar, ar[1] - 1) = old_border(1, dim)
             /\ row(ar, ar[2]) = new_border(2, dim)
             /\ ar[2] # 0 => row(ar, ar[2] - 1) = old_border(2, dim)
<1> DEFINE dim == aspect_ratio(P, ar)
<1>1. ar[1] \in Nat /\ ar[2] \in Nat /\ IsLayout(dim) /\ dim[1] = ar[1] /\ dim[2] = ar[2]
  BY Sizes
<1> HIDE DEF dim
<1>2. ASSUME NEW x \in 0..ar[1]
      PROVE  column(ar, x) = {t \in ground_tiles(dim) : t[1] = x}
  <2>1. \A t \in column(ar, x) : t \in ground_tiles(dim) /\ t[1] = x
    BY <1>1, Ground DEF column
  <2>2. ASSUME NEW t \in ground_tiles(dim), t[1] = x
        PROVE  t \in column(ar, x)
    <3>1. t = <<x, t[2], 0>> /\ t[2] \in 0..ar[2]
      BY <1>1, <2>2, Ground
    <3> QED
      BY <3>1 DEF column
  <2> QED
    BY <2>1, <2>2
<1>3. ASSUME NEW y \in 0..ar[2]
      PROVE  row(ar, y) = {t \in ground_tiles(dim) : t[2] = y}
  <2>1. \A t \in row(ar, y) : t \in ground_tiles(dim) /\ t[2] = y
    BY <1>1, Ground DEF row
  <2>2. ASSUME NEW t \in ground_tiles(dim), t[2] = y
        PROVE  t \in row(ar, y)
    <3>1. t = <<t[1], y, 0>> /\ t[1] \in 0..ar[1]
      BY <1>1, <2>2, Ground
    <3> QED
      BY <3>1 DEF row
  <2> QED
    BY <2>1, <2>2
<1>4. ar[1] \in 0..ar[1] /\ ar[2] \in 0..ar[2] /\ (ar[1] # 0 => ar[1] - 1 \in 0..ar[1]) /\ (ar[2] # 0 => ar[2] - 1 \in 0..ar[2])
  BY <1>1
<1> QED
  BY <1>1, <1>2, <1>3, <1>4 DEF dim, new_border, old_border

(* The sizes that lead to one another. *)
LEMMA SizesGrow ==
  ASSUME NEW P, IsProblem(P), NEW ar \in Nat \X Nat
  PROVE  /\ <<ar[1] - 1, ar[2]>> \in Nat \X Nat =>
              ar[1] # 0 /\ Grows(1, aspect_ratio(P, <<ar[1] - 1, ar[2]>>), aspect_ratio(P, ar))
         /\ <<ar[1], ar[2] - 1>> \in Nat \X Nat =>
              ar[2] # 0 /\ Grows(2, aspect_ratio(P, <<ar[1], ar[2] - 1>>), aspect_ratio(P, ar))
<1>1. ar[1] \in Nat /\ ar[2] \in Nat
  OBVIOUS
<1> DEFINE D == aspect_ratio(P, ar)
<1>2. /\ IsLayout(D) /\ D[1] = ar[1] /\ D[2] = ar[2] /\ D[3] = (IF set(P, "crossings") THEN 1 ELSE 0)
      /\ hexagonal(D) <=> P.topology # << >>
      /\ hexagonal(D) => P.topology = <<D[4]>>
  BY Sizes
<1>3. \A a, b : <<a>> = <<b>> => a = b
  OBVIOUS
<1> HIDE DEF D
<1>4. ASSUME <<ar[1] - 1, ar[2]>> \in Nat \X Nat
      PROVE  ar[1] # 0 /\ Grows(1, aspect_ratio(P, <<ar[1] - 1, ar[2]>>), D)
  <2> DEFINE n == <<ar[1] - 1, ar[2]>>
             d == aspect_ratio(P, n)
  <2>1. n \in Nat \X Nat /\ n[1] = ar[1] - 1 /\ n[2] = ar[2] /\ ar[1] # 0
    BY <1>1, <1>4
  <2> HIDE DEF n
  <2>2. /\ IsLayout(d) /\ d[1] = n[1] /\ d[2] = n[2] /\ d[3] = (IF set(P, "crossings") THEN 1 ELSE 0)
        /\ hexagonal(d) <=> P.topology # << >>
        /\ hexagonal(d) => P.topology = <<d[4]>>
    BY <2>1, Sizes
  <2> HIDE DEF d
  <2>3. hexagonal(d) => D[4] = d[4]
    BY <1>2, <1>3, <2>2
  <2>4. Grows(1, d, D)
    BY <1>1, <1>2, <2>1, <2>2, <2>3 DEF Grows
  <2> QED
    BY <2>1, <2>4 DEF n, d
<1>5. ASSUME <<ar[1], ar[2] - 1>> \in Nat \X Nat
      PROVE  ar[2] # 0 /\ Grows(2, aspect_ratio(P, <<ar[1], ar[2] - 1>>), D)
  <2> DEFINE n == <<ar[1], ar[2] - 1>>
             d == aspect_ratio(P, n)
  <2>1. n \in Nat \X Nat /\ n[1] = ar[1] /\ n[2] = ar[2] - 1 /\ ar[2] # 0
    BY <1>1, <1>5
  <2> HIDE DEF n
  <2>2. /\ IsLayout(d) /\ d[1] = n[1] /\ d[2] = n[2] /\ d[3] = (IF set(P, "crossings") THEN 1 ELSE 0)
        /\ hexagonal(d) <=> P.topology # << >>
        /\ hexagonal(d) => P.topology = <<d[4]>>
    BY <2>1, Sizes
  <2> HIDE DEF d
  <2>3. hexagonal(d) => D[4] = d[4]
    BY <1>2, <1>3, <2>2
  <2>4. Grows(2, d, D)
    BY <1>1, <1>2, <2>1, <2>2, <2>3 DEF Grows
  <2> QED
    BY <2>1, <2>4 DEF n, d
<1> QED
  BY <1>4, <1>5 DEF D

-----------------------------------------------------------------------------
(* Solver states.  Literals carry the number at which they were made. *)
Used(n, l) == l[2] \in Int /\ l[2] < n

IsState(n, st) ==
  /\ st.e[1] = "e" /\ Used(n, st.e) /\ st.e \notin st.off
  /\ st.s[1] = "s" /\ Used(n, st.s) /\ st.s \notin st.off
  /\ \A l \in st.off : Used(n, l)
  /\ \A c \in st.hard : \A l \in c.guard : Used(n, l)

(* What binds a state is what a new solver would be told for its size. *)
Faithful(P, dim, st) ==
  LET told == generate_smt_instance(P, new_check_point(dim, st.e, st.s))
  IN  /\ \A c \in st.hard : c.guard \subseteq {st.e, st.s} => c \in told \/ Spare(dim, c)
      /\ \A c \in told : c \in st.hard \/ Passed(c) \/ Spare(dim, c)

LEMMA NewCheckPoint ==
  ASSUME NEW dim, NEW e, NEW s
  PROVE  LET cp == new_check_point(dim, e, s)
         IN  cp.dim = dim /\ cp.e = e /\ cp.s = s /\ cp.added = ground_tiles(dim) /\ cp.updated = {}
  BY DEF new_check_point, check_point_for

LEMMA GuardsOfNew ==
  ASSUME NEW P, NEW dim, NEW e, NEW s, NEW c \in generate_smt_instance(P, new_check_point(dim, e, s))
  PROVE  c.guard \subseteq {e, s}
<1> DEFINE x == new_check_point(dim, e, s)
<1>1. x.e = e /\ x.s = s /\ x.updated = {} /\ SameTiles(x, x)
  BY NewCheckPoint DEF SameTiles
<1> HIDE DEF x
<1>2. Alike(x, generate_smt_instance(P, x), generate_smt_instance(P, x))
  BY <1>1, InstanceAlike
<1>3. c \in generate_smt_instance(P, x)
  BY DEF x
<1> QED
  BY <1>1, <1>2, <1>3 DEF Alike

LEMMA Instance ==
  ASSUME NEW P, NEW cp
  PROVE  LET r == instance(P, cp)
         IN  /\ r.dim = cp.dim /\ r.e = cp.e /\ r.s = cp.s /\ r.off = cp.off
             /\ r.hard = cp.hard \cup generate_smt_instance(P, cp) /\ r.assumed = assumptions(P, cp)
  BY DEF instance

(* A new solver. *)
LEMMA Starting ==
  ASSUME NEW P, NEW dim, NEW n \in Nat, NEW r, NEW e, NEW s,
         e = <<"e", n>>, s = <<"s", n>>,
         r = instance(P, new_check_point(dim, e, s))
  PROVE  IsState(n + 1, r) /\ Faithful(P, dim, r)
<1> DEFINE x == new_check_point(dim, e, s)
<1>1. x.e = e /\ x.s = s /\ x.hard = {} /\ x.off = {}
  BY DEF new_check_point, check_point_for, NewSolver
<1>2. r.e = e /\ r.s = s /\ r.off = {} /\ r.hard = generate_smt_instance(P, x)
  <2>1. r.e = x.e /\ r.s = x.s /\ r.off = x.off /\ r.hard = x.hard \cup generate_smt_instance(P, x)
    BY Instance
  <2> HIDE DEF x
  <2> QED
    BY <1>1, <2>1
<1>3. \A c \in generate_smt_instance(P, x) : c.guard \subseteq {e, s}
  BY GuardsOfNew
<1> HIDE DEF x
<1>4. Used(n + 1, e) /\ Used(n + 1, s) /\ e[1] = "e" /\ s[1] = "s"
  BY DEF Used
<1>5. IsState(n + 1, r)
  BY <1>2, <1>3, <1>4 DEF IsState
<1>6. Faithful(P, dim, r)
  <2>1. x = new_check_point(dim, r.e, r.s)
    BY <1>2 DEF x
  <2> QED
    BY <1>2, <2>1 DEF Faithful
<1> QED
  BY <1>5, <1>6

LEMMA SpareGrows ==
  ASSUME NEW i, NEW d, NEW D, Grows(i, d, D), NEW c, Spare(d, c)
  PROVE  Spare(D, c)
<1>1. \A t \in ground_tiles(d) : t \in ground_tiles(D)
  BY GroundGrows
<1>2. PICK t \in ground_tiles(D) : t \notin ground_tiles(d)
  BY GroundGrows DEF new_border
<1>3. ASSUME c.kind = "insufficient", c.tile \in ground_tiles(d), c.tile[1] # d[1], c.tile[2] # d[2]
      PROVE  c.tile \in ground_tiles(D) /\ c.tile[1] # D[1] /\ c.tile[2] # D[2]
  <2>1. c.tile[1] \in Nat /\ c.tile[2] \in Nat /\ c.tile[1] <= d[1] /\ c.tile[2] <= d[2]
        /\ d[1] \in Nat /\ d[2] \in Nat
    BY <1>3, Ground DEF Grows, IsLayout
  <2> QED
    BY <1>1, <1>3, <2>1 DEF Grows
<1>4. ASSUME c.zones.out \subseteq ground_tiles(d)
      PROVE  c.zones.out \subseteq ground_tiles(D) /\ c.zones.out # ground_tiles(D)
  BY <1>1, <1>2, <1>4
<1> QED
  BY <1>3, <1>4 DEF Spare

(* A solver that is extended. *)
LEMMA Extending ==
  ASSUME NEW P, NEW i, NEW d, NEW D, Grows(i, d, D), set(P, "topolinano") => hexagonal(d),
         NEW n \in Nat, NEW st, IsState(n, st), Faithful(P, d, st),
         NEW cp, cp.dim = D, cp.added = new_border(i, D), cp.updated = old_border(i, D), cp.hard = st.hard,
         i = 1 => cp.e = <<"e", n>> /\ cp.s = st.s /\ cp.off = st.off \cup {st.e},
         i = 2 => cp.e = st.e /\ cp.s = <<"s", n>> /\ cp.off = st.off \cup {st.s},
         NEW r, r = instance(P, cp)
  PROVE  IsState(n + 1, r) /\ Faithful(P, D, r)
<1> DEFINE old == new_check_point(d, st.e, st.s)
           new == new_check_point(D, cp.e, cp.s)
           lit == IF i = 1 THEN st.e ELSE st.s
           Old == generate_smt_instance(P, old)
           Now == generate_smt_instance(P, cp)
           New == generate_smt_instance(P, new)
<1>1. i \in {1, 2} /\ st.e # st.s
  BY DEF Grows, IsState
<1>2. /\ lit \notin {cp.e, cp.s} /\ {cp.e, cp.s} \ {st.e, st.s} \subseteq {<<"e", n>>, <<"s", n>>}
      /\ cp.e[1] = "e" /\ cp.s[1] = "s" /\ Used(n + 1, cp.e) /\ Used(n + 1, cp.s)
      /\ \A l \in cp.off : Used(n, l)
      /\ cp.e \notin cp.off /\ cp.s \notin cp.off
  <2>1. \A l : Used(n, l) => l # <<"e", n>> /\ l # <<"s", n>> /\ Used(n + 1, l)
    BY DEF Used
  <2>2. Used(n + 1, <<"e", n>>) /\ Used(n + 1, <<"s", n>>) /\ <<"e", n>>[1] = "e" /\ <<"s", n>>[1] = "s"
    BY DEF Used
  <2>3. CASE i = 1
    BY <1>1, <2>1, <2>2, <2>3 DEF IsState
  <2>4. CASE i = 2
    BY <1>1, <2>1, <2>2, <2>4 DEF IsState
  <2> QED
    BY <1>1, <2>3, <2>4
<1>3. Extends(i, old, cp, new, lit) /\ new.dim = D /\ old.dim = d
  BY <1>1, <1>2, NewCheckPoint DEF Extends
<1>4. Carries(lit, D, Old, Now, New)
  BY <1>3, InstanceCarries
<1>5. \A c \in Now : c.guard \subseteq {cp.e, cp.s}
  <2>1. \A c \in New : c.guard \subseteq {cp.e, cp.s}
    BY GuardsOfNew
  <2> HIDE DEF New, Now, Old
  <2> QED
    BY <1>4, <2>1 DEF Carries, Spare
<1>6. r.dim = D /\ r.e = cp.e /\ r.s = cp.s /\ r.off = cp.off /\ r.hard = st.hard \cup Now
  BY Instance
<1>7. \A c \in st.hard : c.guard \subseteq {st.e, st.s} => c \in Old \/ Spare(d, c)
  BY DEF Faithful
<1>8. \A c \in Old : c \in st.hard \/ Passed(c) \/ Spare(d, c)
  BY DEF Faithful
<1>9. \A c \in st.hard : \A l \in c.guard : Used(n, l)
  BY DEF IsState
<1>10. \A c : Spare(d, c) => Spare(D, c)
  BY SpareGrows
<1> HIDE DEF Old, Now, New, old, new, lit
<1>11. \A l : Used(n, l) => l # <<"e", n>> /\ l # <<"s", n>> /\ Used(n + 1, l)
  BY DEF Used
<1>12. IsState(n + 1, r)
  BY <1>2, <1>5, <1>6, <1>9, <1>11 DEF IsState
<1>13. ASSUME NEW c \in r.hard, c.guard \subseteq {r.e, r.s}
       PROVE  c \in New \/ Spare(D, c)
  <2>1. CASE c \in Now
    BY <1>4, <2>1 DEF Carries
  <2>2. CASE c \in st.hard
    <3>1. c.guard \subseteq {st.e, st.s} /\ lit \notin c.guard
      BY <1>2, <1>6, <1>9, <1>11, <1>13, <2>2
    <3> QED
      BY <1>4, <1>7, <1>10, <2>2, <3>1 DEF Carries
  <2> QED
    BY <1>6, <1>13, <2>1, <2>2
<1>14. ASSUME NEW c \in New
       PROVE  c \in r.hard \/ Passed(c) \/ Spare(D, c)
  BY <1>4, <1>6, <1>8, <1>10, <1>14 DEF Carries
<1>15. New = generate_smt_instance(P, new_check_point(D, r.e, r.s))
  BY <1>6 DEF New, new
<1>16. Faithful(P, D, r)
  BY <1>13, <1>14, <1>15 DEF Faithful
<1> QED
  BY <1>12, <1>16

-----------------------------------------------------------------------------
(* The inductive invariant: every stored state and the current one are     *)
(* faithful, and literals are new when they are made.                      *)
IsCheckPoint(P, n, cp) ==
  /\ \E ar \in Nat \X Nat : cp.dim = aspect_ratio(P, ar)
  /\ IsState(n, cp)
  /\ Faithful(P, cp.dim, cp)
  /\ \E x : x.dim = cp.dim /\ cp.assumed = assumptions(P, x)

TreeInv ==
  /\ IsProblem(problem)
  /\ tried \in Nat
  /\ lc \in Nat
  /\ \A ar \in DOMAIN solver_tree :
       /\ ar \in Nat \X Nat
       /\ IsState(lc, solver_tree[ar])
       /\ Faithful(problem, aspect_ratio(problem, ar), solver_tree[ar])
  /\ phase = "check" => IsCheckPoint(problem, lc, check_point)

LEMMA TreeInvInit ==
  ASSUME TreeInit
  PROVE  TreeInv
<1>1. PICK p \in Problems :
        problem = [src |-> p.src, scheme |-> p.scheme, topology |-> p.topology, sizes |-> p.sizes, flags |-> p.flags,
                   ntk |-> topology_network(p.src, p.scheme)]
  BY DEF TreeInit
<1>2. problem.scheme = p.scheme /\ problem.topology = p.topology /\ problem.sizes = p.sizes /\ problem.flags = p.flags
  BY <1>1
<1>3. IsProblem(problem)
  BY <1>2, ProblemsAssumption DEF IsProblem, set, is_linear_scheme
<1>4. DOMAIN solver_tree = {}
  BY DEF TreeInit
<1> QED
  BY <1>3, <1>4 DEF TreeInit, TreeInv

LEMMA Fetching ==
  ASSUME TreeInv, NEW ar \in Nat \X Nat
  PROVE  LET cp == fetch_solver(problem, ar) IN IsCheckPoint(problem, lc + 1, instance(problem, cp))
<1> DEFINE narrower == <<ar[1] - 1, ar[2]>>
           shallower == <<ar[1], ar[2] - 1>>
           dim == aspect_ratio(problem, ar)
           cp == fetch_solver(problem, ar)
           r == instance(problem, cp)
<1>0. IsProblem(problem) /\ lc \in Nat
  BY DEF TreeInv
<1>1. r.dim = cp.dim /\ r.assumed = assumptions(problem, cp)
  BY Instance
<1>2. CASE narrower \in DOMAIN solver_tree
  <2> DEFINE st == solver_tree[narrower]
             d == aspect_ratio(problem, narrower)
  <2>1. narrower \in Nat \X Nat /\ IsState(lc, st) /\ Faithful(problem, d, st)
    BY <1>2 DEF TreeInv
  <2>2. ar[1] # 0 /\ Grows(1, d, dim)
    BY <1>0, <2>1, SizesGrow
  <2>3. cp = check_point_for({narrower}, dim, st, lit_e, st.s, {st.e}, column(ar, ar[1]), column(ar, ar[1] - 1))
    BY <1>2 DEF fetch_solver
  <2>4. /\ cp.dim = dim /\ cp.e = <<"e", lc>> /\ cp.s = st.s /\ cp.off = st.off \cup {st.e} /\ cp.hard = st.hard
        /\ cp.added = column(ar, ar[1]) /\ cp.updated = column(ar, ar[1] - 1)
    BY <2>3 DEF check_point_for, lit_e
  <2>5. cp.added = new_border(1, dim) /\ cp.updated = old_border(1, dim)
    BY <1>0, <2>2, <2>4, Borders
  <2>6. set(problem, "topolinano") => hexagonal(d)
    BY <1>0, <2>1, Sizes DEF IsProblem
  <2> HIDE DEF st, d, dim, cp, narrower
  <2>7. IsState(lc + 1, r) /\ Faithful(problem, dim, r)
    BY <1>0, <2>1, <2>2, <2>4, <2>5, <2>6, Extending
  <2> QED
    BY <1>1, <2>4, <2>7 DEF dim, cp, IsCheckPoint
<1>3. CASE narrower \notin DOMAIN solver_tree /\ shallower \in DOMAIN solver_tree
  <2> DEFINE st == solver_tree[shallower]
             d == aspect_ratio(problem, shallower)
  <2>1. shallower \in Nat \X Nat /\ IsState(lc, st) /\ Faithful(problem, d, st)
    BY <1>3 DEF TreeInv
  <2>2. ar[2] # 0 /\ Grows(2, d, dim)
    BY <1>0, <2>1, SizesGrow
  <2>3. cp = check_point_for({shallower}, dim, st, st.e, lit_s, {st.s}, row(ar, ar[2]), row(ar, ar[2] - 1))
    BY <1>3 DEF fetch_solver
  <2>4. /\ cp.dim = dim /\ cp.e = st.e /\ cp.s = <<"s", lc>> /\ cp.off = st.off \cup {st.s} /\ cp.hard = st.hard
        /\ cp.added = row(ar, ar[2]) /\ cp.updated = row(ar, ar[2] - 1)
    BY <2>3 DEF check_point_for, lit_s
  <2>5. cp.added = new_border(2, dim) /\ cp.updated = old_border(2, dim)
    BY <1>0, <2>2, <2>4, Borders
  <2>6. set(problem, "topolinano") => hexagonal(d)
    BY <1>0, <2>1, Sizes DEF IsProblem
  <2> HIDE DEF st, d, dim, cp, shallower
  <2>7. IsState(lc + 1, r) /\ Faithful(problem, dim, r)
    BY <1>0, <2>1, <2>2, <2>4, <2>5, <2>6, Extending
  <2> QED
    BY <1>1, <2>4, <2>7 DEF dim, cp, IsCheckPoint
<1>4. CASE narrower \notin DOMAIN solver_tree /\ shallower \notin DOMAIN solver_tree
  <2>1. cp = new_check_point(dim, <<"e", lc>>, <<"s", lc>>)
    BY <1>4 DEF fetch_solver, new_check_point, lit_e, lit_s
  <2>2. cp.dim = dim
    BY <2>1, NewCheckPoint
  <2> HIDE DEF dim, cp
  <2>3. IsState(lc + 1, r) /\ Faithful(problem, dim, r)
    BY <1>0, <2>1, Starting
  <2> QED
    BY <1>1, <2>2, <2>3 DEF dim, cp, IsCheckPoint
<1> QED
  BY <1>2, <1>3, <1>4

LEMMA StateLater ==
  ASSUME NEW n \in Nat, NEW st, IsState(n, st)
  PROVE  IsState(n + 1, st)
  BY DEF IsState, Used

LEMMA TreeInvStep ==
  ASSUME TreeInv, [TreeNext]_tree_vars
  PROVE  TreeInv'
<1>1. ASSUME NEW i \in (tried + 1)..Len(problem.sizes), Update(i)
      PROVE  TreeInv'
  <2> DEFINE ar == problem.sizes[i]
             cp == fetch_solver(problem, ar)
  <2>1. ar \in Nat \X Nat /\ i \in Nat /\ lc \in Nat /\ lc' = lc + 1
    BY <1>1 DEF TreeInv, IsProblem, Update
  <2>2. IsCheckPoint(problem, lc + 1, instance(problem, cp))
    BY <2>1, Fetching
  <2>3. /\ check_point' = instance(problem, cp) /\ problem' = problem /\ tried' = i
        /\ solver_tree' = [a \in DOMAIN solver_tree \ cp.from |-> solver_tree[a]]
    BY <1>1 DEF Update
  <2> HIDE DEF cp, ar
  <2>4. \A a \in DOMAIN solver_tree' : a \in DOMAIN solver_tree /\ solver_tree'[a] = solver_tree[a]
    BY <2>3
  <2>5. \A a \in DOMAIN solver_tree' :
          /\ a \in Nat \X Nat
          /\ IsState(lc', solver_tree'[a])
          /\ Faithful(problem', aspect_ratio(problem', a), solver_tree'[a])
    BY <2>1, <2>3, <2>4, StateLater DEF TreeInv
  <2>6. IsCheckPoint(problem', lc', check_point')
    BY <2>1, <2>2, <2>3
  <2>7. IsProblem(problem') /\ tried' \in Nat /\ lc' \in Nat
    BY <2>1, <2>3 DEF TreeInv
  <2> QED
    BY <2>5, <2>6, <2>7 DEF TreeInv
<1>2. CASE Satisfied
  <2>1. /\ phase' # "check"
        /\ problem' = problem /\ tried' = tried /\ lc' = lc /\ solver_tree' = solver_tree
    BY <1>2 DEF Satisfied
  <2> QED
    BY <2>1 DEF TreeInv
<1>3. CASE NotSatisfiable
  <2> DEFINE key == <<check_point.dim[1], check_point.dim[2]>>
             st == [hard |-> check_point.hard, off |-> check_point.off, e |-> check_point.e, s |-> check_point.s]
  <2>1. /\ phase = "check" /\ phase' # "check" /\ problem' = problem /\ tried' = tried /\ lc' = lc
        /\ solver_tree' = [a \in DOMAIN solver_tree \cup {key} |-> IF a = key THEN st ELSE solver_tree[a]]
    BY <1>3 DEF NotSatisfiable
  <2>2. IsCheckPoint(problem, lc, check_point) /\ IsProblem(problem)
    BY <2>1 DEF TreeInv
  <2>3. key \in Nat \X Nat /\ check_point.dim = aspect_ratio(problem, key)
    <3>1. PICK ar \in Nat \X Nat : check_point.dim = aspect_ratio(problem, ar)
      BY <2>2 DEF IsCheckPoint
    <3>2. check_point.dim[1] = ar[1] /\ check_point.dim[2] = ar[2]
      BY <2>2, <3>1, Sizes
    <3>3. key = ar
      BY <3>2
    <3> QED
      BY <3>1, <3>3
  <2>4. st.e = check_point.e /\ st.s = check_point.s /\ st.off = check_point.off /\ st.hard = check_point.hard
    OBVIOUS
  <2> HIDE DEF key, st
  <2>5. IsState(lc, st) /\ Faithful(problem, aspect_ratio(problem, key), st)
    BY <2>2, <2>3, <2>4 DEF IsCheckPoint, IsState, Faithful
  <2>6. \A a \in DOMAIN solver_tree' :
          (a = key /\ solver_tree'[a] = st) \/ (a \in DOMAIN solver_tree /\ solver_tree'[a] = solver_tree[a])
    BY <2>1
  <2>7. \A a \in DOMAIN solver_tree' :
          /\ a \in Nat \X Nat
          /\ IsState(lc', solver_tree'[a])
          /\ Faithful(problem', aspect_ratio(problem', a), solver_tree'[a])
    BY <2>1, <2>3, <2>5, <2>6 DEF TreeInv
  <2> QED
    BY <2>1, <2>7 DEF TreeInv
<1>4. CASE UNCHANGED tree_vars
  BY <1>4 DEF TreeInv, tree_vars
<1> QED
  BY <1>1, <1>2, <1>3, <1>4 DEF TreeNext

-----------------------------------------------------------------------------
(* What the invariant says of the constraints that bind the solver. *)

(* Growing borders and redundancy do not depend on the literals. *)
LEMMA RedundantAlike ==
  ASSUME NEW x, NEW y, x.dim = y.dim, NEW b, NEW c, SaysTheSame(b, c)
  PROVE  /\ \A t : is_growing(x, t) <=> is_growing(y, t)
         /\ redundant(x, b) <=> redundant(y, c)
<1>1. \A z, t : is_growing(z, t) <=> t[1] = z.dim[1] \/ t[2] = z.dim[2]
  BY DEF is_growing, mk_as_if_se, is_at_eastern_border, is_at_southern_border
<1>2. b.kind = c.kind /\ b.tile = c.tile /\ b.zones = c.zones
  BY DEF SaysTheSame
<1> QED
  BY <1>1, <1>2 DEF redundant

LEMMA SpareIsRedundant ==
  ASSUME NEW cp, NEW c, Spare(cp.dim, c)
  PROVE  redundant(cp, c)
<1>1. \A t : is_growing(cp, t) <=> t[1] = cp.dim[1] \/ t[2] = cp.dim[2]
  BY DEF is_growing, mk_as_if_se, is_at_eastern_border, is_at_southern_border
<1> QED
  BY <1>1 DEF Spare, redundant

LEMMA PassedIsOverlooked ==
  ASSUME NEW c, Passed(c)
  PROVE  overlooked([c EXCEPT !.guard = {}])
<1>1. PICK t, e, u : c = succession(t, e, u) /\ (u[1] < t[1] \/ u[2] < t[2])
  BY DEF Passed
<1> DEFINE k == "succession"
           z == [in |-> {}, out |-> {u}]
<1>2. c = constraint(k, t, e, z, {}) /\ z.out = {u}
  BY <1>1 DEF succession
<1> HIDE DEF z, k
<1>3. [c EXCEPT !.guard = {}] = c /\ c.kind = k /\ c.tile = t /\ c.zones = z
  BY <1>2, Fields
<1> QED
  BY <1>1, <1>2, <1>3 DEF overlooked, k

(* What is assumed for one run depends on the size only, as far as it is   *)
(* not redundant.                                                          *)
LEMMA TooLate ==
  ASSUME NEW P, NEW x
  PROVE  \A c \in utilize_hierarchical_information_assumed(P, x) : c.kind = "too late"
<1> DEFINE items(n) == {<<n>>} \cup Range(fanin_edges(P.ntk, n))
           late(n) == too_late(P, x, inverse_levels(P.ntk)[n])
           about(t, i) == forbidden("too late", t, i)
           said(n) == {about(t, i) : t \in late(n), i \in items(n)}
<1>1. utilize_hierarchical_information_assumed(P, x) =
        IF ~ set(P, "border_io") THEN {} ELSE UNION {said(n) : n \in Nodes(P.ntk)}
  BY DEF utilize_hierarchical_information_assumed
<1> SUFFICES ASSUME NEW c \in utilize_hierarchical_information_assumed(P, x)
             PROVE  c.kind = "too late"
  OBVIOUS
<1>2. PICK n : c \in said(n)
  <2> HIDE DEF said
  <2> QED
    BY <1>1
<1> HIDE DEF items, late, about
<1>3. PICK t \in late(n), i \in items(n) : c = about(t, i)
  BY <1>2
<1> QED
  BY <1>3 DEF about, forbidden, constraint

LEMMA GatesAssumedAlike ==
  ASSUME NEW P, NEW x, NEW y, x.dim = y.dim
  PROVE  leave_gates_assumed(P, x) = leave_gates_assumed(P, y)
<1> DEFINE about(n, t) == forbidden("no exit", t, <<n>>)
           gates == {n \in Nodes(P.ntk) : is_majority_gate(P, n)}
           none(z) == {t \in ground_tiles(z.dim) : north_east(z.dim, t) = t}
           all(z) == {about(n, t) : n \in gates, t \in none(z)}
<1>1. \A z : leave_gates_assumed(P, z) = all(z)
  BY DEF leave_gates_assumed
<1>2. none(x) = none(y)
  OBVIOUS
<1> HIDE DEF about, gates, none
<1>3. all(x) = all(y)
  BY <1>2
<1> HIDE DEF all
<1> QED
  BY <1>1, <1>3

LEMMA AssumedAlike ==
  ASSUME NEW P, NEW x, NEW y, x.dim = y.dim, NEW c \in assumptions(P, x), c.kind # "too late"
  PROVE  c \in assumptions(P, y)
<1> DEFINE grow(z) == {t \in ground_tiles(z.dim) : is_growing(z, t)}
           gates(z) == IF set(P, "topolinano") THEN leave_gates_assumed(P, z) ELSE {}
<1>1. \A z : assumptions(P, z) =
             (insufficiencies(P, z, grow(z)) \cup utilize_hierarchical_information_assumed(P, z)) \cup gates(z)
  BY DEF assumptions, prevent_insufficiencies_assumed
<1>2. grow(x) = grow(y)
  <2>1. \A z, t : is_growing(z, t) <=> t[1] = z.dim[1] \/ t[2] = z.dim[2]
    BY DEF is_growing, mk_as_if_se, is_at_eastern_border, is_at_southern_border
  <2> QED
    BY <2>1
<1>3. insufficiencies(P, x, grow(x)) = insufficiencies(P, y, grow(y))
  <2> DEFINE T == grow(x)
  <2>1. T = grow(x) /\ T = grow(y)
    BY <1>2
  <2> HIDE DEF grow, T
  <2>2. \A t : insufficient(P, x, t) = insufficient(P, y, t)
    BY DEF insufficient
  <2> DEFINE said(z, t) == {forbidden("insufficient", t, i) : i \in insufficient(P, z, t)}
  <2>3. \A z : insufficiencies(P, z, T) = UNION {said(z, t) : t \in T}
    BY DEF insufficiencies
  <2>4. \A t : said(x, t) = said(y, t)
    BY <2>2
  <2> HIDE DEF said
  <2>5. {said(x, t) : t \in T} = {said(y, t) : t \in T}
    BY <2>4
  <2>6. insufficiencies(P, x, T) = insufficiencies(P, y, T)
    BY <2>3, <2>5
  <2> QED
    BY <2>1, <2>6
<1>4. gates(x) = gates(y)
  <2>1. leave_gates_assumed(P, x) = leave_gates_assumed(P, y)
    BY GatesAssumedAlike
  <2> QED
    BY <2>1
<1> HIDE DEF grow, gates
<1> QED
  BY <1>1, <1>3, <1>4, TooLate

-----------------------------------------------------------------------------
(* A solver of exact that is extended column by column and row by row is   *)
(* bound by exactly what a new solver would be told for the size at hand,  *)
(* up to redundant constraints and the successions that                    *)
(* technology_specific_constraints overlooks, and it never assumes a       *)
(* literal that was negated when a border moved (exact.hpp, fetch_solver   *)
(* and generate_smt_instance): for every network, scheme, topology, choice *)
(* of parameters and order of sizes.                                       *)
THEOREM ReuseIsExact == TreeSpec => []ReuseExact
<1>1. TreeInv => ReuseExact
  <2> SUFFICES ASSUME TreeInv, phase = "check"
               PROVE  LET told == unguarded(essential(check_point))
                          expected == unguarded(essential(fresh))
                      IN  /\ told \subseteq expected
                          /\ \A c \in expected \ told : overlooked(c)
                          /\ {check_point.e, check_point.s} \cap check_point.off = {}
    BY DEF ReuseExact
  <2> DEFINE cp == check_point
             x == new_check_point(cp.dim, cp.e, cp.s)
             y == new_check_point(cp.dim, <<"e", -1>>, <<"s", -1>>)
             G == generate_smt_instance(problem, x)
             F == generate_smt_instance(problem, y)
  <2>1. /\ IsState(lc, cp) /\ Faithful(problem, cp.dim, cp)
        /\ \E z : z.dim = cp.dim /\ cp.assumed = assumptions(problem, z)
    BY DEF TreeInv, IsCheckPoint
  <2>2. PICK z : z.dim = cp.dim /\ cp.assumed = assumptions(problem, z)
    BY <2>1
  <2>3. /\ x.dim = cp.dim /\ x.e = cp.e /\ x.s = cp.s /\ x.updated = {}
        /\ y.dim = cp.dim /\ y.updated = {}
        /\ SameTiles(x, y) /\ SameTiles(y, x)
    <3>1. /\ x.dim = cp.dim /\ x.e = cp.e /\ x.s = cp.s /\ x.added = ground_tiles(cp.dim) /\ x.updated = {}
      BY NewCheckPoint
    <3>2. /\ y.dim = cp.dim /\ y.added = ground_tiles(cp.dim) /\ y.updated = {}
      BY NewCheckPoint
    <3> HIDE DEF x, y, cp
    <3> QED
      BY <3>1, <3>2 DEF SameTiles
  <2>4. fresh.dim = cp.dim /\ fresh.e = y.e /\ fresh.s = y.s /\ fresh.hard = F /\ fresh.assumed = assumptions(problem, y)
    <3>1. y.hard = {}
      BY DEF new_check_point, check_point_for, NewSolver
    <3>2. fresh = instance(problem, y)
      BY DEF fresh
    <3> HIDE DEF x, y, cp, G
    <3>3. LET r == instance(problem, y)
          IN  /\ r.dim = y.dim /\ r.e = y.e /\ r.s = y.s
              /\ r.hard = y.hard \cup F /\ r.assumed = assumptions(problem, y)
      BY Instance
    <3> HIDE DEF F
    <3> QED
      BY <2>3, <3>1, <3>2, <3>3
  <2>5. /\ \A c \in cp.hard : c.guard \subseteq {cp.e, cp.s} => c \in G \/ Spare(cp.dim, c)
        /\ \A c \in G : c \in cp.hard \/ Passed(c) \/ Spare(cp.dim, c)
    BY <2>1 DEF Faithful
  <2> HIDE DEF cp, x, y
  <2>6. Alike(x, G, F) /\ Alike(y, F, G)
    BY <2>3, InstanceAlike
  <2> HIDE DEF F, G
  <2>7. /\ \A c : c \in essential(check_point) <=>
                    /\ (c \in cp.hard /\ c.guard \subseteq {cp.e, cp.s}) \/ c \in cp.assumed
                    /\ ~ redundant(cp, c)
        /\ \A c : c \in essential(fresh) <=>
                    /\ (c \in F /\ c.guard \subseteq {y.e, y.s}) \/ c \in assumptions(problem, y)
                    /\ ~ redundant(fresh, c)
    BY <2>4 DEF essential, active, cp
  <2>8. ASSUME NEW c \in essential(check_point)
        PROVE  \E b \in essential(fresh) : [b EXCEPT !.guard = {}] = [c EXCEPT !.guard = {}]
    <3>1. ~ redundant(cp, c)
      BY <2>7, <2>8
    <3>2. CASE c \in cp.hard /\ c.guard \subseteq {cp.e, cp.s}
      <4>1. c \in G
        BY <2>5, <3>1, <3>2, SpareIsRedundant
      <4>2. PICK b \in F : SaysTheSame(b, c)
        BY <2>6, <4>1 DEF Alike
      <4>3. b.guard \subseteq {y.e, y.s} /\ ~ redundant(fresh, b)
        BY <2>4, <2>6, <3>1, <4>2, RedundantAlike DEF Alike
      <4> QED
        BY <2>7, <4>2, <4>3 DEF SaysTheSame
    <3>3. CASE c \in cp.assumed
      <4>1. c.kind # "too late"
        BY <3>1 DEF redundant
      <4>2. c \in assumptions(problem, y)
        BY <2>2, <2>3, <3>3, <4>1, AssumedAlike
      <4>3. ~ redundant(fresh, c)
        BY <2>4, <3>1, RedundantAlike, Itself
      <4> QED
        BY <2>7, <4>2, <4>3
    <3> QED
      BY <2>7, <2>8, <3>2, <3>3
  <2>9. ASSUME NEW b \in essential(fresh)
        PROVE  \/ \E c \in essential(check_point) : [c EXCEPT !.guard = {}] = [b EXCEPT !.guard = {}]
               \/ overlooked([b EXCEPT !.guard = {}])
    <3>1. ~ redundant(fresh, b)
      BY <2>7, <2>9
    <3>2. CASE b \in F
      <4>1. PICK c \in G : SaysTheSame(c, b)
        BY <2>6, <3>2 DEF Alike
      <4>2. c.guard \subseteq {cp.e, cp.s} /\ ~ redundant(cp, c)
        BY <2>3, <2>4, <2>6, <3>1, <4>1, RedundantAlike DEF Alike
      <4>3. c \in cp.hard \/ Passed(c)
        BY <2>5, <4>2, SpareIsRedundant
      <4>4. CASE c \in cp.hard
        BY <2>7, <4>1, <4>2, <4>4 DEF SaysTheSame
      <4>5. CASE Passed(c)
        BY <4>1, <4>5, PassedIsOverlooked DEF SaysTheSame
      <4> QED
        BY <4>3, <4>4, <4>5
    <3>3. CASE b \in assumptions(problem, y)
      <4>1. b.kind # "too late"
        BY <3>1 DEF redundant
      <4>2. b \in cp.assumed
        <5>1. y.dim = z.dim
          BY <2>2, <2>3
        <5>2. b \in assumptions(problem, z)
          BY <3>3, <4>1, <5>1, AssumedAlike
        <5> QED
          BY <2>2, <5>2
      <4>3. ~ redundant(cp, b)
        BY <2>4, <3>1, RedundantAlike, Itself
      <4> QED
        BY <2>7, <4>2, <4>3
    <3> QED
      BY <2>7, <2>9, <3>2, <3>3
  <2>10. {check_point.e, check_point.s} \cap check_point.off = {}
    BY <2>1 DEF IsState, cp
  <2> QED
    BY <2>8, <2>9, <2>10 DEF unguarded
<1> QED
  BY <1>1, TreeInvInit, TreeInvStep, PTL DEF TreeSpec

(* "linear schemes; no cycles by definition" (exact.hpp:2412): for linear  *)
(* schemes exact tells its solvers nothing of paths, and whatever sizes    *)
(* they are given, the clock numbers alone keep data from flowing in a     *)
(* cycle; a 2DDWave of three clocks over hexagons is excepted.             *)
THEOREM LinearSchemesNeedNoPaths == TreeSpec => []NoPathCloses
<1>1. TreeInv => NoPathCloses
  <2> SUFFICES ASSUME TreeInv, phase = "check", is_linear_scheme(problem.scheme), ~ steps_back
               PROVE  acyclic_flow(problem.scheme, check_point.dim)
    BY DEF NoPathCloses
  <2>1. IsProblem(problem)
    BY DEF TreeInv
  <2>2. PICK ar \in Nat \X Nat : check_point.dim = aspect_ratio(problem, ar)
    BY DEF TreeInv, IsCheckPoint
  <2> DEFINE dim == check_point.dim
  <2>3. /\ IsLayout(dim)
        /\ hexagonal(dim) <=> problem.topology # << >>
        /\ hexagonal(dim) => problem.topology = <<dim[4]>>
    BY <2>1, <2>2, Sizes
  <2>4. LinearClocking(problem.scheme, dim)
    <3>1. CASE problem.scheme \in LinearSchemes
      <4>1. twoddwave_3_clocking.name = "2DDWAVE" /\ twoddwave_3_clocking.num_clocks = 3
        BY DEF twoddwave_3_clocking, regular
      <4> QED
        BY <3>1, <4>1 DEF LinearSchemes, LinearClocking, steps_back
    <3>2. ASSUME NEW n \in {3, 4}, NEW a \in Arrangements, problem.topology = <<a>>,
                 problem.scheme = twoddwave_hex_clocking(n, a)
          PROVE  LinearClocking(problem.scheme, dim)
      <4>1. hexagonal(dim) /\ dim[4] = a
        BY <2>3, <3>2
      <4> QED
        BY <3>2, <4>1 DEF LinearClocking
    <3> QED
      BY <2>1, <3>1, <3>2 DEF IsProblem
  <2> QED
    BY <2>3, <2>4, LinearSchemesAcyclic
<1> QED
  BY <1>1, TreeInvInit, TreeInvStep, PTL DEF TreeSpec
=============================================================================
