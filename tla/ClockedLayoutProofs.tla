------------------------ MODULE ClockedLayoutProofs ------------------------
(***************************************************************************)
(* Proofs about the data flow that clocking schemes allow, on layouts of   *)
(* every size and topology.                                                *)
(***************************************************************************)
EXTENDS ClockedLayout, FiniteSetTheorems, WellFoundedInduction, TLAPS

(* Every nonempty set of naturals has a least element: the principle that  *)
(* the induction over fronts of the clocking is carried out with.          *)
LEMMA LeastNat ==
  ASSUME NEW T \in SUBSET Nat, T # {}
  PROVE  \E x \in T : \A y \in T : x <= y
<1> DEFINE R == OpToRel(<, Nat)
<1>1. IsWellFoundedOn(R, Nat)
  BY NatLessThanWellFounded
<1>2. \A x, y \in Nat : <<y, x>> \in R <=> y < x
  BY DEF OpToRel
<1> HIDE DEF R
<1>3. PICK x \in T : \A y \in T : ~ (<<y, x>> \in R)
  BY <1>1, WFMin
<1>4. ASSUME NEW y \in T
      PROVE  x <= y
  <2>1. x \in Nat /\ y \in Nat
    OBVIOUS
  <2>2. ~ (y < x)
    BY <1>2, <1>3, <2>1
  <2> QED
    BY <2>1, <2>2
<1> QED
  BY <1>3, <1>4

-----------------------------------------------------------------------------
(* The aspect ratios of layouts, hexagonal and shifted ones included. *)
IsLayout(dim) ==
  /\ dim[1] \in Nat /\ dim[2] \in Nat /\ dim[3] \in Nat
  /\ hexagonal(dim) => dim[4] \in Arrangements

-----------------------------------------------------------------------------
(* Where the neighbours of a tile are. *)

(* How far the hexagonal wave has advanced at position (x, y). *)
ahead(dim) == IF dim[4] \in {"odd_row", "odd_column"} THEN 1 ELSE 0
hex_wave(dim, x, y) ==
  IF pointy_top(dim) THEN x + ((y + ahead(dim)) \div 2) ELSE y + ((x + ahead(dim)) \div 2)

LEMMA CartesianNeighbours ==
  ASSUME NEW dim, IsLayout(dim), ~ hexagonal(dim),
         NEW t \in ground_tiles(dim), NEW u \in adjacent_coordinates(dim, t)
  PROVE  /\ u[1] \in Nat /\ u[2] \in Nat
         /\ \/ u[1] = t[1] /\ u[2] - t[2] \in {-1, 1}
            \/ u[2] = t[2] /\ u[1] - t[1] \in {-1, 1}
<1>1. PICK x \in 0..dim[1], y \in 0..dim[2] : t = <<x, y, 0>>
  BY DEF ground_tiles
<1>2. dim[1] \in Nat /\ dim[2] \in Nat /\ x \in Nat /\ y \in Nat /\ x <= dim[1] /\ y <= dim[2]
  BY DEF IsLayout
<1>3. t[1] = x /\ t[2] = y
  BY <1>1
<1>4. u \in {north(t), east(dim, t), south(dim, t), west(t)} /\ u # t
  BY DEF adjacent_coordinates, cardinal_neighbours
<1>5. CASE u = north(t)
  <2>1. y # 0 /\ u[1] = x /\ u[2] = y - 1
    BY <1>1, <1>3, <1>4, <1>5 DEF north
  <2> QED
    BY <1>2, <1>3, <2>1
<1>6. CASE u = west(t)
  <2>1. x # 0 /\ u[1] = x - 1 /\ u[2] = y
    BY <1>1, <1>3, <1>4, <1>6 DEF west
  <2> QED
    BY <1>2, <1>3, <2>1
<1>7. CASE u = east(dim, t)
  <2>1. u[1] = x + 1 /\ u[2] = y
    BY <1>1, <1>2, <1>3, <1>4, <1>7 DEF east, up_to
  <2> QED
    BY <1>2, <1>3, <2>1
<1>8. CASE u = south(dim, t)
  <2>1. u[1] = x /\ u[2] = y + 1
    BY <1>1, <1>2, <1>3, <1>4, <1>8 DEF south, up_to
  <2> QED
    BY <1>2, <1>3, <2>1
<1> QED
  BY <1>4, <1>5, <1>6, <1>7, <1>8

(* What shoving does to rows and columns: half of p, rounded down if the   *)
(* odd ones are shoved, else up.                                           *)
LEMMA Shoving ==
  ASSUME NEW dim, NEW p \in Int
  PROVE  shoved(dim, p) = IF ahead(dim) = 1 THEN p \div 2 ELSE (p + 1) \div 2
<1>1. (p + (-1) * (p % 2)) \div 2 = p \div 2 /\ (p + 1 * (p % 2)) \div 2 = (p + 1) \div 2
  OBVIOUS
<1> QED
  BY <1>1 DEF shoved, ahead

(* One step along d in a row or column with position p, across ones with   *)
(* position q.                                                             *)
LEMMA ShovedStep ==
  ASSUME NEW p \in Int, NEW q \in Int, NEW d \in -1..1, NEW e \in -1..1, d + e \in -1..1
  PROVE  /\ (p - (q \div 2)) + d + ((q + e) \div 2) \in (p - 1)..(p + 1)
         /\ (p - ((q + 1) \div 2)) + d + (((q + e) + 1) \div 2) \in (p - 1)..(p + 1)
         /\ ((p - (q \div 2)) + d + ((q + e) \div 2) + (((q + e) + 1) \div 2))
              - (p + ((q + 1) \div 2)) \in -1..1
         /\ ((p - ((q + 1) \div 2)) + d + (((q + e) + 1) \div 2) + ((q + e) \div 2))
              - (p + (q \div 2)) \in -1..1
<1>1. e \in {-1, 0, 1} /\ d \in {-1, 0, 1}
  OBVIOUS
<1>2. CASE e = 0
  BY <1>2
<1>3. CASE e = 1
  <2>1. d \in {-1, 0}
    BY <1>1, <1>3
  <2> QED
    BY <1>3, <2>1
<1>4. CASE e = -1
  <2>1. d \in {1, 0}
    BY <1>1, <1>4
  <2> QED
    BY <1>4, <2>1
<1> QED
  BY <1>1, <1>2, <1>3, <1>4

LEMMA HexagonalNeighbours ==
  ASSUME NEW dim, IsLayout(dim), hexagonal(dim),
         NEW t \in ground_tiles(dim), NEW u \in adjacent_coordinates(dim, t)
  PROVE  /\ u[1] \in Nat /\ u[2] \in Nat
         /\ u[1] - t[1] \in -1..1 /\ u[2] - t[2] \in -1..1
         /\ hex_wave(dim, u[1], u[2]) - hex_wave(dim, t[1], t[2]) \in -1..1
<1>1. PICK x \in 0..dim[1], y \in 0..dim[2] : t = <<x, y, 0>>
  BY DEF ground_tiles
<1>2. x \in Int /\ y \in Int /\ t[1] = x /\ t[2] = y
  BY <1>1 DEF IsLayout
<1>3. PICK d \in cube_directions : u = towards(dim, t, d) /\ u[1] >= 0 /\ u[2] >= 0
  BY DEF adjacent_coordinates, on_layout
<1>4. d[1] \in -1..1 /\ d[3] \in -1..1 /\ d[1] + d[3] \in -1..1 /\ d[3] + d[1] \in -1..1
  BY DEF cube_directions
<1>5. CASE pointy_top(dim)
  <2>1. /\ u[1] = (x - shoved(dim, y)) + d[1] + shoved(dim, y + d[3])
        /\ u[2] = y + d[3]
    BY <1>2, <1>3, <1>5 DEF towards, to_cube_coordinate, to_offset_coordinate, cube
  <2> DEFINE e == d[1]
             f == d[3]
  <2>2. e \in -1..1 /\ f \in -1..1 /\ e + f \in -1..1 /\ y + f \in Int
    BY <1>2, <1>4
  <2> HIDE DEF e, f
  <2>3. CASE ahead(dim) = 1
    <3>1. u[1] = (x - (y \div 2)) + e + ((y + f) \div 2) /\ u[2] = y + f
      BY <1>2, <2>1, <2>2, <2>3, Shoving DEF e, f
    <3>2. /\ u[1] \in (x - 1)..(x + 1)
          /\ (u[1] + ((u[2] + 1) \div 2)) - (x + ((y + 1) \div 2)) \in -1..1
      BY <1>2, <2>2, <3>1, ShovedStep
    <3> QED
      BY <1>2, <1>3, <1>5, <2>2, <2>3, <3>1, <3>2 DEF hex_wave
  <2>4. CASE ahead(dim) # 1
    <3>1. u[1] = (x - ((y + 1) \div 2)) + e + (((y + f) + 1) \div 2) /\ u[2] = y + f
      BY <1>2, <2>1, <2>2, <2>4, Shoving DEF e, f
    <3>2. /\ u[1] \in (x - 1)..(x + 1)
          /\ (u[1] + (u[2] \div 2)) - (x + (y \div 2)) \in -1..1
      BY <1>2, <2>2, <3>1, ShovedStep
    <3>3. ahead(dim) = 0
      BY <2>4 DEF ahead
    <3> QED
      BY <1>2, <1>3, <1>5, <2>2, <3>1, <3>2, <3>3 DEF hex_wave
  <2> QED
    BY <2>3, <2>4
<1>6. CASE ~ pointy_top(dim)
  <2>1. /\ u[2] = (y - shoved(dim, x)) + d[3] + shoved(dim, x + d[1])
        /\ u[1] = x + d[1]
    BY <1>2, <1>3, <1>6 DEF towards, to_cube_coordinate, to_offset_coordinate, cube
  <2> DEFINE e == d[1]
             f == d[3]
  <2>2. e \in -1..1 /\ f \in -1..1 /\ f + e \in -1..1 /\ x + e \in Int
    BY <1>2, <1>4
  <2> HIDE DEF e, f
  <2>3. CASE ahead(dim) = 1
    <3>1. u[2] = (y - (x \div 2)) + f + ((x + e) \div 2) /\ u[1] = x + e
      BY <1>2, <2>1, <2>2, <2>3, Shoving DEF e, f
    <3>2. /\ u[2] \in (y - 1)..(y + 1)
          /\ (u[2] + ((u[1] + 1) \div 2)) - (y + ((x + 1) \div 2)) \in -1..1
      BY <1>2, <2>2, <3>1, ShovedStep
    <3> QED
      BY <1>2, <1>3, <1>6, <2>2, <2>3, <3>1, <3>2 DEF hex_wave
  <2>4. CASE ahead(dim) # 1
    <3>1. u[2] = (y - ((x + 1) \div 2)) + f + (((x + e) + 1) \div 2) /\ u[1] = x + e
      BY <1>2, <2>1, <2>2, <2>4, Shoving DEF e, f
    <3>2. /\ u[2] \in (y - 1)..(y + 1)
          /\ (u[2] + (u[1] \div 2)) - (y + (x \div 2)) \in -1..1
      BY <1>2, <2>2, <3>1, ShovedStep
    <3>3. ahead(dim) = 0
      BY <2>4 DEF ahead
    <3> QED
      BY <1>2, <1>3, <1>6, <2>2, <3>1, <3>2, <3>3 DEF hex_wave
  <2> QED
    BY <2>3, <2>4
<1> QED
  BY <1>5, <1>6

(* Two numbers of a wave that are close and whose clocks succeed. *)
LEMMA WaveStep ==
  ASSUME NEW r \in Nat, NEW s \in Nat
  PROVE  /\ s - r \in -1..1 /\ ((r % 3) + 1) % 3 = s % 3 => s = r + 1
         /\ s - r \in -2..2 /\ ((r % 4) + 1) % 4 = s % 4 => s = r + 1
  OBVIOUS

-----------------------------------------------------------------------------
(* The clock numbers of the linear schemes. *)

(* A regular scheme looks up the cutout of w by h clock numbers. *)
Repeats(scheme, w, h) ==
  /\ scheme.override = <<>> /\ Len(scheme.cutout) = h
  /\ \A r \in 1..h : Len(scheme.cutout[r]) = w

LEMMA Lookup ==
  ASSUME NEW t, t[1] \in Nat, t[2] \in Nat, NEW w \in Nat, w > 0, NEW h \in Nat, h > 0,
         NEW scheme, Repeats(scheme, w, h)
  PROVE  /\ t[1] % w \in 0..(w - 1) /\ t[2] % h \in 0..(h - 1)
         /\ clock_number(scheme, t) = scheme.cutout[(t[2] % h) + 1][(t[1] % w) + 1]
<1>1. t[1] % w \in 0..(w - 1) /\ t[2] % h \in 0..(h - 1)
  OBVIOUS
<1> DEFINE r == (t[2] % h) + 1
<1>2. r \in 1..h
  BY <1>1
<1>3. Len(scheme.cutout[r]) = w /\ r = (t[2] % Len(scheme.cutout)) + 1
  BY <1>2 DEF Repeats
<1> HIDE DEF r
<1>4. clock_number(scheme, t) = scheme.cutout[r][(t[1] % w) + 1]
  BY <1>3 DEF clock_number, Repeats
<1> QED
  BY <1>1, <1>4 DEF r

(* Literal cutouts. *)
LEMMA FourByFour ==
  /\ Repeats(columnar_clocking, 4, 4) /\ Repeats(row_clocking, 4, 4)
  /\ Repeats(twoddwave_clocking, 4, 4)
  /\ \A r, c \in 0..3 :
       /\ columnar_clocking.cutout[r + 1][c + 1] = c
       /\ row_clocking.cutout[r + 1][c + 1] = r
       /\ twoddwave_clocking.cutout[r + 1][c + 1] = (r + c) % 4
<1>1. 1..4 = {1, 2, 3, 4} /\ 0..3 = {0, 1, 2, 3}
  OBVIOUS
<1>2. Repeats(columnar_clocking, 4, 4)
  BY <1>1 DEF Repeats, columnar_clocking, regular
<1>3. Repeats(row_clocking, 4, 4)
  BY <1>1 DEF Repeats, row_clocking, regular
<1>4. Repeats(twoddwave_clocking, 4, 4)
  BY <1>1 DEF Repeats, twoddwave_clocking, regular
<1>5. ASSUME NEW r \in {0, 1, 2, 3}, NEW c \in {0, 1, 2, 3}
      PROVE  columnar_clocking.cutout[r + 1][c + 1] = c
  BY DEF columnar_clocking, regular
<1>6. ASSUME NEW r \in {0, 1, 2, 3}, NEW c \in {0, 1, 2, 3}
      PROVE  row_clocking.cutout[r + 1][c + 1] = r
  BY DEF row_clocking, regular
<1>7. ASSUME NEW r \in {0, 1, 2, 3}, NEW c \in {0, 1, 2, 3}
      PROVE  twoddwave_clocking.cutout[r + 1][c + 1] = (r + c) % 4
  BY DEF twoddwave_clocking, regular
<1> QED
  BY <1>1, <1>2, <1>3, <1>4, <1>5, <1>6, <1>7

LEMMA ThreeByThree ==
  /\ Repeats(columnar_3_clocking, 3, 3) /\ Repeats(row_3_clocking, 3, 3)
  /\ Repeats(twoddwave_3_clocking, 3, 3)
  /\ \A r, c \in 0..2 :
       /\ columnar_3_clocking.cutout[r + 1][c + 1] = c
       /\ row_3_clocking.cutout[r + 1][c + 1] = r
       /\ twoddwave_3_clocking.cutout[r + 1][c + 1] = (r + c) % 3
<1>1. 1..3 = {1, 2, 3} /\ 0..2 = {0, 1, 2}
  OBVIOUS
<1>2. Repeats(columnar_3_clocking, 3, 3)
  BY <1>1 DEF Repeats, columnar_3_clocking, regular
<1>3. Repeats(row_3_clocking, 3, 3)
  BY <1>1 DEF Repeats, row_3_clocking, regular
<1>4. Repeats(twoddwave_3_clocking, 3, 3)
  BY <1>1 DEF Repeats, twoddwave_3_clocking, regular
<1>5. ASSUME NEW r \in {0, 1, 2}, NEW c \in {0, 1, 2}
      PROVE  columnar_3_clocking.cutout[r + 1][c + 1] = c
  BY DEF columnar_3_clocking, regular
<1>6. ASSUME NEW r \in {0, 1, 2}, NEW c \in {0, 1, 2}
      PROVE  row_3_clocking.cutout[r + 1][c + 1] = r
  BY DEF row_3_clocking, regular
<1>7. ASSUME NEW r \in {0, 1, 2}, NEW c \in {0, 1, 2}
      PROVE  twoddwave_3_clocking.cutout[r + 1][c + 1] = (r + c) % 3
  BY DEF twoddwave_3_clocking, regular
<1> QED
  BY <1>1, <1>2, <1>3, <1>4, <1>5, <1>6, <1>7

LEMMA StraightWaves ==
  ASSUME NEW t, t[1] \in Nat, t[2] \in Nat
  PROVE  /\ clock_number(columnar_clocking, t) = t[1] % 4
         /\ clock_number(columnar_3_clocking, t) = t[1] % 3
         /\ clock_number(row_clocking, t) = t[2] % 4
         /\ clock_number(row_3_clocking, t) = t[2] % 3
         /\ clock_number(twoddwave_clocking, t) = (t[1] + t[2]) % 4
         /\ clock_number(twoddwave_3_clocking, t) = (t[1] + t[2]) % 3
<1>1. /\ ((t[2] % 4) + (t[1] % 4)) % 4 = (t[1] + t[2]) % 4
      /\ ((t[2] % 3) + (t[1] % 3)) % 3 = (t[1] + t[2]) % 3
  OBVIOUS
<1>2. t[1] % 4 \in 0..3 /\ t[2] % 4 \in 0..3 /\ t[1] % 3 \in 0..2 /\ t[2] % 3 \in 0..2
  OBVIOUS
<1> DEFINE x == t[1]
           y == t[2]
<1>3. /\ clock_number(columnar_clocking, t) = t[1] % 4
      /\ clock_number(row_clocking, t) = t[2] % 4
      /\ clock_number(twoddwave_clocking, t) = (t[1] + t[2]) % 4
  <2>1. \A S \in {columnar_clocking, row_clocking, twoddwave_clocking} :
          clock_number(S, t) = S.cutout[(y % 4) + 1][(x % 4) + 1]
    BY FourByFour, Lookup
  <2> DEFINE r == y % 4
             c == x % 4
  <2>2. r \in 0..3 /\ c \in 0..3
    BY <1>2
  <2>3. (r + c) % 4 = (t[1] + t[2]) % 4
    BY <1>1
  <2>4. \A S \in {columnar_clocking, row_clocking, twoddwave_clocking} :
          clock_number(S, t) = S.cutout[r + 1][c + 1]
    BY <2>1
  <2> HIDE DEF r, c
  <2>5. /\ clock_number(columnar_clocking, t) = c
        /\ clock_number(row_clocking, t) = r
        /\ clock_number(twoddwave_clocking, t) = (r + c) % 4
    BY <2>2, <2>4, FourByFour
  <2> QED
    BY <2>3, <2>5 DEF r, c
<1>4. /\ clock_number(columnar_3_clocking, t) = t[1] % 3
      /\ clock_number(row_3_clocking, t) = t[2] % 3
      /\ clock_number(twoddwave_3_clocking, t) = (t[1] + t[2]) % 3
  <2>1. \A S \in {columnar_3_clocking, row_3_clocking, twoddwave_3_clocking} :
          clock_number(S, t) = S.cutout[(y % 3) + 1][(x % 3) + 1]
    BY ThreeByThree, Lookup
  <2> DEFINE r == y % 3
             c == x % 3
  <2>2. r \in 0..2 /\ c \in 0..2
    BY <1>2
  <2>3. (r + c) % 3 = (t[1] + t[2]) % 3
    BY <1>1
  <2>4. \A S \in {columnar_3_clocking, row_3_clocking, twoddwave_3_clocking} :
          clock_number(S, t) = S.cutout[r + 1][c + 1]
    BY <2>1
  <2> HIDE DEF r, c
  <2>5. /\ clock_number(columnar_3_clocking, t) = c
        /\ clock_number(row_3_clocking, t) = r
        /\ clock_number(twoddwave_3_clocking, t) = (r + c) % 3
    BY <2>2, <2>4, ThreeByThree
  <2> QED
    BY <2>3, <2>5 DEF r, c
<1> QED
  BY <1>3, <1>4

LEMMA HexagonalWaves ==
  ASSUME NEW dim, IsLayout(dim), hexagonal(dim), NEW n \in {3, 4},
         NEW t, t[1] \in Nat, t[2] \in Nat
  PROVE  clock_number(twoddwave_hex_clocking(n, dim[4]), t) = hex_wave(dim, t[1], t[2]) % n
<1> DEFINE S == twoddwave_hex_clocking(n, dim[4])
           x == t[1]
           y == t[2]
           a == ahead(dim)
<1>0. x \in Nat /\ y \in Nat /\ a \in {0, 1} /\ n \in Nat /\ n > 0 /\ 2 * n \in Nat /\ 2 * n > 0
  BY DEF ahead
<1>1. CASE pointy_top(dim)
  <2>1. /\ Repeats(S, n, 2 * n)
        /\ \A r \in 0..(2 * n - 1), c \in 0..(n - 1) :
             S.cutout[r + 1][c + 1] = (c + ((r + a) \div 2)) % n
    <3>1. /\ S.override = <<>>
          /\ S.cutout = [r \in 1..(2 * n) |-> [c \in 1..n |-> ((c - 1) + (((r - 1) + a) \div 2)) % n]]
      BY <1>1 DEF twoddwave_hex_clocking, regular, pointy_top, ahead
    <3> HIDE DEF S, a
    <3>2. \A r \in 1..(2 * n) : S.cutout[r] = [c \in 1..n |-> ((c - 1) + (((r - 1) + a) \div 2)) % n]
      BY <3>1
    <3>3. Len(S.cutout) = 2 * n /\ \A r \in 1..(2 * n) : Len(S.cutout[r]) = n
      BY <1>0, <3>1, <3>2
    <3>4. ASSUME NEW r \in 0..(2 * n - 1), NEW c \in 0..(n - 1)
          PROVE  S.cutout[r + 1][c + 1] = (c + ((r + a) \div 2)) % n
      <4>1. r + 1 \in 1..(2 * n) /\ c + 1 \in 1..n /\ (r + 1) - 1 = r /\ (c + 1) - 1 = c
        BY <1>0
      <4>2. S.cutout[r + 1] = [k \in 1..n |-> ((k - 1) + ((((r + 1) - 1) + a) \div 2)) % n]
        BY <3>2, <4>1
      <4>3. S.cutout[r + 1][c + 1] = (((c + 1) - 1) + ((((r + 1) - 1) + a) \div 2)) % n
        BY <4>1, <4>2
      <4> QED
        BY <4>1, <4>3
    <3> QED
      BY <3>1, <3>3, <3>4 DEF Repeats
  <2> HIDE DEF S, a, x, y
  <2>2. /\ x % n \in 0..(n - 1) /\ y % (2 * n) \in 0..(2 * n - 1)
        /\ clock_number(S, t) = S.cutout[(y % (2 * n)) + 1][(x % n) + 1]
    BY <1>0, <2>1, Lookup DEF x, y
  <2>3. clock_number(S, t) = ((x % n) + (((y % (2 * n)) + a) \div 2)) % n
    BY <2>1, <2>2
  <2>4. ((x % n) + (((y % (2 * n)) + a) \div 2)) % n = (x + ((y + a) \div 2)) % n
    BY <1>0
  <2> QED
    BY <1>1, <2>3, <2>4 DEF S, a, x, y, hex_wave
<1>2. CASE ~ pointy_top(dim)
  <2>1. /\ Repeats(S, 2 * n, n)
        /\ \A r \in 0..(n - 1), c \in 0..(2 * n - 1) :
             S.cutout[r + 1][c + 1] = (r + ((c + a) \div 2)) % n
    <3>1. /\ S.override = <<>>
          /\ S.cutout = [r \in 1..n |-> [c \in 1..(2 * n) |-> ((r - 1) + (((c - 1) + a) \div 2)) % n]]
      BY <1>2 DEF twoddwave_hex_clocking, regular, pointy_top, ahead
    <3> HIDE DEF S, a
    <3>2. \A r \in 1..n : S.cutout[r] = [c \in 1..(2 * n) |-> ((r - 1) + (((c - 1) + a) \div 2)) % n]
      BY <3>1
    <3>3. Len(S.cutout) = n /\ \A r \in 1..n : Len(S.cutout[r]) = 2 * n
      BY <1>0, <3>1, <3>2
    <3>4. ASSUME NEW r \in 0..(n - 1), NEW c \in 0..(2 * n - 1)
          PROVE  S.cutout[r + 1][c + 1] = (r + ((c + a) \div 2)) % n
      <4>1. r + 1 \in 1..n /\ c + 1 \in 1..(2 * n) /\ (r + 1) - 1 = r /\ (c + 1) - 1 = c
        BY <1>0
      <4>2. S.cutout[r + 1] = [k \in 1..(2 * n) |-> (((r + 1) - 1) + (((k - 1) + a) \div 2)) % n]
        BY <3>2, <4>1
      <4>3. S.cutout[r + 1][c + 1] = (((r + 1) - 1) + ((((c + 1) - 1) + a) \div 2)) % n
        BY <4>1, <4>2
      <4> QED
        BY <4>1, <4>3
    <3> QED
      BY <3>1, <3>3, <3>4 DEF Repeats
  <2> HIDE DEF S, a, x, y
  <2>2. /\ y % n \in 0..(n - 1) /\ x % (2 * n) \in 0..(2 * n - 1)
        /\ clock_number(S, t) = S.cutout[(y % n) + 1][(x % (2 * n)) + 1]
    BY <1>0, <2>1, Lookup DEF x, y
  <2>3. clock_number(S, t) = ((y % n) + (((x % (2 * n)) + a) \div 2)) % n
    BY <2>1, <2>2
  <2>4. ((y % n) + (((x % (2 * n)) + a) \div 2)) % n = (y + ((x + a) \div 2)) % n
    BY <1>0
  <2> QED
    BY <1>2, <2>3, <2>4 DEF S, a, x, y, hex_wave
<1> QED
  BY <1>1, <1>2

-----------------------------------------------------------------------------
(* Linear schemes. *)

(* The regular schemes that is_linear_scheme names, on the layouts they    *)
(* are made for: a 2DDWave with three clocks takes square tiles, as over   *)
(* hexagons a step back by two counts as one ahead.                        *)
LinearClocking(scheme, dim) ==
  \/ scheme \in {columnar_clocking, columnar_3_clocking, row_clocking, row_3_clocking, twoddwave_clocking}
  \/ scheme = twoddwave_3_clocking /\ ~ hexagonal(dim)
  \/ hexagonal(dim) /\ \E n \in {3, 4} : scheme = twoddwave_hex_clocking(n, dim[4])

(* How far the wave of a linear scheme has advanced at tile t. *)
front(scheme, dim, t) ==
  CASE scheme.name = "COLUMNAR" -> t[1]
    [] scheme.name = "ROW" -> t[2]
    [] scheme.name = "2DDWAVE" -> t[1] + t[2]
    [] OTHER -> hex_wave(dim, t[1], t[2])

(* Data flows forward only: from every tile to tiles one step ahead. *)
LEMMA FlowAdvances ==
  ASSUME NEW dim, IsLayout(dim), NEW scheme, LinearClocking(scheme, dim),
         NEW t \in ground_tiles(dim), NEW u \in outgoing_clocked_zones(scheme, dim, t)
  PROVE  /\ front(scheme, dim, t) \in Nat
         /\ front(scheme, dim, u) = front(scheme, dim, t) + 1
<1>1. t[1] \in Nat /\ t[2] \in Nat
  <2>1. PICK x \in 0..dim[1], y \in 0..dim[2] : t = <<x, y, 0>>
    BY DEF ground_tiles
  <2> QED
    BY <2>1 DEF IsLayout
<1>2. u \in adjacent_coordinates(dim, t) /\ feeds(scheme, t, u)
  BY DEF outgoing_clocked_zones, is_outgoing_clocked
<1>3. /\ u[1] \in Nat /\ u[2] \in Nat
      /\ u[1] - t[1] \in -1..1 /\ u[2] - t[2] \in -1..1
      /\ ~ hexagonal(dim) => (u[1] + u[2]) - (t[1] + t[2]) \in -1..1
      /\ (u[1] + u[2]) - (t[1] + t[2]) \in -2..2
  <2>1. CASE hexagonal(dim)
    <3>1. u[1] \in Nat /\ u[2] \in Nat /\ u[1] - t[1] \in -1..1 /\ u[2] - t[2] \in -1..1
      BY <1>2, <2>1, HexagonalNeighbours
    <3> QED
      BY <1>1, <2>1, <3>1
  <2>2. CASE ~ hexagonal(dim)
    <3>1. /\ u[1] \in Nat /\ u[2] \in Nat
          /\ \/ u[1] = t[1] /\ u[2] - t[2] \in {-1, 1}
             \/ u[2] = t[2] /\ u[1] - t[1] \in {-1, 1}
      BY <1>2, <2>2, CartesianNeighbours
    <3> QED
      BY <1>1, <3>1
  <2> QED
    BY <2>1, <2>2
<1>4. scheme.se = <<>> => succeeds(scheme, t, u)
  BY <1>2 DEF feeds, is_synchronization_element
<1>5. CASE scheme \in {columnar_clocking, row_clocking, twoddwave_clocking}
  <2>1. scheme.se = <<>> /\ scheme.num_clocks = 4
    BY <1>5 DEF columnar_clocking, row_clocking, twoddwave_clocking, regular
  <2>2. (clock_number(scheme, t) + 1) % 4 = clock_number(scheme, u)
    BY <1>4, <2>1 DEF succeeds
  <2>3. CASE scheme = columnar_clocking
    <3>1. ((t[1] % 4) + 1) % 4 = u[1] % 4
      BY <1>1, <1>3, <2>2, <2>3, StraightWaves
    <3>2. u[1] = t[1] + 1
      BY <1>1, <1>3, <3>1, WaveStep
    <3>3. scheme.name = "COLUMNAR"
      BY <2>3 DEF columnar_clocking, regular
    <3> QED
      BY <1>1, <3>2, <3>3 DEF front
  <2>4. CASE scheme = row_clocking
    <3>1. ((t[2] % 4) + 1) % 4 = u[2] % 4
      BY <1>1, <1>3, <2>2, <2>4, StraightWaves
    <3>2. u[2] = t[2] + 1
      BY <1>1, <1>3, <3>1, WaveStep
    <3>3. scheme.name = "ROW"
      BY <2>4 DEF row_clocking, regular
    <3> QED
      BY <1>1, <3>2, <3>3 DEF front
  <2>5. CASE scheme = twoddwave_clocking
    <3>1. (((t[1] + t[2]) % 4) + 1) % 4 = (u[1] + u[2]) % 4
      BY <1>1, <1>3, <2>2, <2>5, StraightWaves
    <3>2. t[1] + t[2] \in Nat /\ u[1] + u[2] \in Nat
      BY <1>1, <1>3
    <3>3. u[1] + u[2] = (t[1] + t[2]) + 1
      BY <1>3, <3>1, <3>2, WaveStep
    <3>4. scheme.name = "2DDWAVE"
      BY <2>5 DEF twoddwave_clocking, regular
    <3> QED
      BY <3>2, <3>3, <3>4 DEF front
  <2> QED
    BY <1>5, <2>3, <2>4, <2>5
<1>6. CASE \/ scheme \in {columnar_3_clocking, row_3_clocking}
           \/ scheme = twoddwave_3_clocking /\ ~ hexagonal(dim)
  <2>1. scheme.se = <<>> /\ scheme.num_clocks = 3
    BY <1>6 DEF columnar_3_clocking, row_3_clocking, twoddwave_3_clocking, regular
  <2>2. (clock_number(scheme, t) + 1) % 3 = clock_number(scheme, u)
    BY <1>4, <2>1 DEF succeeds
  <2>3. CASE scheme = columnar_3_clocking
    <3>1. ((t[1] % 3) + 1) % 3 = u[1] % 3
      BY <1>1, <1>3, <2>2, <2>3, StraightWaves
    <3>2. u[1] = t[1] + 1
      BY <1>1, <1>3, <3>1, WaveStep
    <3>3. scheme.name = "COLUMNAR"
      BY <2>3 DEF columnar_3_clocking, regular
    <3> QED
      BY <1>1, <3>2, <3>3 DEF front
  <2>4. CASE scheme = row_3_clocking
    <3>1. ((t[2] % 3) + 1) % 3 = u[2] % 3
      BY <1>1, <1>3, <2>2, <2>4, StraightWaves
    <3>2. u[2] = t[2] + 1
      BY <1>1, <1>3, <3>1, WaveStep
    <3>3. scheme.name = "ROW"
      BY <2>4 DEF row_3_clocking, regular
    <3> QED
      BY <1>1, <3>2, <3>3 DEF front
  <2>5. CASE scheme = twoddwave_3_clocking /\ ~ hexagonal(dim)
    <3>1. (((t[1] + t[2]) % 3) + 1) % 3 = (u[1] + u[2]) % 3
      BY <1>1, <1>3, <2>2, <2>5, StraightWaves
    <3>2. t[1] + t[2] \in Nat /\ u[1] + u[2] \in Nat
      BY <1>1, <1>3
    <3>3. u[1] + u[2] = (t[1] + t[2]) + 1
      BY <1>3, <2>5, <3>1, <3>2, WaveStep
    <3>4. scheme.name = "2DDWAVE"
      BY <2>5 DEF twoddwave_3_clocking, regular
    <3> QED
      BY <3>2, <3>3, <3>4 DEF front
  <2> QED
    BY <1>6, <2>3, <2>4, <2>5
<1>7. CASE hexagonal(dim) /\ \E n \in {3, 4} : scheme = twoddwave_hex_clocking(n, dim[4])
  <2>1. PICK n \in {3, 4} : scheme = twoddwave_hex_clocking(n, dim[4])
    BY <1>7
  <2>2. scheme.se = <<>> /\ scheme.num_clocks = n /\ scheme.name = "2DDWAVEHEX"
    BY <2>1 DEF twoddwave_hex_clocking, regular
  <2> DEFINE r == hex_wave(dim, t[1], t[2])
             s == hex_wave(dim, u[1], u[2])
  <2>3. r \in Nat /\ s \in Nat
    BY <1>1, <1>3 DEF hex_wave, ahead
  <2>4. s - r \in -1..1
    BY <1>2, <1>7, HexagonalNeighbours
  <2>5. clock_number(scheme, t) = r % n /\ clock_number(scheme, u) = s % n
    BY <1>1, <1>3, <1>7, <2>1, HexagonalWaves
  <2>6. ((r % n) + 1) % n = s % n
    BY <1>4, <2>2, <2>5 DEF succeeds
  <2> HIDE DEF r, s
  <2>7. s = r + 1
    BY <2>3, <2>4, <2>6, WaveStep
  <2>8. front(scheme, dim, t) = r /\ front(scheme, dim, u) = s
    BY <2>2 DEF front, r, s
  <2> QED
    BY <2>3, <2>7, <2>8
<1> QED
  BY <1>5, <1>6, <1>7 DEF LinearClocking

(* "linear schemes; no cycles by definition" (exact.hpp:2412): exact puts  *)
(* no constraints on paths if the scheme is linear.  On a layout of any    *)
(* size and topology the tiles cannot hand their data around in a cycle    *)
(* then, under the schemes that LinearClocking lists.                      *)
THEOREM LinearSchemesAcyclic ==
  ASSUME NEW dim, IsLayout(dim), NEW scheme, LinearClocking(scheme, dim)
  PROVE  acyclic_flow(scheme, dim)
<1> SUFFICES ASSUME NEW S \in SUBSET ground_tiles(dim), S # {},
                    \A t \in S : outgoing_clocked_zones(scheme, dim, t) \cap S # {}
             PROVE  FALSE
  BY DEF acyclic_flow
<1> DEFINE f(t) == front(scheme, dim, t)
           top == 2 * (dim[1] + dim[2]) + 1
           left(t) == top - f(t)
           T == {left(t) : t \in S}
<1>1. ASSUME NEW t \in S
      PROVE  f(t) \in Nat /\ f(t) <= top
  <2>1. PICK u \in S : u \in outgoing_clocked_zones(scheme, dim, t)
    OBVIOUS
  <2>2. f(t) \in Nat
    BY <2>1, FlowAdvances
  <2>3. PICK x \in 0..dim[1], y \in 0..dim[2] : t = <<x, y, 0>>
    BY DEF ground_tiles
  <2>4. /\ dim[1] \in Nat /\ dim[2] \in Nat /\ x \in Nat /\ y \in Nat
        /\ x <= dim[1] /\ y <= dim[2] /\ t[1] = x /\ t[2] = y
    BY <2>3 DEF IsLayout
  <2>5. hex_wave(dim, x, y) <= x + y + 1
    BY <2>4 DEF hex_wave, ahead
  <2>6. f(t) \in {x, y, x + y, hex_wave(dim, x, y)}
    BY <2>4 DEF front
  <2> QED
    BY <2>2, <2>4, <2>5, <2>6
<1>2. top \in Nat
  BY DEF IsLayout
<1> HIDE DEF f, top
<1>3. T \in SUBSET Nat /\ T # {}
  BY <1>1, <1>2
<1>4. PICK m \in T : \A k \in T : m <= k
  <2> HIDE DEF T
  <2> QED
    BY <1>3, LeastNat
<1>5. PICK t \in S : m = left(t)
  BY <1>4
<1>6. PICK u \in S : u \in outgoing_clocked_zones(scheme, dim, t)
  OBVIOUS
<1>7. f(u) = f(t) + 1 /\ f(t) \in Nat
  BY <1>6, FlowAdvances DEF f
<1>8. left(t) <= left(u)
  BY <1>4, <1>5
<1> QED
  BY <1>2, <1>7, <1>8

-----------------------------------------------------------------------------
(* Neighbourhood. *)
all_tiles(dim) == {<<x, y, z>> : x \in 0..dim[1], y \in 0..dim[2], z \in 0..dim[3]}

LEMMA CartesianSymmetric ==
  ASSUME NEW dim, IsLayout(dim), ~ hexagonal(dim),
         NEW t \in all_tiles(dim), NEW u \in adjacent_coordinates(dim, t)
  PROVE  t \in adjacent_coordinates(dim, u)
<1>1. PICK x \in 0..dim[1], y \in 0..dim[2], z \in 0..dim[3] : t = <<x, y, z>>
  BY DEF all_tiles
<1>2. dim[1] \in Nat /\ dim[2] \in Nat /\ x \in Nat /\ y \in Nat /\ x <= dim[1] /\ y <= dim[2]
  BY DEF IsLayout
<1>3. t[1] = x /\ t[2] = y
  BY <1>1
<1>4. u \in {north(t), east(dim, t), south(dim, t), west(t)} /\ u # t
  BY DEF adjacent_coordinates, cardinal_neighbours
<1>5. CASE u = north(t)
  <2>1. y # 0 /\ u = <<x, y - 1, z>>
    BY <1>1, <1>3, <1>4, <1>5 DEF north
  <2>2. south(dim, u) = <<x, (y - 1) + 1, z>>
    BY <1>2, <2>1 DEF south, up_to
  <2>3. south(dim, u) = t
    BY <1>1, <1>2, <2>2
  <2> QED
    BY <1>4, <2>3 DEF adjacent_coordinates, cardinal_neighbours
<1>6. CASE u = west(t)
  <2>1. x # 0 /\ u = <<x - 1, y, z>>
    BY <1>1, <1>3, <1>4, <1>6 DEF west
  <2>2. east(dim, u) = <<(x - 1) + 1, y, z>>
    BY <1>2, <2>1 DEF east, up_to
  <2>3. east(dim, u) = t
    BY <1>1, <1>2, <2>2
  <2> QED
    BY <1>4, <2>3 DEF adjacent_coordinates, cardinal_neighbours
<1>7. CASE u = east(dim, t)
  <2>1. u = <<x + 1, y, z>>
    BY <1>1, <1>2, <1>3, <1>4, <1>7 DEF east, up_to
  <2>2. west(u) = <<(x + 1) - 1, y, z>>
    BY <1>2, <2>1 DEF west
  <2>3. west(u) = t
    BY <1>1, <1>2, <2>2
  <2> QED
    BY <1>4, <2>3 DEF adjacent_coordinates, cardinal_neighbours
<1>8. CASE u = south(dim, t)
  <2>1. u = <<x, y + 1, z>>
    BY <1>1, <1>2, <1>3, <1>4, <1>8 DEF south, up_to
  <2>2. north(u) = <<x, (y + 1) - 1, z>>
    BY <1>2, <2>1 DEF north
  <2>3. north(u) = t
    BY <1>1, <1>2, <2>2
  <2> QED
    BY <1>4, <2>3 DEF adjacent_coordinates, cardinal_neighbours
<1> QED
  BY <1>4, <1>5, <1>6, <1>7, <1>8

LEMMA HexagonalSymmetric ==
  ASSUME NEW dim, IsLayout(dim), hexagonal(dim),
         NEW t \in all_tiles(dim), NEW u \in adjacent_coordinates(dim, t)
  PROVE  t \in adjacent_coordinates(dim, u)
<1>1. PICK x \in 0..dim[1], y \in 0..dim[2], z \in 0..dim[3] : t = <<x, y, z>>
  BY DEF all_tiles
<1>2. /\ dim[1] \in Nat /\ dim[2] \in Nat /\ dim[3] \in Nat
      /\ x \in Int /\ y \in Int /\ t[1] = x /\ t[2] = y /\ t[3] = z
  BY <1>1 DEF IsLayout
<1>3. on_layout(dim, t)
  <2>1. x >= 0 /\ y >= 0 /\ x <= dim[1] /\ y <= dim[2] /\ z <= dim[3]
    BY <1>2
  <2>2. \A i \in 1..3 : i = 1 \/ i = 2 \/ i = 3
    OBVIOUS
  <2> QED
    BY <1>2, <2>1, <2>2 DEF on_layout, is_within_bounds
<1>4. PICK d \in cube_directions : u = towards(dim, t, d)
  BY DEF adjacent_coordinates
<1> DEFINE e == d[1]
           f == d[3]
           back == <<-d[1], -d[2], -d[3]>>
<1>5. d[1] \in Int /\ d[2] \in Int /\ d[3] \in Int
  BY DEF cube_directions
<1>6. back \in cube_directions
  <2>1. /\ -d[1] \in -1..1 /\ -d[2] \in -1..1 /\ -d[3] \in -1..1
        /\ (-d[1]) + (-d[2]) + (-d[3]) = 0
    <3>1. \A i, j, k \in -1..1 : i + j + k = 0 =>
            -i \in -1..1 /\ -j \in -1..1 /\ -k \in -1..1 /\ (-i) + (-j) + (-k) = 0
      OBVIOUS
    <3>2. d[1] \in -1..1 /\ d[2] \in -1..1 /\ d[3] \in -1..1 /\ d[1] + d[2] + d[3] = 0
      BY DEF cube_directions
    <3> QED
      BY <3>1, <3>2
  <2>2. back # <<0, 0, 0>>
    <3>1. ~ (d[1] = 0 /\ d[2] = 0 /\ d[3] = 0) /\ d = <<d[1], d[2], d[3]>>
      BY DEF cube_directions
    <3> QED
      BY <1>5, <3>1
  <2> QED
    BY <2>1, <2>2 DEF cube_directions
<1>7. e \in Int /\ f \in Int /\ back[1] = -e /\ back[3] = -f
  BY <1>5
<1>8. \A p \in Int : shoved(dim, p) \in Int
  <2>1. \A p \in Int : p \div 2 \in Int /\ (p + 1) \div 2 \in Int
    OBVIOUS
  <2> QED
    BY <2>1, Shoving
<1>9. towards(dim, u, back) = t
  <2>1. CASE pointy_top(dim)
    <3>1. u = <<((x - shoved(dim, y)) + e) + shoved(dim, y + f), y + f, z>>
      BY <1>2, <1>4, <2>1 DEF towards, to_cube_coordinate, to_offset_coordinate, cube
    <3> HIDE DEF back, e, f
    <3> DEFINE a == shoved(dim, y)
               b == shoved(dim, y + f)
    <3>2. a \in Int /\ b \in Int /\ y + f \in Int
      BY <1>2, <1>7, <1>8
    <3> HIDE DEF a, b
    <3>3. u = <<((x - a) + e) + b, y + f, z>>
      BY <3>1 DEF a, b
    <3>4. towards(dim, u, back) =
            <<((((x - a) + e) + b) - b + (-e)) + shoved(dim, (y + f) + (-f)), (y + f) + (-f), z>>
      BY <1>7, <2>1, <3>3 DEF b, towards, to_cube_coordinate, to_offset_coordinate, cube
    <3>5. (y + f) + (-f) = y /\ ((((x - a) + e) + b) - b + (-e)) + a = x
      BY <1>2, <1>7, <3>2
    <3> QED
      BY <1>1, <3>4, <3>5 DEF a
  <2>2. CASE ~ pointy_top(dim)
    <3>1. u = <<x + e, ((y - shoved(dim, x)) + f) + shoved(dim, x + e), z>>
      BY <1>2, <1>4, <2>2 DEF towards, to_cube_coordinate, to_offset_coordinate, cube
    <3> HIDE DEF back, e, f
    <3> DEFINE a == shoved(dim, x)
               b == shoved(dim, x + e)
    <3>2. a \in Int /\ b \in Int /\ x + e \in Int
      BY <1>2, <1>7, <1>8
    <3> HIDE DEF a, b
    <3>3. u = <<x + e, ((y - a) + f) + b, z>>
      BY <3>1 DEF a, b
    <3>4. towards(dim, u, back) =
            <<(x + e) + (-e), ((((y - a) + f) + b) - b + (-f)) + shoved(dim, (x + e) + (-e)), z>>
      BY <1>7, <2>2, <3>3 DEF b, towards, to_cube_coordinate, to_offset_coordinate, cube
    <3>5. (x + e) + (-e) = x /\ ((((y - a) + f) + b) - b + (-f)) + a = y
      BY <1>2, <1>7, <3>2
    <3> QED
      BY <1>1, <3>4, <3>5 DEF a
  <2> QED
    BY <2>1, <2>2
<1> HIDE DEF back
<1> QED
  BY <1>3, <1>6, <1>9 DEF adjacent_coordinates

(* A tile finds the zones that feed it (incoming_clocked_zones, with which *)
(* layouts read fanins) exactly where these zones find it                  *)
(* (outgoing_clocked_zones, along which exact and the routing place        *)
(* wires), under every clocking scheme, with synchronization elements and  *)
(* overridden clock numbers, on layouts of every size and topology.        *)
THEOREM FlowIsMutual ==
  ASSUME NEW dim, IsLayout(dim), NEW scheme,
         NEW t \in all_tiles(dim), NEW u \in all_tiles(dim)
  PROVE  u \in incoming_clocked_zones(scheme, dim, t) <=> t \in outgoing_clocked_zones(scheme, dim, u)
<1>1. u \in adjacent_coordinates(dim, t) <=> t \in adjacent_coordinates(dim, u)
  BY CartesianSymmetric, HexagonalSymmetric
<1> QED
  BY <1>1 DEF incoming_clocked_zones, outgoing_clocked_zones, is_incoming_clocked, is_outgoing_clocked
=============================================================================
