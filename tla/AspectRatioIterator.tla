------------------------ MODULE AspectRatioIterator ------------------------
(***************************************************************************)
(* The iterator that hands the exact and the one-pass synthesis their next *)
(* layout size (algorithms/iter/aspect_ratio_iterator.hpp).  It walks over *)
(* the numbers num, num+1, ... and, for each of them, over all pairs (x,y) *)
(* with (x+1)*(y+1) = num, kept in the vector factors.                     *)
(*                                                                         *)
(* An aspect ratio is the pair <<x, y>> of the largest coordinates of a    *)
(* layout, so <<0, 0>> is one tile.  The C++ iterator it into factors is   *)
(* the position of its element, 1 being factors.begin().                   *)
(***************************************************************************)
EXTENDS Naturals, Sequences, SequencesExt

CONSTANTS
  StartNums,    \* the values of n the constructor is called with
  MaxNum        \* bound of the model: the iterator is not advanced past it

ASSUME BoundsAssumption ==
  /\ StartNums \subseteq Nat
  /\ MaxNum \in Nat

VARIABLES
  num,       \* the number of tiles being factorized
  factors,   \* all aspect ratios of num tiles
  it,        \* position in factors
  first,     \* history: the num after construction
  visited    \* history: the aspect ratios the iterator has pointed to

iterator_vars == <<num, factors, it, first, visited>>

-----------------------------------------------------------------------------
(* coordinates.hpp: the number of tiles of a layout of aspect ratio ar *)
area(ar) == (ar[1] + 1) * (ar[2] + 1)

(* Slips a factorization could have: dropping square numbers' root, or     *)
(* listing a square aspect ratio twice.                                    *)
FactorizeNoRoot(n) ==
  FlattenSeq([i \in 1..n |->
    IF i * i < n /\ n % i = 0
    THEN <<<<i - 1, n \div i - 1>>, <<n \div i - 1, i - 1>>>> ELSE <<>>])

FactorizeTwice(n) ==
  FlattenSeq([i \in 1..n |->
    IF i * i <= n /\ n % i = 0
    THEN <<<<i - 1, n \div i - 1>>, <<n \div i - 1, i - 1>>>> ELSE <<>>])

(* The factors of n in the order the loop over i = 1 .. sqrt(n) emplaces   *)
(* them: every ratio before its rotation, a square ratio once.             *)
factorize(n) ==
  LET ratios(x, y) == IF x = y THEN <<<<x, y>>>> ELSE <<<<x, y>>, <<y, x>>>>
  IN  FlattenSeq([i \in 1..n |-> IF i * i <= n /\ n % i = 0
                                 THEN ratios(i - 1, n \div i - 1) ELSE <<>>])

(* The first number above n that has a factorization (next()'s do-while). *)
next(n) == CHOOSE m \in (n + 1)..(n + 2) :
             /\ factorize(m) # <<>>
             /\ \A k \in (n + 1)..(m - 1) : factorize(k) = <<>>

(* The constructor aspect_ratio_iterator(n). *)
IteratorInit ==
  /\ \E n \in StartNums : num = next(IF n # 0 THEN n - 1 ELSE 0)
  /\ factors = factorize(num)
  /\ it = 1
  /\ first = num
  /\ visited = {factors[1]}

(* operator++(): the next element, or the first one of the next number.    *)
(* operator++(int) does the same to the iterator.  What it returns is a    *)
(* copy whose it points into the original's vector; nobody uses it.        *)
Increment ==
  /\ num < MaxNum
  /\ IF it + 1 > Len(factors)
     THEN /\ num' = next(num)
          /\ factors' = factorize(num')
          /\ it' = 1
     ELSE it' = it + 1 /\ UNCHANGED <<num, factors>>
  /\ visited' = visited \cup {factors'[it']}
  /\ UNCHANGED first

IteratorSpec == IteratorInit /\ [][Increment]_iterator_vars

-----------------------------------------------------------------------------
(* Reference definition: all aspect ratios of exactly n tiles. *)
RatiosOf(n) == {r \in (0..(n - 1)) \X (0..(n - 1)) : area(r) = n}

(* "each possible layout aspect ratio will be examined" (exact.hpp): when  *)
(* the iterator has moved on to num, it has pointed to every aspect ratio  *)
(* of every smaller number of tiles since its construction, and to nothing *)
(* larger than num tiles.                                                  *)
NoRatioSkipped ==
  /\ \A n \in first..(num - 1) : RatiosOf(n) \subseteq visited
  /\ \A r \in visited : area(r) \in first..num

(* No aspect ratio is handed out twice, so no two threads of the exact     *)
(* synthesis ever solve the same instance.                                 *)
NoRatioTwice == [][factors'[it'] \notin visited]_<<num, it>>
=============================================================================
