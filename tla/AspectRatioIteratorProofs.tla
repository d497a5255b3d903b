---------------------- MODULE AspectRatioIteratorProofs ----------------------
(***************************************************************************)
(* Proofs that the iterator hands out every aspect ratio once, for every   *)
(* number it may start with and however far it is advanced.  The heart is  *)
(* that the loop of factorize, which stops at the square root, finds every *)
(* pair of divisors (FactorizeComplete).                                   *)
(***************************************************************************)
EXTENDS AspectRatioIterator, FiniteSetTheorems, WellFoundedInduction, TLAPS

(* Every nonempty set of naturals has a least element: the principle that  *)
(* the inductions over the iterator are carried out with.                  *)
LEMMA LeastNat ==
  ASSUME NEW T \in SUBSET Nat, T # {}
  PROVE  \E x \in T : \A y \in T : x <= y
<1> DEFINE R == OpToRel(<, Nat)
<1>1. IsWellFoundedOn(R, Nat)
  BY NatLessThanWellFounded
<1>2. \A x, y \in Nat : <<y, x>> \in R <=> y < x
  BY DEF OpToRel
<1> HIDE DEF R
<1>3. PICK x \in T : \A y \in T : ~ (<<y, x>> \in R)
  BY <1>1, WFMin
<1>4. ASSUME NEW y \in T
      PROVE  x <= y
  <2>1. x \in Nat /\ y \in Nat
    OBVIOUS
  <2>2. ~ (y < x)
    BY <1>2, <1>3, <2>1
  <2> QED
    BY <2>1, <2>2
<1> QED
  BY <1>3, <1>4

-----------------------------------------------------------------------------
(* Concatenating sequences of sequences. *)

(* The elements of all sequences in seqs are different. *)
AllDifferent(seqs) ==
  \A i, j \in DOMAIN seqs : \A a \in DOMAIN seqs[i], b \in DOMAIN seqs[j] :
    seqs[i][a] = seqs[j][b] => i = j /\ a = b

(* F has the elements of the first k sequences in seqs, each one once. *)
Collects(F, seqs, k) ==
  /\ \A x : (\E a \in DOMAIN F : F[a] = x)
              <=> \E i \in 1..k : \E a \in DOMAIN seqs[i] : seqs[i][a] = x
  /\ \A a, b \in DOMAIN F : F[a] = F[b] => a = b

(* The equation of the recursive function in FlattenSeq. *)
IsFlattening(f, seqs, k) ==
  f = [i \in 1..k |-> IF i = 1 THEN seqs[i] ELSE f[i - 1] \o seqs[i]]

(* The equation has a solution for every number of sequences. *)
LEMMA FlatteningExists ==
  ASSUME NEW seqs, NEW n \in Nat
  PROVE  \E f : IsFlattening(f, seqs, n)
<1> DEFINE T == {k \in Nat : ~ \E f : IsFlattening(f, seqs, k)}
<1> SUFFICES ASSUME T # {}
             PROVE  FALSE
  OBVIOUS
<1>1. PICK k \in T : \A m \in T : k <= m
  BY LeastNat
<1>2. CASE k = 0
  <2>1. IsFlattening([i \in 1..0 |-> 0], seqs, 0)
    BY DEF IsFlattening
  <2> QED
    BY <1>1, <1>2, <2>1
<1>3. CASE k > 0
  <2>1. k \in Nat /\ k - 1 \in Nat /\ k - 1 \notin T
    BY <1>1, <1>3
  <2>2. PICK f : IsFlattening(f, seqs, k - 1)
    BY <2>1
  <2> DEFINE g == [i \in 1..k |-> IF i = k THEN IF k = 1 THEN seqs[k] ELSE f[k - 1] \o seqs[k]
                                           ELSE f[i]]
  <2>3. \A i \in 1..(k - 1) : f[i] = IF i = 1 THEN seqs[i] ELSE f[i - 1] \o seqs[i]
    BY <2>2 DEF IsFlattening
  <2>4. ASSUME NEW i \in 1..k
        PROVE  g[i] = IF i = 1 THEN seqs[i] ELSE g[i - 1] \o seqs[i]
    <3>1. CASE i = k
      <4>1. k # 1 => g[k - 1] = f[k - 1]
        BY <2>1
      <4> QED
        BY <3>1, <4>1
    <3>2. CASE i # k
      <4>1. i \in 1..(k - 1) /\ (i # 1 => i - 1 \in 1..k /\ i - 1 # k)
        BY <2>1, <3>2
      <4>2. g[i] = f[i] /\ (i # 1 => g[i - 1] = f[i - 1])
        BY <3>2, <4>1
      <4> QED
        BY <2>3, <4>1, <4>2
    <3> QED
      BY <3>1, <3>2
  <2>5. g = [i \in 1..k |-> IF i = 1 THEN seqs[i] ELSE g[i - 1] \o seqs[i]]
    <3>1. g = [i \in 1..k |-> g[i]]
      OBVIOUS
    <3> HIDE DEF g
    <3> QED
      BY <2>4, <3>1
  <2> HIDE DEF g
  <2>6. IsFlattening(g, seqs, k)
    BY <2>5 DEF IsFlattening
  <2> QED
    BY <1>1, <2>6
<1> QED
  BY <1>1, <1>2, <1>3

(* FlattenSeq is the last value of a solution. *)
LEMMA FlattenValue ==
  ASSUME NEW seqs, Len(seqs) \in Nat, Len(seqs) > 0
  PROVE  \E f : IsFlattening(f, seqs, Len(seqs)) /\ FlattenSeq(seqs) = f[Len(seqs)]
<1> DEFINE flatten[i \in 1..Len(seqs)] ==
             IF i = 1 THEN seqs[i] ELSE flatten[i - 1] \o seqs[i]
<1>1. FlattenSeq(seqs) = flatten[Len(seqs)]
  BY DEF FlattenSeq
<1>2. PICK g : IsFlattening(g, seqs, Len(seqs))
  BY FlatteningExists, SMTT(40)
<1>3. flatten = [i \in 1..Len(seqs) |-> IF i = 1 THEN seqs[i] ELSE flatten[i - 1] \o seqs[i]]
  BY <1>2, ZenonT(60) DEF IsFlattening
<1> HIDE DEF flatten
<1>4. IsFlattening(flatten, seqs, Len(seqs))
  BY <1>3 DEF IsFlattening
<1> QED
  BY <1>1, <1>4

(* Appending to a sequence without repetition one whose elements are new. *)
LEMMA AppendDifferent ==
  ASSUME NEW S, NEW F \in Seq(S), NEW s \in Seq(S),
         \A a, b \in DOMAIN F : F[a] = F[b] => a = b,
         \A a, b \in DOMAIN s : s[a] = s[b] => a = b,
         \A a \in DOMAIN F, b \in DOMAIN s : F[a] # s[b]
  PROVE  /\ F \o s \in Seq(S)
         /\ \A x : (\E a \in DOMAIN (F \o s) : (F \o s)[a] = x)
                     <=> \/ \E a \in DOMAIN F : F[a] = x
                         \/ \E a \in DOMAIN s : s[a] = x
         /\ \A a, b \in DOMAIN (F \o s) : (F \o s)[a] = (F \o s)[b] => a = b
<1> DEFINE G == F \o s
           M == Len(F)
           N == Len(s)
<1>1. /\ G \in Seq(S) /\ M \in Nat /\ N \in Nat
      /\ DOMAIN F = 1..M /\ DOMAIN s = 1..N /\ DOMAIN G = 1..(M + N)
      /\ \A a \in 1..M : G[a] = F[a]
      /\ \A b \in 1..N : G[M + b] = s[b]
  OBVIOUS
<1> HIDE DEF G, M, N
<1>2. \A a \in 1..(M + N) : a \in 1..M \/ (a - M \in 1..N /\ a = M + (a - M))
  BY <1>1
<1>3. \A b \in 1..N : M + b \in 1..(M + N)
  BY <1>1
<1>4. \A a \in 1..M : a \in 1..(M + N)
  BY <1>1
<1>5. ASSUME NEW x
      PROVE  (\E a \in DOMAIN G : G[a] = x)
                     <=> \/ \E a \in DOMAIN F : F[a] = x
                         \/ \E a \in DOMAIN s : s[a] = x
  <2>1. ASSUME NEW a \in 1..(M + N), G[a] = x
        PROVE  (\E c \in 1..M : F[c] = x) \/ \E c \in 1..N : s[c] = x
    <3>1. CASE a \in 1..M
      BY <1>1, <2>1, <3>1
    <3>2. CASE a - M \in 1..N /\ a = M + (a - M)
      <4>1. G[M + (a - M)] = s[a - M]
        BY <1>1, <3>2
      <4>2. s[a - M] = x
        BY <2>1, <3>2, <4>1
      <4> QED
        BY <3>2, <4>2
    <3> QED
      BY <1>2, <3>1, <3>2
  <2>2. ASSUME NEW a \in 1..M, F[a] = x
        PROVE  \E c \in 1..(M + N) : G[c] = x
    BY <1>1, <1>4, <2>2
  <2>3. ASSUME NEW b \in 1..N, s[b] = x
        PROVE  \E c \in 1..(M + N) : G[c] = x
    <3>1. M + b \in 1..(M + N) /\ G[M + b] = x
      BY <1>1, <1>3, <2>3
    <3> QED
      BY <3>1
  <2> QED
    BY <1>1, <2>1, <2>2, <2>3
<1>6. ASSUME NEW a \in 1..(M + N), NEW b \in 1..(M + N), G[a] = G[b]
      PROVE  a = b
  <2>0. \A c \in 1..(M + N) : c - M \in 1..N => G[c] = s[c - M]
    <3>1. ASSUME NEW c \in 1..(M + N), c - M \in 1..N
          PROVE  G[c] = s[c - M]
      <4>1. G[M + (c - M)] = s[c - M] /\ M + (c - M) = c
        BY <1>1, <3>1
      <4> QED
        BY <4>1
    <3> QED
      BY <3>1
  <2>1. CASE a \in 1..M /\ b \in 1..M
    BY <1>1, <1>6, <2>1
  <2>2. CASE a \in 1..M /\ b - M \in 1..N
    <3>1. F[a] = s[b - M]
      BY <1>1, <1>6, <2>0, <2>2
    <3> QED
      BY <1>1, <2>2, <3>1
  <2>3. CASE a - M \in 1..N /\ b \in 1..M
    <3>1. F[b] = s[a - M]
      BY <1>1, <1>6, <2>0, <2>3
    <3> QED
      BY <1>1, <2>3, <3>1
  <2>4. CASE a - M \in 1..N /\ b - M \in 1..N
    <3>1. s[a - M] = s[b - M]
      BY <1>6, <2>0, <2>4
    <3>2. a - M = b - M
      BY <1>1, <2>4, <3>1
    <3> QED
      BY <1>1, <3>2
  <2> QED
    BY <1>2, <2>1, <2>2, <2>3, <2>4
<1> QED
  BY <1>1, <1>5, <1>6 DEF G

(* FlattenSeq has the elements of all sequences, each one once. *)
LEMMA FlattenCollects ==
  ASSUME NEW S, NEW seqs \in Seq(Seq(S)), Len(seqs) > 0, AllDifferent(seqs)
  PROVE  FlattenSeq(seqs) \in Seq(S) /\ Collects(FlattenSeq(seqs), seqs, Len(seqs))
<1> DEFINE n == Len(seqs)
<1>1. /\ n \in Nat /\ n > 0 /\ DOMAIN seqs = 1..n
      /\ \A i \in 1..n : seqs[i] \in Seq(S)
  OBVIOUS
<1>2. PICK f : IsFlattening(f, seqs, n) /\ FlattenSeq(seqs) = f[n]
  BY <1>1, FlattenValue
<1> HIDE DEF n
<1>3. \A i \in 1..n : f[i] = IF i = 1 THEN seqs[i] ELSE f[i - 1] \o seqs[i]
  BY <1>2 DEF IsFlattening
<1>4. \A i, j \in 1..n : \A a \in DOMAIN seqs[i], b \in DOMAIN seqs[j] :
        seqs[i][a] = seqs[j][b] => i = j /\ a = b
  BY <1>1 DEF AllDifferent
<1> DEFINE P(k) == f[k] \in Seq(S) /\ Collects(f[k], seqs, k)
           T == {k \in 1..n : ~ P(k)}
<1>5. ASSUME T # {}
      PROVE  FALSE
  <2>0. T \in SUBSET Nat
    BY <1>1
  <2>1. PICK k \in T : \A m \in T : k <= m
    <3> HIDE DEF T
    <3> QED
      BY <1>5, <2>0, LeastNat
  <2>2. k \in 1..n /\ ~ P(k) /\ seqs[k] \in Seq(S)
    BY <1>1, <2>1
  <2>3. \A a, b \in DOMAIN seqs[k] : seqs[k][a] = seqs[k][b] => a = b
    BY <1>4, <2>2
  <2>4. CASE k = 1
    <3>1. f[k] = seqs[k]
      BY <1>3, <2>2, <2>4
    <3>2. 1..k = {k}
      BY <2>4
    <3> QED
      BY <2>2, <2>3, <3>1, <3>2 DEF Collects
  <2>5. CASE k # 1
    <3>1. k - 1 \in 1..n /\ k - 1 \notin T
      BY <1>1, <2>1, <2>2, <2>5
    <3>2. P(k - 1)
      BY <3>1
    <3>3. f[k] = f[k - 1] \o seqs[k]
      BY <1>3, <2>2, <2>5
    <3> DEFINE F == f[k - 1]
    <3>4. F \in Seq(S) /\ Collects(F, seqs, k - 1)
      BY <3>2
    <3> HIDE DEF F, P, T
    <3>5. \A a, b \in DOMAIN F : F[a] = F[b] => a = b
      BY <3>4 DEF Collects
    <3>6. ASSUME NEW a \in DOMAIN F, NEW b \in DOMAIN seqs[k]
          PROVE  F[a] # seqs[k][b]
      <4>1. PICK i \in 1..(k - 1) : \E c \in DOMAIN seqs[i] : seqs[i][c] = F[a]
        BY <3>4 DEF Collects
      <4>2. i \in 1..n /\ i # k
        BY <1>1, <2>2
      <4> QED
        BY <1>4, <2>2, <4>1, <4>2
    <3>7. /\ F \o seqs[k] \in Seq(S)
          /\ \A x : (\E a \in DOMAIN (F \o seqs[k]) : (F \o seqs[k])[a] = x)
                     <=> \/ \E a \in DOMAIN F : F[a] = x
                         \/ \E a \in DOMAIN seqs[k] : seqs[k][a] = x
          /\ \A a, b \in DOMAIN (F \o seqs[k]) :
               (F \o seqs[k])[a] = (F \o seqs[k])[b] => a = b
      BY <2>2, <2>3, <3>4, <3>5, <3>6, AppendDifferent
    <3>8. f[k] = F \o seqs[k]
      BY <3>3 DEF F
    <3>9. ASSUME NEW x
          PROVE  (\E i \in 1..k : \E a \in DOMAIN seqs[i] : seqs[i][a] = x)
                   <=> \/ \E a \in DOMAIN F : F[a] = x
                       \/ \E a \in DOMAIN seqs[k] : seqs[k][a] = x
      <4>1. \A i : i \in 1..k <=> i \in 1..(k - 1) \/ i = k
        BY <2>2
      <4> QED
        BY <3>4, <4>1 DEF Collects
    <3>10. Collects(f[k], seqs, k)
      BY <3>7, <3>8, <3>9 DEF Collects
    <3> QED
      BY <2>2, <3>7, <3>8, <3>10 DEF P
  <2> QED
    BY <2>4, <2>5
<1>6. P(n)
  <2>1. n \in 1..n
    BY <1>1
  <2>2. n \notin T
    <3> HIDE DEF T
    <3> QED
      BY <1>5
  <2> HIDE DEF P
  <2> QED
    BY <2>1, <2>2
<1> QED
  BY <1>2, <1>6 DEF n

-----------------------------------------------------------------------------
(* Divisors. *)

LEMMA Quotient ==
  ASSUME NEW n \in Nat, NEW i \in Nat, i > 0, n % i = 0
  PROVE  n \div i \in Nat /\ n = i * (n \div i)
  OBVIOUS

LEMMA Product ==
  ASSUME NEW i \in Nat, NEW q \in Nat, i > 0
  PROVE  (i * q) % i = 0 /\ (i * q) \div i = q
  OBVIOUS

LEMMA BelowRoot ==
  ASSUME NEW i \in Nat, NEW q \in Nat, i > 0
  PROVE  /\ i * i <= i * q <=> i <= q
         /\ q > 0 => i <= i * q /\ q <= i * q
  OBVIOUS

(* What iteration i of factorize's loop emplaces. *)
Block(n, i) ==
  IF i * i <= n /\ n % i = 0
  THEN IF i - 1 = n \div i - 1
       THEN <<<<i - 1, n \div i - 1>>>>
       ELSE <<<<i - 1, n \div i - 1>>, <<n \div i - 1, i - 1>>>>
  ELSE <<>>

Blocks(n) == [i \in 1..n |-> Block(n, i)]

LEMMA FactorizeBlocks ==
  ASSUME NEW n \in Nat
  PROVE  factorize(n) = FlattenSeq(Blocks(n))
  BY DEF factorize, Blocks, Block

(* An iteration finds the ratios whose shorter side has i tiles, each once. *)
ShorterSide(r, i) == \/ r[1] = i - 1 /\ r[2] >= r[1]
                     \/ r[2] = i - 1 /\ r[1] >= r[2]

LEMMA BlockRatios ==
  ASSUME NEW n \in Nat, NEW i \in 1..n
  PROVE  /\ Block(n, i) \in Seq(Nat \X Nat)
         /\ \A r : (\E a \in DOMAIN Block(n, i) : Block(n, i)[a] = r)
                     <=> r \in RatiosOf(n) /\ ShorterSide(r, i)
         /\ \A a, b \in DOMAIN Block(n, i) : Block(n, i)[a] = Block(n, i)[b] => a = b
<1> DEFINE q == n \div i
           B == Block(n, i)
<1>0. n \in Nat /\ i \in Nat /\ i > 0 /\ i <= n /\ i - 1 \in Nat
  OBVIOUS
<1>1. ASSUME NEW r \in RatiosOf(n), ShorterSide(r, i)
      PROVE  /\ i * i <= n /\ n % i = 0
             /\ r = <<i - 1, q - 1>> \/ r = <<q - 1, i - 1>>
  <2>1. /\ r \in (0..(n - 1)) \X (0..(n - 1)) /\ r = <<r[1], r[2]>>
        /\ (r[1] + 1) * (r[2] + 1) = n
    BY DEF RatiosOf, area
  <2>2. r[1] \in Nat /\ r[2] \in Nat
    BY <1>0, <2>1
  <2>3. CASE r[1] = i - 1 /\ r[2] >= r[1]
    <3>1. r[2] + 1 \in Nat /\ i <= r[2] + 1 /\ i * (r[2] + 1) = n
      BY <1>0, <2>1, <2>2, <2>3
    <3>2. i * i <= n /\ n % i = 0 /\ q = r[2] + 1
      BY <1>0, <3>1, BelowRoot, Product
    <3> QED
      BY <2>1, <2>2, <2>3, <3>2
  <2>4. CASE r[2] = i - 1 /\ r[1] >= r[2]
    <3>1. r[1] + 1 \in Nat /\ i <= r[1] + 1 /\ i * (r[1] + 1) = n
      BY <1>0, <2>1, <2>2, <2>4
    <3>2. i * i <= n /\ n % i = 0 /\ q = r[1] + 1
      BY <1>0, <3>1, BelowRoot, Product
    <3> QED
      BY <2>1, <2>2, <2>4, <3>2
  <2> QED
    BY <1>1, <2>3, <2>4 DEF ShorterSide
<1>2. CASE i * i <= n /\ n % i = 0
  <2>1. q \in Nat /\ n = i * q
    BY <1>0, <1>2, Quotient
  <2>2. i <= q /\ q > 0 /\ q <= n /\ q * i = n
    BY <1>0, <1>2, <2>1, BelowRoot
  <2>3. /\ q - 1 \in Nat /\ i - 1 <= q - 1
        /\ q - 1 \in 0..(n - 1) /\ i - 1 \in 0..(n - 1)
        /\ ((i - 1) + 1) * ((q - 1) + 1) = n /\ ((q - 1) + 1) * ((i - 1) + 1) = n
    BY <1>0, <2>1, <2>2
  <2> DEFINE x == i - 1
             y == q - 1
  <2>4. /\ <<x, y>> \in RatiosOf(n) /\ ShorterSide(<<x, y>>, i)
        /\ <<y, x>> \in RatiosOf(n) /\ ShorterSide(<<y, x>>, i)
    BY <1>0, <2>3 DEF RatiosOf, area, ShorterSide
  <2>5. B = IF x = y THEN <<<<x, y>>>> ELSE <<<<x, y>>, <<y, x>>>>
    BY <1>2 DEF Block
  <2>6. x \in Nat /\ y \in Nat
    BY <1>0, <2>3
  <2>7. \A r \in RatiosOf(n) : ShorterSide(r, i) => r = <<x, y>> \/ r = <<y, x>>
    BY <1>1
  <2> HIDE DEF B, x, y
  <2>8. CASE x = y
    <3>1. B = <<<<x, y>>>> /\ DOMAIN B = {1} /\ B[1] = <<x, y>>
      BY <2>5, <2>8
    <3> QED
      BY <2>4, <2>6, <2>7, <2>8, <3>1 DEF B
  <2>9. CASE x # y
    <3>1. /\ B = <<<<x, y>>, <<y, x>>>> /\ DOMAIN B = {1, 2}
          /\ B[1] = <<x, y>> /\ B[2] = <<y, x>>
      BY <2>5, <2>9
    <3>2. B \in Seq(Nat \X Nat)
      BY <2>6, <3>1
    <3>3. <<x, y>> # <<y, x>>
      BY <2>9
    <3>4. \A r : (\E a \in DOMAIN B : B[a] = r) <=> r = <<x, y>> \/ r = <<y, x>>
      BY <3>1
    <3> QED
      BY <2>4, <2>7, <3>1, <3>2, <3>3, <3>4 DEF B
  <2> QED
    BY <2>8, <2>9
<1>3. CASE ~ (i * i <= n /\ n % i = 0)
  <2>1. Block(n, i) = <<>>
    BY <1>3 DEF Block
  <2>2. \A r \in RatiosOf(n) : ~ ShorterSide(r, i)
    BY <1>1, <1>3
  <2> QED
    BY <2>1, <2>2
<1> QED
  BY <1>2, <1>3

(* The factors of n are all aspect ratios of n tiles, each one once: the   *)
(* loop over i = 1 .. sqrt(n) finds them although it stops at the root.    *)
LEMMA FactorizeComplete ==
  ASSUME NEW n \in Nat, n > 0
  PROVE  /\ factorize(n) \in Seq(Nat \X Nat)
         /\ \A r : (\E a \in DOMAIN factorize(n) : factorize(n)[a] = r) <=> r \in RatiosOf(n)
         /\ \A a, b \in DOMAIN factorize(n) : factorize(n)[a] = factorize(n)[b] => a = b
         /\ Len(factorize(n)) > 0
<1> DEFINE F == factorize(n)
           s == Blocks(n)
<1>1. \A i \in 1..n : s[i] = Block(n, i)
  BY DEF Blocks
<1>2. s \in Seq(Seq(Nat \X Nat)) /\ Len(s) = n /\ DOMAIN s = 1..n
  <2>1. \A i \in 1..n : Block(n, i) \in Seq(Nat \X Nat)
    BY BlockRatios
  <2> QED
    BY <2>1 DEF Blocks
<1> HIDE DEF s, F
<1>3. AllDifferent(s)
  <2> SUFFICES ASSUME NEW i \in 1..n, NEW j \in 1..n,
                      NEW a \in DOMAIN s[i], NEW b \in DOMAIN s[j], s[i][a] = s[j][b]
               PROVE  i = j /\ a = b
    BY <1>2 DEF AllDifferent
  <2> DEFINE r == s[i][a]
  <2>1. r \in RatiosOf(n) /\ ShorterSide(r, i) /\ ShorterSide(r, j)
    BY <1>1, BlockRatios
  <2>2. r[1] \in Nat /\ r[2] \in Nat
    BY <2>1 DEF RatiosOf
  <2> HIDE DEF r
  <2>3. i = j
    BY <2>1, <2>2 DEF ShorterSide
  <2>4. a = b
    BY <1>1, <2>3, BlockRatios
  <2> QED
    BY <2>3, <2>4
<1>4. F \in Seq(Nat \X Nat) /\ Collects(F, s, n)
  BY <1>2, <1>3, FlattenCollects, FactorizeBlocks DEF F, s
<1>5. ASSUME NEW r
      PROVE  (\E a \in DOMAIN F : F[a] = r) <=> r \in RatiosOf(n)
  <2>1. (\E a \in DOMAIN F : F[a] = r)
          <=> \E i \in 1..n : \E a \in DOMAIN s[i] : s[i][a] = r
    BY <1>4 DEF Collects
  <2>2. \A i \in 1..n : (\E a \in DOMAIN s[i] : s[i][a] = r)
                          <=> r \in RatiosOf(n) /\ ShorterSide(r, i)
    BY <1>1, BlockRatios
  <2>3. ASSUME r \in RatiosOf(n)
        PROVE  \E i \in 1..n : ShorterSide(r, i)
    <3>1. r[1] \in 0..(n - 1) /\ r[2] \in 0..(n - 1)
      BY <2>3 DEF RatiosOf
    <3>2. CASE r[1] <= r[2]
      <4>1. r[1] + 1 \in 1..n /\ ShorterSide(r, r[1] + 1)
        BY <3>1, <3>2 DEF ShorterSide
      <4> QED
        BY <4>1
    <3>3. CASE ~ (r[1] <= r[2])
      <4>1. r[2] + 1 \in 1..n /\ ShorterSide(r, r[2] + 1)
        BY <3>1, <3>3 DEF ShorterSide
      <4> QED
        BY <4>1
    <3> QED
      BY <3>2, <3>3
  <2> QED
    BY <2>1, <2>2, <2>3
<1>6. \A a, b \in DOMAIN F : F[a] = F[b] => a = b
  BY <1>4 DEF Collects
<1>7. Len(F) > 0
  <2>1. <<0, n - 1>> \in RatiosOf(n)
    <3>1. 0 \in 0..(n - 1) /\ n - 1 \in 0..(n - 1) /\ (0 + 1) * ((n - 1) + 1) = n
      OBVIOUS
    <3> QED
      BY <3>1 DEF RatiosOf, area
  <2>2. PICK a \in DOMAIN F : F[a] = <<0, n - 1>>
    BY <1>5, <2>1
  <2> QED
    BY <1>4, <2>2
<1> QED
  BY <1>4, <1>5, <1>6, <1>7 DEF F

(* Every number has a factorization, so next() only ever adds one. *)
LEMMA NextIsSuccessor ==
  ASSUME NEW n \in Nat
  PROVE  next(n) = n + 1
<1>1. factorize(n + 1) # <<>>
  BY FactorizeComplete
<1>2. \A k \in (n + 1)..((n + 1) - 1) : factorize(k) = <<>>
  OBVIOUS
<1>3. \A m \in (n + 1)..(n + 2) :
        (\A k \in (n + 1)..(m - 1) : factorize(k) = <<>>) => m = n + 1
  <2> SUFFICES ASSUME NEW m \in (n + 1)..(n + 2), m # n + 1
               PROVE  \E k \in (n + 1)..(m - 1) : factorize(k) # <<>>
    OBVIOUS
  <2>1. n + 1 \in (n + 1)..(m - 1)
    OBVIOUS
  <2> QED
    BY <1>1, <2>1
<1>4. n + 1 \in (n + 1)..(n + 2)
  OBVIOUS
<1> QED
  BY <1>1, <1>2, <1>3, <1>4, Zenon DEF next

-----------------------------------------------------------------------------
(* The inductive invariant: what has been visited is exactly all ratios of *)
(* the numbers passed, and the factors of num up to the current one.       *)
Passed == UNION {RatiosOf(n) : n \in first..(num - 1)}

Reached == {factors[i] : i \in 1..it}

AInv ==
  /\ num \in Nat /\ first \in 1..num
  /\ factors = factorize(num)
  /\ it \in 1..Len(factors)
  /\ visited = Passed \cup Reached

LEMMA VisitedAreas ==
  ASSUME AInv
  PROVE  \A r \in visited : area(r) \in first..num
<1>1. num \in Nat /\ num > 0 /\ first \in 1..num
  BY DEF AInv
<1>2. ASSUME NEW r \in Passed
      PROVE  area(r) \in first..num
  <2>1. PICK n \in first..(num - 1) : r \in RatiosOf(n)
    BY DEF Passed
  <2>2. area(r) = n
    BY <2>1 DEF RatiosOf
  <2> QED
    BY <1>1, <2>2
<1>3. ASSUME NEW r \in Reached
      PROVE  area(r) = num
  <2>1. factors \in Seq(Nat \X Nat) /\ \E a \in DOMAIN factors : factors[a] = r
    <3>1. factors \in Seq(Nat \X Nat) /\ it \in 1..Len(factors)
      BY <1>1, FactorizeComplete DEF AInv
    <3>2. PICK i \in 1..it : factors[i] = r
      BY DEF Reached
    <3>3. i \in DOMAIN factors
      BY <3>1
    <3> QED
      BY <3>1, <3>2, <3>3
  <2>2. r \in RatiosOf(num)
    BY <1>1, <2>1, FactorizeComplete DEF AInv
  <2> QED
    BY <2>2 DEF RatiosOf
<1> QED
  BY <1>1, <1>2, <1>3 DEF AInv

LEMMA IteratorStart == IteratorInit => AInv
<1> SUFFICES ASSUME IteratorInit
             PROVE  AInv
  OBVIOUS
<1>1. PICK n \in StartNums : num = next(IF n # 0 THEN n - 1 ELSE 0)
  BY DEF IteratorInit
<1>2. num \in Nat /\ num > 0
  <2>1. n \in Nat
    BY BoundsAssumption
  <2>2. (IF n # 0 THEN n - 1 ELSE 0) \in Nat
    BY <2>1
  <2> HIDE DEF IteratorInit
  <2> QED
    BY <1>1, <2>2, NextIsSuccessor
<1>3. factors = factorize(num) /\ it = 1 /\ first = num /\ visited = {factors[1]}
  BY DEF IteratorInit
<1>4. Len(factors) \in Nat /\ Len(factors) > 0
  BY <1>2, <1>3, FactorizeComplete
<1>5. Passed = {} /\ Reached = {factors[1]}
  <2>1. first..(num - 1) = {} /\ 1..it = {1}
    BY <1>2, <1>3
  <2> QED
    BY <2>1 DEF Passed, Reached
<1> QED
  BY <1>2, <1>3, <1>4, <1>5 DEF AInv

(* A step to the next factor of the same number. *)
LEMMA IteratorAdvances ==
  ASSUME AInv, Increment, ~ (it + 1 > Len(factors))
  PROVE  AInv' /\ factors'[it'] \notin visited
<1>1. /\ num' = num /\ factors' = factors /\ first' = first /\ it' = it + 1
      /\ visited' = visited \cup {factors[it + 1]}
  BY DEF Increment
<1>2. /\ num \in Nat /\ num > 0 /\ first \in 1..num /\ factors = factorize(num)
      /\ it \in Nat /\ it > 0 /\ Len(factors) \in Nat
      /\ visited = Passed \cup Reached
  BY FactorizeComplete DEF AInv
<1>3. it + 1 \in 1..Len(factors)
  BY <1>2
<1>4. Passed' = Passed /\ Reached' = Reached \cup {factors[it + 1]}
  <2>1. \A i : i \in 1..(it + 1) <=> i \in 1..it \/ i = it + 1
    BY <1>2
  <2> QED
    BY <1>1, <2>1 DEF Passed, Reached
<1>5. AInv'
  BY <1>1, <1>2, <1>3, <1>4 DEF AInv
<1>6. /\ factors \in Seq(Nat \X Nat)
      /\ \A a \in DOMAIN factors : factors[a] \in RatiosOf(num)
      /\ \A a, b \in DOMAIN factors : factors[a] = factors[b] => a = b
  BY <1>2, FactorizeComplete
<1>7. DOMAIN factors = 1..Len(factors)
  BY <1>6
<1>8. factors[it + 1] \notin Reached
  <2> SUFFICES ASSUME NEW i \in 1..it
               PROVE  factors[it + 1] # factors[i]
    BY DEF Reached
  <2>1. i \in 1..Len(factors) /\ i # it + 1
    BY <1>2, <1>3
  <2> QED
    BY <1>3, <1>6, <1>7, <2>1
<1>9. factors[it + 1] \notin Passed
  <2> SUFFICES ASSUME NEW n \in first..(num - 1), factors[it + 1] \in RatiosOf(n)
               PROVE  FALSE
    BY DEF Passed
  <2>1. factors[it + 1] \in RatiosOf(num)
    BY <1>3, <1>6, <1>7
  <2>2. n = num
    BY <2>1 DEF RatiosOf
  <2> QED
    BY <1>2, <2>2
<1> QED
  BY <1>1, <1>2, <1>5, <1>8, <1>9

(* A step to the first factor of the next number. *)
LEMMA IteratorMovesOn ==
  ASSUME AInv, Increment, it + 1 > Len(factors)
  PROVE  AInv' /\ factors'[it'] \notin visited
<1>1. /\ num \in Nat /\ num > 0 /\ first \in 1..num /\ factors = factorize(num)
      /\ it = Len(factors) /\ Len(factors) \in Nat
      /\ factors \in Seq(Nat \X Nat) /\ DOMAIN factors = 1..Len(factors)
      /\ visited = Passed \cup Reached
  <2>1. /\ num \in Nat /\ num > 0 /\ first \in 1..num /\ factors = factorize(num)
        /\ it \in 1..Len(factors) /\ visited = Passed \cup Reached
    BY DEF AInv
  <2>2. factors \in Seq(Nat \X Nat)
    BY <2>1, FactorizeComplete
  <2>3. Len(factors) \in Nat /\ DOMAIN factors = 1..Len(factors)
    BY <2>2
  <2>4. it = Len(factors)
    <3> DEFINE L == Len(factors)
    <3>1. L \in Nat /\ it \in 1..L /\ it + 1 > L
      BY <2>1, <2>3
    <3> HIDE DEF L
    <3>2. it = L
      BY <3>1
    <3> QED
      BY <3>2 DEF L
  <2> QED
    BY <2>1, <2>2, <2>3, <2>4
<1>2. /\ num' = num + 1 /\ factors' = factorize(num + 1) /\ it' = 1 /\ first' = first
      /\ visited' = visited \cup {factors'[1]}
  BY <1>1, NextIsSuccessor DEF Increment
<1>3. /\ Len(factors') \in Nat /\ Len(factors') > 0
      /\ \A a \in DOMAIN factors' : factors'[a] \in RatiosOf(num + 1)
      /\ DOMAIN factors' = 1..Len(factors')
  <2>1. num + 1 \in Nat /\ num + 1 > 0
    BY <1>1
  <2>2. factors' \in Seq(Nat \X Nat)
    BY <1>2, <2>1, FactorizeComplete
  <2>3. Len(factors') \in Nat /\ DOMAIN factors' = 1..Len(factors')
    BY <2>2
  <2>4. Len(factors') > 0
    BY <1>2, <2>1, FactorizeComplete
  <2>5. \A a \in DOMAIN factors' : factors'[a] \in RatiosOf(num + 1)
    BY <1>2, <2>1, FactorizeComplete
  <2> QED
    BY <2>3, <2>4, <2>5
<1>4. Reached = RatiosOf(num)
  <2>1. \A r : (\E a \in DOMAIN factors : factors[a] = r) <=> r \in RatiosOf(num)
    BY <1>1, FactorizeComplete
  <2> QED
    BY <1>1, <2>1 DEF Reached
<1>5. Passed' = Passed \cup Reached /\ Reached' = {factors'[1]}
  <2>1. \A n : n \in first..((num + 1) - 1) <=> n \in first..(num - 1) \/ n = num
    BY <1>1
  <2>2. 1..1 = {1}
    OBVIOUS
  <2>3. Passed' = UNION {RatiosOf(n) : n \in first..((num + 1) - 1)}
    BY <1>2 DEF Passed
  <2>4. Passed' = Passed \cup RatiosOf(num)
    BY <2>1, <2>3 DEF Passed
  <2>5. Reached' = {factors'[1]}
    BY <1>2, <2>2 DEF Reached
  <2> QED
    BY <1>4, <2>4, <2>5
<1>6. AInv'
  BY <1>1, <1>2, <1>3, <1>5 DEF AInv
<1>7. area(factors'[1]) = num + 1
  BY <1>3 DEF RatiosOf
<1>8. factors'[1] \notin visited
  BY <1>1, <1>7, VisitedAreas
<1> QED
  BY <1>2, <1>6, <1>8

LEMMA IteratorStep == AInv /\ [Increment]_iterator_vars => AInv'
<1> SUFFICES ASSUME AInv, [Increment]_iterator_vars
             PROVE  AInv'
  OBVIOUS
<1>1. CASE Increment
  BY <1>1, IteratorAdvances, IteratorMovesOn
<1>2. CASE UNCHANGED iterator_vars
  BY <1>2 DEF iterator_vars, AInv, Passed, Reached
<1> QED
  BY <1>1, <1>2

LEMMA IteratorInvariant == IteratorSpec => []AInv
  BY IteratorStart, IteratorStep, PTL DEF IteratorSpec

(* When the iterator has moved on to num tiles it has pointed to every     *)
(* aspect ratio of fewer tiles since its construction and to nothing that  *)
(* is larger, whatever number the constructor was given (factorize, next   *)
(* and operator++ of aspect_ratio_iterator.hpp).                           *)
THEOREM EveryRatioVisited == IteratorSpec => []NoRatioSkipped
<1>1. AInv => NoRatioSkipped
  <2> SUFFICES ASSUME AInv
               PROVE  NoRatioSkipped
    OBVIOUS
  <2>1. ASSUME NEW n \in first..(num - 1)
        PROVE  RatiosOf(n) \subseteq visited
    BY DEF AInv, Passed
  <2> QED
    BY <2>1, VisitedAreas DEF NoRatioSkipped
<1> QED
  BY <1>1, IteratorInvariant, PTL

(* operator++ never points to an aspect ratio again, neither within the    *)
(* factors of a number nor between two numbers.                            *)
THEOREM RatiosVisitedOnce == IteratorSpec => NoRatioTwice
<1>1. AInv /\ [Increment]_iterator_vars => [factors'[it'] \notin visited]_<<num, it>>
  <2> SUFFICES ASSUME AInv, Increment, UNCHANGED <<num, it>> => FALSE
               PROVE  factors'[it'] \notin visited
    BY DEF iterator_vars
  <2> QED
    BY IteratorAdvances, IteratorMovesOn
<1> QED
  BY <1>1, IteratorInvariant, PTL DEF IteratorSpec, NoRatioTwice
=============================================================================
