-------------------------- MODULE KMeansAlgoProofs --------------------------
(***************************************************************************)
(* What the computations of k-means yield, for any points and centroids:   *)
(* findNearest finds a nearest centroid, the sums over the points are what *)
(* their names say, and the means of the clusters are where the squared    *)
(* distances of their points are least.                                    *)
(*                                                                         *)
(* The sums are inductive definitions.  Induction over the natural numbers *)
(* is used in the form of IntInduction below, which speaks of a set rather *)
(* than of an operator: there is no infinite descent among finite sets.    *)
(***************************************************************************)
EXTENDS KMeansAlgo, FiniteSetTheorems, TLAPS

-----------------------------------------------------------------------------
(* Induction.                                                              *)

\* A set that has 0, and the successor of each number it has, has them all: among the
\* intervals 0..i that end outside of it there would be a smallest one.
LEMMA NatInSet ==
    ASSUME NEW S, 0 \in S, \A i \in Nat : i \in S => i + 1 \in S
    PROVE  Nat \subseteq S
<1>. DEFINE R == StrictSubsetOrdering(Nat)
            T == {0..i : i \in Nat \ S}
<1>1. SUFFICES ASSUME T # {} PROVE FALSE
  OBVIOUS
<1>2. IsWellFoundedOn(R, FiniteSubsetsOf(Nat))
  BY FS_StrictSubsetOrderingWellFounded
<1>3. ASSUME NEW i \in Nat PROVE 0..i \in FiniteSubsetsOf(Nat)
  <2>1. 0 \in Int /\ i \in Int
    OBVIOUS
  <2>2. IsFiniteSet(0..i)
    BY <2>1, FS_Interval, Zenon
  <2>3. 0..i \in SUBSET Nat
    OBVIOUS
  <2>. QED  BY <2>2, <2>3, Zenon DEF FiniteSubsetsOf
<1>4. T \subseteq FiniteSubsetsOf(Nat)
  BY <1>3
<1>5. PICK x \in T : \A y \in T : ~(<<y, x>> \in R)
  <2>. HIDE DEF R, T
  <2>. QED  BY <1>1, <1>2, <1>4, WFMin
<1>6. PICK i \in Nat \ S : x = 0..i
  OBVIOUS
<1>7. i - 1 \in Nat \ S
  BY <1>6
<1>8. 0..(i - 1) \subseteq 0..i /\ 0..(i - 1) # 0..i /\ 0..i \in SUBSET Nat
  BY <1>6, <1>7
<1>9. <<0..(i - 1), 0..i>> \in R
  BY <1>8 DEF StrictSubsetOrdering
<1>. QED  BY <1>5, <1>6, <1>7, <1>9

\* The same from any integer upwards.
LEMMA IntInduction ==
    ASSUME NEW b \in Int, NEW S, b \in S,
           \A i \in Int : i > b /\ i - 1 \in S => i \in S
    PROVE  \A i \in Int : i >= b => i \in S
<1>. DEFINE T == {k \in Nat : b + k \in S}
<1>1. 0 \in T
  OBVIOUS
<1>2. ASSUME NEW k \in Nat, k \in T PROVE k + 1 \in T
  <2>1. b + (k + 1) \in Int /\ b + (k + 1) > b /\ (b + (k + 1)) - 1 = b + k
    OBVIOUS
  <2>. QED  BY <1>2, <2>1
<1>3. Nat \subseteq T
  <2>. HIDE DEF T
  <2>. QED  BY <1>1, <1>2, NatInSet
<1>4. ASSUME NEW i \in Int, i >= b PROVE i \in S
  <2>1. i - b \in Nat /\ b + (i - b) = i
    BY <1>4
  <2>2. i - b \in T
    BY <1>3, <2>1
  <2>. QED  BY <2>1, <2>2
<1>. QED  BY <1>4

-----------------------------------------------------------------------------
(* SumOver: the recursive function exists, and adds up what it should.     *)

\* s holds the sums of f from lo.
IsSums(s, f, lo, hi) ==
    s = [i \in (lo - 1)..hi |-> IF i < lo THEN 0 ELSE s[i - 1] + f[i]]

LEMMA SumsExist ==
    ASSUME NEW f, NEW lo \in Int, NEW hi \in Int, hi >= lo - 1
    PROVE  \E s : IsSums(s, f, lo, hi)
<1>. DEFINE S == {h \in Int : \E s : IsSums(s, f, lo, h)}
<1>1. lo - 1 \in S
  <2>. DEFINE s == [i \in (lo - 1)..(lo - 1) |-> 0]
  <2>1. IsSums(s, f, lo, lo - 1)
    BY DEF IsSums
  <2>. QED  BY <2>1
<1>2. ASSUME NEW h \in Int, h > lo - 1, h - 1 \in S PROVE h \in S
  <2>1. PICK s : IsSums(s, f, lo, h - 1)
    BY <1>2
  <2>. DEFINE r == [i \in (lo - 1)..h |-> IF i = h THEN s[h - 1] + f[h] ELSE s[i]]
  <2>2. ASSUME NEW i \in (lo - 1)..h
        PROVE  r[i] = IF i < lo THEN 0 ELSE r[i - 1] + f[i]
    <3>1. CASE i = h
      BY <1>2, <3>1
    <3>2. CASE i # h
      <4>1. i \in (lo - 1)..(h - 1) /\ r[i] = s[i]
        BY <3>2
      <4>2. s[i] = IF i < lo THEN 0 ELSE s[i - 1] + f[i]
        BY <2>1, <4>1 DEF IsSums
      <4>3. i >= lo => i - 1 \in (lo - 1)..h /\ i - 1 # h /\ r[i - 1] = s[i - 1]
        BY <4>1
      <4>. QED  BY <4>1, <4>2, <4>3
    <3>. QED  BY <3>1, <3>2
  <2>3. IsSums(r, f, lo, h)
    <3>1. r = [i \in (lo - 1)..h |-> r[i]]
      OBVIOUS
    <3>. HIDE DEF r
    <3>. QED  BY <2>2, <3>1 DEF IsSums
  <2>. QED  BY <2>3
<1>3. \A h \in Int : h >= lo - 1 => h \in S
  <2>1. lo - 1 \in Int
    OBVIOUS
  <2>. HIDE DEF S
  <2>. QED  BY <1>1, <1>2, <2>1, IntInduction
<1>. QED  BY <1>3

LEMMA SumsUnique ==
    ASSUME NEW f, NEW lo \in Int, NEW hi \in Int, NEW hj \in Int, NEW s, NEW r,
           IsSums(s, f, lo, hi), IsSums(r, f, lo, hj)
    PROVE  \A i \in Int : lo - 1 <= i /\ i <= hi /\ i <= hj => s[i] = r[i]
<1>. DEFINE S == {i \in Int : i <= hi /\ i <= hj => s[i] = r[i]}
<1>1. lo - 1 \in S
  BY DEF IsSums
<1>2. ASSUME NEW i \in Int, i > lo - 1, i - 1 \in S PROVE i \in S
  <2>. SUFFICES ASSUME i <= hi, i <= hj PROVE s[i] = r[i]
    OBVIOUS
  <2>1. s[i - 1] = r[i - 1]
    BY <1>2
  <2>2. i \in (lo - 1)..hi /\ i \in (lo - 1)..hj /\ ~(i < lo)
    BY <1>2
  <2>3. s[i] = s[i - 1] + f[i] /\ r[i] = r[i - 1] + f[i]
    BY <2>2 DEF IsSums
  <2>. QED  BY <2>1, <2>3
<1>3. \A i \in Int : i >= lo - 1 => i \in S
  <2>1. lo - 1 \in Int
    OBVIOUS
  <2>. HIDE DEF S
  <2>. QED  BY <1>1, <1>2, <2>1, IntInduction
<1>. QED  BY <1>3

LEMMA SumIsLast ==
    ASSUME NEW f, NEW lo \in Int, NEW hi \in Int, hi >= lo - 1
    PROVE  \E s : IsSums(s, f, lo, hi) /\ SumOver(f, lo, hi) = s[hi]
<1>. DEFINE s == CHOOSE s : IsSums(s, f, lo, hi)
<1>1. IsSums(s, f, lo, hi)
  BY SumsExist
<1>2. SumOver(f, lo, hi) = s[hi]
  BY DEF SumOver, IsSums
<1>. QED  BY <1>1, <1>2

\* The sum of nothing, and one more summand.
LEMMA SumEmpty ==
    ASSUME NEW f, NEW lo \in Int
    PROVE  SumOver(f, lo, lo - 1) = 0
<1>1. PICK s : IsSums(s, f, lo, lo - 1) /\ SumOver(f, lo, lo - 1) = s[lo - 1]
  BY SumIsLast
<1>. QED  BY <1>1 DEF IsSums

LEMMA SumStep ==
    ASSUME NEW f, NEW lo \in Int, NEW hi \in Int, hi >= lo
    PROVE  SumOver(f, lo, hi) = SumOver(f, lo, hi - 1) + f[hi]
<1>1. PICK s : IsSums(s, f, lo, hi) /\ SumOver(f, lo, hi) = s[hi]
  BY SumIsLast
<1>2. PICK r : IsSums(r, f, lo, hi - 1) /\ SumOver(f, lo, hi - 1) = r[hi - 1]
  BY SumIsLast
<1>3. s[hi - 1] = r[hi - 1]
  BY <1>1, <1>2, SumsUnique
<1>4. s[hi] = s[hi - 1] + f[hi]
  BY <1>1 DEF IsSums
<1>. QED  BY <1>1, <1>2, <1>3, <1>4

-----------------------------------------------------------------------------
(* Sums of integers.                                                       *)

\* The step of an induction over the number of summands.
LEMMA SumInduction ==
    ASSUME NEW lo \in Int, NEW hi \in Int, hi >= lo - 1, NEW S, lo - 1 \in S,
           \A i \in lo..hi : i - 1 \in S => i \in S
    PROVE  hi \in S
<1>. DEFINE T == {i \in Int : i <= hi => i \in S}
<1>1. lo - 1 \in T
  OBVIOUS
<1>2. ASSUME NEW i \in Int, i > lo - 1, i - 1 \in T PROVE i \in T
  <2>. SUFFICES ASSUME i <= hi PROVE i \in S
    OBVIOUS
  <2>1. i \in lo..hi /\ i - 1 \in S
    BY <1>2
  <2>. QED  BY <2>1
<1>3. \A i \in Int : i >= lo - 1 => i \in T
  <2>1. lo - 1 \in Int
    OBVIOUS
  <2>. HIDE DEF T
  <2>. QED  BY <1>1, <1>2, <2>1, IntInduction
<1>4. hi \in T
  <2>. HIDE DEF T
  <2>. QED  BY <1>3
<1>. QED  BY <1>4

LEMMA SumInt ==
    ASSUME NEW lo \in Int, NEW hi \in Int, hi >= lo - 1, NEW f,
           \A i \in lo..hi : f[i] \in Int
    PROVE  SumOver(f, lo, hi) \in Int
<1>. DEFINE S == {h \in Int : SumOver(f, lo, h) \in Int}
<1>1. lo - 1 \in S
  BY SumEmpty
<1>2. ASSUME NEW i \in lo..hi, i - 1 \in S PROVE i \in S
  BY <1>2, SumStep
<1>3. hi \in S
  <2>. HIDE DEF S
  <2>. QED  BY <1>1, <1>2, SumInduction
<1>. QED  BY <1>3

LEMMA SumNat ==
    ASSUME NEW lo \in Int, NEW hi \in Int, hi >= lo - 1, NEW f,
           \A i \in lo..hi : f[i] \in Nat
    PROVE  SumOver(f, lo, hi) \in Nat
<1>. DEFINE S == {h \in Int : SumOver(f, lo, h) \in Nat}
<1>1. lo - 1 \in S
  BY SumEmpty
<1>2. ASSUME NEW i \in lo..hi, i - 1 \in S PROVE i \in S
  BY <1>2, SumStep
<1>3. hi \in S
  <2>. HIDE DEF S
  <2>. QED  BY <1>1, <1>2, SumInduction
<1>. QED  BY <1>3

LEMMA SumSame ==
    ASSUME NEW lo \in Int, NEW hi \in Int, hi >= lo - 1, NEW f, NEW g,
           \A i \in lo..hi : f[i] = g[i]
    PROVE  SumOver(f, lo, hi) = SumOver(g, lo, hi)
<1>. DEFINE S == {h \in Int : SumOver(f, lo, h) = SumOver(g, lo, h)}
<1>1. lo - 1 \in S
  BY SumEmpty
<1>2. ASSUME NEW i \in lo..hi, i - 1 \in S PROVE i \in S
  BY <1>2, SumStep
<1>3. hi \in S
  <2>. HIDE DEF S
  <2>. QED  BY <1>1, <1>2, SumInduction
<1>. QED  BY <1>3

LEMMA SumOfZeros ==
    ASSUME NEW lo \in Int, NEW hi \in Int, hi >= lo - 1, NEW f,
           \A i \in lo..hi : f[i] = 0
    PROVE  SumOver(f, lo, hi) = 0
<1>. DEFINE S == {h \in Int : SumOver(f, lo, h) = 0}
<1>1. lo - 1 \in S
  BY SumEmpty
<1>2. ASSUME NEW i \in lo..hi, i - 1 \in S PROVE i \in S
  BY <1>2, SumStep
<1>3. hi \in S
  <2>. HIDE DEF S
  <2>. QED  BY <1>1, <1>2, SumInduction
<1>. QED  BY <1>3

\* Summands that are not greater make a sum that is not greater, and one that is
\* equal only if all the summands are.
LEMMA SumMonotone ==
    ASSUME NEW lo \in Int, NEW hi \in Int, hi >= lo - 1, NEW f, NEW g,
           \A i \in lo..hi : f[i] \in Int /\ g[i] \in Int /\ f[i] <= g[i]
    PROVE  /\ SumOver(f, lo, hi) <= SumOver(g, lo, hi)
           /\ SumOver(f, lo, hi) = SumOver(g, lo, hi) => \A i \in lo..hi : f[i] = g[i]
<1>. DEFINE S == {h \in Int :
                    /\ SumOver(f, lo, h) \in Int /\ SumOver(g, lo, h) \in Int
                    /\ SumOver(f, lo, h) <= SumOver(g, lo, h)
                    /\ SumOver(f, lo, h) = SumOver(g, lo, h) =>
                         \A i \in lo..h : f[i] = g[i]}
<1>1. lo - 1 \in S
  BY SumEmpty
<1>2. ASSUME NEW i \in lo..hi, i - 1 \in S PROVE i \in S
  <2>1. /\ SumOver(f, lo, i) = SumOver(f, lo, i - 1) + f[i]
        /\ SumOver(g, lo, i) = SumOver(g, lo, i - 1) + g[i]
    BY SumStep
  <2>2. /\ f[i] \in Int /\ g[i] \in Int /\ f[i] <= g[i]
        /\ SumOver(f, lo, i - 1) \in Int /\ SumOver(g, lo, i - 1) \in Int
        /\ SumOver(f, lo, i - 1) <= SumOver(g, lo, i - 1)
    BY <1>2
  <2>3. ASSUME SumOver(f, lo, i) = SumOver(g, lo, i), NEW j \in lo..i
        PROVE  f[j] = g[j]
    <3>1. f[i] = g[i] /\ SumOver(f, lo, i - 1) = SumOver(g, lo, i - 1)
      BY <2>1, <2>2, <2>3
    <3>2. \A k \in lo..(i - 1) : f[k] = g[k]
      BY <1>2, <3>1
    <3>. QED  BY <3>1, <3>2
  <2>. QED  BY <2>1, <2>2, <2>3
<1>3. hi \in S
  <2>. HIDE DEF S
  <2>. QED  BY <1>1, <1>2, SumInduction
<1>. QED  BY <1>3

\* Sums of sums and of multiples.
LEMMA SumPlus ==
    ASSUME NEW lo \in Int, NEW hi \in Int, hi >= lo - 1, NEW f, NEW g, NEW h,
           \A i \in lo..hi : f[i] \in Int /\ g[i] \in Int /\ h[i] = f[i] + g[i]
    PROVE  SumOver(h, lo, hi) = SumOver(f, lo, hi) + SumOver(g, lo, hi)
<1>. DEFINE S == {k \in Int :
                    /\ SumOver(f, lo, k) \in Int /\ SumOver(g, lo, k) \in Int
                    /\ SumOver(h, lo, k) = SumOver(f, lo, k) + SumOver(g, lo, k)}
<1>1. lo - 1 \in S
  BY SumEmpty
<1>2. ASSUME NEW i \in lo..hi, i - 1 \in S PROVE i \in S
  <2>1. /\ SumOver(f, lo, i) = SumOver(f, lo, i - 1) + f[i]
        /\ SumOver(g, lo, i) = SumOver(g, lo, i - 1) + g[i]
        /\ SumOver(h, lo, i) = SumOver(h, lo, i - 1) + h[i]
    BY SumStep
  <2>. QED  BY <1>2, <2>1
<1>3. hi \in S
  <2>. HIDE DEF S
  <2>. QED  BY <1>1, <1>2, SumInduction
<1>. QED  BY <1>3

LEMMA SumTimes ==
    ASSUME NEW lo \in Int, NEW hi \in Int, hi >= lo - 1, NEW f, NEW a \in Int, NEW h,
           \A i \in lo..hi : f[i] \in Int /\ h[i] = a * f[i]
    PROVE  SumOver(h, lo, hi) = a * SumOver(f, lo, hi)
<1>. DEFINE S == {k \in Int :
                    /\ SumOver(f, lo, k) \in Int
                    /\ SumOver(h, lo, k) = a * SumOver(f, lo, k)}
<1>1. lo - 1 \in S
  BY SumEmpty
<1>2. ASSUME NEW i \in lo..hi, i - 1 \in S PROVE i \in S
  <2>1. /\ SumOver(f, lo, i) = SumOver(f, lo, i - 1) + f[i]
        /\ SumOver(h, lo, i) = SumOver(h, lo, i - 1) + h[i]
    BY SumStep
  <2>. QED  BY <1>2, <2>1
<1>3. hi \in S
  <2>. HIDE DEF S
  <2>. QED  BY <1>1, <1>2, SumInduction
<1>. QED  BY <1>3

\* A sum of which only one summand is not 0.
OnlyOne(f, k, lo, hi) ==
    /\ k \in lo..hi /\ f[k] \in Int
    /\ \A i \in lo..hi : i # k => f[i] = 0

LEMMA SumOfOne ==
    ASSUME NEW lo \in Int, NEW hi \in Int, NEW f, NEW k, OnlyOne(f, k, lo, hi)
    PROVE  SumOver(f, lo, hi) = f[k]
<1>. USE DEF OnlyOne
<1>. DEFINE S == {h \in Int : SumOver(f, lo, h) = IF h < k THEN 0 ELSE f[k]}
<1>1. lo - 1 \in S
  BY SumEmpty
<1>2. ASSUME NEW i \in lo..hi, i - 1 \in S PROVE i \in S
  <2>1. SumOver(f, lo, i) = SumOver(f, lo, i - 1) + f[i]
    BY SumStep
  <2>. QED  BY <1>2, <2>1
<1>3. hi \in S
  <2>. HIDE DEF S
  <2>. QED  BY <1>1, <1>2, SumInduction
<1>. QED  BY <1>3

\* The order of two summations does not matter: the sums of the rows of m and the sums
\* of its columns have the same sum.
Transposed(mT, m, lo, hi, a, b) ==
    \A i \in lo..hi, j \in a..b : m[i][j] \in Int /\ mT[j][i] = m[i][j]
RowSums(rows, m, lo, hi, a, b) == \A i \in lo..hi : rows[i] = SumOver(m[i], a, b)

LEMMA SumExchange ==
    ASSUME NEW lo \in Int, NEW hi \in Int, hi >= lo - 1,
           NEW a \in Int, NEW b \in Int, b >= a - 1, NEW m, NEW mT, NEW rows, NEW columns,
           Transposed(mT, m, lo, hi, a, b),
           RowSums(rows, m, lo, hi, a, b), RowSums(columns, mT, a, b, lo, hi)
    PROVE  SumOver(rows, lo, hi) = SumOver(columns, a, b)
<1>. USE DEF Transposed, RowSums
<1>. DEFINE part(h) == [j \in a..b |-> SumOver(mT[j], lo, h)]
            S == {h \in Int : SumOver(rows, lo, h) = SumOver(part(h), a, b)}
<1>1. lo - 1 \in S
  <2>1. \A j \in a..b : part(lo - 1)[j] = 0
    BY SumEmpty
  <2>2. SumOver(part(lo - 1), a, b) = 0
    <3>. HIDE DEF part
    <3>. QED  BY <2>1, SumOfZeros
  <2>. QED  BY <2>2, SumEmpty
<1>2. ASSUME NEW i \in lo..hi, i - 1 \in S PROVE i \in S
  <2>1. ASSUME NEW j \in a..b
        PROVE  /\ part(i - 1)[j] \in Int
               /\ part(i)[j] = part(i - 1)[j] + m[i][j]
    <3>1. \A k \in lo..(i - 1) : mT[j][k] \in Int
      OBVIOUS
    <3>2. SumOver(mT[j], lo, i - 1) \in Int
      <4>1. i - 1 \in Int /\ i - 1 >= lo - 1
        OBVIOUS
      <4>. QED  BY <3>1, <4>1, SumInt
    <3>3. SumOver(mT[j], lo, i) = SumOver(mT[j], lo, i - 1) + mT[j][i]
      BY SumStep
    <3>. QED  BY <3>2, <3>3
  <2>2. SumOver(part(i), a, b) = SumOver(part(i - 1), a, b) + SumOver(m[i], a, b)
    <3>1. \A j \in a..b : m[i][j] \in Int
      OBVIOUS
    <3>. HIDE DEF part
    <3>. QED  BY <2>1, <3>1, SumPlus
  <2>3. SumOver(rows, lo, i) = SumOver(rows, lo, i - 1) + rows[i]
    BY SumStep
  <2>4. SumOver(rows, lo, i - 1) = SumOver(part(i - 1), a, b)
    BY <1>2
  <2>. HIDE DEF part
  <2>. QED  BY <2>2, <2>3, <2>4
<1>3. hi \in S
  <2>. HIDE DEF S
  <2>. QED  BY <1>1, <1>2, SumInduction
<1>4. SumOver(part(hi), a, b) = SumOver(columns, a, b)
  <2>1. \A j \in a..b : part(hi)[j] = columns[j]
    OBVIOUS
  <2>. HIDE DEF part
  <2>. QED  BY <2>1, SumSame
<1>. QED  BY <1>3, <1>4

\* Counting the members of a set.
LEMMA SumCounts ==
    ASSUME NEW lo \in Int, NEW hi \in Int, hi >= lo - 1, NEW A \in SUBSET (lo..hi),
           NEW f,
           \A i \in lo..hi : f[i] = IF i \in A THEN 1 ELSE 0
    PROVE  SumOver(f, lo, hi) = Cardinality(A)
<1>. DEFINE B(h) == {i \in lo..h : i \in A}
            S == {h \in Int : SumOver(f, lo, h) = Cardinality(B(h))}
<1>1. lo - 1 \in S
  <2>1. B(lo - 1) = {}
    OBVIOUS
  <2>. QED  BY <2>1, SumEmpty, FS_EmptySet
<1>2. ASSUME NEW i \in lo..hi, i - 1 \in S PROVE i \in S
  <2>1. SumOver(f, lo, i) = SumOver(f, lo, i - 1) + f[i]
    BY SumStep
  <2>2. IsFiniteSet(B(i - 1)) /\ Cardinality(B(i - 1)) \in Nat
    <3>1. lo \in Int /\ i - 1 \in Int /\ B(i - 1) \in SUBSET (lo..(i - 1))
      OBVIOUS
    <3>2. IsFiniteSet(lo..(i - 1))
      BY <3>1, FS_Interval, Zenon
    <3>. HIDE DEF B
    <3>3. IsFiniteSet(B(i - 1))
      BY <3>1, <3>2, FS_Subset, Zenon
    <3>. QED  BY <3>3, FS_CardinalityType
  <2>3. CASE i \in A
    <3>1. B(i) = B(i - 1) \cup {i} /\ i \notin B(i - 1)
      BY <2>3
    <3>2. Cardinality(B(i)) = Cardinality(B(i - 1)) + 1
      <4>. HIDE DEF B
      <4>. QED  BY <2>2, <3>1, FS_AddElement
    <3>. HIDE DEF B
    <3>. QED  BY <1>2, <2>1, <2>2, <2>3, <3>2
  <2>4. CASE i \notin A
    <3>1. B(i) = B(i - 1)
      BY <2>4
    <3>. HIDE DEF B
    <3>. QED  BY <1>2, <2>1, <2>2, <2>4, <3>1
  <2>. QED  BY <2>3, <2>4
<1>3. hi \in S
  <2>. HIDE DEF S
  <2>. QED  BY <1>1, <1>2, SumInduction
<1>4. B(hi) = A
  OBVIOUS
<1>. QED  BY <1>3, <1>4

-----------------------------------------------------------------------------
(* Distances and findNearest.                                              *)

LEMMA DistanceSquares ==
    ASSUME NEW p \in Point, NEW q \in Point
    PROVE  /\ Dist2(p, q) = SumOver([d \in 1..Dim |-> (q[d] - p[d]) * (q[d] - p[d])], 1, Dim)
           /\ Dist2(p, q) \in Nat
<1>. DEFINE f == [d \in 1..Dim |-> Minus(q, p)[d] * Minus(q, p)[d]]
            g == [d \in 1..Dim |-> (q[d] - p[d]) * (q[d] - p[d])]
<1>1. f = g
  BY DEF Minus
<1>2. \A d \in 1..Dim : g[d] \in Nat
  <2>1. \A x \in Int : x * x \in Nat
    OBVIOUS
  <2>2. \A d \in 1..Dim : q[d] - p[d] \in Int
    BY DEF Point
  <2>. QED  BY <2>1, <2>2
<1>3. Dim \in Int /\ 1 \in Int /\ Dim >= 1 - 1
  BY AlgoAssumption
<1>4. SumOver(g, 1, Dim) \in Nat
  <2>. HIDE DEF g
  <2>. QED  BY <1>2, <1>3, SumNat
<1>5. Dist2(p, q) = SumOver(f, 1, Dim)
  BY DEF Dist2, Dot
<1>. QED  BY <1>1, <1>4, <1>5

\* Only equal points have the distance 0.
LEMMA DistanceZero ==
    ASSUME NEW p \in Point, NEW q \in Point, Dist2(p, q) = 0
    PROVE  p = q
<1>. DEFINE f == [d \in 1..Dim |-> (q[d] - p[d]) * (q[d] - p[d])]
            none == [d \in 1..Dim |-> 0]
<1>1. SumOver(f, 1, Dim) = 0
  BY DistanceSquares
<1>2. 1 \in Int /\ Dim \in Int /\ Dim >= 1 - 1
  BY AlgoAssumption
<1>3. ASSUME NEW d \in 1..Dim
      PROVE  none[d] \in Int /\ f[d] \in Int /\ none[d] <= f[d] /\ (f[d] = 0 => p[d] = q[d])
  <2>1. \A x \in Int : x * x \in Int /\ 0 <= x * x /\ (x * x = 0 => x = 0)
    OBVIOUS
  <2>2. q[d] \in Int /\ p[d] \in Int /\ q[d] - p[d] \in Int
    BY DEF Point
  <2>3. f[d] = (q[d] - p[d]) * (q[d] - p[d]) /\ none[d] = 0
    OBVIOUS
  <2>. HIDE DEF f, none
  <2>. QED  BY <2>1, <2>2, <2>3
<1>4. SumOver(none, 1, Dim) = 0
  BY <1>2, SumOfZeros
<1>5. \A d \in 1..Dim : none[d] = f[d]
  <2>. HIDE DEF f, none
  <2>. QED  BY <1>1, <1>2, <1>3, <1>4, SumMonotone
<1>6. \A d \in 1..Dim : p[d] = q[d]
  <2>1. \A d \in 1..Dim : f[d] = 0
    BY <1>5
  <2>. HIDE DEF f, none
  <2>. QED  BY <1>3, <2>1
<1>7. p = [d \in 1..Dim |-> p[d]] /\ q = [d \in 1..Dim |-> q[d]]
  BY DEF Point
<1>. QED  BY <1>6, <1>7

\* Of finitely many integers there is a first smallest one.
LEMMA FirstLeast ==
    ASSUME NEW dist, NEW h \in Nat, \A c \in 0..h : dist[c] \in Int
    PROVE  \E c \in 0..h : \A i \in 0..h :
               /\ dist[c] <= dist[i]
               /\ i < c => dist[c] < dist[i]
<1>. DEFINE Least(c, k) == \A i \in 0..k : /\ dist[c] <= dist[i]
                                           /\ i < c => dist[c] < dist[i]
            S == {k \in Int : \E c \in 0..k : Least(c, k)}
<1>1. 0 \in S
  <2>1. 0 \in 0..0 /\ Least(0, 0)
    OBVIOUS
  <2>. QED  BY <2>1
<1>2. ASSUME NEW k \in 1..h, k - 1 \in S PROVE k \in S
  <2>1. PICK c \in 0..(k - 1) : Least(c, k - 1)
    BY <1>2
  <2>2. CASE dist[c] <= dist[k]
    <3>1. Least(c, k)
      BY <2>1, <2>2
    <3>. HIDE DEF Least
    <3>. QED  BY <3>1
  <2>3. CASE dist[k] < dist[c]
    <3>1. Least(k, k)
      BY <2>1, <2>3
    <3>. HIDE DEF Least
    <3>. QED  BY <3>1
  <2>4. dist[c] \in Int /\ dist[k] \in Int
    OBVIOUS
  <2>. QED  BY <2>2, <2>3, <2>4
<1>3. h \in S
  <2>1. 1 \in Int /\ h \in Int /\ h >= 1 - 1 /\ 1 - 1 = 0
    OBVIOUS
  <2>. HIDE DEF S
  <2>. QED  BY <1>1, <1>2, <2>1, SumInduction
<1>. QED  BY <1>3

\* FindNearest returns a cluster none is nearer than.
LEMMA NearestIsNearest ==
    ASSUME NEW p \in Point, NEW centers \in [Cluster -> Point]
    PROVE  /\ FindNearest(p, centers) \in Cluster
           /\ \A c \in Cluster : Dist2(p, centers[FindNearest(p, centers)]) <= Dist2(p, centers[c])
<1>. DEFINE dist == [c \in Cluster |-> Dist2(p, centers[c])]
            First(c) == \A i \in Cluster : /\ dist[c] <= dist[i]
                                           /\ i < c => dist[c] < dist[i]
<1>1. ASSUME NEW c \in Cluster PROVE dist[c] \in Int
  <2>1. centers[c] \in Point
    OBVIOUS
  <2>2. Dist2(p, centers[c]) \in Nat
    BY <2>1, DistanceSquares
  <2>. QED  BY <2>2
<1>2. Cluster = 0..(K - 1) /\ K - 1 \in Nat
  BY AlgoAssumption DEF Cluster
<1>3. \E c \in Cluster : First(c)
  <2>. HIDE DEF dist
  <2>. QED  BY <1>1, <1>2, FirstLeast
<1>4. FindNearest(p, centers) = CHOOSE c \in Cluster : First(c)
  BY DEF FindNearest
<1>5. FindNearest(p, centers) \in Cluster /\ First(FindNearest(p, centers))
  <2>. HIDE DEF First
  <2>. QED  BY <1>3, <1>4
<1>. QED  BY <1>5

-----------------------------------------------------------------------------
(* Counts, sums and means of the clusters.                                 *)

\* The coordinates d of the points of cluster c, and 0 for the others.
Coordinates(pts, a, c, d) == [j \in Index |-> IF a[j] = c THEN pts[j][d] ELSE 0]

\* m is the mean of the points of cluster c, without a division.
IsMean(pts, a, c, m) ==
    \A d \in 1..Dim :
        Count(a, c) * m[d] = SumOver(Coordinates(pts, a, c, d), 0, N - 1)

\* What the sums over the points run over.
LEMMA Indices ==
    /\ Index = 0..(N - 1) /\ 0 \in Int /\ N - 1 \in Int /\ N - 1 >= 0 - 1
    /\ 1 \in Int /\ Dim \in Int /\ Dim >= 1 - 1
    /\ Cluster = 0..(K - 1) /\ K - 1 \in Int /\ K - 1 >= 0 - 1
BY AlgoAssumption DEF Index, Cluster

LEMMA CountType ==
    ASSUME NEW a, NEW c
    PROVE  Count(a, c) \in 0..N
<1>. DEFINE A == {j \in Index : a[j] = c}
<1>1. 0 \in Int /\ N - 1 \in Int /\ N - 1 >= 0 /\ Index = 0..(N - 1)
  BY AlgoAssumption DEF Index
<1>2. IsFiniteSet(Index) /\ Cardinality(Index) = N
  <2>1. IsFiniteSet(0..(N - 1)) /\ Cardinality(0..(N - 1)) = IF 0 > N - 1 THEN 0 ELSE (N - 1) - 0 + 1
    BY <1>1, FS_Interval, Zenon
  <2>. QED  BY <1>1, <2>1, AlgoAssumption
<1>3. A \in SUBSET Index
  OBVIOUS
<1>4. IsFiniteSet(A) /\ Cardinality(A) <= Cardinality(Index)
  <2>. HIDE DEF A
  <2>. QED  BY <1>2, <1>3, FS_Subset, Zenon
<1>5. Cardinality(A) \in Nat
  <2>. HIDE DEF A
  <2>. QED  BY <1>4, FS_CardinalityType
<1>6. Count(a, c) = Cardinality(A)
  BY DEF Count
<1>. HIDE DEF A
<1>. QED  BY <1>2, <1>4, <1>5, <1>6, AlgoAssumption

\* A cluster has points exactly if it is counted.
LEMMA CountPositive ==
    ASSUME NEW a, NEW c, Count(a, c) = 0, NEW j \in Index
    PROVE  a[j] # c
<1>. DEFINE A == {i \in Index : a[i] = c}
<1>1. IsFiniteSet(Index)
  <2>1. IsFiniteSet(0..(N - 1))
    BY Indices, FS_Interval, Zenon
  <2>. QED  BY <2>1, Indices
<1>2. IsFiniteSet(A) /\ A \in SUBSET Index
  <2>1. A \in SUBSET Index
    OBVIOUS
  <2>. HIDE DEF A
  <2>. QED  BY <1>1, <2>1, FS_Subset, Zenon
<1>3. Cardinality(A) = 0
  BY DEF Count
<1>4. A = {}
  <2>. HIDE DEF A
  <2>. QED  BY <1>2, <1>3, FS_EmptySet
<1>. QED  BY <1>4

LEMMA CoordinatesSum ==
    ASSUME NEW pts \in [Index -> Point], NEW a, NEW c, NEW d \in 1..Dim
    PROVE  SumOver(Coordinates(pts, a, c, d), 0, N - 1) \in Int
<1>1. ASSUME NEW j \in Index PROVE Coordinates(pts, a, c, d)[j] \in Int
  <2>1. pts[j][d] \in Int
    BY DEF Point
  <2>. QED  BY <2>1 DEF Coordinates
<1>. QED  BY <1>1, Indices, SumInt

LEMMA AddPointsType ==
    ASSUME NEW pts \in [Index -> Point], NEW a, NEW c, NEW start \in Point
    PROVE  /\ AddPoints(pts, a, c, start) \in Point
           /\ \A d \in 1..Dim : AddPoints(pts, a, c, start)[d]
                                  = start[d] + SumOver(Coordinates(pts, a, c, d), 0, N - 1)
<1>. DEFINE sum(d) == SumOver(Coordinates(pts, a, c, d), 0, N - 1)
<1>1. AddPoints(pts, a, c, start) = [d \in 1..Dim |-> start[d] + sum(d)]
  BY DEF AddPoints, Coordinates
<1>2. \A d \in 1..Dim : sum(d) \in Int /\ start[d] \in Int
  BY CoordinatesSum DEF Point
<1>. HIDE DEF sum
<1>3. \A d \in 1..Dim : AddPoints(pts, a, c, start)[d] = start[d] + sum(d)
  BY <1>1
<1>4. AddPoints(pts, a, c, start) \in Point
  BY <1>1, <1>2 DEF Point
<1>. QED  BY <1>3, <1>4 DEF sum

\* The vectors of zeros.
LEMMA ZerosType == Zero \in Point /\ Zeros \in [Cluster -> Point] /\ \A c \in Cluster : Zeros[c] = Zero
BY DEF Zero, Zeros, Point

\* No points make no sum.
LEMMA EmptySum ==
    ASSUME NEW pts \in [Index -> Point], NEW a, NEW c, Count(a, c) = 0
    PROVE  AddPoints(pts, a, c, Zero) = Zero
<1>. DEFINE sum(d) == SumOver(Coordinates(pts, a, c, d), 0, N - 1)
<1>1. ASSUME NEW d \in 1..Dim PROVE sum(d) = 0
  <2>1. \A j \in 0..(N - 1) : Coordinates(pts, a, c, d)[j] = 0
    BY CountPositive, Indices DEF Coordinates
  <2>2. 0 \in Int /\ N - 1 \in Int /\ N - 1 >= 0 - 1
    BY Indices
  <2>. QED  BY <2>1, <2>2, SumOfZeros
<1>2. AddPoints(pts, a, c, Zero) = [d \in 1..Dim |-> Zero[d] + sum(d)]
  BY DEF AddPoints, Coordinates
<1>. HIDE DEF sum
<1>3. \A d \in 1..Dim : Zero[d] + sum(d) = 0
  BY <1>1 DEF Zero
<1>. QED  BY <1>2, <1>3 DEF Zero

\* Sums over the points.
LEMMA PointSumInt ==
    ASSUME NEW f, \A j \in Index : f[j] \in Int
    PROVE  SumOver(f, 0, N - 1) \in Int
BY Indices, SumInt

LEMMA PointSumTimes ==
    ASSUME NEW x \in Int, NEW f, NEW h, \A j \in Index : f[j] \in Int /\ h[j] = x * f[j]
    PROVE  SumOver(h, 0, N - 1) = x * SumOver(f, 0, N - 1)
<1>1. 0 \in Int /\ N - 1 \in Int /\ N - 1 >= 0 - 1
  BY Indices
<1>2. \A j \in 0..(N - 1) : f[j] \in Int /\ h[j] = x * f[j]
  BY Indices
<1>. QED  BY <1>1, <1>2, SumTimes

LEMMA PointSumPlus ==
    ASSUME NEW f, NEW g, NEW h,
           \A j \in Index : f[j] \in Int /\ g[j] \in Int /\ h[j] = f[j] + g[j]
    PROVE  SumOver(h, 0, N - 1) = SumOver(f, 0, N - 1) + SumOver(g, 0, N - 1)
<1>1. 0 \in Int /\ N - 1 \in Int /\ N - 1 >= 0 - 1
  BY Indices
<1>2. \A j \in 0..(N - 1) : f[j] \in Int /\ g[j] \in Int /\ h[j] = f[j] + g[j]
  BY Indices
<1>. QED  BY <1>1, <1>2, SumPlus

LEMMA PointSumMonotone ==
    ASSUME NEW f, NEW g, \A j \in Index : f[j] \in Int /\ g[j] \in Int /\ f[j] <= g[j]
    PROVE  /\ SumOver(f, 0, N - 1) <= SumOver(g, 0, N - 1)
           /\ SumOver(f, 0, N - 1) = SumOver(g, 0, N - 1) => \A j \in Index : f[j] = g[j]
<1>1. 0 \in Int /\ N - 1 \in Int /\ N - 1 >= 0 - 1
  BY Indices
<1>2. \A j \in 0..(N - 1) : f[j] \in Int /\ g[j] \in Int /\ f[j] <= g[j]
  BY Indices
<1>3. /\ SumOver(f, 0, N - 1) <= SumOver(g, 0, N - 1)
      /\ SumOver(f, 0, N - 1) = SumOver(g, 0, N - 1) => \A j \in 0..(N - 1) : f[j] = g[j]
  BY <1>1, <1>2, SumMonotone
<1>. QED  BY <1>3, Indices

\* The quotients and remainders of the integers.
LEMMA Divides ==
    ASSUME NEW x \in Int, NEW b \in Nat \ {0}
    PROVE  /\ x \div b \in Int
           /\ x % b = 0 => x = b * (x \div b)
OBVIOUS

LEMMA ExactDivision ==
    ASSUME NEW q \in Int, NEW b \in Nat \ {0}
    PROVE  (b * q) \div b = q
<1>. DEFINE r == (b * q) \div b
            m == (b * q) % b
<1>1. r \in Int /\ m \in 0..(b - 1) /\ b * q \in Int /\ b * q = b * r + m
  OBVIOUS
<1>. HIDE DEF r, m
<1>2. b * (q - r) = b * q - b * r
  BY <1>1
<1>3. ~(q - r >= 1)
  <2>. SUFFICES ASSUME q - r >= 1 PROVE FALSE
    OBVIOUS
  <2>1. b * (q - r) >= b
    BY <1>1
  <2>. QED  BY <1>1, <1>2, <2>1
<1>4. ~(q - r <= -1)
  <2>. SUFFICES ASSUME q - r <= -1 PROVE FALSE
    OBVIOUS
  <2>1. b * (q - r) <= -b
    BY <1>1
  <2>. QED  BY <1>1, <1>2, <2>1
<1>5. r = q
  BY <1>1, <1>3, <1>4
<1>. QED  BY <1>5 DEF r

\* The centroid that the program computes for a cluster with points is their mean:
\* the points are exact, so that no division has a remainder.
LEMMA MeanIsExact ==
    ASSUME NEW pts \in [Index -> Point], \A j \in Index : Exact(pts[j]),
           NEW a, NEW c, Count(a, c) > 0
    PROVE  /\ Over(AddPoints(pts, a, c, Zero), Count(a, c)) \in Point
           /\ IsMean(pts, a, c, Over(AddPoints(pts, a, c, Zero), Count(a, c)))
<1>. DEFINE k == Count(a, c)
            m == Over(AddPoints(pts, a, c, Zero), k)
<1>1. k \in 1..N /\ k \in Nat \ {0}
  BY CountType, AlgoAssumption
<1>. HIDE DEF k
<1>2. Zero \in Point
  BY DEF Zero, Point
<1>3. ASSUME NEW d \in 1..Dim
      PROVE  m[d] \in Int /\ k * m[d] = SumOver(Coordinates(pts, a, c, d), 0, N - 1)
  <2>. DEFINE f == Coordinates(pts, a, c, d)
              g == [j \in Index |-> f[j] \div k]
  <2>1. ASSUME NEW j \in Index PROVE g[j] \in Int /\ f[j] = k * g[j]
    <3>1. f[j] \in Int /\ f[j] % k = 0
      <4>1. pts[j][d] \in Int /\ pts[j][d] % k = 0
        BY <1>1 DEF Exact, Point
      <4>2. f[j] = pts[j][d] \/ f[j] = 0
        BY DEF Coordinates
      <4>3. 0 % k = 0
        BY <1>1
      <4>. HIDE DEF f
      <4>. QED  BY <4>1, <4>2, <4>3
    <3>2. g[j] = f[j] \div k
      OBVIOUS
    <3>. HIDE DEF f, g
    <3>. QED  BY <1>1, <3>1, <3>2, Divides
  <2>2. SumOver(g, 0, N - 1) \in Int /\ SumOver(f, 0, N - 1) = k * SumOver(g, 0, N - 1)
    <3>. HIDE DEF f, g
    <3>1. \A j \in Index : g[j] \in Int
      BY <2>1
    <3>2. k \in Int
      BY <1>1
    <3>. QED  BY <2>1, <3>1, <3>2, PointSumInt, PointSumTimes
  <2>3. m[d] = SumOver(f, 0, N - 1) \div k
    <3>1. AddPoints(pts, a, c, Zero)[d] = 0 + SumOver(f, 0, N - 1)
      BY <1>2, AddPointsType DEF Zero
    <3>2. SumOver(f, 0, N - 1) \in Int
      BY CoordinatesSum
    <3>. QED  BY <3>1, <3>2 DEF Over
  <2>4. m[d] = SumOver(g, 0, N - 1)
    <3>. HIDE DEF f, g, m
    <3>. QED  BY <1>1, <2>2, <2>3, ExactDivision
  <2>. QED
    <3>. HIDE DEF f, g, m
    <3>. QED  BY <2>2, <2>4 DEF f
<1>4. m \in Point
  <2>1. m = [d \in 1..Dim |-> m[d]]
    BY DEF Over
  <2>. HIDE DEF m
  <2>. QED  BY <1>3, <2>1 DEF Point
<1>5. IsMean(pts, a, c, m)
  <2>. HIDE DEF m
  <2>. QED  BY <1>3 DEF IsMean, k
<1>. QED  BY <1>4, <1>5 DEF k

-----------------------------------------------------------------------------
(* Moving the centroids to the means.                                      *)

\* f holds w times the deviations from m of the points of cluster c.
Deviations(f, pts, a, c, m, w, d) ==
    \A j \in Index : f[j] = IF a[j] = c THEN w * (m[d] - pts[j][d]) ELSE 0

\* The deviations of the points of a cluster from its mean add up to 0, whatever
\* they are multiplied by.
LEMMA DeviationsCancel ==
    ASSUME NEW pts \in [Index -> Point], NEW a, NEW c, NEW m \in Point,
           Count(a, c) > 0 => IsMean(pts, a, c, m),
           NEW w \in Int, NEW d \in 1..Dim, NEW f, Deviations(f, pts, a, c, m, w, d)
    PROVE  SumOver(f, 0, N - 1) = 0
<1>. USE DEF Deviations
<1>. DEFINE A == {j \in Index : a[j] = c}
            one == [j \in Index |-> IF j \in A THEN 1 ELSE 0]
            x == Coordinates(pts, a, c, d)
            mx == [j \in Index |-> m[d] * one[j]]
            minus == [j \in Index |-> (-1) * x[j]]
            dev == [j \in Index |-> mx[j] + minus[j]]
<1>1. m[d] \in Int /\ \A j \in Index : pts[j][d] \in Int
  BY DEF Point
<1>2. ASSUME NEW j \in Index
      PROVE  /\ one[j] \in Int /\ x[j] \in Int /\ mx[j] \in Int /\ minus[j] \in Int
             /\ dev[j] \in Int /\ f[j] = w * dev[j]
             /\ mx[j] = m[d] * one[j] /\ minus[j] = (-1) * x[j]
             /\ dev[j] = mx[j] + minus[j]
  BY <1>1 DEF Coordinates
<1>3. SumOver(one, 0, N - 1) = Count(a, c)
  <2>1. A \in SUBSET (0..(N - 1))
    BY Indices
  <2>2. Count(a, c) = Cardinality(A)
    BY DEF Count
  <2>3. \A j \in 0..(N - 1) : one[j] = IF j \in A THEN 1 ELSE 0
    BY Indices
  <2>. HIDE DEF A, one
  <2>4. 0 \in Int /\ N - 1 \in Int /\ N - 1 >= 0 - 1
    BY Indices
  <2>. QED  BY <2>1, <2>2, <2>3, <2>4, SumCounts
<1>. HIDE DEF A, one, x, mx, minus, dev
<1>4. SumOver(mx, 0, N - 1) = m[d] * SumOver(one, 0, N - 1)
  BY <1>1, <1>2, PointSumTimes
<1>5. SumOver(minus, 0, N - 1) = (-1) * SumOver(x, 0, N - 1)
  <2>1. -1 \in Int
    OBVIOUS
  <2>. QED  BY <1>2, <2>1, PointSumTimes
<1>6. SumOver(dev, 0, N - 1) = SumOver(mx, 0, N - 1) + SumOver(minus, 0, N - 1)
  BY <1>2, PointSumPlus
<1>7. SumOver(f, 0, N - 1) = w * SumOver(dev, 0, N - 1)
  BY <1>2, PointSumTimes
<1>8. SumOver(x, 0, N - 1) \in Int /\ Count(a, c) \in Int
  BY <1>2, PointSumInt, CountType
<1>9. CASE Count(a, c) > 0
  <2>1. Count(a, c) * m[d] = SumOver(x, 0, N - 1)
    BY <1>9 DEF IsMean, x
  <2>2. SumOver(dev, 0, N - 1) = 0
    BY <1>1, <1>3, <1>4, <1>5, <1>6, <1>8, <2>1
  <2>. QED  BY <1>7, <2>2
<1>10. CASE Count(a, c) = 0
  <2>1. \A j \in Index : f[j] = 0
    BY <1>10, CountPositive
  <2>. QED  BY <2>1, Indices, SumOfZeros
<1>. QED  BY <1>9, <1>10, CountType

\* What moving a centroid from c to m changes for the coordinate d of the point p.
Cross(p, m, c) == [d \in 1..Dim |-> (c[d] - m[d]) * (m[d] - p[d])]

LEMMA Binomial ==
    ASSUME NEW p \in Int, NEW m \in Int, NEW c \in Int
    PROVE  (c - p) * (c - p) = (m - p) * (m - p) + ((c - m) * (c - m) + 2 * ((c - m) * (m - p)))
OBVIOUS

LEMMA DistanceSplits ==
    ASSUME NEW p \in Point, NEW m \in Point, NEW c \in Point
    PROVE  /\ SumOver(Cross(p, m, c), 1, Dim) \in Int
           /\ Dist2(p, c) = Dist2(p, m) + (Dist2(m, c) + 2 * SumOver(Cross(p, m, c), 1, Dim))
<1>. DEFINE pc == [d \in 1..Dim |-> (c[d] - p[d]) * (c[d] - p[d])]
            pm == [d \in 1..Dim |-> (m[d] - p[d]) * (m[d] - p[d])]
            mc == [d \in 1..Dim |-> (c[d] - m[d]) * (c[d] - m[d])]
            x == Cross(p, m, c)
            twice == [d \in 1..Dim |-> 2 * x[d]]
            rest == [d \in 1..Dim |-> mc[d] + twice[d]]
<1>1. ASSUME NEW d \in 1..Dim
      PROVE  /\ pm[d] \in Int /\ mc[d] \in Int /\ x[d] \in Int /\ twice[d] \in Int
             /\ rest[d] \in Int
             /\ twice[d] = 2 * x[d] /\ rest[d] = mc[d] + twice[d]
             /\ pc[d] = pm[d] + rest[d]
  <2>1. p[d] \in Int /\ m[d] \in Int /\ c[d] \in Int
    BY DEF Point
  <2>2. x[d] = (c[d] - m[d]) * (m[d] - p[d])
    BY DEF Cross
  <2>3. pc[d] = pm[d] + (mc[d] + 2 * x[d])
    BY <2>1, <2>2, Binomial
  <2>4. \A u, v \in Int : u * v \in Int /\ u - v \in Int /\ u + v \in Int
    OBVIOUS
  <2>. QED  BY <2>1, <2>2, <2>3, <2>4
<1>2. /\ Dist2(p, c) = SumOver(pc, 1, Dim)
      /\ Dist2(p, m) = SumOver(pm, 1, Dim)
      /\ Dist2(m, c) = SumOver(mc, 1, Dim)
  BY DistanceSquares
<1>3. 1 \in Int /\ Dim \in Int /\ Dim >= 1 - 1 /\ 2 \in Int
  BY Indices
<1>. HIDE DEF pc, pm, mc, x, twice, rest
<1>4. SumOver(pc, 1, Dim) = SumOver(pm, 1, Dim) + SumOver(rest, 1, Dim)
  BY <1>1, <1>3, SumPlus
<1>5. SumOver(rest, 1, Dim) = SumOver(mc, 1, Dim) + SumOver(twice, 1, Dim)
  BY <1>1, <1>3, SumPlus
<1>6. SumOver(twice, 1, Dim) = 2 * SumOver(x, 1, Dim)
  BY <1>1, <1>3, SumTimes
<1>7. SumOver(x, 1, Dim) \in Int
  BY <1>1, <1>3, SumInt
<1>. QED  BY <1>2, <1>4, <1>5, <1>6, <1>7 DEF x

LEMMA SumOfOneCluster ==
    ASSUME NEW f, NEW k, OnlyOne(f, k, 0, K - 1)
    PROVE  SumOver(f, 0, K - 1) = f[k]
<1>1. 0 \in Int /\ K - 1 \in Int
  BY Indices
<1>. QED  BY <1>1, SumOfOne

\* In one coordinate the changes cancel: they do in every cluster.
LEMMA CrossCancels ==
    ASSUME NEW pts \in [Index -> Point], NEW a \in [Index -> Cluster],
           NEW cs \in [Cluster -> Point], NEW ms \in [Cluster -> Point],
           \A c \in Cluster : Count(a, c) > 0 => IsMean(pts, a, c, ms[c]),
           NEW d \in 1..Dim
    PROVE  SumOver([j \in Index |-> Cross(pts[j], ms[a[j]], cs[a[j]])[d]], 0, N - 1) = 0
<1>. DEFINE w(c) == cs[c][d] - ms[c][d]
            y == [j \in Index |-> [c \in Cluster |->
                    IF a[j] = c THEN w(c) * (ms[c][d] - pts[j][d]) ELSE 0]]
            x == [j \in Index |-> Cross(pts[j], ms[a[j]], cs[a[j]])[d]]
            column(c) == [j \in Index |-> y[j][c]]
            row == [j \in Index |-> SumOver(y[j], 0, K - 1)]
            columns == [c \in Cluster |-> SumOver(column(c), 0, N - 1)]
<1>1. /\ Index = 0..(N - 1) /\ 0 \in Int /\ N - 1 \in Int /\ N - 1 >= 0 - 1
      /\ Cluster = 0..(K - 1) /\ K - 1 \in Int /\ K - 1 >= 0 - 1
  BY Indices
<1>2. ASSUME NEW c \in Cluster PROVE w(c) \in Int
  <2>1. cs[c] \in Point /\ ms[c] \in Point
    OBVIOUS
  <2>. QED  BY <2>1 DEF Point
<1>3. ASSUME NEW j \in Index, NEW c \in Cluster PROVE y[j][c] \in Int
  <2>1. w(c) \in Int /\ ms[c][d] \in Int /\ pts[j][d] \in Int
    BY <1>2 DEF Point
  <2>2. \A u, v, z \in Int : u * (v - z) \in Int
    OBVIOUS
  <2>3. y[j][c] = IF a[j] = c THEN w(c) * (ms[c][d] - pts[j][d]) ELSE 0
    OBVIOUS
  <2>. HIDE DEF w, y
  <2>. QED  BY <2>1, <2>2, <2>3
<1>4. ASSUME NEW j \in Index PROVE SumOver(y[j], 0, K - 1) = x[j]
  <2>1. PICK k \in 0..(K - 1) : k = a[j]
    BY <1>1
  <2>2. \A c \in 0..(K - 1) : c # k => y[j][c] = 0
    BY <1>1, <2>1
  <2>3. OnlyOne(y[j], k, 0, K - 1)
    <3>. HIDE DEF y
    <3>. QED  BY <1>1, <1>3, <2>2 DEF OnlyOne
  <2>4. SumOver(y[j], 0, K - 1) = y[j][k]
    <3>. HIDE DEF y
    <3>. QED  BY <2>3, SumOfOneCluster
  <2>5. y[j][k] = x[j]
    BY <2>1 DEF Cross
  <2>. QED  BY <2>4, <2>5
<1>5. row = x
  <2>1. row = [j \in Index |-> x[j]]
    <3>. HIDE DEF x, y
    <3>. QED  BY <1>4
  <2>2. x = [j \in Index |-> x[j]]
    OBVIOUS
  <2>. HIDE DEF x, row
  <2>. QED  BY <2>1, <2>2
<1>6. ASSUME NEW c \in Cluster PROVE columns[c] = 0
  <2>1. Deviations(column(c), pts, a, c, ms[c], w(c), d)
    BY DEF Deviations
  <2>2. ms[c] \in Point /\ w(c) \in Int
    BY <1>2
  <2>3. SumOver(column(c), 0, N - 1) = 0
    <3>. HIDE DEF w, column
    <3>. QED  BY <2>1, <2>2, DeviationsCancel
  <2>4. columns[c] = SumOver(column(c), 0, N - 1)
    OBVIOUS
  <2>. HIDE DEF column, columns, w
  <2>. QED  BY <2>3, <2>4
<1>7. SumOver(row, 0, N - 1) = SumOver(columns, 0, K - 1)
  <2>. DEFINE yT == [c \in Cluster |-> column(c)]
  <2>1. Transposed(yT, y, 0, N - 1, 0, K - 1)
    <3>1. \A j \in Index, c \in Cluster : yT[c][j] = y[j][c]
      <4>. HIDE DEF y
      <4>. QED  OBVIOUS
    <3>. HIDE DEF y, yT
    <3>. QED  BY <1>1, <1>3, <3>1 DEF Transposed
  <2>2. RowSums(row, y, 0, N - 1, 0, K - 1)
    BY <1>1 DEF RowSums
  <2>3. RowSums(columns, yT, 0, K - 1, 0, N - 1)
    <3>. HIDE DEF column
    <3>. QED  BY <1>1 DEF RowSums
  <2>. HIDE DEF y, yT, row, columns
  <2>. QED  BY <1>1, <2>1, <2>2, <2>3, SumExchange
<1>8. SumOver(columns, 0, K - 1) = 0
  <2>. HIDE DEF columns
  <2>. QED  BY <1>1, <1>6, SumOfZeros
<1>. HIDE DEF row, columns, x
<1>9. SumOver(x, 0, N - 1) = 0
  BY <1>5, <1>7, <1>8
<1>. QED  BY <1>9 DEF x

\* ms are means of the clusters that have points.
AreMeans(pts, a, ms) ==
    \A c \in Cluster : Count(a, c) > 0 => IsMean(pts, a, c, ms[c])

\* So they do in the sum over all coordinates of all points.
LEMMA CrossTotal ==
    ASSUME NEW pts \in [Index -> Point], NEW a \in [Index -> Cluster],
           NEW cs \in [Cluster -> Point], NEW ms \in [Cluster -> Point],
           AreMeans(pts, a, ms)
    PROVE  SumOver([j \in Index |-> SumOver(Cross(pts[j], ms[a[j]], cs[a[j]]), 1, Dim)], 0, N - 1) = 0
<1>. DEFINE x == [j \in Index |-> Cross(pts[j], ms[a[j]], cs[a[j]])]
            xT == [d \in 1..Dim |-> [j \in Index |-> Cross(pts[j], ms[a[j]], cs[a[j]])[d]]]
            row == [j \in Index |-> SumOver(Cross(pts[j], ms[a[j]], cs[a[j]]), 1, Dim)]
            columns == [d \in 1..Dim |-> SumOver(xT[d], 0, N - 1)]
<1>1. /\ Index = 0..(N - 1) /\ 0 \in Int /\ N - 1 \in Int /\ N - 1 >= 0 - 1
      /\ 1 \in Int /\ Dim \in Int /\ Dim >= 1 - 1
  BY Indices
<1>2. ASSUME NEW j \in Index, NEW d \in 1..Dim PROVE x[j][d] \in Int /\ xT[d][j] = x[j][d]
  <2>1. pts[j] \in Point /\ ms[a[j]] \in Point /\ cs[a[j]] \in Point
    OBVIOUS
  <2>2. pts[j][d] \in Int /\ ms[a[j]][d] \in Int /\ cs[a[j]][d] \in Int
    BY <2>1 DEF Point
  <2>3. \A u, v, z \in Int : (u - v) * (v - z) \in Int
    OBVIOUS
  <2>4. x[j][d] = (cs[a[j]][d] - ms[a[j]][d]) * (ms[a[j]][d] - pts[j][d])
    BY DEF Cross
  <2>5. xT[d][j] = x[j][d]
    OBVIOUS
  <2>. HIDE DEF x, xT
  <2>. QED  BY <2>2, <2>3, <2>4, <2>5
<1>3. Transposed(xT, x, 0, N - 1, 1, Dim)
  <2>. HIDE DEF x, xT
  <2>. QED  BY <1>1, <1>2 DEF Transposed
<1>4. RowSums(row, x, 0, N - 1, 1, Dim)
  BY <1>1 DEF RowSums
<1>5. RowSums(columns, xT, 1, Dim, 0, N - 1)
  <2>. HIDE DEF xT
  <2>. QED  BY <1>1 DEF RowSums
<1>6. SumOver(row, 0, N - 1) = SumOver(columns, 1, Dim)
  <2>. HIDE DEF x, xT, row, columns
  <2>. QED  BY <1>1, <1>3, <1>4, <1>5, SumExchange
<1>7. ASSUME NEW d \in 1..Dim PROVE columns[d] = 0
  <2>1. SumOver([j \in Index |-> Cross(pts[j], ms[a[j]], cs[a[j]])[d]], 0, N - 1) = 0
    BY CrossCancels DEF AreMeans
  <2>. QED  BY <2>1
<1>8. SumOver(columns, 1, Dim) = 0
  <2>. HIDE DEF columns
  <2>. QED  BY <1>1, <1>7, SumOfZeros
<1>. QED  BY <1>6, <1>8

\* With every point in a given cluster, centroids at the means give the least sum of
\* squared distances, and no other centroids of those clusters give the same.
LEMMA MeansAreLeast ==
    ASSUME NEW pts \in [Index -> Point], NEW a \in [Index -> Cluster],
           NEW cs \in [Cluster -> Point], NEW ms \in [Cluster -> Point],
           AreMeans(pts, a, ms)
    PROVE  /\ Distortion(pts, ms, a) <= Distortion(pts, cs, a)
           /\ Distortion(pts, ms, a) = Distortion(pts, cs, a)
                => \A j \in Index : ms[a[j]] = cs[a[j]]
<1>. DEFINE new == [j \in Index |-> Dist2(pts[j], ms[a[j]])]
            old == [j \in Index |-> Dist2(pts[j], cs[a[j]])]
            moved == [j \in Index |-> Dist2(ms[a[j]], cs[a[j]])]
            cross == [j \in Index |-> SumOver(Cross(pts[j], ms[a[j]], cs[a[j]]), 1, Dim)]
            twice == [j \in Index |-> 2 * cross[j]]
            rest == [j \in Index |-> moved[j] + twice[j]]
            none == [j \in Index |-> 0]
<1>1. ASSUME NEW j \in Index
      PROVE  /\ new[j] \in Int /\ moved[j] \in Nat /\ cross[j] \in Int
             /\ twice[j] \in Int /\ rest[j] \in Int
             /\ twice[j] = 2 * cross[j] /\ rest[j] = moved[j] + twice[j]
             /\ old[j] = new[j] + rest[j]
             /\ none[j] = 0
             /\ moved[j] = Dist2(ms[a[j]], cs[a[j]])
  <2>1. pts[j] \in Point /\ ms[a[j]] \in Point /\ cs[a[j]] \in Point
    OBVIOUS
  <2>2. /\ new[j] \in Nat /\ moved[j] \in Nat /\ cross[j] \in Int
        /\ old[j] = new[j] + (moved[j] + 2 * cross[j])
    BY <2>1, DistanceSquares, DistanceSplits
  <2>3. /\ twice[j] = 2 * cross[j] /\ rest[j] = moved[j] + twice[j] /\ none[j] = 0
        /\ moved[j] = Dist2(ms[a[j]], cs[a[j]])
    OBVIOUS
  <2>. HIDE DEF new, old, moved, cross, twice, rest, none
  <2>. QED  BY <2>2, <2>3
<1>2. /\ Distortion(pts, ms, a) = SumOver(new, 0, N - 1)
      /\ Distortion(pts, cs, a) = SumOver(old, 0, N - 1)
  BY DEF Distortion
<1>3. SumOver(cross, 0, N - 1) = 0
  BY CrossTotal
<1>. HIDE DEF new, old, moved, cross, twice, rest, none
<1>4. SumOver(old, 0, N - 1) = SumOver(new, 0, N - 1) + SumOver(rest, 0, N - 1)
  BY <1>1, PointSumPlus
<1>5. SumOver(rest, 0, N - 1) = SumOver(moved, 0, N - 1) + SumOver(twice, 0, N - 1)
  BY <1>1, PointSumPlus
<1>6. SumOver(twice, 0, N - 1) = 2 * SumOver(cross, 0, N - 1)
  <2>1. 2 \in Int
    OBVIOUS
  <2>. QED  BY <1>1, <2>1, PointSumTimes
<1>7. SumOver(new, 0, N - 1) \in Int /\ SumOver(moved, 0, N - 1) \in Int
  BY <1>1, PointSumInt
<1>8. SumOver(none, 0, N - 1) = 0
  BY <1>1, Indices, SumOfZeros
<1>9. /\ SumOver(none, 0, N - 1) <= SumOver(moved, 0, N - 1)
      /\ SumOver(none, 0, N - 1) = SumOver(moved, 0, N - 1) =>
           \A j \in Index : none[j] = moved[j]
  <2>1. \A j \in Index : none[j] \in Int /\ moved[j] \in Int /\ none[j] <= moved[j]
    BY <1>1
  <2>. QED  BY <2>1, PointSumMonotone
<1>10. SumOver(old, 0, N - 1) = SumOver(new, 0, N - 1) + SumOver(moved, 0, N - 1)
  BY <1>3, <1>4, <1>5, <1>6, <1>7
<1>11. Distortion(pts, ms, a) <= Distortion(pts, cs, a)
  BY <1>2, <1>7, <1>8, <1>9, <1>10
<1>12. ASSUME Distortion(pts, ms, a) = Distortion(pts, cs, a), NEW j \in Index
       PROVE  ms[a[j]] = cs[a[j]]
  <2>1. SumOver(moved, 0, N - 1) = 0
    BY <1>2, <1>7, <1>10, <1>12
  <2>2. Dist2(ms[a[j]], cs[a[j]]) = 0
    BY <1>1, <1>8, <1>9, <2>1
  <2>. QED  BY <2>2, DistanceZero
<1>. QED  BY <1>11, <1>12

\* The sum of squared distances is a natural number.
LEMMA DistortionType ==
    ASSUME NEW pts \in [Index -> Point], NEW cs \in [Cluster -> Point],
           NEW a \in [Index -> Cluster]
    PROVE  Distortion(pts, cs, a) \in Nat
<1>. DEFINE f == [j \in Index |-> Dist2(pts[j], cs[a[j]])]
<1>1. ASSUME NEW j \in Index PROVE f[j] \in Nat
  <2>1. pts[j] \in Point /\ cs[a[j]] \in Point
    OBVIOUS
  <2>2. Dist2(pts[j], cs[a[j]]) \in Nat
    BY <2>1, DistanceSquares
  <2>. QED  BY <2>2
<1>2. 0 \in Int /\ N - 1 \in Int /\ N - 1 >= 0 - 1 /\ Index = 0..(N - 1)
  BY Indices
<1>3. SumOver(f, 0, N - 1) \in Nat
  <2>. HIDE DEF f
  <2>. QED  BY <1>1, <1>2, SumNat
<1>. QED  BY <1>3 DEF Distortion

\* The nearest centroids give the least sum of squared distances to given centroids.
LEMMA NearestIsLeast ==
    ASSUME NEW pts \in [Index -> Point], NEW cs \in [Cluster -> Point]
    PROVE  /\ Nearest(pts, cs) \in [Index -> Cluster]
           /\ \A a \in [Index -> Cluster] :
                  Distortion(pts, cs, Nearest(pts, cs)) <= Distortion(pts, cs, a)
<1>1. Nearest(pts, cs) \in [Index -> Cluster]
  <2>1. ASSUME NEW j \in Index PROVE FindNearest(pts[j], cs) \in Cluster
    <3>1. pts[j] \in Point
      OBVIOUS
    <3>. QED  BY <3>1, NearestIsNearest
  <2>. QED  BY <2>1 DEF Nearest
<1>2. ASSUME NEW a \in [Index -> Cluster]
      PROVE  Distortion(pts, cs, Nearest(pts, cs)) <= Distortion(pts, cs, a)
  <2>. DEFINE f == [j \in Index |-> Dist2(pts[j], cs[Nearest(pts, cs)[j]])]
              g == [j \in Index |-> Dist2(pts[j], cs[a[j]])]
  <2>1. ASSUME NEW j \in Index PROVE f[j] \in Int /\ g[j] \in Int /\ f[j] <= g[j]
    <3>1. pts[j] \in Point /\ Nearest(pts, cs)[j] = FindNearest(pts[j], cs)
      BY DEF Nearest
    <3>2. FindNearest(pts[j], cs) \in Cluster /\ a[j] \in Cluster
      BY <3>1, NearestIsNearest
    <3>3. Dist2(pts[j], cs[FindNearest(pts[j], cs)]) <= Dist2(pts[j], cs[a[j]])
      BY <3>1, <3>2, NearestIsNearest
    <3>4. cs[FindNearest(pts[j], cs)] \in Point /\ cs[a[j]] \in Point
      BY <3>2
    <3>5. /\ Dist2(pts[j], cs[FindNearest(pts[j], cs)]) \in Nat
          /\ Dist2(pts[j], cs[a[j]]) \in Nat
      BY <3>1, <3>4, DistanceSquares
    <3>. QED  BY <3>1, <3>3, <3>5
  <2>2. SumOver(f, 0, N - 1) <= SumOver(g, 0, N - 1)
    <3>. HIDE DEF f, g
    <3>. QED  BY <2>1, PointSumMonotone
  <2>. QED  BY <2>2 DEF Distortion
<1>. QED  BY <1>1, <1>2

-----------------------------------------------------------------------------
(* The first centroids.                                                    *)

\* A point of the set, or the origin.
Seeds(pts) == {pts[j] : j \in Index} \cup {Zero}

LEMMA SeedsArePoints ==
    ASSUME NEW pts \in [Index -> Point]
    PROVE  Seeds(pts) \subseteq Point
BY DEF Seeds, Zero, Point

\* The first draw takes a point.
LEMMA FirstSeedType ==
    ASSUME NEW pts, NEW r \in Nat
    PROVE  /\ FirstSeed(pts, r) \in [Cluster -> Seeds(pts)]
           /\ \E j \in Index : FirstSeed(pts, r)[0] = pts[j]
<1>1. r % N \in Index /\ 0 \in Cluster
  BY AlgoAssumption DEF Index, Cluster
<1>. QED  BY <1>1 DEF FirstSeed, Seeds

\* The least of a set of indexes.
LEMMA LeastIndex ==
    ASSUME NEW A \in SUBSET Index, A # {}
    PROVE  \E j \in A : \A i \in A : j <= i
<1>. DEFINE dist == [i \in Index |-> IF i \in A THEN 0 ELSE 1]
<1>1. PICK j \in 0..(N - 1) : \A i \in 0..(N - 1) :
          dist[j] <= dist[i] /\ (i < j => dist[j] < dist[i])
  <2>1. N - 1 \in Nat /\ Index = 0..(N - 1)
    BY AlgoAssumption DEF Index
  <2>2. \A i \in 0..(N - 1) : dist[i] \in Int
    BY <2>1
  <2>. HIDE DEF dist
  <2>. QED  BY <2>1, <2>2, FirstLeast
<1>2. j \in Index /\ \A i \in Index : dist[j] <= dist[i] /\ (i < j => dist[j] < dist[i])
  BY <1>1, Indices
<1>3. j \in A
  <2>1. PICK i \in A : TRUE
    OBVIOUS
  <2>2. dist[i] = 0 /\ dist[j] <= dist[i] /\ (j \notin A => dist[j] = 1)
    BY <1>2
  <2>. HIDE DEF dist
  <2>. QED  BY <2>2
<1>4. ASSUME NEW i \in A PROVE j <= i
  <2>1. dist[i] = 0 /\ dist[j] = 0 /\ ~(i < j)
    BY <1>2, <1>3
  <2>2. i \in Int /\ j \in Int
    BY <1>2, Indices
  <2>. QED  BY <2>1, <2>2
<1>. QED  BY <1>3, <1>4

\* Each other draw takes a point, or leaves the centroids as they are.
LEMMA NextSeedType ==
    ASSUME NEW pts, NEW cs \in [Cluster -> Seeds(pts)], NEW weights, NEW k, NEW r
    PROVE  /\ NextSeed(pts, cs, weights, k, r) \in [Cluster -> Seeds(pts)]
           /\ k # 0 => NextSeed(pts, cs, weights, k, r)[0] = cs[0]
<1>. DEFINE hit == {j \in Index : r * SumOver(weights, 0, N - 1)
                                    <= (RandMax - 1) * SumOver(weights, 0, j)}
            j1 == CHOOSE j \in hit : \A i \in hit : j <= i
<1>1. NextSeed(pts, cs, weights, k, r) = IF hit = {} THEN cs ELSE [cs EXCEPT ![k] = pts[j1]]
  BY DEF NextSeed
<1>2. CASE hit = {}
  BY <1>1, <1>2
<1>3. CASE hit # {}
  <2>1. hit \in SUBSET Index
    OBVIOUS
  <2>2. j1 \in hit
    <3>. HIDE DEF hit
    <3>. QED  BY <1>3, <2>1, LeastIndex
  <2>3. pts[j1] \in Seeds(pts)
    <3>. HIDE DEF hit, j1
    <3>. QED  BY <2>1, <2>2 DEF Seeds
  <2>4. 0 \in Cluster
    BY AlgoAssumption DEF Cluster
  <2>. HIDE DEF hit, j1
  <2>. QED  BY <1>1, <1>3, <2>3, <2>4
<1>. QED  BY <1>2, <1>3

-----------------------------------------------------------------------------
(* An iteration: every point to its nearest centroid, every centroid to    *)
(* the mean of its points.                                                 *)

\* What the iteration that starts from the centroids cs computes as V.
Cost(pts, cs) == Distortion(pts, cs, Nearest(pts, cs))

MeanOf(pts, a, c) == Over(AddPoints(pts, a, c, Zero), Count(a, c))

\* The iteration leaves the centroids cs where they are.
Stable(pts, cs) ==
    \A c \in Cluster : Count(Nearest(pts, cs), c) > 0 =>
        cs[c] = MeanOf(pts, Nearest(pts, cs), c)

\* ms are the centroids after the iteration; those of empty clusters may be anywhere.
IsMove(pts, cs, ms) ==
    /\ ms \in [Cluster -> Point]
    /\ \A c \in Cluster : Count(Nearest(pts, cs), c) > 0 =>
        ms[c] = MeanOf(pts, Nearest(pts, cs), c)

LEMMA CountHasPoint ==
    ASSUME NEW a, NEW c, Count(a, c) > 0
    PROVE  \E j \in Index : a[j] = c
<1>1. CASE {j \in Index : a[j] = c} = {}
  BY <1>1, FS_EmptySet DEF Count
<1>2. CASE {j \in Index : a[j] = c} # {}
  BY <1>2
<1>. QED  BY <1>1, <1>2

LEMMA MoveIsMeans ==
    ASSUME NEW pts \in [Index -> Point], \A j \in Index : Exact(pts[j]),
           NEW cs, NEW ms, IsMove(pts, cs, ms)
    PROVE  AreMeans(pts, Nearest(pts, cs), ms)
BY MeanIsExact DEF IsMove, AreMeans, MeanOf

\* The cost of the next iteration is not greater, and the same only if the centroids
\* with points have not moved: new centroids are nearer to their points on the whole,
\* and with the points at their nearest ones the cost is not greater than that.
LEMMA MoveDescends ==
    ASSUME NEW pts \in [Index -> Point], \A j \in Index : Exact(pts[j]),
           NEW cs \in [Cluster -> Point], NEW ms \in [Cluster -> Point],
           IsMove(pts, cs, ms)
    PROVE  /\ Cost(pts, ms) \in Nat /\ Cost(pts, cs) \in Nat
           /\ Cost(pts, ms) <= Cost(pts, cs)
           /\ Cost(pts, ms) = Cost(pts, cs) =>
                \A c \in Cluster : Count(Nearest(pts, cs), c) > 0 => ms[c] = cs[c]
<1>. DEFINE a == Nearest(pts, cs)
<1>1. a \in [Index -> Cluster] /\ Nearest(pts, ms) \in [Index -> Cluster]
  BY NearestIsLeast
<1>2. AreMeans(pts, a, ms)
  BY MoveIsMeans
<1>. HIDE DEF a
<1>3. /\ Distortion(pts, ms, a) <= Distortion(pts, cs, a)
      /\ Distortion(pts, ms, a) = Distortion(pts, cs, a) =>
           \A j \in Index : ms[a[j]] = cs[a[j]]
  BY <1>1, <1>2, MeansAreLeast
<1>4. Distortion(pts, ms, Nearest(pts, ms)) <= Distortion(pts, ms, a)
  BY <1>1, NearestIsLeast
<1>5. /\ Distortion(pts, ms, a) \in Nat /\ Distortion(pts, cs, a) \in Nat
      /\ Distortion(pts, ms, Nearest(pts, ms)) \in Nat
  BY <1>1, DistortionType
<1>6. ASSUME Cost(pts, ms) = Cost(pts, cs), NEW c \in Cluster, Count(a, c) > 0
      PROVE  ms[c] = cs[c]
  <2>1. Distortion(pts, ms, a) = Distortion(pts, cs, a)
    BY <1>3, <1>4, <1>5, <1>6 DEF Cost, a
  <2>2. PICK j \in Index : a[j] = c
    BY <1>6, CountHasPoint
  <2>. QED  BY <1>3, <2>1, <2>2
<1>. QED  BY <1>3, <1>4, <1>5, <1>6 DEF Cost, a

\* When the costs of two iterations agree the centroids are stable, if those of empty
\* clusters stay: so they are when the cost is 0, as no cost is less.
LEMMA SameCostIsStable ==
    ASSUME NEW pts \in [Index -> Point], \A j \in Index : Exact(pts[j]),
           NEW cs \in [Cluster -> Point], NEW ms \in [Cluster -> Point],
           IsMove(pts, cs, ms),
           \A c \in Cluster : Count(Nearest(pts, cs), c) = 0 => ms[c] = cs[c],
           Cost(pts, ms) = Cost(pts, cs) \/ Cost(pts, cs) = 0
    PROVE  ms = cs /\ Stable(pts, ms)
<1>1. Cost(pts, ms) = Cost(pts, cs)
  BY MoveDescends
<1>2. ASSUME NEW c \in Cluster PROVE ms[c] = cs[c]
  <2>1. Count(Nearest(pts, cs), c) \in 0..N
    BY CountType
  <2>2. Count(Nearest(pts, cs), c) > 0 => ms[c] = cs[c]
    BY <1>1, MoveDescends
  <2>. QED  BY <2>1, <2>2, AlgoAssumption
<1>3. ms = cs
  BY <1>2
<1>. QED  BY <1>3 DEF IsMove, Stable
=============================================================================
