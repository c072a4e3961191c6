------------------------- MODULE KMeansSingleProofs -------------------------
(***************************************************************************)
(* Single-threaded k-means, for any point sets and any number of clusters: *)
(* the buffers that change places hold what the iteration needs, V never   *)
(* grows, and the run is one of Lloyd's algorithm in which the centroid of *)
(* an empty cluster becomes the origin.                                    *)
(***************************************************************************)
EXTENDS KMeansSingle, KMeansAlgoProofs

-----------------------------------------------------------------------------
(* The inductive invariant.                                                *)

Seeding == pc \in {"seed", "weigh", "draw"}
Iterating == pc \in {"accumulate", "divide"}

Types ==
    /\ vpnts \in Inputs
    /\ cent \in [0..1 -> [Cluster -> Point]]
    /\ centOld \in 0..1
    /\ dist2 \in [Index -> Nat]
    /\ indexes \in [Index -> Cluster]
    /\ numPoints \in [Cluster -> 0..N]
    /\ V \in Nat /\ oldV \in Nat \cup {-1} /\ numIterations \in Nat

Centroids == cent[centOld]

\* The buffer of the next centroids is zero except between accumulating the points and
\* dividing the sums, and then it has the sums of the clusters around the present ones.
Buffers ==
    /\ pc # "divide" => cent[centNew] = Zeros /\ numPoints = [c \in Cluster |-> 0]
    /\ Iterating => indexes = Nearest(vpnts, Centroids)
    /\ pc = "accumulate" => V = 0
    /\ pc = "divide" =>
        /\ V = Cost(vpnts, Centroids)
        /\ numPoints = [c \in Cluster |-> Count(indexes, c)]
        /\ cent[centNew] = [c \in Cluster |-> AddPoints(vpnts, indexes, c, Zero)]

\* Where Run is: its variables before the first iteration, in one, and after it.
Phases ==
    /\ pc \in {"seed", "weigh", "draw", "while", "accumulate", "divide", "done"}
    /\ n_cluster \in 0..K
    /\ Seeding => centOld = 0 /\ V = 0 /\ oldV = -1 /\ numIterations = 0
    /\ pc = "seed" => n_cluster = 0
    /\ pc = "draw" => n_cluster < K
    /\ pc \in {"weigh", "draw"} =>
        /\ n_cluster # 0 /\ cent[0] \in [Cluster -> Seeds(vpnts)]
        /\ \E j \in Index : cent[0][0] = vpnts[j]
    /\ pc = "while" /\ numIterations = 0 => V = 0 /\ oldV = -1
    /\ Iterating => numIterations # 0 /\ oldV \in Nat /\ (numIterations = 1 => oldV = 0)
    /\ pc = "done" => V = oldV

\* The cost of an iteration bounds that of the next.
Descent ==
    /\ pc = "while" /\ numIterations # 0 => Cost(vpnts, Centroids) <= V
    /\ Iterating /\ numIterations # 1 => Cost(vpnts, Centroids) <= oldV

IInv == Types /\ Buffers /\ Phases /\ Descent

-----------------------------------------------------------------------------
\* The points that are clustered, and the two buffers.
LEMMA TheData ==
    ASSUME Types
    PROVE  /\ vpnts \in [Index -> Point] /\ \A j \in Index : Exact(vpnts[j])
           /\ Centroids \in [Cluster -> Point]
           /\ centNew \in 0..1 /\ centNew # centOld /\ 1 - centNew = centOld
BY AlgoAssumption DEF Types, Centroids, centNew

\* What is not computed from cent, indexes and the points stays.
LEMMA SameCost ==
    ASSUME UNCHANGED <<vpnts, cent, centOld>>
    PROVE  /\ Centroids' = Centroids /\ cent[centNew]' = cent[centNew]
           /\ Cost(vpnts, Centroids)' = Cost(vpnts, Centroids)
BY DEF Centroids, centNew, Cost

LEMMA InitEstablishes == Init => IInv
<1>. SUFFICES ASSUME Init PROVE IInv
  OBVIOUS
<1>1. 0 \in Cluster /\ 0 \in 0..1 /\ 1 \in 0..1 /\ 0 \in 0..K /\ 0 \in 0..N
  BY AlgoAssumption DEF Cluster
<1>2. Types
  BY <1>1, ZerosType DEF Init, Types
<1>3. Buffers
  BY <1>1 DEF Init, Buffers, Iterating, centNew
<1>4. Phases /\ Descent
  BY <1>1 DEF Init, Phases, Descent, Seeding, Iterating
<1>. QED  BY <1>2, <1>3, <1>4 DEF IInv

\* The first centroid is one of the points.
LEMMA SeedFirstKeeps ==
    ASSUME IInv, NEW r \in 0..RandMax, SeedFirst(r)
    PROVE  IInv'
<1>1. /\ pc = "seed" /\ pc' = "weigh" /\ n_cluster' = 1 /\ 1 \in 0..K
      /\ UNCHANGED <<vpnts, centOld, dist2, indexes, numPoints, V, oldV, numIterations>>
      /\ cent' = [cent EXCEPT ![0] = FirstSeed(vpnts, r)]
  BY AlgoAssumption DEF SeedFirst, run
<1>2. /\ centOld = 0 /\ cent[1] = Zeros /\ V = 0 /\ oldV = -1 /\ numIterations = 0
      /\ cent \in [0..1 -> [Cluster -> Point]] /\ vpnts \in [Index -> Point]
      /\ numPoints = [c \in Cluster |-> 0]
  BY <1>1, TheData DEF IInv, Types, Phases, Buffers, Seeding, centNew
<1>3. /\ FirstSeed(vpnts, r) \in [Cluster -> Seeds(vpnts)]
      /\ \E j \in Index : FirstSeed(vpnts, r)[0] = vpnts[j]
  BY AlgoAssumption, FirstSeedType
<1>4. cent'[0] = FirstSeed(vpnts, r) /\ cent'[1] = Zeros /\ cent' \in [0..1 -> [Cluster -> Point]]
  BY <1>1, <1>2, <1>3, SeedsArePoints
<1>5. Types'
  BY <1>1, <1>4 DEF IInv, Types
<1>6. Buffers'
  BY <1>1, <1>2, <1>4 DEF Buffers, Iterating, centNew
<1>7. Phases' /\ Descent'
  BY <1>1, <1>2, <1>3, <1>4 DEF Phases, Descent, Seeding, Iterating
<1>. QED  BY <1>5, <1>6, <1>7 DEF IInv

\* The others are points too, or stay at the origin.
LEMMA DrawKeeps ==
    ASSUME IInv, NEW r \in 0..RandMax, Draw(r)
    PROVE  IInv'
<1>1. /\ pc = "draw" /\ pc' = "weigh" /\ n_cluster' = n_cluster + 1
      /\ UNCHANGED <<vpnts, centOld, dist2, indexes, numPoints, V, oldV, numIterations>>
      /\ cent' = [cent EXCEPT ![0] = NextSeed(vpnts, cent[0], dist2, n_cluster, r)]
  BY DEF Draw, run
<1>2. /\ centOld = 0 /\ cent[1] = Zeros /\ V = 0 /\ oldV = -1 /\ numIterations = 0
      /\ cent \in [0..1 -> [Cluster -> Point]] /\ vpnts \in [Index -> Point]
      /\ numPoints = [c \in Cluster |-> 0] /\ n_cluster \in 0..K /\ n_cluster < K
      /\ n_cluster # 0 /\ cent[0] \in [Cluster -> Seeds(vpnts)]
      /\ \E j \in Index : cent[0][0] = vpnts[j]
  BY <1>1, TheData DEF IInv, Types, Phases, Buffers, Seeding, centNew
<1>. DEFINE next == NextSeed(vpnts, cent[0], dist2, n_cluster, r)
<1>3. next \in [Cluster -> Seeds(vpnts)] /\ next[0] = cent[0][0]
  BY <1>2, NextSeedType
<1>. HIDE DEF next
<1>4. cent'[0] = next /\ cent'[1] = Zeros /\ cent' \in [0..1 -> [Cluster -> Point]]
  BY <1>1, <1>2, <1>3, SeedsArePoints DEF next
<1>5. Types'
  BY <1>1, <1>4 DEF IInv, Types
<1>6. Buffers'
  BY <1>1, <1>2, <1>4 DEF Buffers, Iterating, centNew
<1>7. n_cluster' \in 0..K /\ n_cluster' # 0
  BY <1>1, <1>2, AlgoAssumption
<1>8. Phases' /\ Descent'
  BY <1>1, <1>2, <1>3, <1>4, <1>7 DEF Phases, Descent, Seeding, Iterating
<1>. QED  BY <1>5, <1>6, <1>8 DEF IInv

\* The weights are squares of distances.
LEMMA WeighKeeps ==
    ASSUME IInv, Weigh
    PROVE  IInv'
<1>1. /\ pc = "weigh" /\ pc' = "draw" /\ n_cluster < K /\ centOld = 0
      /\ UNCHANGED <<vpnts, cent, centOld, n_cluster, indexes, numPoints, V, oldV, numIterations>>
      /\ dist2' = SeedWeights(vpnts, cent[0])
  BY DEF Weigh, run, IInv, Phases, Seeding
<1>2. vpnts \in [Index -> Point] /\ cent[0] \in [Cluster -> Point]
  BY <1>1, TheData DEF IInv, Centroids
<1>3. ASSUME NEW j \in Index
      PROVE  Dist2(vpnts[j], cent[0][FindNearest(vpnts[j], cent[0])]) \in Nat
  BY <1>2, NearestIsNearest, DistanceSquares
<1>4. dist2' \in [Index -> Nat]
  BY <1>1, <1>3 DEF SeedWeights
<1>5. Types'
  BY <1>1, <1>4 DEF IInv, Types
<1>6. Buffers' /\ Phases' /\ Descent'
  BY <1>1, SameCost DEF IInv, Buffers, Phases, Descent, Seeding, Iterating
<1>. QED  BY <1>5, <1>6 DEF IInv

\* The steps that enter and leave the loop, and the one that starts an iteration.
LEMMA LoopKeeps ==
    ASSUME IInv, SeedDone \/ MakeClusters \/ Finish
    PROVE  IInv'
<1>1. UNCHANGED <<vpnts, cent, centOld, n_cluster, dist2, numPoints>>
  BY DEF SeedDone, MakeClusters, Finish, run
<1>2. CASE SeedDone
  <2>1. pc = "weigh" /\ pc' = "while" /\ UNCHANGED <<indexes, V, oldV, numIterations>>
    BY <1>2 DEF SeedDone, run
  <2>2. Types' /\ Buffers' /\ Phases' /\ Descent'
    BY <1>1, <2>1, SameCost DEF IInv, Types, Buffers, Phases, Descent, Seeding, Iterating
  <2>. QED  BY <2>2 DEF IInv
<1>3. CASE Finish
  <2>1. pc = "while" /\ pc' = "done" /\ V = oldV /\ UNCHANGED <<indexes, V, oldV, numIterations>>
    BY <1>3 DEF Finish, run
  <2>2. Types' /\ Buffers' /\ Phases' /\ Descent'
    BY <1>1, <2>1, SameCost DEF IInv, Types, Buffers, Phases, Descent, Seeding, Iterating
  <2>. QED  BY <2>2 DEF IInv
<1>4. CASE MakeClusters
  <2>1. /\ pc = "while" /\ pc' = "accumulate" /\ V # oldV /\ oldV' = V /\ V' = 0
        /\ numIterations' = numIterations + 1 /\ numIterations \in Nat /\ V \in Nat
        /\ indexes' = Nearest(vpnts, Centroids)
    BY <1>4 DEF MakeClusters, Centroids, IInv, Types
  <2>2. indexes' \in [Index -> Cluster]
    BY <2>1, TheData, NearestIsLeast DEF IInv
  <2>3. Types'
    BY <1>1, <2>1, <2>2 DEF IInv, Types
  <2>4. Buffers'
    BY <1>1, <2>1, SameCost DEF IInv, Buffers, Iterating
  <2>5. Phases' /\ Descent'
    <3>1. numIterations' # 1 => numIterations # 0
      BY <2>1
    <3>. QED  BY <1>1, <2>1, <3>1, SameCost DEF IInv, Phases, Descent, Seeding, Iterating
  <2>. QED  BY <2>3, <2>4, <2>5 DEF IInv
<1>. QED  BY <1>2, <1>3, <1>4

\* Accumulate finds the sums at 0.
LEMMA AccumulateKeeps ==
    ASSUME IInv, Accumulate
    PROVE  IInv'
<1>1. /\ pc = "accumulate" /\ pc' = "divide"
      /\ UNCHANGED <<vpnts, centOld, n_cluster, dist2, indexes, oldV, numIterations>>
      /\ V' = V + Distortion(vpnts, Centroids, indexes)
      /\ cent' = [cent EXCEPT ![centNew] =
                    [c \in Cluster |-> AddPoints(vpnts, indexes, c, cent[centNew][c])]]
      /\ numPoints' = [c \in Cluster |-> numPoints[c] + Count(indexes, c)]
  BY DEF Accumulate, Centroids
<1>2. /\ V = 0 /\ numPoints = [c \in Cluster |-> 0] /\ cent[centNew] = Zeros
      /\ indexes = Nearest(vpnts, Centroids)
  BY <1>1 DEF IInv, Buffers, Iterating
<1>3. /\ vpnts \in [Index -> Point] /\ Centroids \in [Cluster -> Point]
      /\ indexes \in [Index -> Cluster] /\ cent \in [0..1 -> [Cluster -> Point]]
      /\ centNew \in 0..1 /\ centNew # centOld
  BY TheData DEF IInv, Types
<1>4. V' = Cost(vpnts, Centroids) /\ V' \in Nat
  BY <1>1, <1>2, <1>3, DistortionType DEF Cost
<1>5. /\ numPoints' = [c \in Cluster |-> Count(indexes, c)]
      /\ numPoints' \in [Cluster -> 0..N]
  <2>1. \A c \in Cluster : Count(indexes, c) \in 0..N /\ numPoints[c] = 0
    BY <1>2, CountType
  <2>2. \A c \in Cluster : numPoints[c] + Count(indexes, c) = Count(indexes, c)
    BY <2>1
  <2>. QED  BY <1>1, <2>1, <2>2
<1>. DEFINE sum == [c \in Cluster |-> AddPoints(vpnts, indexes, c, Zero)]
<1>6. sum \in [Cluster -> Point] /\ cent' = [cent EXCEPT ![centNew] = sum]
  <2>1. \A c \in Cluster : cent[centNew][c] = Zero
    BY <1>2, ZerosType
  <2>2. \A c \in Cluster : AddPoints(vpnts, indexes, c, Zero) \in Point
    BY <1>3, ZerosType, AddPointsType
  <2>. QED  BY <1>1, <2>1, <2>2
<1>. HIDE DEF sum
<1>7. cent' \in [0..1 -> [Cluster -> Point]] /\ cent'[centNew] = sum /\ cent'[centOld] = Centroids
  BY <1>3, <1>6 DEF IInv, Types, Centroids
<1>8. centNew' = centNew /\ Centroids' = Centroids
  BY <1>1, <1>7 DEF centNew, Centroids
<1>9. Types'
  BY <1>1, <1>4, <1>5, <1>7 DEF IInv, Types
<1>10. cent[centNew]' = sum /\ Cost(vpnts, Centroids)' = Cost(vpnts, Centroids)
  BY <1>1, <1>7, <1>8 DEF Cost
<1>11. Buffers'
  BY <1>1, <1>2, <1>4, <1>5, <1>8, <1>10 DEF Buffers, Iterating, sum
<1>12. Phases' /\ Descent'
  BY <1>1, <1>10 DEF IInv, Phases, Descent, Seeding, Iterating
<1>. QED  BY <1>9, <1>11, <1>12 DEF IInv

\* The new centroids are the means, and the origin where there is nothing to divide.
LEMMA DivideMoves ==
    ASSUME IInv, Divide
    PROVE  /\ cent' \in [0..1 -> [Cluster -> Point]] /\ cent'[centOld] = Zeros
           /\ cent'[centNew] = [c \in Cluster |->
                  IF Count(indexes, c) > 0 THEN MeanOf(vpnts, indexes, c) ELSE Zero]
           /\ IsMove(vpnts, Centroids, cent'[centNew])
<1>1. /\ pc = "divide"
      /\ cent' = [cent EXCEPT
                    ![centOld] = Zeros,
                    ![centNew] = [c \in Cluster |->
                       IF numPoints[c] > 0 THEN Over(cent[centNew][c], numPoints[c])
                       ELSE cent[centNew][c]]]
  BY TheData DEF Divide, IInv, Types
<1>2. /\ indexes = Nearest(vpnts, Centroids)
      /\ numPoints = [c \in Cluster |-> Count(indexes, c)]
      /\ cent[centNew] = [c \in Cluster |-> AddPoints(vpnts, indexes, c, Zero)]
  BY <1>1 DEF IInv, Buffers, Iterating
<1>3. /\ vpnts \in [Index -> Point] /\ (\A j \in Index : Exact(vpnts[j]))
      /\ cent \in [0..1 -> [Cluster -> Point]] /\ centOld \in 0..1
      /\ centNew \in 0..1 /\ centNew # centOld
  BY TheData DEF IInv, Types
<1>. DEFINE ms == [c \in Cluster |-> IF Count(indexes, c) > 0 THEN MeanOf(vpnts, indexes, c) ELSE Zero]
<1>4. ms \in [Cluster -> Point]
  <2>1. \A c \in Cluster : Count(indexes, c) > 0 => MeanOf(vpnts, indexes, c) \in Point
    BY <1>3, MeanIsExact DEF MeanOf
  <2>. QED  BY <2>1, ZerosType
<1>5. cent' = [cent EXCEPT ![centOld] = Zeros, ![centNew] = ms]
  <2>1. ASSUME NEW c \in Cluster
        PROVE  (IF numPoints[c] > 0 THEN Over(cent[centNew][c], numPoints[c]) ELSE cent[centNew][c])
                = IF Count(indexes, c) > 0 THEN MeanOf(vpnts, indexes, c) ELSE Zero
    <3>1. numPoints[c] = Count(indexes, c) /\ cent[centNew][c] = AddPoints(vpnts, indexes, c, Zero)
      BY <1>2
    <3>2. CASE Count(indexes, c) > 0
      BY <3>1, <3>2 DEF MeanOf
    <3>3. CASE ~(Count(indexes, c) > 0)
      <4>1. Count(indexes, c) = 0
        BY <3>3, CountType, AlgoAssumption
      <4>. QED  BY <1>3, <3>1, <3>3, <4>1, EmptySum
    <3>. QED  BY <3>2, <3>3
  <2>. QED  BY <1>1, <2>1
<1>6. \A c \in Cluster : Count(indexes, c) > 0 => ms[c] = MeanOf(vpnts, indexes, c)
  OBVIOUS
<1>. HIDE DEF ms
<1>7. IsMove(vpnts, Centroids, ms)
  BY <1>2, <1>4, <1>6 DEF IsMove
<1>8. /\ cent' \in [0..1 -> [Cluster -> Point]] /\ cent'[centOld] = Zeros /\ cent'[centNew] = ms
  BY <1>3, <1>4, <1>5, ZerosType
<1>. QED  BY <1>7, <1>8 DEF ms

\* The buffers change places, and the cost does not grow with the centroids that moved.
LEMMA DivideKeeps ==
    ASSUME IInv, Divide
    PROVE  IInv'
<1>1. /\ pc = "divide" /\ pc' = "while" /\ centOld' = centNew
      /\ UNCHANGED <<vpnts, n_cluster, dist2, indexes, V, oldV, numIterations>>
      /\ numPoints' = [c \in Cluster |-> 0]
  BY DEF Divide
<1>2. /\ vpnts \in [Index -> Point] /\ (\A j \in Index : Exact(vpnts[j]))
      /\ Centroids \in [Cluster -> Point] /\ centNew \in 0..1 /\ 1 - centNew = centOld
  BY TheData DEF IInv
<1>3. /\ cent' \in [0..1 -> [Cluster -> Point]] /\ cent'[centOld] = Zeros
      /\ IsMove(vpnts, Centroids, cent'[centNew])
  BY DivideMoves
<1>4. centNew' = centOld /\ Centroids' = cent'[centNew]
  BY <1>1, <1>2 DEF centNew, Centroids
<1>5. Cost(vpnts, Centroids') <= V
  <2>1. V = Cost(vpnts, Centroids)
    BY <1>1 DEF IInv, Buffers
  <2>2. cent'[centNew] \in [Cluster -> Point]
    BY <1>2, <1>3
  <2>. QED  BY <1>2, <1>3, <1>4, <2>1, <2>2, MoveDescends
<1>6. Types'
  BY <1>1, <1>2, <1>3, AlgoAssumption DEF IInv, Types
<1>7. Buffers'
  BY <1>1, <1>3, <1>4 DEF Buffers, Iterating
<1>8. numIterations # 0
  BY <1>1 DEF IInv, Phases, Iterating
<1>9. Phases'
  BY <1>1, <1>8 DEF IInv, Phases, Seeding, Iterating
<1>10. Descent'
  BY <1>1, <1>5 DEF Descent, Iterating, Cost
<1>. QED  BY <1>6, <1>7, <1>9, <1>10 DEF IInv

LEMMA StepKeeps == IInv /\ [Next]_vars => IInv'
<1>. SUFFICES ASSUME IInv, [Next]_vars PROVE IInv'
  OBVIOUS
<1>1. CASE UNCHANGED vars
  <2>1. UNCHANGED <<pc, vpnts, cent, centOld, n_cluster, dist2, indexes, numPoints, V, oldV,
                    numIterations>>
    BY <1>1 DEF vars, run
  <2>2. Types' /\ Buffers' /\ Phases' /\ Descent'
    BY <2>1, SameCost DEF IInv, Types, Buffers, Phases, Descent, Seeding, Iterating
  <2>. QED  BY <2>2 DEF IInv
<1>. QED  BY <1>1, SeedFirstKeeps, DrawKeeps, WeighKeeps, LoopKeeps, AccumulateKeeps, DivideKeeps
          DEF Next

\* The buffers are right and the cost is bounded in every reachable state.
THEOREM Invariance == Spec => []IInv
<1>. QED  BY InitEstablishes, StepKeeps, PTL DEF Spec

\* Every variable of CKmeans::Run has its type: FindNearest is defined for all centroids,
\* no division is by 0, no weight is negative.
THEOREM TypeCorrect == Spec => []TypeOK
<1>1. IInv => TypeOK
  BY DEF IInv, Types, Phases, TypeOK
<1>. QED  BY <1>1, Invariance, PTL

\* V never grows from one iteration to the next, whatever the points, although the
\* centroid of an empty cluster jumps to the origin.
THEOREM CostNeverGrows == Spec => []NeverGrows
<1>1. IInv => NeverGrows
  <2>. SUFFICES ASSUME IInv, pc = "divide", oldV > 0 PROVE V <= oldV
    BY DEF NeverGrows
  <2>1. Iterating /\ V = Cost(vpnts, Centroids)
    BY DEF IInv, Buffers, Iterating
  <2>2. numIterations # 1
    BY <2>1 DEF IInv, Phases
  <2>. QED  BY <2>1, <2>2 DEF IInv, Descent
<1>. QED  BY <1>1, Invariance, PTL

-----------------------------------------------------------------------------
(* Lloyd's algorithm: its operators are those of this module.              *)

LEMMA SameSums ==
    /\ Algorithm!Index = Index /\ Algorithm!Cluster = Cluster
    /\ Algorithm!Zero = Zero /\ Algorithm!Zeros = Zeros
    /\ \A f, lo, hi : Algorithm!SumOver(f, lo, hi) = SumOver(f, lo, hi)
    /\ \A p, k : Algorithm!Over(p, k) = Over(p, k)
    /\ \A a, c : Algorithm!Count(a, c) = Count(a, c)
<1>1. \A f, lo, hi : Algorithm!SumOver(f, lo, hi) = SumOver(f, lo, hi)
  BY DEF Algorithm!SumOver, SumOver
<1>2. Algorithm!Index = Index /\ Algorithm!Cluster = Cluster
  BY DEF Algorithm!Index, Index, Algorithm!Cluster, Cluster
<1>3. Algorithm!Zero = Zero /\ Algorithm!Zeros = Zeros
  BY <1>2 DEF Algorithm!Zero, Zero, Algorithm!Zeros, Zeros
<1>4. \A p, k : Algorithm!Over(p, k) = Over(p, k)
  BY DEF Algorithm!Over, Over
<1>5. ASSUME NEW a, NEW c PROVE Algorithm!Count(a, c) = Count(a, c)
  <2>1. {j \in Algorithm!Index : a[j] = c} = {j \in Index : a[j] = c}
    BY <1>2
  <2>. QED  BY <2>1 DEF Algorithm!Count, Count, Algorithm!Cardinality, Cardinality
<1>. QED  BY <1>1, <1>2, <1>3, <1>4, <1>5

LEMMA SameDistances ==
    /\ \A p, q : Algorithm!Dist2(p, q) = Dist2(p, q)
    /\ \A pts, cs : Algorithm!Nearest(pts, cs) = Nearest(pts, cs)
    /\ \A pts, cs, a : Algorithm!Distortion(pts, cs, a) = Distortion(pts, cs, a)
    /\ \A pts, a, c, start : Algorithm!AddPoints(pts, a, c, start) = AddPoints(pts, a, c, start)
<1>1. \A p, q : Algorithm!Minus(p, q) = Minus(p, q)
  BY DEF Algorithm!Minus, Minus
<1>2. \A p, q : Algorithm!Dot(p, q) = Dot(p, q)
  BY SameSums DEF Algorithm!Dot, Dot
<1>3. \A p, q : Algorithm!Dist2(p, q) = Dist2(p, q)
  BY <1>1, <1>2 DEF Algorithm!Dist2, Dist2
<1>4. \A p, cs : Algorithm!FindNearest(p, cs) = FindNearest(p, cs)
  BY <1>3, SameSums DEF Algorithm!FindNearest, FindNearest
<1>5. \A pts, cs : Algorithm!Nearest(pts, cs) = Nearest(pts, cs)
  BY <1>4, SameSums DEF Algorithm!Nearest, Nearest
<1>6. \A pts, cs, a : Algorithm!Distortion(pts, cs, a) = Distortion(pts, cs, a)
  BY <1>3, SameSums DEF Algorithm!Distortion, Distortion
<1>7. \A pts, a, c, start : Algorithm!AddPoints(pts, a, c, start) = AddPoints(pts, a, c, start)
  BY SameSums DEF Algorithm!AddPoints, AddPoints
<1>. QED  BY <1>3, <1>5, <1>6, <1>7

-----------------------------------------------------------------------------
(* The run is one of Lloyd's algorithm: Divide completes its iteration.    *)

\* The state of Lloyd's algorithm, from that of the program.
Phase == CASE Seeding -> "seed"
           [] pc = "done" -> "done"
           [] pc = "while" /\ V = oldV -> "stable"
           [] OTHER -> "run"
Centers == IF Seeding THEN Zeros ELSE Centroids
LastCost == IF Iterating THEN oldV ELSE V
Iterations == IF Iterating THEN numIterations - 1 ELSE numIterations
Clusters == IF pc \in {"while", "done"} /\ V = oldV THEN indexes ELSE <<>>

LEMMA AbstractSteps ==
    /\ Algorithm!lloydVars = <<vpnts, Phase, Centers, LastCost, Iterations, Clusters>>
    /\ Algorithm!LloydInit <=>
          /\ vpnts \in Inputs /\ Phase = "seed" /\ Centers = Zeros /\ LastCost = 0
          /\ Iterations = 0 /\ Clusters = <<>>
    /\ Algorithm!Seed <=>
          /\ Phase = "seed" /\ Phase' = "run"
          /\ Centers' \in [Cluster -> Seeds(vpnts)]
          /\ \E j \in Index : Centers'[0] = vpnts[j]
          /\ UNCHANGED <<vpnts, LastCost, Iterations, Clusters>>
    /\ Algorithm!Return <=>
          /\ Phase = "stable" /\ Phase' = "done"
          /\ UNCHANGED <<vpnts, Centers, LastCost, Iterations, Clusters>>
<1>. USE DEF Phase, Centers, LastCost, Iterations, Clusters, Seeding, Iterating, Centroids
<1>1. Algorithm!lloydVars = <<vpnts, Phase, Centers, LastCost, Iterations, Clusters>>
  BY DEF Algorithm!lloydVars
<1>2. Algorithm!LloydInit <=>
        /\ vpnts \in Inputs /\ Phase = "seed" /\ Centers = Zeros /\ LastCost = 0
        /\ Iterations = 0 /\ Clusters = <<>>
  BY SameSums DEF Algorithm!LloydInit, Algorithm!NoClusters
<1>3. Algorithm!Seed <=>
        /\ Phase = "seed" /\ Phase' = "run"
        /\ Centers' \in [Cluster -> Seeds(vpnts)]
        /\ \E j \in Index : Centers'[0] = vpnts[j]
        /\ UNCHANGED <<vpnts, LastCost, Iterations, Clusters>>
  BY SameSums DEF Algorithm!Seed, Seeds
<1>4. Algorithm!Return <=>
        /\ Phase = "stable" /\ Phase' = "done"
        /\ UNCHANGED <<vpnts, Centers, LastCost, Iterations, Clusters>>
  BY DEF Algorithm!Return
<1>. QED  BY <1>1, <1>2, <1>3, <1>4

LEMMA AbstractIterate ==
    ASSUME Phase = "run", Phase' = IF Cost(vpnts, Centers) = LastCost THEN "stable" ELSE "run",
           Centers' = [c \in Cluster |->
               IF Count(Nearest(vpnts, Centers), c) > 0
               THEN MeanOf(vpnts, Nearest(vpnts, Centers), c) ELSE Zero],
           LastCost' = Cost(vpnts, Centers), Iterations' = Iterations + 1,
           Clusters' = IF Cost(vpnts, Centers) = LastCost THEN Nearest(vpnts, Centers) ELSE <<>>,
           vpnts' = vpnts
    PROVE  Algorithm!Iterate
<1>. USE DEF Phase, Centers, LastCost, Iterations, Clusters, Seeding, Iterating, Centroids
<1>1. \A a, c : Algorithm!Mean(a, c) = IF Count(a, c) > 0 THEN MeanOf(vpnts, a, c) ELSE Zero
  BY SameSums, SameDistances DEF Algorithm!Mean, MeanOf
<1>. QED
  BY <1>1, SameSums, SameDistances DEF Algorithm!Iterate, Algorithm!NoClusters, Cost

\* The abstract state wherever Run is.
StateMatches ==
    /\ Seeding => /\ Phase = "seed" /\ Centers = Zeros /\ LastCost = V
                  /\ Iterations = numIterations /\ Clusters = <<>>
    /\ Iterating => /\ Phase = "run" /\ Centers = Centroids /\ LastCost = oldV
                    /\ Iterations = numIterations - 1 /\ Clusters = <<>>
    /\ pc = "while" => /\ Phase = IF V = oldV THEN "stable" ELSE "run"
                       /\ Centers = Centroids /\ LastCost = V
                       /\ Iterations = numIterations
                       /\ Clusters = IF V = oldV THEN indexes ELSE <<>>
    /\ pc = "done" => /\ Phase = "done" /\ Centers = Centroids /\ LastCost = V
                      /\ Iterations = numIterations
                      /\ Clusters = IF V = oldV THEN indexes ELSE <<>>

LEMMA AbstractState == StateMatches
BY DEF StateMatches, Phase, Centers, LastCost, Iterations, Clusters, Seeding, Iterating

LEMMA AbstractStateNext == StateMatches'
BY AbstractState, PTL

\* SeedDone shows the centroids that were drawn one by one.
LEMMA SeedDoneSeeds ==
    ASSUME IInv, SeedDone
    PROVE  Algorithm!Seed
<1>1. /\ Seeding /\ pc = "weigh" /\ pc' = "while"
      /\ UNCHANGED <<vpnts, cent, centOld, indexes, V, oldV, numIterations>>
  BY DEF SeedDone, run, Seeding
<1>2. /\ V = 0 /\ oldV = -1 /\ Centroids \in [Cluster -> Seeds(vpnts)]
      /\ \E j \in Index : Centroids[0] = vpnts[j]
  BY <1>1 DEF IInv, Phases, Centroids
<1>3. V' # oldV' /\ Centroids' = Centroids
  BY <1>1, <1>2 DEF Centroids
<1>. QED  BY <1>1, <1>2, <1>3, AbstractState, AbstractStateNext, AbstractSteps DEF StateMatches

\* Divide completes an iteration of the algorithm.
LEMMA DivideIterates ==
    ASSUME IInv, Divide
    PROVE  Algorithm!Iterate
<1>1. /\ Iterating /\ pc = "divide" /\ pc' = "while" /\ centOld' = centNew
      /\ UNCHANGED <<vpnts, indexes, V, oldV, numIterations>>
  BY DEF Divide, Iterating
<1>2. V = Cost(vpnts, Centroids) /\ indexes = Nearest(vpnts, Centroids)
  BY <1>1 DEF IInv, Buffers
<1>3. Centroids' = [c \in Cluster |->
          IF Count(indexes, c) > 0 THEN MeanOf(vpnts, indexes, c) ELSE Zero]
  BY <1>1, DivideMoves DEF Centroids
<1>4. /\ Phase = "run" /\ Centers = Centroids /\ LastCost = oldV
      /\ Iterations = numIterations - 1 /\ numIterations \in Nat
  BY <1>1, AbstractState DEF StateMatches, IInv, Types
<1>5. /\ Phase' = IF V = oldV THEN "stable" ELSE "run"
      /\ Centers' = Centroids' /\ LastCost' = V /\ Iterations' = numIterations
      /\ Clusters' = IF V = oldV THEN indexes ELSE <<>>
  BY <1>1, AbstractStateNext DEF StateMatches
<1>6. Iterations' = Iterations + 1
  BY <1>4, <1>5
<1>. QED  BY <1>1, <1>2, <1>3, <1>4, <1>5, <1>6, AbstractIterate

\* Finish returns the clusters.
LEMMA FinishReturns ==
    ASSUME IInv, Finish
    PROVE  Algorithm!Return
<1>1. /\ pc = "while" /\ V = oldV /\ pc' = "done" /\ Centroids' = Centroids
      /\ UNCHANGED <<vpnts, indexes, V, oldV, numIterations>>
  BY DEF Finish, run, Centroids
<1>. QED  BY <1>1, AbstractState, AbstractStateNext, AbstractSteps DEF StateMatches

LEMMA Stutters ==
    ASSUME UNCHANGED <<vpnts, Phase, Centers, LastCost, Iterations, Clusters>>
    PROVE  UNCHANGED Algorithm!lloydVars
BY DEF Algorithm!lloydVars, Phase, Centers, LastCost, Iterations, Clusters, Seeding, Iterating,
       Centroids

\* The other steps are hidden: the draws, and the first two of an iteration.
LEMMA Hidden ==
    ASSUME UNCHANGED vpnts,
           \/ Seeding /\ Seeding' /\ UNCHANGED <<numIterations, V>>
           \/ Iterating /\ Iterating' /\ UNCHANGED <<Centroids, oldV, numIterations>>
           \/ UNCHANGED vars
    PROVE  UNCHANGED Algorithm!lloydVars
<1>1. CASE UNCHANGED vars
  BY <1>1 DEF vars, run, Algorithm!lloydVars
<1>2. CASE ~UNCHANGED vars
  <2>1. UNCHANGED <<vpnts, Phase, Centers, LastCost, Iterations, Clusters>>
    BY <1>2, AbstractState, AbstractStateNext DEF StateMatches
  <2>. QED  BY <2>1, Stutters
<1>. QED  BY <1>1, <1>2

LEMMA StepSimulates ==
    ASSUME IInv, [Next]_vars
    PROVE  [Algorithm!LloydNext]_Algorithm!lloydVars
<1>1. CASE SeedDone \/ Divide \/ Finish
  BY <1>1, SeedDoneSeeds, DivideIterates, FinishReturns DEF Algorithm!LloydNext
<1>2. CASE (\E r \in 0..RandMax : SeedFirst(r) \/ Draw(r)) \/ Weigh
  <2>1. Seeding /\ Seeding' /\ UNCHANGED <<vpnts, numIterations, V>>
    BY <1>2 DEF SeedFirst, Draw, Weigh, run, Seeding
  <2>. QED  BY <2>1, Hidden
<1>3. CASE MakeClusters
  <2>1. /\ pc = "while" /\ V # oldV /\ oldV' = V /\ UNCHANGED <<vpnts, cent, centOld>>
        /\ numIterations' = numIterations + 1 /\ numIterations \in Nat /\ Iterating'
    BY <1>3 DEF MakeClusters, IInv, Types, Iterating
  <2>2. numIterations' - 1 = numIterations /\ Centroids' = Centroids
    BY <2>1 DEF Centroids
  <2>3. UNCHANGED <<vpnts, Phase, Centers, LastCost, Iterations, Clusters>>
    BY <2>1, <2>2, AbstractState, AbstractStateNext DEF StateMatches
  <2>. QED  BY <2>3, Stutters
<1>4. CASE Accumulate
  <2>1. /\ Iterating /\ Iterating' /\ UNCHANGED <<vpnts, oldV, numIterations, centOld>>
        /\ cent'[centOld] = cent[centOld]
    BY <1>4, TheData DEF Accumulate, Iterating, IInv, Types
  <2>. QED  BY <2>1, Hidden DEF Centroids
<1>5. CASE UNCHANGED vars
  BY <1>5, Hidden DEF vars, run
<1>. QED  BY <1>1, <1>2, <1>3, <1>4, <1>5 DEF Next

\* The buffers that change places, and the sums left in them, never leak from one
\* iteration into the next: each run of the program is a run of Lloyd's algorithm in
\* which the centroid of an empty cluster becomes the origin.
THEOREM ImplementsAlgorithm == Spec => ImplementsLloyd
<1>1. Init => Algorithm!LloydInit
  <2>. SUFFICES ASSUME Init PROVE Algorithm!LloydInit
    OBVIOUS
  <2>1. Seeding /\ vpnts \in Inputs /\ V = 0 /\ numIterations = 0
    BY DEF Init, Seeding
  <2>. QED  BY <2>1, AbstractState, AbstractSteps DEF StateMatches
<1>2. IInv /\ [Next]_vars => [Algorithm!LloydNext]_Algorithm!lloydVars
  BY StepSimulates
<1>. QED  BY <1>1, <1>2, Invariance, PTL DEF Spec, ImplementsLloyd, Algorithm!LloydSpec
=============================================================================
