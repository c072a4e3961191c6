----------------------------- MODULE KMeansAlgo -----------------------------
(***************************************************************************)
(* The computations that the single- and the multi-threaded k-means share: *)
(* the vectors of src/src/kmeans/userData/point.h, findNearest, the        *)
(* k-means++ choice of the first centroids, and the sums over clusters.    *)
(*                                                                         *)
(* Coordinates are integers.  Every centroid the program computes is the   *)
(* mean of at most N of the points, so with coordinates that are multiples *)
(* of every number up to N (Exact below) each division is exact, and the   *)
(* arithmetic is that of the code without its rounding.                    *)
(***************************************************************************)
EXTENDS Integers, FiniteSets

CONSTANTS
    N,        \* number of points: m_vpnts.size()
    K,        \* number of clusters: numGroups
    Dim,      \* dimension of a point: CPoint<Dim>
    RandMax,  \* RAND_MAX
    Inputs    \* the point sets to cluster

Index == 0..(N - 1)
Cluster == 0..(K - 1)
Point == [1..Dim -> Int]

Exact(p) == \A d \in 1..Dim, n \in 1..N : p[d] % n = 0

ASSUME AlgoAssumption ==
    /\ N \in Nat \ {0} /\ K \in Nat \ {0} /\ Dim \in Nat \ {0}
    /\ RandMax \in Nat /\ RandMax >= 2
    /\ \A pts \in Inputs : pts \in [Index -> Point] /\ \A j \in Index : Exact(pts[j])

-----------------------------------------------------------------------------
(* CPoint *)

Zero == [d \in 1..Dim |-> 0]
Zeros == [c \in Cluster |-> Zero]
Minus(p, q) == [d \in 1..Dim |-> p[d] - q[d]]
Over(p, n) == [d \in 1..Dim |-> p[d] \div n]

\* f[lo] + ... + f[hi], added in that order.
SumOver(f, lo, hi) ==
    LET s[i \in (lo - 1)..hi] == IF i < lo THEN 0 ELSE s[i - 1] + f[i]
    IN s[hi]

Dot(p, q) == SumOver([d \in 1..Dim |-> p[d] * q[d]], 1, Dim)
Dist2(p, q) == Dot(Minus(q, p), Minus(q, p))

-----------------------------------------------------------------------------
(* The index of the centroid nearest to p: of several, the first.          *)
FindNearest(p, centers) ==
    LET dist == [c \in Cluster |-> Dist2(p, centers[c])]
    IN CHOOSE c \in Cluster : \A i \in Cluster :
        /\ dist[c] <= dist[i]
        /\ i < c => dist[c] < dist[i]

Nearest(pts, centers) == [j \in Index |-> FindNearest(pts[j], centers)]

-----------------------------------------------------------------------------
(* kmeansPP.  centers.resize leaves zero vectors in the places not chosen  *)
(* yet, and findNearest looks at all the places.                           *)

FirstSeed(pts, r) == [c \in Cluster |-> IF c = 0 THEN pts[r % N] ELSE Zero]

\* dist2[j], for every point: what the code sums and draws from.
SeedWeights(pts, centers) ==
    [j \in Index |-> Dist2(pts[j], centers[FindNearest(pts[j], centers)])]

\* randf(sum) is sum * r / (RandMax - 1); the centroid is the first point at which
\* subtracting the weights makes it 0 or less.  There need be none.
NextSeed(pts, centers, weights, n, r) ==
    LET left == r * SumOver(weights, 0, N - 1)
        hit == {j \in Index : left <= (RandMax - 1) * SumOver(weights, 0, j)}
    IN IF hit = {}
       THEN centers
       ELSE [centers EXCEPT ![n] = pts[CHOOSE j \in hit : \A i \in hit : j <= i]]

-----------------------------------------------------------------------------
(* The sums over the points that one iteration of kmeans computes.         *)

\* V: the squared distances of the points to the centroids of their clusters.
Distortion(pts, centers, indexes) ==
    SumOver([j \in Index |-> Dist2(pts[j], centers[indexes[j]])], 0, N - 1)

Count(indexes, c) == Cardinality({j \in Index : indexes[j] = c})

\* The points of cluster c added to the vector start.
AddPoints(pts, indexes, c, start) ==
    [d \in 1..Dim |-> start[d] +
        SumOver([j \in Index |-> IF indexes[j] = c THEN pts[j][d] ELSE 0], 0, N - 1)]
=============================================================================
