---------------------------- MODULE KMeansSingle ----------------------------
(***************************************************************************)
(* singleThread::CKmeans (src/src/kmeans/singleThread/kmeansSingleThread.h)*)
(* run on one of Inputs: kmeansPP, then iterations of kmeans over two      *)
(* vectors of centroids that change places after each.                     *)
(***************************************************************************)
EXTENDS KMeansAlgo

VARIABLES
    pc,         \* the next statement of Run
    vpnts,      \* m_vpnts
    cent,       \* the two vectors: centers is cent[0], centroids is cent[1]
    centOld,    \* which of them centOld points to; centNew is the other
    n_cluster,  \* the loop variable of kmeansPP
    dist2,      \* and its vector of distances
    indexes, numPoints, V, oldV,
    numIterations

run == <<indexes, numPoints, V, oldV, numIterations>>
vars == <<pc, vpnts, cent, centOld, n_cluster, dist2, run>>

centNew == 1 - centOld

Init ==
    /\ pc = "seed"
    /\ vpnts \in Inputs
    /\ cent = [b \in 0..1 |-> Zeros]
    /\ centOld = 0
    /\ n_cluster = 0
    /\ dist2 = [j \in Index |-> 0]
    /\ indexes = [j \in Index |-> 0]
    /\ numPoints = [c \in Cluster |-> 0]
    /\ V = 0
    /\ oldV = -1
    /\ numIterations = 0

\* kmeansPP: the first centroid, r the value of rand() ...
SeedFirst(r) ==
    /\ pc = "seed"
    /\ cent' = [cent EXCEPT ![0] = FirstSeed(vpnts, r)]
    /\ n_cluster' = 1
    /\ pc' = "weigh"
    /\ UNCHANGED <<vpnts, centOld, dist2, run>>

\* ... and for each of the others the distances, and the draw from their sum.
Weigh ==
    /\ pc = "weigh"
    /\ n_cluster < K
    /\ dist2' = SeedWeights(vpnts, cent[0])
    /\ pc' = "draw"
    /\ UNCHANGED <<vpnts, cent, centOld, n_cluster, run>>

Draw(r) ==
    /\ pc = "draw"
    /\ cent' = [cent EXCEPT ![0] = NextSeed(vpnts, @, dist2, n_cluster, r)]
    /\ n_cluster' = n_cluster + 1
    /\ pc' = "weigh"
    /\ UNCHANGED <<vpnts, centOld, dist2, run>>

SeedDone ==
    /\ pc = "weigh"
    /\ n_cluster = K
    /\ pc' = "while"
    /\ UNCHANGED <<vpnts, cent, centOld, n_cluster, dist2, run>>

\* while (V != oldV): one more iteration starts with makeClusters ...  The sums are
\* exact here; the program compares rounded ones, and may go on when this does not.
MakeClusters ==
    /\ pc = "while"
    /\ V # oldV
    /\ numIterations' = numIterations + 1
    /\ oldV' = V
    /\ V' = 0
    /\ indexes' = Nearest(vpnts, cent[centOld])
    /\ pc' = "accumulate"
    /\ UNCHANGED <<vpnts, cent, centOld, n_cluster, dist2, numPoints>>

\* ... or Run returns the clusters around *centOld.
Finish ==
    /\ pc = "while"
    /\ V = oldV
    /\ pc' = "done"
    /\ UNCHANGED <<vpnts, cent, centOld, n_cluster, dist2, run>>

\* The points are added to whatever *centNew and numPoints hold.
Accumulate ==
    /\ pc = "accumulate"
    /\ V' = V + Distortion(vpnts, cent[centOld], indexes)
    /\ cent' = [cent EXCEPT ![centNew] =
                  [c \in Cluster |-> AddPoints(vpnts, indexes, c, @[c])]]
    /\ numPoints' = [c \in Cluster |-> numPoints[c] + Count(indexes, c)]
    /\ pc' = "divide"
    /\ UNCHANGED <<vpnts, centOld, n_cluster, dist2, indexes, oldV, numIterations>>

\* Defects: the counts are not set back to 0; the old centroids are not.
DivideKeepsCounts ==
    /\ pc = "divide"
    /\ cent' = [cent EXCEPT
                  ![centOld] = Zeros,
                  ![centNew] = [c \in Cluster |->
                     IF numPoints[c] > 0 THEN Over(@[c], numPoints[c]) ELSE @[c]]]
    /\ centOld' = centNew
    /\ pc' = "while"
    /\ UNCHANGED <<vpnts, n_cluster, dist2, indexes, numPoints, V, oldV, numIterations>>
DivideKeepsOld ==
    /\ pc = "divide"
    /\ cent' = [cent EXCEPT
                  ![centNew] = [c \in Cluster |->
                     IF numPoints[c] > 0 THEN Over(@[c], numPoints[c]) ELSE @[c]]]
    /\ numPoints' = [c \in Cluster |-> 0]
    /\ centOld' = centNew
    /\ pc' = "while"
    /\ UNCHANGED <<vpnts, n_cluster, dist2, indexes, V, oldV, numIterations>>

\* An empty cluster gets the zero vector; the vectors change places.
Divide ==
    /\ pc = "divide"
    /\ cent' = [cent EXCEPT
                  ![centOld] = Zeros,
                  ![centNew] = [c \in Cluster |->
                     IF numPoints[c] > 0 THEN Over(@[c], numPoints[c]) ELSE @[c]]]
    /\ numPoints' = [c \in Cluster |-> 0]
    /\ centOld' = centNew
    /\ pc' = "while"
    /\ UNCHANGED <<vpnts, n_cluster, dist2, indexes, V, oldV, numIterations>>

Next ==
    \/ \E r \in 0..RandMax : SeedFirst(r) \/ Draw(r)
    \/ Weigh \/ SeedDone \/ MakeClusters \/ Accumulate \/ Divide \/ Finish

Spec == Init /\ [][Next]_vars

-----------------------------------------------------------------------------
TypeOK ==
    /\ pc \in {"seed", "weigh", "draw", "while", "accumulate", "divide", "done"}
    /\ vpnts \in Inputs
    /\ DOMAIN cent = 0..1 /\ \A b \in 0..1 : cent[b] \in [Cluster -> Point]
    /\ centOld \in 0..1
    /\ n_cluster \in 0..K
    /\ dist2 \in [Index -> Nat]
    /\ indexes \in [Index -> Cluster]
    /\ numPoints \in [Cluster -> 0..N]
    /\ V \in Nat
    /\ oldV \in Nat \cup {-1}
    /\ numIterations \in Nat

\* V never grows from one iteration to the next, although an empty cluster's
\* centroid jumps to the origin: only the first has nothing to compare with.
NeverGrows == pc = "divide" /\ oldV > 0 => V <= oldV

\* What Run returns is a clustering around the returned centroids: no point is
\* nearer to another of them than to that of its own cluster.
ResultIsNearest ==
    pc = "done" => \A j \in Index, c \in Cluster :
        Dist2(vpnts[j], cent[centOld][indexes[j]]) <= Dist2(vpnts[j], cent[centOld][c])

\* k-means++ "chooses the initial centroids from the given set" (line 85).
SeedsFromSet ==
    pc = "while" /\ oldV = -1 =>
        \A c \in Cluster : \E j \in Index : cent[0][c] = vpnts[j]

\* The run is one of Lloyd's algorithm in which the centroid of an empty cluster
\* becomes the origin: the buffers that change places, and the sums left in them,
\* never leak from one iteration into the next.
Algorithm == INSTANCE Lloyd WITH
    KeepEmpty <- FALSE,
    points <- vpnts,
    phase <- CASE pc \in {"seed", "weigh", "draw"} -> "seed"
               [] pc = "done" -> "done"
               [] pc = "while" /\ V = oldV -> "stable"
               [] OTHER -> "run",
    centers <- IF pc \in {"seed", "weigh", "draw"} THEN Zeros ELSE cent[centOld],
    cost <- IF pc \in {"accumulate", "divide"} THEN oldV ELSE V,
    iterations <- IF pc \in {"accumulate", "divide"} THEN numIterations - 1
                  ELSE numIterations,
    clusters <- IF pc \in {"while", "done"} /\ V = oldV THEN indexes ELSE <<>>
ImplementsLloyd == Algorithm!LloydSpec
=============================================================================
