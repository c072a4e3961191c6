------------------------------- MODULE Lloyd --------------------------------
(***************************************************************************)
(* What a run of k-means promises: K first centroids taken from the points *)
(* (or left at the origin), then iterations in which every point goes to   *)
(* its nearest centroid and every centroid to the mean of its points, until*)
(* the cost of two iterations is the same.  One step per iteration: no     *)
(* buffer, thread, task or partition of the points is to be seen here.     *)
(***************************************************************************)
EXTENDS KMeansAlgo

CONSTANT KeepEmpty   \* the centroid of an empty cluster stays where it was

VARIABLES
    points,
    phase,     \* "seed", "run", "stable" or "done"
    centers,
    cost,      \* the sum of squared distances in the last iteration
    iterations,
    clusters   \* the clustering returned: nothing before the costs agree

NoClusters == <<>>

lloydVars == <<points, phase, centers, cost, iterations, clusters>>

LloydInit ==
    /\ points \in Inputs
    /\ phase = "seed"
    /\ centers = Zeros
    /\ cost = 0
    /\ iterations = 0
    /\ clusters = NoClusters

Seed ==
    /\ phase = "seed"
    /\ centers' \in [Cluster -> {points[j] : j \in Index} \cup {Zero}]
    /\ \E j \in Index : centers'[0] = points[j]
    /\ phase' = "run"
    /\ UNCHANGED <<points, cost, iterations, clusters>>

Mean(assignment, c) ==
    IF Count(assignment, c) > 0
    THEN Over(AddPoints(points, assignment, c, Zero), Count(assignment, c))
    ELSE IF KeepEmpty THEN centers[c] ELSE Zero

Iterate ==
    /\ phase = "run"
    /\ iterations' = iterations + 1
    /\ LET assignment == Nearest(points, centers)
           v == Distortion(points, centers, assignment)
       IN /\ centers' = [c \in Cluster |-> Mean(assignment, c)]
          /\ cost' = v
          /\ phase' = IF v = cost THEN "stable" ELSE "run"
          /\ clusters' = IF v = cost THEN assignment ELSE NoClusters
    /\ UNCHANGED points

Return ==
    /\ phase = "stable"
    /\ phase' = "done"
    /\ UNCHANGED <<points, centers, cost, iterations, clusters>>

LloydNext == Seed \/ Iterate \/ Return

LloydSpec == LloydInit /\ [][LloydNext]_lloydVars
=============================================================================
