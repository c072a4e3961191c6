--------------------------- MODULE MCKMeansSingle ---------------------------
(* KMeansSingle on points of a line. *)
EXTENDS KMeansSingle

CONSTANTS Unit,  \* a multiple of 1..N, so that every mean is exact
          High   \* coordinates are the multiples of Unit from -Unit to High * Unit

\* Every assignment of coordinates to the points.
MCInputs == [Index -> [1..Dim -> {Unit * u : u \in (-1)..High}]]

\* The five points 2, -1, 0, -3, -2: as many as it takes for an empty cluster's jump
\* to the origin to attract a point of another cluster in the last iteration.
MCFivePoints ==
    LET x == <<2, -1, 0, -3, -2>>
    IN {[j \in Index |-> [d \in 1..Dim |-> Unit * x[j + 1]]]}
=============================================================================
