--------------------------- MODULE MCKMeansMulti ----------------------------
(* KMeansMulti on a few sets of points of a line. *)
EXTENDS KMeansMulti

CONSTANT Unit   \* a multiple of 1..N, so that every mean is exact

Line(x) == [j \in Index |-> [d \in 1..Dim |-> Unit * x[j + 1]]]

\* A group, its opposite and an outlier; and four points at the origin.
MCInputs == {Line(<<3, -3, 1, 0, 2>>), Line(<<0, 0, 2, 0, 0>>)}
=============================================================================
