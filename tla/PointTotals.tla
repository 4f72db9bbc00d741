----------------------------- MODULE PointTotals -----------------------------
(***************************************************************************)
(* Sums of points.  The database adds up BigInt columns (SUM(amount),       *)
(* lots.reduce); the model counts the points themselves: f[x] points of x   *)
(* are the pairs <<x, 1>> .. <<x, f[x]>>, and a total is the number of such *)
(* pairs.  Stated this way a sum is a cardinality, about which TLAPS has    *)
(* theorems, and no recursion over a set is needed.                         *)
(***************************************************************************)
EXTENDS Integers, FiniteSets

Points(f, S) == UNION {{x} \X (1..f[x]) : x \in S}

Total(f, S) == Cardinality(Points(f, S))

=============================================================================
