-------------------------- MODULE PointTotals_proofs --------------------------
(* What a total is when a row is added, removed or changed: the facts about  *)
(* SUM(amount) that the proofs about the ledger's sums rest on.              *)
EXTENDS PointTotals, FiniteSetTheorems, TLAPS

\* The points of finitely many rows are finitely many, so a total is a number.
LEMMA TotalType ==
  ASSUME NEW S, IsFiniteSet(S), NEW f, \A x \in S : f[x] \in Nat
  PROVE  IsFiniteSet(Points(f, S)) /\ Total(f, S) \in Nat
<1> DEFINE row == [x \in S |-> {x} \X (1..f[x])]
<1> DEFINE rows == {{x} \X (1..f[x]) : x \in S}
<1>1. row \in Surjection(S, rows)
  BY DEF Surjection
<1>2. IsFiniteSet(rows)
  BY <1>1, FS_Surjection
<1>3. ASSUME NEW x \in S PROVE IsFiniteSet({x} \X (1..f[x]))
  <2>1. f[x] \in Int /\ 1 \in Int
    OBVIOUS
  <2>2. IsFiniteSet(1..f[x])
    BY <2>1, FS_Interval
  <2>3. IsFiniteSet({x})
    BY FS_Singleton
  <2> QED BY <2>2, <2>3, FS_Product
<1>4. \A T \in rows : IsFiniteSet(T)
  BY <1>3
<1>5. IsFiniteSet(UNION rows)
  BY <1>2, <1>4, FS_UNION
<1>6. IsFiniteSet(Points(f, S))
  BY <1>5 DEF Points
<1> QED BY <1>6, FS_CardinalityType DEF Total

\* No rows, no points.
LEMMA TotalEmpty == ASSUME NEW f PROVE Total(f, {}) = 0
<1>1. Points(f, {}) = {}
  BY DEF Points
<1> QED BY <1>1, FS_EmptySet DEF Total

\* A total depends only on the rows it is taken over.
LEMMA TotalSame ==
  ASSUME NEW S, NEW f, NEW g, \A x \in S : f[x] = g[x]
  PROVE  Total(f, S) = Total(g, S)
<1>1. Points(f, S) = Points(g, S)
  BY DEF Points
<1> QED BY <1>1 DEF Total

\* A new row adds its own points.
LEMMA TotalAdd ==
  ASSUME NEW S, IsFiniteSet(S), NEW x, x \notin S,
         NEW f, \A y \in S : f[y] \in Nat, f[x] \in Nat
  PROVE  Total(f, S \cup {x}) = Total(f, S) + f[x]
<1> DEFINE own == {x} \X (1..f[x])
<1>1. Points(f, S \cup {x}) = Points(f, S) \cup own
  BY DEF Points
<1>2. IsFiniteSet(own) /\ Cardinality(own) = f[x]
  <2>1. IsFiniteSet(1..f[x]) /\ Cardinality(1..f[x]) = f[x]
    <3>1. f[x] \in Int /\ 1 \in Int
      OBVIOUS
    <3>2. IsFiniteSet(1..f[x])
      BY <3>1, FS_Interval
    <3>3. Cardinality(1..f[x]) = IF 1 > f[x] THEN 0 ELSE f[x] - 1 + 1
      BY <3>1, FS_Interval
    <3>4. (IF 1 > f[x] THEN 0 ELSE f[x] - 1 + 1) = f[x]
      OBVIOUS
    <3> QED BY <3>2, <3>3, <3>4
  <2>2. IsFiniteSet({x}) /\ Cardinality({x}) = 1
    BY FS_Singleton
  <2>3. IsFiniteSet(own) /\ Cardinality(own) = 1 * Cardinality(1..f[x])
    BY <2>1, <2>2, FS_Product
  <2> QED BY <2>1, <2>3
<1>3. Points(f, S) \cap own = {}
  BY DEF Points
<1>4. IsFiniteSet(Points(f, S)) /\ Cardinality(Points(f, S)) \in Nat
  BY TotalType DEF Total
<1>5. Cardinality(Points(f, S) \cup own)
        = Cardinality(Points(f, S)) + Cardinality(own) - Cardinality({})
  BY <1>2, <1>3, <1>4, FS_Union
<1>6. Cardinality({}) = 0
  BY FS_EmptySet
<1>7. Total(f, S \cup {x}) = Total(f, S) + Cardinality(own) - 0
  BY <1>1, <1>5, <1>6 DEF Total
<1>8. Total(f, S) \in Nat
  BY <1>4 DEF Total
<1>9. Total(f, S \cup {x}) = Total(f, S) + f[x] - 0
  BY <1>2, <1>7
<1> HIDE DEF own
<1> QED BY <1>8, <1>9

\* Without one of its rows, a total is less by the points of that row.
LEMMA TotalRemove ==
  ASSUME NEW S, IsFiniteSet(S), NEW x \in S,
         NEW f, \A y \in S : f[y] \in Nat
  PROVE  Total(f, S \ {x}) = Total(f, S) - f[x]
<1>1. IsFiniteSet(S \ {x})
  BY FS_RemoveElement
<1>2. (S \ {x}) \cup {x} = S
  OBVIOUS
<1>3. Total(f, (S \ {x}) \cup {x}) = Total(f, S \ {x}) + f[x]
  <2>1. x \notin S \ {x} /\ \A y \in S \ {x} : f[y] \in Nat
    OBVIOUS
  <2> QED BY <1>1, <2>1, TotalAdd
<1>4. Total(f, S \ {x}) \in Nat
  BY <1>1, TotalType
<1>5. Total(f, S) = Total(f, S \ {x}) + f[x]
  BY <1>2, <1>3
<1>6. f[x] \in Nat
  OBVIOUS
<1> QED BY <1>4, <1>5, <1>6

\* Rows of no more points each are of no more points together.
LEMMA TotalAtMost ==
  ASSUME NEW S, IsFiniteSet(S), NEW f, NEW g,
         \A x \in S : f[x] \in Nat /\ g[x] \in Nat /\ f[x] <= g[x]
  PROVE  Total(f, S) <= Total(g, S)
<1>1. Points(f, S) \subseteq Points(g, S)
  <2>1. \A x \in S : 1..f[x] \subseteq 1..g[x]
    OBVIOUS
  <2> QED BY <2>1 DEF Points
<1>2. IsFiniteSet(Points(g, S))
  BY TotalType
<1> QED BY <1>1, <1>2, FS_Subset DEF Total

\* One row changes: the total changes by as much.
LEMMA TotalChange ==
  ASSUME NEW S, IsFiniteSet(S), NEW x \in S, NEW f, NEW g,
         \A y \in S : f[y] \in Nat /\ g[y] \in Nat, \A y \in S \ {x} : f[y] = g[y]
  PROVE  Total(g, S) = Total(f, S) - f[x] + g[x]
<1>1. Total(f, S \ {x}) = Total(f, S) - f[x]
  BY TotalRemove
<1>2. Total(g, S \ {x}) = Total(g, S) - g[x]
  BY TotalRemove
<1>3. Total(f, S \ {x}) = Total(g, S \ {x})
  BY TotalSame
<1>4. Total(f, S) \in Nat
  BY TotalType
<1>5. Total(g, S) \in Nat
  BY TotalType
<1>6. f[x] \in Nat /\ g[x] \in Nat
  OBVIOUS
<1> QED BY <1>1, <1>2, <1>3, <1>4, <1>5, <1>6

\* Two rows change and keep their sum: so does the total.
LEMMA TotalShift ==
  ASSUME NEW S, IsFiniteSet(S), NEW x \in S, NEW y \in S, x # y, NEW f, NEW g,
         \A z \in S : f[z] \in Nat /\ g[z] \in Nat, \A z \in S \ {x, y} : f[z] = g[z],
         f[x] + f[y] = g[x] + g[y]
  PROVE  Total(g, S) = Total(f, S)
<1> DEFINE T == S \ {x}
<1>1. IsFiniteSet(T) /\ y \in T
  BY FS_RemoveElement
<1>2. Total(g, T) = Total(f, T) - f[y] + g[y]
  BY <1>1, TotalChange
<1>3. Total(f, T) = Total(f, S) - f[x]
  BY TotalRemove
<1>4. Total(g, T) = Total(g, S) - g[x]
  BY TotalRemove
<1>5. Total(f, S) \in Nat
  BY TotalType
<1>6. Total(g, S) \in Nat
  BY TotalType
<1>7. f[x] \in Nat /\ g[x] \in Nat /\ f[y] \in Nat /\ g[y] \in Nat
  OBVIOUS
<1> HIDE DEF T
<1> QED BY <1>2, <1>3, <1>4, <1>5, <1>6, <1>7

\* Fewer rows, of the same points each, are of no more points together.
LEMMA TotalFewer ==
  ASSUME NEW S, IsFiniteSet(S), NEW R, R \subseteq S, NEW f, NEW g,
         \A x \in S : f[x] \in Nat, \A x \in R : g[x] = f[x]
  PROVE  /\ Total(g, R) <= Total(f, S)
         /\ Total(g, R) \in Nat /\ Total(f, S) \in Nat
<1>1. IsFiniteSet(R) /\ \A x \in R : g[x] \in Nat
  BY FS_Subset
<1>2. Points(g, R) \subseteq Points(f, S)
  BY DEF Points
<1>3. IsFiniteSet(Points(f, S)) /\ Total(f, S) \in Nat
  BY TotalType
<1>4. Total(g, R) \in Nat
  BY <1>1, TotalType
<1> QED BY <1>2, <1>3, <1>4, FS_Subset DEF Total

=============================================================================
