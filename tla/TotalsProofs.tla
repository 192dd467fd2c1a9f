---------------------------- MODULE TotalsProofs ----------------------------
(***************************************************************************)
(* What the proofs about accounts, credentials, pulls and metered units    *)
(* need of a sum over a finite set.  Each fact is one about cardinalities: *)
(* two disjoint sets have disjoint points, a smaller set or function has   *)
(* fewer of them, and above one element x there are f[x].                  *)
(***************************************************************************)
EXTENDS Totals, FiniteSetTheorems, TLAPS

\* f counts something of each element of a finite set.
Counts(f, S) == IsFiniteSet(S) /\ \A x \in S : f[x] \in Nat

LEMMA PointsAbove ==
  ASSUME NEW f, NEW S, NEW p
  PROVE  p \in Points(f, S) <=> \E x \in S : \E i \in 1 .. f[x] : p = <<x, i>>
  BY DEF Points

\* The points above one element.
LEMMA TotalOfOne ==
  ASSUME NEW f, NEW x, f[x] \in Nat
  PROVE  /\ IsFiniteSet(Points(f, {x}))
         /\ Total(f, {x}) = f[x]
<1>1. Points(f, {x}) = {x} \X (1 .. f[x])
  BY DEF Points
<1>2. IsFiniteSet(1 .. f[x]) /\ Cardinality(1 .. f[x]) = f[x]
  <2>1. ASSUME NEW n \in Nat PROVE IsFiniteSet(1 .. n) /\ Cardinality(1 .. n) = n
    BY FS_Interval
  <2> QED BY <2>1
<1>3. IsFiniteSet({x}) /\ Cardinality({x}) = 1
  BY FS_Singleton
<1>4. ASSUME NEW T, IsFiniteSet(T), Cardinality(T) = f[x]
      PROVE  IsFiniteSet({x} \X T) /\ Cardinality({x} \X T) = f[x]
  <2>1. IsFiniteSet({x} \X T) /\ Cardinality({x} \X T) = Cardinality({x}) * Cardinality(T)
    BY <1>3, <1>4, FS_Product
  <2>2. Cardinality({x} \X T) = 1 * f[x]
    BY <1>3, <1>4, <2>1
  <2> QED BY <2>1, <2>2
<1> QED BY <1>1, <1>2, <1>4 DEF Total

\* Finitely many points in all: the columns above the elements are as many as
\* the elements, and each is finite.
LEMMA TotalIsFinite ==
  ASSUME NEW f, NEW S, Counts(f, S)
  PROVE  IsFiniteSet(Points(f, S)) /\ Total(f, S) \in Nat
<1> DEFINE Column(x) == {x} \X (1 .. f[x])
           Columns   == {Column(x) : x \in S}
           column    == [x \in S |-> Column(x)]
<1>1. column \in Surjection(S, Columns)
  <2>1. column \in [S -> Columns]
    OBVIOUS
  <2>2. \A c \in Columns : \E x \in S : column[x] = c
    OBVIOUS
  <2> HIDE DEF column, Columns
  <2> QED BY <2>1, <2>2 DEF Surjection
<1>2. IsFiniteSet(Columns)
  <2> HIDE DEF column, Columns
  <2> QED BY <1>1, FS_Surjection DEF Counts
<1>3. ASSUME NEW x \in S PROVE IsFiniteSet(Column(x))
  <2>1. Points(f, {x}) = Column(x)
    BY DEF Points
  <2> QED BY <2>1, TotalOfOne DEF Counts
<1>4. \A T \in Columns : IsFiniteSet(T)
  BY <1>3
<1>5. IsFiniteSet(UNION Columns)
  <2> HIDE DEF Columns
  <2> QED BY <1>2, <1>4, FS_UNION
<1>6. Points(f, S) = UNION Columns
  BY DEF Points
<1> QED BY <1>5, <1>6, FS_CardinalityType DEF Total

\* Over nothing.
LEMMA TotalOfNone == ASSUME NEW f PROVE Total(f, {}) = 0
<1>1. Points(f, {}) = {}
  BY DEF Points
<1> QED BY <1>1, FS_EmptySet DEF Total

\* Over two sets with no element in common.
LEMMA TotalOfBoth ==
  ASSUME NEW f, NEW S, NEW T, Counts(f, S), Counts(f, T), S \cap T = {}
  PROVE  Total(f, S \cup T) = Total(f, S) + Total(f, T)
<1>1. Points(f, S \cup T) = Points(f, S) \cup Points(f, T)
  BY DEF Points
<1>2. Points(f, S) \cap Points(f, T) = {}
  BY PointsAbove
<1>3. Cardinality(Points(f, S) \cap Points(f, T)) = 0
  BY <1>2, FS_EmptySet
<1>4. Total(f, S \cup T) = Total(f, S) + Total(f, T) - 0
  BY <1>1, <1>3, TotalIsFinite, FS_Union DEF Total
<1> QED BY <1>4, TotalIsFinite

\* Over one element and the others.
LEMMA TotalSplits ==
  ASSUME NEW f, NEW S, Counts(f, S), NEW x \in S
  PROVE  /\ Counts(f, S \ {x})
         /\ Total(f, S) = Total(f, S \ {x}) + f[x]
<1>1. Counts(f, S \ {x}) /\ Counts(f, {x})
  BY FS_RemoveElement, FS_Singleton DEF Counts
<1>2. (S \ {x}) \cup {x} = S /\ (S \ {x}) \cap {x} = {}
  OBVIOUS
<1>3. Total(f, S) = Total(f, S \ {x}) + Total(f, {x})
  BY <1>1, <1>2, TotalOfBoth
<1> QED BY <1>1, <1>3, TotalOfOne DEF Counts

\* Two functions that agree on the set.
LEMMA TotalAgrees ==
  ASSUME NEW f, NEW g, NEW S, \A x \in S : f[x] = g[x]
  PROVE  Total(f, S) = Total(g, S)
<1>1. Points(f, S) = Points(g, S)
  BY DEF Points
<1> QED BY <1>1 DEF Total

\* Two functions that differ at one element only: a deposit, a burn, a charge.
LEMMA TotalOneApart ==
  ASSUME NEW f, NEW g, NEW S, Counts(f, S), Counts(g, S), NEW x \in S,
         \A y \in S : y # x => g[y] = f[y]
  PROVE  Total(g, S) = Total(f, S) - f[x] + g[x]
<1>1. Total(f, S \ {x}) = Total(g, S \ {x})
  BY TotalAgrees
<1>2. Total(f, S \ {x}) \in Nat
  BY TotalSplits, TotalIsFinite
<1> QED BY <1>1, <1>2, TotalSplits DEF Counts

\* The same, by how much they differ there.
LEMMA TotalChangesBy ==
  ASSUME NEW f, NEW g, NEW S, Counts(f, S), Counts(g, S), NEW x \in S, NEW n \in Int,
         g[x] = f[x] + n,
         \A y \in S : y # x => g[y] = f[y]
  PROVE  Total(g, S) = Total(f, S) + n
<1>1. Total(g, S) = Total(f, S) - f[x] + g[x]
  BY TotalOneApart
<1>2. Total(f, S) \in Nat /\ f[x] \in Nat
  BY TotalIsFinite DEF Counts
<1> QED BY <1>1, <1>2

\* A function that counts nothing.
LEMMA TotalOfZeroes ==
  ASSUME NEW f, NEW S, \A x \in S : f[x] = 0
  PROVE  Total(f, S) = 0
<1>1. \A x \in S : 1 .. f[x] = {}
  OBVIOUS
<1>2. Points(f, S) = {}
  BY <1>1, PointsAbove
<1> QED BY <1>2, FS_EmptySet DEF Total

\* Over a part of the set.
LEMMA TotalOfPart ==
  ASSUME NEW f, NEW S, Counts(f, S), NEW T, T \subseteq S
  PROVE  Counts(f, T) /\ Total(f, T) <= Total(f, S)
<1>1. Counts(f, T)
  BY FS_Subset DEF Counts
<1>2. Points(f, T) \subseteq Points(f, S)
  BY DEF Points
<1> QED BY <1>1, <1>2, TotalIsFinite, FS_Subset DEF Total

\* No element counts for more than all of them.
LEMMA TotalCoversEach ==
  ASSUME NEW f, NEW S, Counts(f, S), NEW x \in S
  PROVE  f[x] <= Total(f, S)
<1>1. Total(f, S \ {x}) \in Nat
  BY TotalSplits, TotalIsFinite
<1> QED BY <1>1, TotalSplits DEF Counts

\* A function that counts the same everywhere.
LEMMA TotalOfConstant ==
  ASSUME NEW f, NEW S, IsFiniteSet(S), NEW c \in Nat, \A x \in S : f[x] = c
  PROVE  Total(f, S) = Cardinality(S) * c
<1>1. Points(f, S) = S \X (1 .. c)
  BY DEF Points
<1>2. IsFiniteSet(1 .. c) /\ Cardinality(1 .. c) = c
  BY FS_Interval
<1>3. Cardinality(S \X (1 .. c)) = Cardinality(S) * Cardinality(1 .. c)
  BY <1>2, FS_Product
<1> QED BY <1>1, <1>2, <1>3 DEF Total
==============================================================================
