---------------------------- MODULE Metrics_proofs ----------------------------
(***************************************************************************)
(* Theorems about Metrics, for any values measured and any number of       *)
(* iterations: the statistics are those of the measurements, the interval  *)
(* that is reported is one of what is reported, and a benchmark that was   *)
(* cut short had converged.                                                *)
(***************************************************************************)
EXTENDS Metrics, FiniteSetTheorems, SequenceTheorems, TLAPS

-----------------------------------------------------------------------------
(* What sorting yields.                                                    *)

\* A vector of n measurements.
IsVector(s, n) == n \in Nat /\ s \in [1..n -> Int]

\* Where the vector is not above or not below v.
NotAbove(s, n, v) == {k \in 1..n : s[k] <= v}
NotBelow(s, n, v) == {k \in 1..n : s[k] >= v}

\* Each element comes before or after each other one, and has fewer before it
\* than those it comes before.
LEMMA SortingOrder ==
  ASSUME NEW n, NEW s, IsVector(s, n)
  PROVE  /\ \A k \in 1..n : /\ IsFiniteSet(Before(s, k))
                            /\ Cardinality(Before(s, k)) \in 0..n-1
         /\ \A j, k \in 1..n : j # k => j \in Before(s, k) \/ k \in Before(s, j)
         /\ \A j, k \in 1..n : j \in Before(s, k) =>
              Cardinality(Before(s, j)) < Cardinality(Before(s, k))
<1>1. /\ n \in Nat /\ DOMAIN s = 1..n /\ \A k \in 1..n : s[k] \in Int
      /\ IsFiniteSet(1..n) /\ Cardinality(1..n) = n
  BY FS_Interval DEF IsVector
<1>2. ASSUME NEW k \in 1..n
      PROVE  /\ IsFiniteSet(Before(s, k))
             /\ Cardinality(Before(s, k)) \in 0..n-1
  <2>1. Before(s, k) \in SUBSET (1..n) /\ k \notin Before(s, k)
    BY <1>1 DEF Before
  <2>2. /\ IsFiniteSet(Before(s, k)) /\ Cardinality(Before(s, k)) <= n
        /\ n = Cardinality(Before(s, k)) => 1..n = Before(s, k)
    BY <1>1, <2>1, FS_Subset
  <2>3. Cardinality(Before(s, k)) \in Nat
    BY <2>2, FS_CardinalityType
  <2> QED
    BY <1>1, <2>1, <2>2, <2>3
<1>3. ASSUME NEW j \in 1..n, NEW k \in 1..n, j # k
      PROVE  j \in Before(s, k) \/ k \in Before(s, j)
  <2>1. s[j] \in Int /\ s[k] \in Int /\ j \in Int /\ k \in Int
    BY <1>1
  <2> QED
    BY <1>1, <1>3, <2>1 DEF Before
<1>4. ASSUME NEW j \in 1..n, NEW k \in 1..n, j \in Before(s, k)
      PROVE  Cardinality(Before(s, j)) < Cardinality(Before(s, k))
  <2>1. /\ Before(s, j) \in SUBSET Before(s, k)
        /\ j \notin Before(s, j)
    <3>1. \A l \in 1..n : l \in Before(s, j) => l \in Before(s, k)
      BY <1>1, <1>4 DEF Before
    <3> QED
      BY <1>1, <3>1 DEF Before
  <2>2. /\ Cardinality(Before(s, j)) <= Cardinality(Before(s, k))
        /\ Cardinality(Before(s, k)) = Cardinality(Before(s, j)) =>
             Before(s, k) = Before(s, j)
    BY <1>2, <2>1, FS_Subset
  <2>3. Cardinality(Before(s, j)) # Cardinality(Before(s, k))
    BY <1>4, <2>1, <2>2
  <2> QED
    BY <1>2, <2>2, <2>3
<1> QED
  BY <1>2, <1>3, <1>4

\* Every place in the sorted vector is that of one element.
LEMMA SortingPlaces ==
  ASSUME NEW n, NEW s, IsVector(s, n), NEW m \in 1..n
  PROVE  \E k \in 1..n : Cardinality(Before(s, k)) = m - 1
<1> DEFINE D == 1..n
           T == 0..n-1
           f == [k \in D |-> Cardinality(Before(s, k))]
<1>1. n \in Nat /\ IsFiniteSet(D) /\ Cardinality(D) = n
      /\ IsFiniteSet(T) /\ Cardinality(T) = n
  BY FS_Interval DEF IsVector
<1>2. \A k \in D : f[k] \in T
  BY SortingOrder
<1>3. \A j, k \in D : f[j] = f[k] => j = k
  <2> SUFFICES ASSUME NEW j \in D, NEW k \in D, f[j] = f[k], j # k
               PROVE  FALSE
    OBVIOUS
  <2>1. f[j] < f[k] \/ f[k] < f[j]
    BY SortingOrder
  <2>2. f[j] \in Int /\ f[k] \in Int
    BY <1>2
  <2> QED
    BY <2>1, <2>2
<1>4. f \in Injection(D, T)
  BY <1>2, <1>3 DEF Injection, IsInjective
<1>5. f \in Surjection(D, T)
  <2> HIDE DEF f, D, T
  <2> QED
    BY <1>1, <1>4, FS_Injection
<1>6. m - 1 \in T
  BY <1>1
<1> QED
  BY <1>5, <1>6 DEF Surjection

\* The m-th element of the sorted vector is one of the vector; at least m are
\* not greater, and at least as many are not less as stand from m on.
LEMMA SortedElement ==
  ASSUME NEW n, NEW s, IsVector(s, n), NEW m \in 1..n
  PROVE  /\ Sorted(s)[m] \in Int
         /\ \E k \in 1..n : s[k] = Sorted(s)[m]
         /\ Cardinality(NotAbove(s, n, Sorted(s)[m])) >= m
         /\ Cardinality(NotBelow(s, n, Sorted(s)[m])) >= n - m + 1
<1>1. /\ n \in Nat /\ DOMAIN s = 1..n /\ \A k \in 1..n : s[k] \in Int
      /\ IsFiniteSet(1..n) /\ Cardinality(1..n) = n
  BY FS_Interval DEF IsVector
<1>2. PICK k \in 1..n : Sorted(s)[m] = s[k] /\ Cardinality(Before(s, k)) = m - 1
  <2> DEFINE c == CHOOSE k \in 1..n : Cardinality(Before(s, k)) = m - 1
  <2>1. c \in 1..n /\ Cardinality(Before(s, c)) = m - 1
    BY SortingPlaces
  <2>2. Sorted(s)[m] = s[c]
    BY <1>1 DEF Sorted
  <2> QED
    BY <2>1, <2>2
<1> DEFINE v == s[k]
           B == Before(s, k)
           L == {j \in 1..n : s[j] <= v}
           G == {j \in 1..n : s[j] >= v}
<1>3. v \in Int /\ IsFiniteSet(B) /\ B \in SUBSET (1..n) /\ k \notin B
  <2>1. v \in Int /\ IsFiniteSet(B)
    BY <1>1, SortingOrder
  <2>2. ~(s[k] < s[k]) /\ ~(k < k)
    BY <1>1
  <2> QED
    BY <1>1, <2>1, <2>2 DEF Before
<1>4. Cardinality(L) >= m
  <2>1. B \cup {k} \in SUBSET L /\ IsFiniteSet(L)
    <3>1. \A j \in B : s[j] <= v
      BY <1>1, <1>3 DEF Before
    <3>2. L \in SUBSET (1..n)
      OBVIOUS
    <3> QED
      BY <1>1, <1>3, <3>1, <3>2, FS_Subset
  <2>2. Cardinality(B \cup {k}) = m
    <3>1. Cardinality(B) = m - 1
      BY <1>2
    <3>2. IsFiniteSet(B) /\ k \notin B
      BY <1>3
    <3> HIDE DEF B
    <3>3. Cardinality(B \cup {k}) = Cardinality(B) + 1
      BY <3>2, FS_AddElement
    <3> QED
      BY <1>1, <3>1, <3>3
  <2>3. Cardinality(B \cup {k}) <= Cardinality(L)
    <3> HIDE DEF B, L
    <3> QED
      BY <2>1, FS_Subset
  <2> QED
    BY <2>2, <2>3
<1>5. Cardinality(G) >= n - m + 1
  <2>1. (1..n) \ B \in SUBSET G /\ IsFiniteSet(G)
    <3>1. \A j \in (1..n) \ B : s[j] >= v
      BY <1>1, <1>3 DEF Before
    <3>2. G \in SUBSET (1..n)
      OBVIOUS
    <3> QED
      BY <1>1, <3>1, <3>2, FS_Subset
  <2>2. Cardinality((1..n) \ B) = n - (m - 1)
    <3>1. (1..n) \cap B = B
      BY <1>3
    <3> HIDE DEF B
    <3>2. Cardinality((1..n) \ B) = Cardinality(1..n) - Cardinality((1..n) \cap B)
      BY <1>1, FS_Difference
    <3> QED
      BY <1>1, <1>2, <3>1, <3>2 DEF B
  <2>3. Cardinality((1..n) \ B) <= Cardinality(G)
    <3> HIDE DEF B, G
    <3> QED
      BY <2>1, FS_Subset
  <2>4. Cardinality(G) \in Nat
    BY <2>1, FS_CardinalityType
  <2> QED
    BY <1>1, <2>2, <2>3, <2>4
<1> QED
  BY <1>2, <1>3, <1>4, <1>5 DEF NotAbove, NotBelow

\* Fewer than m are less than the m-th, and no more are greater than stand
\* behind it.
LEMMA OthersAreFewer ==
  ASSUME NEW n, NEW s, IsVector(s, n), NEW m \in 1..n
  PROVE  /\ IsFiniteSet({k \in 1..n : s[k] < Sorted(s)[m]})
         /\ Cardinality({k \in 1..n : s[k] < Sorted(s)[m]}) <= m - 1
         /\ IsFiniteSet({k \in 1..n : s[k] > Sorted(s)[m]})
         /\ Cardinality({k \in 1..n : s[k] > Sorted(s)[m]}) <= n - m
<1> DEFINE D == 1..n
           v == Sorted(s)[m]
           L == {k \in D : s[k] <= v}
           G == {k \in D : s[k] >= v}
           Below == {k \in D : s[k] < v}
           Above == {k \in D : s[k] > v}
<1>1. n \in Nat /\ IsFiniteSet(D) /\ Cardinality(D) = n
  BY FS_Interval DEF IsVector
<1>2. v \in Int /\ Cardinality(L) >= m /\ Cardinality(G) >= n - m + 1
  BY SortedElement DEF NotAbove, NotBelow
<1>3. Below = D \ G /\ Above = D \ L /\ D \cap G = G /\ D \cap L = L
  <2>1. \A k \in D : s[k] \in Int
    BY DEF IsVector
  <2> HIDE DEF D, v
  <2> QED
    BY <1>2, <2>1
<1>4. L \in SUBSET D /\ G \in SUBSET D
  OBVIOUS
<1> HIDE DEF D, v, L, G, Below, Above
<1>5. Cardinality(L) \in Nat /\ Cardinality(G) \in Nat
  BY <1>1, <1>4, FS_Subset, FS_CardinalityType
<1>6. /\ IsFiniteSet(Below) /\ Cardinality(Below) = n - Cardinality(G)
      /\ IsFiniteSet(Above) /\ Cardinality(Above) = n - Cardinality(L)
  <2>1. /\ IsFiniteSet(D \ G) /\ Cardinality(D \ G) = n - Cardinality(D \cap G)
        /\ IsFiniteSet(D \ L) /\ Cardinality(D \ L) = n - Cardinality(D \cap L)
    BY <1>1, FS_Difference
  <2> QED
    BY <1>3, <2>1
<1>7. Cardinality(Below) <= m - 1 /\ Cardinality(Above) <= n - m
  BY <1>1, <1>2, <1>5, <1>6
<1> QED
  BY <1>6, <1>7 DEF D, v, Below, Above

\* The same of any set of such places.
LEMMA SubsetsAreFewer ==
  ASSUME NEW n, NEW s, IsVector(s, n), NEW m \in 1..n, NEW B
  PROVE  /\ B \subseteq {k \in 1..n : s[k] < Sorted(s)[m]} =>
              IsFiniteSet(B) /\ Cardinality(B) \in Nat /\ Cardinality(B) <= m - 1
         /\ B \subseteq {k \in 1..n : s[k] > Sorted(s)[m]} =>
              IsFiniteSet(B) /\ Cardinality(B) \in Nat /\ Cardinality(B) <= n - m
<1>1. n \in Nat
  BY DEF IsVector
<1>2. ASSUME NEW A, IsFiniteSet(A), NEW b \in Int, Cardinality(A) <= b,
             B \subseteq A
      PROVE  IsFiniteSet(B) /\ Cardinality(B) \in Nat /\ Cardinality(B) <= b
  <2>1. IsFiniteSet(B) /\ Cardinality(B) <= Cardinality(A)
    BY <1>2, FS_Subset
  <2>2. Cardinality(A) \in Nat /\ Cardinality(B) \in Nat
    BY <1>2, <2>1, FS_CardinalityType
  <2> QED
    BY <1>2, <2>1, <2>2
<1>3. m - 1 \in Int /\ n - m \in Int
  BY <1>1
<1> QED
  BY <1>2, <1>3, OthersAreFewer

\* The sorted vector ascends.
LEMMA SortedAscends ==
  ASSUME NEW n, NEW s, IsVector(s, n), NEW l \in 1..n, NEW m \in l..n
  PROVE  Sorted(s)[l] <= Sorted(s)[m]
<1> DEFINE D == 1..n
           L == {k \in D : s[k] <= Sorted(s)[m]}
           B == {k \in D : s[k] < Sorted(s)[l]}
<1>1. n \in Nat /\ m \in 1..n /\ IsFiniteSet(D)
  BY FS_Interval DEF IsVector
<1>2. /\ Sorted(s)[l] \in Int /\ Sorted(s)[m] \in Int
      /\ Cardinality(L) >= m
      /\ IsFiniteSet(B) /\ Cardinality(B) <= l - 1
  <2>1. Sorted(s)[l] \in Int
    BY SortedElement
  <2>2. IsFiniteSet(B) /\ Cardinality(B) <= l - 1
    BY OthersAreFewer
  <2>3. Sorted(s)[m] \in Int /\ Cardinality(L) >= m
    BY <1>1, SortedElement DEF NotAbove
  <2> QED
    BY <2>1, <2>2, <2>3
<1>3. ASSUME ~(Sorted(s)[l] <= Sorted(s)[m])
      PROVE  FALSE
  <2>1. L \in SUBSET B
    <3>1. \A k \in D : s[k] \in Int
      BY DEF IsVector
    <3> HIDE DEF D
    <3> QED
      BY <1>2, <1>3, <3>1
  <2> HIDE DEF L, B
  <2>2. /\ Cardinality(L) <= Cardinality(B)
        /\ Cardinality(L) \in Nat /\ Cardinality(B) \in Nat
    BY <1>2, <2>1, FS_Subset, FS_CardinalityType
  <2> QED
    BY <1>1, <1>2, <2>2
<1> QED
  BY <1>3

\* No more than half lie on either side of the median, which lies between
\* every element of the lower half and every one of the upper half.
LEMMA MedianDivides ==
  ASSUME NEW n, n # 0, NEW s, IsVector(s, n)
  PROVE  /\ TwiceMedian(s) \in Int
         /\ 2 * Cardinality({k \in 1..n : 2 * s[k] < TwiceMedian(s)}) <= n
         /\ 2 * Cardinality({k \in 1..n : 2 * s[k] > TwiceMedian(s)}) <= n
         /\ \A l \in 1..n : 2 * l <= n + 1 => 2 * Sorted(s)[l] <= TwiceMedian(s)
         /\ \A l \in 1..n : 2 * l > n => TwiceMedian(s) <= 2 * Sorted(s)[l]
<1> DEFINE D == 1..n
           h == n \div 2
           M == TwiceMedian(s)
           Below == {k \in D : 2 * s[k] < M}
           Above == {k \in D : 2 * s[k] > M}
<1>1. /\ n \in Nat \ {0} /\ \A k \in D : s[k] \in Int
      /\ s \in Seq(Int) /\ Len(s) = n
  BY DEF IsVector
<1>2. /\ h \in Nat /\ h + 1 \in D
      /\ n % 2 = 0 => n = 2 * h /\ h \in D
      /\ n % 2 # 0 => n = 2 * h + 1
  BY <1>1
<1>3. \A l \in D : Sorted(s)[l] \in Int
  BY SortedElement
<1>4. \A l, m \in D : l <= m => Sorted(s)[l] <= Sorted(s)[m]
  BY <1>1, SortedAscends
<1>5. CASE n % 2 = 0
  <2>1. M = Sorted(s)[h + 1] + Sorted(s)[h]
    BY <1>1, <1>5 DEF TwiceMedian
  <2>2. Sorted(s)[h] <= Sorted(s)[h + 1]
    BY <1>2, <1>4, <1>5
  <2> DEFINE a == Sorted(s)[h]
             b == Sorted(s)[h + 1]
  <2>3. a \in Int /\ b \in Int /\ M = b + a /\ a <= b
    BY <1>2, <1>3, <1>5, <2>1, <2>2
  <2>4. Below \in SUBSET {k \in D : s[k] < b}
    <3> SUFFICES ASSUME NEW k \in D, 2 * s[k] < M
                 PROVE  s[k] < b
      OBVIOUS
    <3>1. s[k] \in Int
      BY <1>1
    <3> HIDE DEF a, b, M
    <3> QED
      BY <2>3, <3>1
  <2>5. Above \in SUBSET {k \in D : s[k] > a}
    <3> SUFFICES ASSUME NEW k \in D, 2 * s[k] > M
                 PROVE  s[k] > a
      OBVIOUS
    <3>1. s[k] \in Int
      BY <1>1
    <3> HIDE DEF a, b, M
    <3> QED
      BY <2>3, <3>1
  <2>6. Cardinality(Below) \in Nat /\ Cardinality(Below) <= h
    BY <1>2, <2>4, SubsetsAreFewer
  <2>7. Cardinality(Above) \in Nat /\ Cardinality(Above) <= n - h
    BY <1>2, <1>5, <2>5, SubsetsAreFewer
  <2>8. ASSUME NEW l \in D, 2 * l <= n + 1
        PROVE  2 * Sorted(s)[l] <= M
    BY <1>2, <1>3, <1>4, <1>5, <2>1, <2>2, <2>8
  <2>9. ASSUME NEW l \in D, 2 * l > n
        PROVE  M <= 2 * Sorted(s)[l]
    BY <1>2, <1>3, <1>4, <1>5, <2>1, <2>2, <2>9
  <2> QED
    BY <1>2, <1>3, <1>5, <2>1, <2>6, <2>7, <2>8, <2>9
<1>6. CASE n % 2 # 0
  <2>1. M = 2 * Sorted(s)[h + 1]
    BY <1>1, <1>6 DEF TwiceMedian
  <2>2. Below \in SUBSET {k \in D : s[k] < Sorted(s)[h + 1]}
    BY <1>1, <1>2, <1>3, <2>1
  <2>3. Above \in SUBSET {k \in D : s[k] > Sorted(s)[h + 1]}
    BY <1>1, <1>2, <1>3, <2>1
  <2>4. Cardinality(Below) \in Nat /\ Cardinality(Below) <= h
    BY <1>2, <2>2, SubsetsAreFewer
  <2>5. Cardinality(Above) \in Nat /\ Cardinality(Above) <= n - (h + 1)
    BY <1>2, <2>3, SubsetsAreFewer
  <2>6. ASSUME NEW l \in D, 2 * l <= n + 1
        PROVE  2 * Sorted(s)[l] <= M
    BY <1>2, <1>3, <1>4, <1>6, <2>1, <2>6
  <2>7. ASSUME NEW l \in D, 2 * l > n
        PROVE  M <= 2 * Sorted(s)[l]
    BY <1>2, <1>3, <1>4, <1>6, <2>1, <2>7
  <2> QED
    BY <1>2, <1>3, <1>6, <2>1, <2>4, <2>5, <2>6, <2>7
<1> QED
  BY <1>5, <1>6

\* The sorted vector begins with the least element and ends with the greatest.
LEMMA SortedEnds ==
  ASSUME NEW n, n # 0, NEW s, IsVector(s, n)
  PROVE  \A k \in 1..n : Sorted(s)[1] <= s[k] /\ s[k] <= Sorted(s)[n]
<1>1. n \in Nat \ {0} /\ \A k \in 1..n : s[k] \in Int
  BY DEF IsVector
<1>2. 1 \in 1..n /\ n \in 1..n
  BY <1>1
<1>3. Sorted(s)[1] \in Int /\ Sorted(s)[n] \in Int
  BY <1>2, SortedElement
<1>4. ASSUME NEW B, IsFiniteSet(B), Cardinality(B) \in Nat, Cardinality(B) <= 0
      PROVE  B = {}
  BY <1>4, FS_EmptySet
<1>5. {k \in 1..n : s[k] < Sorted(s)[1]} = {}
  <2> DEFINE B == {k \in 1..n : s[k] < Sorted(s)[1]}
  <2>1. IsFiniteSet(B) /\ Cardinality(B) \in Nat /\ Cardinality(B) <= 1 - 1
    BY <1>2, SubsetsAreFewer
  <2> HIDE DEF B
  <2>2. B = {}
    BY <1>4, <2>1
  <2> QED
    BY <2>2 DEF B
<1>6. {k \in 1..n : s[k] > Sorted(s)[n]} = {}
  <2> DEFINE B == {k \in 1..n : s[k] > Sorted(s)[n]}
  <2>1. IsFiniteSet(B) /\ Cardinality(B) \in Nat /\ Cardinality(B) <= n - n
    BY <1>2, SubsetsAreFewer
  <2> HIDE DEF B
  <2>2. B = {}
    BY <1>1, <1>4, <2>1
  <2> QED
    BY <2>2 DEF B
<1> QED
  BY <1>1, <1>3, <1>5, <1>6

\* A set of ranks has a greatest and a least one.
LEMMA GreatestAndLeast ==
  ASSUME NEW n \in Nat, NEW S \in SUBSET (1..n), S # {}
  PROVE  /\ Max(S) \in S /\ \A x \in S : x <= Max(S)
         /\ Min(S) \in S /\ \A x \in S : Min(S) <= x
<1> DEFINE s == [k \in 1..n |-> IF k \in S THEN k ELSE 0]
           t == [k \in 1..n |-> IF k \in S THEN k ELSE n + 1]
<1>1. /\ n # 0 /\ n \in 1..n /\ 1 \in 1..n
      /\ \A k \in 1..n : k \in Int /\ 0 < k /\ k < n + 1
      /\ \A k \in S : k \in 1..n
  <2>1. PICK k \in S : k \in 1..n
    OBVIOUS
  <2>2. 1 <= n
    BY <2>1
  <2> QED
    BY <2>2
<1>2. IsVector(s, n) /\ IsVector(t, n)
  BY DEF IsVector
<1> PICK w \in S : TRUE
  OBVIOUS
<1>3. \E x \in S : \A y \in S : x >= y
  <2> HIDE DEF s
  <2>1. PICK k \in 1..n : s[k] = Sorted(s)[n]
    BY <1>1, <1>2, SortedElement
  <2>2. \A y \in 1..n : s[y] <= s[k]
    BY <1>1, <1>2, <2>1, SortedEnds
  <2>3. \A y \in S : y <= s[k]
    BY <1>1, <2>2 DEF s
  <2>4. k \in S
    <3>1. 0 < w /\ w <= s[k]
      BY <1>1, <2>3
    <3>2. k \notin S => s[k] = 0
      BY DEF s
    <3> QED
      BY <1>1, <3>1, <3>2
  <2>5. s[k] = k
    BY <2>4 DEF s
  <2> QED
    BY <2>3, <2>4, <2>5
<1>4. \E x \in S : \A y \in S : x =< y
  <2> HIDE DEF t
  <2>1. PICK k \in 1..n : t[k] = Sorted(t)[1]
    <3>1. \A m \in 1..n : \E k \in 1..n : t[k] = Sorted(t)[m]
      BY <1>2, SortedElement
    <3> QED
      BY <1>1, <3>1
  <2>2. \A y \in 1..n : t[k] <= t[y]
    BY <1>1, <1>2, <2>1, SortedEnds
  <2>3. \A y \in S : t[k] <= y
    BY <1>1, <2>2 DEF t
  <2>4. k \in S
    <3>1. w < n + 1 /\ t[k] <= w
      BY <1>1, <2>3
    <3>2. k \notin S => t[k] = n + 1
      BY DEF t
    <3> QED
      BY <1>1, <3>1, <3>2
  <2>5. t[k] = k
    BY <2>4 DEF t
  <2> QED
    BY <2>3, <2>4, <2>5
<1> QED
  BY <1>3, <1>4 DEF Max, Min

-----------------------------------------------------------------------------
(* The statistics.                                                         *)

\* The members that hold statistics.
Members ==
  {"sum", "count", "min", "p25", "median", "p75", "p95", "p99", "max", "mode",
   "lower", "upper"}

Percents == {25, 75, 95, 99}

\* v splits the vector at p percent, as Splits says of the measurements.
SplitsVector(s, n, v, p) ==
  /\ 100 * Cardinality(NotAbove(s, n, v)) > p * n
  /\ 100 * Cardinality(NotBelow(s, n, v)) >= (100 - p) * n

\* A percentile splits the measurements as its name says.
LEMMA PercentileSplits ==
  ASSUME NEW n, n # 0, NEW s, IsVector(s, n), NEW p \in Percents
  PROVE  /\ Percentile(s, p) \in Int
         /\ \E k \in 1..n : s[k] = Percentile(s, p)
         /\ SplitsVector(s, n, Percentile(s, p), p)
<1> DEFINE m == (n * p) \div 100 + 1
           L == NotAbove(s, n, Sorted(s)[m])
           G == NotBelow(s, n, Sorted(s)[m])
<1>1. n \in Nat \ {0} /\ s \in Seq(Int) /\ Len(s) = n
  BY DEF IsVector
<1>2. m \in 1..n /\ 100 * m > p * n /\ 100 * (n - m + 1) >= (100 - p) * n
  BY <1>1 DEF Percents
<1>3. Percentile(s, p) = Sorted(s)[m]
  BY <1>1 DEF Percentile
<1> HIDE DEF m
<1>4. /\ Sorted(s)[m] \in Int /\ \E k \in 1..n : s[k] = Sorted(s)[m]
      /\ Cardinality(L) >= m /\ Cardinality(G) >= n - m + 1
  <2>1. m \in 1..n
    BY <1>2
  <2>2. Sorted(s)[m] \in Int /\ \E k \in 1..n : s[k] = Sorted(s)[m]
    BY <2>1, SortedElement
  <2>3. Cardinality(L) >= m
    BY <2>1, SortedElement
  <2>4. Cardinality(G) >= n - m + 1
    <3>1. \A l \in 1..n :
            Cardinality(NotBelow(s, n, Sorted(s)[l])) >= n - l + 1
      BY SortedElement
    <3> QED
      BY <2>1, <3>1
  <2> QED
    BY <2>2, <2>3, <2>4
<1>5. Cardinality(L) \in Nat /\ Cardinality(G) \in Nat
  <2>1. L \in SUBSET (1..n) /\ G \in SUBSET (1..n) /\ IsFiniteSet(1..n)
    BY <1>1, FS_Interval DEF NotAbove, NotBelow
  <2> HIDE DEF L, G
  <2> QED
    BY <2>1, FS_Subset, FS_CardinalityType
<1> HIDE DEF L, G
<1>6. 100 * Cardinality(L) > p * n /\ 100 * Cardinality(G) >= (100 - p) * n
  BY <1>1, <1>2, <1>4, <1>5 DEF Percents
<1> QED
  BY <1>3, <1>4, <1>6 DEF L, G, SplitsVector

\* The ranks of the interval exist, one not above and one not below the
\* middle.
LEMMA IntervalRanks ==
  ASSUME NEW n \in Nat \ {0}
  PROVE  /\ LowerRank(n) \in 1..n /\ 2 * LowerRank(n) <= n + 1
         /\ UpperRank(n) \in 1..n /\ 2 * UpperRank(n) > n
<1> DEFINE L == {1} \cup {r \in 1..n : AtLeastDeviation(n - 2 * r, n)}
           U == {n} \cup {r \in 1..n : AtLeastDeviation(2 * (r - 1) - n, n)}
<1>1. /\ L \in SUBSET (1..n) /\ \A r \in L : 2 * r <= n + 1
      /\ U \in SUBSET (1..n) /\ \A r \in U : 2 * r > n
  BY DEF AtLeastDeviation
<1>2. L # {} /\ U # {}
  OBVIOUS
<1>3. LowerRank(n) = Max(L) /\ UpperRank(n) = Min(U)
  BY DEF LowerRank, UpperRank
<1> HIDE DEF L, U
<1>4. Max(L) \in L /\ Min(U) \in U
  BY <1>1, <1>2, GreatestAndLeast
<1> QED
  BY <1>1, <1>3, <1>4

\* The two ranks come from different formulas, one rounded down, the other
\* up, but lie opposite each other: for any number of measurements from two
\* on, those for which an interval is computed among them, the ranks exist and
\* as many measurements lie below the interval as above it.
THEOREM IntervalIsSymmetric ==
  \A n \in Nat : n > 1 =>
    /\ 1 <= LowerRank(n) /\ LowerRank(n) < UpperRank(n) /\ UpperRank(n) <= n
    /\ LowerRank(n) - 1 = n - UpperRank(n)
<1> SUFFICES ASSUME NEW n \in Nat, n > 1
             PROVE  /\ 1 <= LowerRank(n) /\ LowerRank(n) < UpperRank(n)
                    /\ UpperRank(n) <= n
                    /\ LowerRank(n) - 1 = n - UpperRank(n)
  OBVIOUS
<1> DEFINE L == {1} \cup {r \in 1..n : AtLeastDeviation(n - 2 * r, n)}
           U == {n} \cup {r \in 1..n : AtLeastDeviation(2 * (r - 1) - n, n)}
           l == LowerRank(n)
           u == UpperRank(n)
\* Opposite ranks deviate from the middle alike.
<1>1. ASSUME NEW r \in 1..n
      PROVE  /\ n + 1 - r \in 1..n
             /\ r \in L => n + 1 - r \in U
             /\ r \in U => n + 1 - r \in L
  <2>1. /\ n + 1 - r \in 1..n
        /\ n + 1 - 1 = n /\ n + 1 - n = 1
        /\ 2 * ((n + 1 - r) - 1) - n = n - 2 * r
        /\ n - 2 * (n + 1 - r) = 2 * (r - 1) - n
    OBVIOUS
  <2> QED
    BY <2>1, Zenon
<1>2. L \in SUBSET (1..n) /\ U \in SUBSET (1..n) /\ L # {} /\ U # {}
  OBVIOUS
<1>3. l = Max(L) /\ u = Min(U)
  BY DEF LowerRank, UpperRank
<1> HIDE DEF L, U, l, u
<1>4. /\ l \in L /\ \A x \in L : x <= l
      /\ u \in U /\ \A x \in U : u <= x
  BY <1>2, <1>3, GreatestAndLeast
<1>5. l \in 1..n /\ u \in 1..n
  BY <1>2, <1>4
<1>6. u <= n + 1 - l /\ n + 1 - u <= l
  BY <1>1, <1>4, <1>5
<1>7. l + u = n + 1
  BY <1>5, <1>6
<1>8. 2 * l <= n
  <2>1. l = 1 \/ AtLeastDeviation(n - 2 * l, n)
    BY <1>4 DEF L
  <2>2. AtLeastDeviation(n - 2 * l, n) => n - 2 * l >= 0
    BY DEF AtLeastDeviation
  <2> QED
    BY <1>5, <2>1, <2>2
<1>9. 1 <= l /\ l < u /\ u <= n /\ l - 1 = n - u
  BY <1>5, <1>7, <1>8
<1> QED
  BY <1>9 DEF l, u

\* The sum is not below the least measurement taken so often, nor above the
\* greatest.
LEMMA SumIsBounded ==
  ASSUME NEW n, n # 0, NEW s, IsVector(s, n), \A k \in 1..n : s[k] > 0
  PROVE  /\ n * Sorted(s)[1] <= Total(s)
         /\ Total(s) <= n * Sorted(s)[n]
<1> DEFINE D == 1..n
           lo == Sorted(s)[1]
           hi == Sorted(s)[n]
           U == UNION {{k} \X (1..s[k]) : k \in D}
<1>1. n \in Nat \ {0} /\ DOMAIN s = D /\ \A k \in D : s[k] \in Int
  BY DEF IsVector
<1>2. /\ lo \in Nat /\ hi \in Nat
      /\ \A k \in D : lo <= s[k] /\ s[k] <= hi
  <2>1. 1 \in D /\ n \in D
    BY <1>1
  <2>2. lo \in Int /\ hi \in Int /\ \E k \in D : s[k] = lo
    <3>1. \A m \in D : Sorted(s)[m] \in Int /\ \E k \in D : s[k] = Sorted(s)[m]
      BY SortedElement
    <3> QED
      BY <2>1, <3>1
  <2>3. \A k \in D : lo <= s[k] /\ s[k] <= hi
    BY SortedEnds
  <2> HIDE DEF lo, hi, D
  <2>4. lo > 0 /\ lo <= hi
    BY <1>1, <2>1, <2>2, <2>3 DEF D
  <2> QED
    BY <2>2, <2>3, <2>4
<1>3. Total(s) = Cardinality(U)
  BY <1>1 DEF Total
<1> HIDE DEF lo, hi
<1>4. /\ IsFiniteSet(D) /\ Cardinality(D) = n
      /\ IsFiniteSet(1..lo) /\ Cardinality(1..lo) = lo
      /\ IsFiniteSet(1..hi) /\ Cardinality(1..hi) = hi
  <2>1. \A h \in Nat : IsFiniteSet(1..h) /\ Cardinality(1..h) = h
    <3> TAKE h \in Nat
    <3>1. 1 \in Int /\ h \in Int
      OBVIOUS
    <3>2. IsFiniteSet(1..h)
      BY <3>1, FS_Interval
    <3>3. Cardinality(1..h) = IF 1 > h THEN 0 ELSE h - 1 + 1
      BY <3>1, FS_Interval
    <3> QED
      BY <3>2, <3>3
  <2>2. n \in Nat
    BY <1>1
  <2> QED
    BY <1>2, <2>1, <2>2
<1>5. D \X (1..lo) \subseteq U
  <2> SUFFICES ASSUME NEW k \in D, NEW u \in 1..lo
               PROVE  <<k, u>> \in U
    OBVIOUS
  <2>1. u \in 1..s[k]
    BY <1>1, <1>2
  <2>2. <<k, u>> \in {k} \X (1..s[k])
    BY <2>1
  <2> QED
    BY <2>2
<1>6. U \subseteq D \X (1..hi)
  <2> SUFFICES ASSUME NEW k \in D, NEW x \in {k} \X (1..s[k])
               PROVE  x \in D \X (1..hi)
    OBVIOUS
  <2>1. \A u \in 1..s[k] : u \in 1..hi
    BY <1>1, <1>2
  <2> QED
    BY <2>1
<1> HIDE DEF U, D
<1>7. /\ IsFiniteSet(D \X (1..lo)) /\ Cardinality(D \X (1..lo)) = n * lo
      /\ IsFiniteSet(D \X (1..hi)) /\ Cardinality(D \X (1..hi)) = n * hi
  BY <1>4, FS_Product
<1>8. IsFiniteSet(U) /\ Cardinality(U) <= n * hi
  BY <1>6, <1>7, FS_Subset
<1>9. n * lo <= Cardinality(U)
  BY <1>5, <1>7, <1>8, FS_Subset
<1> QED
  BY <1>3, <1>8, <1>9 DEF lo, hi

\* What computeMetrics() makes of a vector of measurements.
LEMMA ComputedMetrics ==
  ASSUME NEW n, n # 0, NEW s, IsVector(s, n), \A k \in 1..n : s[k] \in Values,
         NEW st, NEW was, DOMAIN was = Members, st = AfterComputeMetrics(was, s)
  PROVE  /\ \A v \in {st.min, st.p25, st.p75, st.p95, st.p99, st.max} :
              \E k \in 1..n : s[k] = v
         /\ SplitsVector(s, n, st.p25, 25) /\ SplitsVector(s, n, st.p75, 75)
         /\ SplitsVector(s, n, st.p95, 95) /\ SplitsVector(s, n, st.p99, 99)
         /\ NotBelow(s, n, st.min) = 1..n
         /\ NotAbove(s, n, st.max) = 1..n
         /\ st.median = TwiceMedian(s)
         /\ st.count = n
         /\ n * st.min <= st.sum
         /\ st.sum <= n * st.max
         /\ st.lower = was.lower /\ st.upper = was.upper
         /\ DOMAIN st = Members
<1>1. n \in Nat \ {0} /\ s \in Seq(Int) /\ Len(s) = n
      /\ \A k \in 1..n : s[k] \in Int /\ s[k] > 0
  BY MetricsAssumption DEF IsVector
<1>2. /\ st.sum = Total(s) /\ st.count = n
      /\ st.min = Sorted(s)[1] /\ st.max = Sorted(s)[n]
      /\ st.p25 = Percentile(s, 25) /\ st.p75 = Percentile(s, 75)
      /\ st.p95 = Percentile(s, 95) /\ st.p99 = Percentile(s, 99)
      /\ st.median = TwiceMedian(s)
      /\ st.lower = was.lower /\ st.upper = was.upper
      /\ DOMAIN st = Members
  BY <1>1 DEF AfterComputeMetrics, Members
<1>3. \A m \in 1..n : /\ Sorted(s)[m] \in Int
                      /\ \E k \in 1..n : s[k] = Sorted(s)[m]
  BY SortedElement
<1>4. \A p \in Percents :
        /\ Percentile(s, p) \in Int /\ \E k \in 1..n : s[k] = Percentile(s, p)
        /\ SplitsVector(s, n, Percentile(s, p), p)
  BY PercentileSplits
<1>5. /\ NotBelow(s, n, Sorted(s)[1]) = 1..n
      /\ NotAbove(s, n, Sorted(s)[n]) = 1..n
  BY <1>1, <1>3, SortedEnds DEF NotAbove, NotBelow
<1>6. n * Sorted(s)[1] <= Total(s) /\ Total(s) <= n * Sorted(s)[n]
  BY <1>1, SumIsBounded
<1>7. 1 \in 1..n /\ n \in 1..n
  BY <1>1
<1>8. \A v \in {st.min, st.p25, st.p75, st.p95, st.p99, st.max} :
        \E k \in 1..n : s[k] = v
  BY <1>2, <1>3, <1>4, <1>7 DEF Percents
<1>9. /\ SplitsVector(s, n, st.p25, 25) /\ SplitsVector(s, n, st.p75, 75)
      /\ SplitsVector(s, n, st.p95, 95) /\ SplitsVector(s, n, st.p99, 99)
  BY <1>2, <1>4 DEF Percents
<1> QED
  BY <1>2, <1>5, <1>6, <1>8, <1>9

\* The first m elements of a vector.
LEMMA Prefix ==
  ASSUME NEW n, NEW s, IsVector(s, n), NEW m \in 1..n
  PROVE  /\ IsVector(SubSeq(s, 1, m), m)
         /\ \A k \in 1..m : SubSeq(s, 1, m)[k] = s[k]
         /\ m = n => SubSeq(s, 1, m) = s
<1>1. /\ n \in Nat /\ s \in Seq(Int) /\ Len(s) = n /\ m \in Nat \ {0}
      /\ \A k \in 1..m : s[k] \in Int
  BY DEF IsVector
<1>2. /\ SubSeq(s, 1, m) \in Seq(Int)
      /\ Len(SubSeq(s, 1, m)) = m
      /\ \A k \in 1..m : SubSeq(s, 1, m)[k] = s[1 + k - 1]
  BY <1>1, SubSeqProperties
<1>3. SubSeq(s, 1, m) \in [1..m -> Int]
  <2> DEFINE q == SubSeq(s, 1, m)
  <2>1. q \in Seq(Int) /\ Len(q) = m
    BY <1>2
  <2> HIDE DEF q
  <2>2. q \in [1..m -> Int]
    BY <1>1, <2>1
  <2> QED
    BY <2>2 DEF q
<1>4. m = n => SubSeq(s, 1, m) = s
  BY <1>1, SubSeqFull
<1> QED
  BY <1>1, <1>2, <1>3, <1>4 DEF IsVector

-----------------------------------------------------------------------------
(* The loop over the iterations.                                           *)

\* What is recorded: measurements up to i, in a vector as long as there are
\* iterations, all of which have been made when the loop is left.
Recorded ==
  /\ pc \in {"iterate", "finish", "done"}
  /\ i \in Nat
  /\ iterations \in Nat \ {0}
  /\ IsVector(metric, iterations)
  /\ \A k \in 1..i : metric[k] \in Values
  /\ DOMAIN stats = Members
  /\ pc = "iterate" => i < iterations /\ iterations = MaxIterations
  /\ pc # "iterate" => i = iterations

\* The interval is that of what is recorded.
IntervalIsOfRecorded ==
  isMatrix /\ i > 5 =>
    LET first == SubSeq(metric, 1, i) IN
    /\ stats.median = TwiceMedian(first)
    /\ stats.lower = Sorted(first)[LowerRank(i)]
    /\ stats.upper = Sorted(first)[UpperRank(i)]

\* Who stops early has converged.
StoppedConverged ==
  iterations < MaxIterations =>
    isMatrix /\ ~logExtended /\ iterations > 5 /\ Converged(stats)

\* In the end the statistics are those of all that is recorded.
StatisticsAreComputed ==
  pc = "done" => \E was : DOMAIN was = Members
                          /\ stats = AfterComputeMetrics(was, metric)

Inv ==
  /\ Recorded
  /\ IntervalIsOfRecorded
  /\ StoppedConverged
  /\ StatisticsAreComputed

\* Nothing is recorded at first.
LEMMA InitInv == Init => Inv
<1> SUFFICES ASSUME Init
             PROVE  Inv
  OBVIOUS
<1>1. MaxIterations \in Nat \ {0}
  BY MetricsAssumption
<1>2. Recorded
  <2>1. metric \in [1..MaxIterations -> Int]
    BY DEF Init, Unmeasured
  <2>2. DOMAIN stats = Members
    BY DEF Init, InitialStats, Members
  <2> QED
    BY <1>1, <2>1, <2>2 DEF Init, Recorded, IsVector
<1> QED
  BY <1>1, <1>2 DEF Init, Inv, IntervalIsOfRecorded, StoppedConverged,
                    StatisticsAreComputed

\* A measurement extends what is recorded, and if the interval is computed it
\* is computed of all of it; if the vector is cut, nothing recorded is lost.
LEMMA IterateInv ==
  ASSUME Inv, NEW v \in Values, Iterate(v)
  PROVE  Inv'
<1> DEFINE measured == [metric EXCEPT ![i + 1] = v]
           n == iterations
           checked == isMatrix /\ i >= 5
           now == AfterComputeMedian(stats, measured, i + 1)
           stop == checked /\ Converged(now) /\ ~logExtended
<1>1. /\ i \in Nat /\ n \in Nat \ {0} /\ i + 1 \in 1..n /\ n = MaxIterations
      /\ metric \in [1..n -> Int] /\ \A k \in 1..i : metric[k] \in Values
      /\ v \in Int /\ DOMAIN stats = Members
  BY MetricsAssumption DEF Inv, Recorded, IsVector, Iterate
<1>2. /\ IsVector(measured, n)
      /\ \A k \in 1..i+1 : measured[k] \in Values
  <2>1. measured \in [1..n -> Int]
    BY <1>1
  <2>2. \A k \in 1..i+1 : k \in 1..n /\ measured[k] = IF k = i + 1 THEN v ELSE metric[k]
    BY <1>1
  <2> QED
    BY <1>1, <2>1, <2>2 DEF IsVector
<1>3. /\ i' = i + 1
      /\ stats' = IF checked THEN now ELSE stats
      /\ metric' = IF stop THEN SubSeq(measured, 1, i + 1) ELSE measured
      /\ iterations' = IF stop THEN i + 1 ELSE n
      /\ pc' = IF stop \/ i + 1 = n THEN "finish" ELSE "iterate"
      /\ isMatrix' = isMatrix /\ logExtended' = logExtended
  BY DEF Iterate
<1> DEFINE first == SubSeq(measured, 1, i + 1)
<1> HIDE DEF measured
<1>4. /\ IsVector(first, i + 1)
      /\ \A k \in 1..i+1 : first[k] = measured[k]
      /\ SubSeq(first, 1, i + 1) = first
  <2>1. IsVector(first, i + 1) /\ \A k \in 1..i+1 : first[k] = measured[k]
    BY <1>1, <1>2, Prefix
  <2>2. i + 1 \in 1..i+1
    BY <1>1
  <2> HIDE DEF first
  <2>3. SubSeq(first, 1, i + 1) = first
    BY <2>1, <2>2, Prefix
  <2> QED
    BY <2>1, <2>3
<1>5. /\ DOMAIN now = Members
      /\ i >= 5 => /\ now.median = TwiceMedian(first)
                   /\ now.lower = Sorted(first)[LowerRank(i + 1)]
                   /\ now.upper = Sorted(first)[UpperRank(i + 1)]
  <2>1. i >= 5 => HasInterval(i + 1)
    BY <1>1 DEF HasInterval
  <2> HIDE DEF first
  <2>2. now = [stats EXCEPT
                 !.median = TwiceMedian(first),
                 !.lower = IF HasInterval(i + 1)
                             THEN Sorted(first)[LowerRank(i + 1)] ELSE @,
                 !.upper = IF HasInterval(i + 1)
                             THEN Sorted(first)[UpperRank(i + 1)] ELSE @]
    BY DEF AfterComputeMedian, first
  <2> HIDE DEF now
  <2> QED
    BY <1>1, <2>1, <2>2 DEF Members
<1> HIDE DEF first, now
<1>6. Recorded'
  <2>1. CASE stop
    <3>1. /\ IsVector(metric', iterations') /\ i' = iterations' /\ pc' = "finish"
          /\ \A k \in 1..i' : metric'[k] \in Values
      BY <1>2, <1>3, <1>4, <2>1 DEF first
    <3>2. DOMAIN stats' = Members
      BY <1>1, <1>3, <1>5
    <3> QED
      BY <1>1, <1>3, <2>1, <3>1, <3>2 DEF Recorded
  <2>2. CASE ~stop
    <3>1. /\ IsVector(metric', iterations') /\ iterations' = n
          /\ pc' = IF i + 1 = n THEN "finish" ELSE "iterate"
          /\ \A k \in 1..i' : metric'[k] \in Values
      BY <1>2, <1>3, <2>2
    <3>2. DOMAIN stats' = Members
      BY <1>1, <1>3, <1>5
    <3>3. (i + 1 = n \/ i + 1 < n) /\ i + 1 \in Nat
      BY <1>1
    <3> QED
      BY <1>1, <1>3, <3>1, <3>2, <3>3 DEF Recorded
  <2> QED
    BY <2>1, <2>2
<1>7. IntervalIsOfRecorded'
  <2>1. ASSUME isMatrix, i + 1 > 5
        PROVE  SubSeq(metric', 1, i + 1) = first /\ stats' = now /\ i >= 5
    <3>1. i >= 5
      BY <1>1, <2>1
    <3>2. SubSeq(metric', 1, i + 1) = first
      BY <1>3, <1>4 DEF first
    <3> QED
      BY <1>3, <2>1, <3>1, <3>2
  <2>2. ASSUME isMatrix, i + 1 > 5
        PROVE  /\ stats'.median = TwiceMedian(SubSeq(metric', 1, i + 1))
               /\ stats'.lower =
                    Sorted(SubSeq(metric', 1, i + 1))[LowerRank(i + 1)]
               /\ stats'.upper =
                    Sorted(SubSeq(metric', 1, i + 1))[UpperRank(i + 1)]
    BY <1>5, <2>1, <2>2
  <2>3. i' = i + 1 /\ isMatrix' = isMatrix
    BY <1>3
  <2> QED
    BY <2>2, <2>3 DEF IntervalIsOfRecorded
<1>8. StoppedConverged'
  BY <1>1, <1>3 DEF StoppedConverged, Converged
<1>9. StatisticsAreComputed'
  BY <1>3 DEF StatisticsAreComputed
<1> QED
  BY <1>6, <1>7, <1>8, <1>9 DEF Inv

\* The statistics are computed of the vector the interval is of.
LEMMA FinishInv ==
  ASSUME Inv, Finish
  PROVE  Inv'
<1>1. /\ pc = "finish" /\ pc' = "done"
      /\ stats' = AfterComputeMetrics(stats, metric)
      /\ UNCHANGED <<isMatrix, logExtended, i, iterations, metric>>
  BY DEF Finish
<1>2. /\ i \in Nat /\ iterations \in Nat \ {0} /\ i = iterations
      /\ IsVector(metric, i) /\ \A k \in 1..i : metric[k] \in Values
      /\ DOMAIN stats = Members
  BY <1>1 DEF Inv, Recorded
<1>3. /\ stats'.median = TwiceMedian(metric)
      /\ stats'.lower = stats.lower /\ stats'.upper = stats.upper
      /\ DOMAIN stats' = Members
  BY <1>1, <1>2, ComputedMetrics
<1>4. SubSeq(metric, 1, i) = metric
  <2>1. i \in 1..i
    BY <1>2
  <2> QED
    BY <1>2, <2>1, Prefix
<1>5. Recorded'
  BY <1>1, <1>3 DEF Inv, Recorded
<1>6. IntervalIsOfRecorded'
  BY <1>1, <1>3, <1>4 DEF Inv, IntervalIsOfRecorded
<1>7. StoppedConverged'
  <2> SUFFICES ASSUME iterations < MaxIterations
               PROVE  Converged(stats')
    BY <1>1 DEF Inv, StoppedConverged
  <2>1. isMatrix /\ i > 5 /\ Converged(stats)
    BY <1>2 DEF Inv, StoppedConverged
  <2>2. stats.median = TwiceMedian(metric)
    BY <1>4, <2>1 DEF Inv, IntervalIsOfRecorded
  <2> QED
    BY <1>3, <2>1, <2>2 DEF Converged
<1>8. StatisticsAreComputed'
  BY <1>1, <1>2 DEF StatisticsAreComputed
<1> QED
  BY <1>5, <1>6, <1>7, <1>8 DEF Inv

\* Every step keeps the invariant.
LEMMA NextInv == Inv /\ [Next]_vars => Inv'
<1> SUFFICES ASSUME Inv, [Next]_vars
             PROVE  Inv'
  OBVIOUS
<1>1. ASSUME NEW v \in Values, Iterate(v)
      PROVE  Inv'
  BY <1>1, IterateInv
<1>2. CASE Finish
  BY <1>2, FinishInv
<1>3. CASE UNCHANGED vars
  BY <1>3 DEF vars, Inv, Recorded, IntervalIsOfRecorded, StoppedConverged,
              StatisticsAreComputed
<1> QED
  BY <1>1, <1>2, <1>3 DEF Next, Done

\* Whatever is measured, what is recorded, the interval of it and the decision
\* to stop belong together at every moment.
THEOREM Invariance == Spec => []Inv
  BY InitInv, NextInv, PTL DEF Spec

-----------------------------------------------------------------------------
(* The properties.                                                         *)

\* In the end the vector holds one measurement per iteration.
LEMMA DoneStatistics ==
  ASSUME Inv, pc = "done"
  PROVE  /\ iterations \in Nat \ {0} /\ i = iterations
         /\ IsVector(metric, iterations)
         /\ \A k \in 1..iterations : metric[k] \in Values
         /\ DOMAIN metric = 1..iterations /\ Len(metric) = iterations
         /\ SubSeq(metric, 1, iterations) = metric
         /\ \A v : /\ AtMost(v) = NotAbove(metric, iterations, v)
                   /\ AtLeast(v) = NotBelow(metric, iterations, v)
<1>1. /\ iterations \in Nat \ {0} /\ i = iterations
      /\ IsVector(metric, iterations)
      /\ \A k \in 1..iterations : metric[k] \in Values
  BY DEF Inv, Recorded
<1>2. DOMAIN metric = 1..iterations /\ Len(metric) = iterations
  BY <1>1 DEF IsVector
<1>3. SubSeq(metric, 1, iterations) = metric
  <2>1. iterations \in 1..iterations
    BY <1>1
  <2> QED
    BY <1>1, <2>1, Prefix
<1>4. \A v : /\ AtMost(v) = NotAbove(metric, iterations, v)
             /\ AtLeast(v) = NotBelow(metric, iterations, v)
  BY <1>2 DEF AtMost, AtLeast, NotAbove, NotBelow
<1> QED
  BY <1>1, <1>2, <1>3, <1>4

\* Whatever was measured, however often: the statistics of computeMetrics()
\* are what their names say of exactly the measurements made.
THEOREM StatisticsAreRight == Spec => []StatisticsMatchMeasurements
<1>1. Inv => StatisticsMatchMeasurements
  <2> SUFFICES ASSUME Inv, pc = "done"
               PROVE  StatisticsMatchMeasurements
    BY DEF StatisticsMatchMeasurements
  <2> DEFINE n == iterations
             s == metric
  <2>1. /\ n \in Nat \ {0} /\ IsVector(s, n) /\ \A k \in 1..n : s[k] \in Values
        /\ DOMAIN s = 1..n /\ Len(s) = n
        /\ \A v : AtMost(v) = NotAbove(s, n, v) /\ AtLeast(v) = NotBelow(s, n, v)
    BY DoneStatistics
  <2>2. PICK was : DOMAIN was = Members /\ stats = AfterComputeMetrics(was, s)
    BY DEF Inv, StatisticsAreComputed
  <2>3. /\ \A v \in {stats.min, stats.p25, stats.p75, stats.p95, stats.p99,
                     stats.max} : \E k \in 1..n : s[k] = v
        /\ SplitsVector(s, n, stats.p25, 25) /\ SplitsVector(s, n, stats.p75, 75)
        /\ SplitsVector(s, n, stats.p95, 95) /\ SplitsVector(s, n, stats.p99, 99)
        /\ NotBelow(s, n, stats.min) = 1..n /\ NotAbove(s, n, stats.max) = 1..n
        /\ stats.median = TwiceMedian(s) /\ stats.count = n
        /\ n * stats.min <= stats.sum /\ stats.sum <= n * stats.max
    BY <2>1, <2>2, ComputedMetrics
  <2>4. /\ Splits(stats.p25, 25) /\ Splits(stats.p75, 75)
        /\ Splits(stats.p95, 95) /\ Splits(stats.p99, 99)
    BY <2>1, <2>3 DEF Splits, SplitsVector
  <2>5. /\ 2 * Cardinality({k \in 1..n : 2 * s[k] < TwiceMedian(s)}) <= n
        /\ 2 * Cardinality({k \in 1..n : 2 * s[k] > TwiceMedian(s)}) <= n
    BY <2>1, MedianDivides
  <2> QED
    BY <2>1, <2>3, <2>4, <2>5 DEF StatisticsMatchMeasurements
<1> QED
  BY <1>1, Invariance, PTL

\* The interval a matrix benchmark reports is one of the measurements it
\* reports, whenever the loop was left: its bounds leave outside as many
\* as their ranks say, and the reported median lies between them.
THEOREM IntervalIsRight == Spec => []IntervalIsOfReportedMetrics
<1>1. Inv => IntervalIsOfReportedMetrics
  <2> SUFFICES ASSUME Inv, pc = "done", isMatrix, iterations > 5
               PROVE  IntervalIsOfReportedMetrics
    BY DEF IntervalIsOfReportedMetrics
  <2> DEFINE n == iterations
             s == metric
             L == LowerRank(n)
             U == UpperRank(n)
  <2>1. /\ n \in Nat \ {0} /\ i = n /\ IsVector(s, n) /\ SubSeq(s, 1, n) = s
        /\ \A v : AtMost(v) = NotAbove(s, n, v) /\ AtLeast(v) = NotBelow(s, n, v)
    BY DoneStatistics
  <2>2. /\ stats.median = TwiceMedian(s)
        /\ stats.lower = Sorted(s)[L] /\ stats.upper = Sorted(s)[U]
    BY <2>1 DEF Inv, IntervalIsOfRecorded
  <2>3. /\ L \in 1..n /\ 2 * L <= n + 1
        /\ U \in 1..n /\ 2 * U > n
    BY <2>1, IntervalRanks
  <2>4. 2 * Sorted(s)[L] <= TwiceMedian(s) /\ TwiceMedian(s) <= 2 * Sorted(s)[U]
    BY <2>1, <2>3, MedianDivides
  <2>5. \A m \in 1..n :
          /\ Cardinality(NotAbove(s, n, Sorted(s)[m])) >= m
          /\ Cardinality(NotBelow(s, n, Sorted(s)[m])) >= n - m + 1
    BY <2>1, SortedElement
  <2>6. \A m \in 1..n : Cardinality(NotBelow(s, n, Sorted(s)[m])) \in Nat
    <3> TAKE m \in 1..n
    <3> DEFINE B == NotBelow(s, n, Sorted(s)[m])
    <3>1. B \in SUBSET (1..n) /\ IsFiniteSet(1..n)
      BY <2>1, FS_Interval DEF NotBelow
    <3> HIDE DEF B
    <3>2. Cardinality(B) \in Nat
      BY <3>1, FS_Subset, FS_CardinalityType
    <3> QED
      BY <3>2 DEF B
  <2>7. \A m \in 1..n : Cardinality(NotBelow(s, n, Sorted(s)[m])) > n - m
    BY <2>1, <2>5, <2>6
  <2> HIDE DEF L, U
  <2>8. /\ Cardinality(AtMost(stats.lower)) >= L
        /\ Cardinality(AtLeast(stats.lower)) > n - L
        /\ Cardinality(AtMost(stats.upper)) >= U
        /\ Cardinality(AtLeast(stats.upper)) > n - U
    BY <2>1, <2>2, <2>3, <2>5, <2>7
  <2> QED
    BY <2>2, <2>4, <2>8 DEF IntervalIsOfReportedMetrics, L, U
<1> QED
  BY <1>1, Invariance, PTL

\* No benchmark is cut short but one of six iterations or more whose reported
\* interval lies within the tolerance of its reported median.
THEOREM StopsAreRight == Spec => []StopsOnlyConverged
<1>1. Inv => StopsOnlyConverged
  <2> SUFFICES ASSUME Inv, pc = "done", iterations < MaxIterations
               PROVE  StopsOnlyConverged
    BY DEF StopsOnlyConverged
  <2>1. isMatrix /\ ~logExtended /\ iterations > 5 /\ Converged(stats)
    BY DEF Inv, StoppedConverged
  <2>2. iterations \in Nat
    BY DoneStatistics
  <2> QED
    BY <2>1, <2>2 DEF StopsOnlyConverged, Converged
<1> QED
  BY <1>1, Invariance, PTL

=============================================================================
