------------------------------- MODULE Lemmas -------------------------------
(***************************************************************************)
(* Facts the proofs share: least and greatest elements, which stand in for *)
(* induction, sequences that list a set of positions in order or follow    *)
(* each other, and counts over them.                                       *)
(***************************************************************************)
EXTENDS Ordered, FiniteSetTheorems, TLAPS

-----------------------------------------------------------------------------
(* Least and greatest elements.                                            *)

\* Every non-empty set of naturals has a least element.
LEMMA LeastElement ==
    ASSUME NEW T \in SUBSET Nat, T # {}
    PROVE  \E x \in T : \A y \in T : x <= y
<1> DEFINE R == {p \in Nat \X Nat : p[1] < p[2]}
<1>1. IsWellFoundedOn(R, Nat)
  BY NatLessThanWellFounded DEF OpToRel
<1>2. \A x, y \in Nat : <<y, x>> \in R <=> y < x
  OBVIOUS
<1> HIDE DEF R
<1>3. PICK x \in T : \A y \in T : ~(<<y, x>> \in R)
  BY <1>1, WFMin
<1>4. \A y \in T : ~(y < x)
  BY <1>2, <1>3
<1>5. \A y \in T : x <= y
  BY <1>4
<1> QED
  BY <1>5

\* Every non-empty set of naturals with a bound has a greatest element.
LEMMA GreatestElement ==
    ASSUME NEW T \in SUBSET Nat, T # {}, NEW n \in Nat, \A x \in T : x <= n
    PROVE  \E x \in T : \A y \in T : y <= x
<1> DEFINE U == {k \in Nat : \A y \in T : y <= k}
<1>1. n \in U
  OBVIOUS
<1>2. PICK k \in U : \A j \in U : k <= j
  BY <1>1, LeastElement
<1>3. k \in T
  <2>1. SUFFICES ASSUME k \notin T PROVE FALSE
    OBVIOUS
  <2>2. \A y \in T : y < k
    BY <2>1
  <2>3. PICK y \in T : TRUE
    OBVIOUS
  <2>4. k - 1 \in Nat /\ \A z \in T : z <= k - 1
    BY <2>2, <2>3
  <2>5. k - 1 \in U
    BY <2>4
  <2> QED
    BY <1>2, <2>5
<1> QED
  BY <1>2, <1>3

\* Induction on an interval, over a set.
LEMMA IntervalInduction ==
    ASSUME NEW S, NEW n \in Nat, 0 \in S, \A m \in 0..n : m < n /\ m \in S => m + 1 \in S
    PROVE  \A m \in 0..n : m \in S
<1> DEFINE T == {m \in 0..n : m \notin S}
<1>1. T \in SUBSET Nat
  OBVIOUS
<1>2. ASSUME T # {} PROVE FALSE
  <2> HIDE DEF T
  <2>1. PICK m \in T : \A k \in T : m <= k
    BY <1>1, <1>2, LeastElement
  <2> USE DEF T
  <2>2. m \in 0..n /\ m \notin S /\ m # 0
    BY <2>1
  <2>3. m - 1 \in 0..n /\ m - 1 < n /\ m - 1 \notin T
    BY <2>1, <2>2
  <2>4. m - 1 + 1 = m
    BY <2>2
  <2> QED
    BY <2>2, <2>3, <2>4
<1> QED
  BY <1>2

\* A function may be defined by recursion on an interval.
LEMMA Recursion ==
    ASSUME NEW V, NEW a \in V, NEW n \in Nat, NEW g \in [1..n -> [V -> V]]
    PROVE  \E f \in [0..n -> V] : f[0] = a /\ \A j \in 1..n : f[j] = g[j][f[j - 1]]
<1> DEFINE Upto(m) == \E f \in [0..m -> V] : f[0] = a /\ \A j \in 1..m : f[j] = g[j][f[j - 1]]
           S == {m \in 0..n : Upto(m)}
<1>1. 0 \in S
  <2> DEFINE h == [j \in 0..0 |-> a]
  <2>1. h \in [0..0 -> V] /\ h[0] = a /\ 1..0 = {}
    OBVIOUS
  <2> HIDE DEF h
  <2>2. Upto(0)
    BY <2>1
  <2> HIDE DEF Upto
  <2> QED
    BY <2>2
<1>2. ASSUME NEW p \in 0..n, p < n, p \in S PROVE p + 1 \in S
  <2> DEFINE m == p + 1
  <2>1. m \in 1..n /\ m - 1 = p
    BY <1>2
  <2>2. PICK f \in [0..p -> V] : f[0] = a /\ \A j \in 1..p : f[j] = g[j][f[j - 1]]
    BY <1>2
  <2> DEFINE h == [j \in 0..m |-> IF j = m THEN g[m][f[p]] ELSE f[j]]
  <2>3. \A j \in 0..p : j \in 0..m /\ h[j] = f[j] /\ f[j] \in V
    BY <2>1, <2>2
  <2>4. p \in 0..p /\ f[p] \in V /\ g[m] \in [V -> V] /\ m \in 0..m
    BY <2>1, <2>2
  <2>5. g[m][f[p]] \in V /\ h[m] = g[m][f[p]]
    BY <2>4
  <2>6. \A j \in 0..m : j \in 0..p \/ j = m
    BY <2>1
  <2>7. h \in [0..m -> V]
    BY <2>3, <2>5, <2>6
  <2> HIDE DEF h
  <2>8. h[0] = a
    BY <2>1, <2>2, <2>3
  <2>9. ASSUME NEW j \in 1..m PROVE h[j] = g[j][h[j - 1]]
    <3>1. j - 1 \in 0..p /\ h[j - 1] = f[j - 1]
      BY <2>1, <2>3
    <3>2. CASE j = m
      BY <2>1, <2>5, <3>1, <3>2
    <3>3. CASE j # m
      <4>1. j \in 1..p /\ j \in 0..p
        BY <2>1, <3>3
      <4> QED
        BY <2>2, <2>3, <3>1, <4>1
    <3> QED
      BY <3>2, <3>3
  <2>10. Upto(m)
    BY <2>7, <2>8, <2>9
  <2>11. m \in 0..n
    BY <2>1
  <2> HIDE DEF Upto
  <2> QED
    BY <2>10, <2>11
<1>3. n \in 0..n
  OBVIOUS
<1> HIDE DEF Upto
<1>4. n \in S
  <2> HIDE DEF S
  <2> QED
    BY <1>1, <1>2, <1>3, IntervalInduction
<1>5. Upto(n)
  BY <1>4
<1> QED
  BY <1>5 DEF Upto

\* The same, quantified.
LEMMA RecursionFrom ==
    \A V : \A m \in Nat : \A a \in V : \A h \in [1..m -> [V -> V]] :
        \E f \in [0..m -> V] : f[0] = a /\ \A j \in 1..m : f[j] = h[j][f[j - 1]]
BY Recursion

\* As many values as arguments, where no two arguments share one.
LEMMA SameSize ==
    ASSUME NEW S, IsFiniteSet(S), NEW g, \A j, k \in S : g[j] = g[k] => j = k
    PROVE  /\ IsFiniteSet({g[k] : k \in S})
           /\ Cardinality({g[k] : k \in S}) = Cardinality(S)
<1> DEFINE T == {g[k] : k \in S}
           h == [k \in S |-> g[k]]
<1>1. h \in [S -> T] /\ \A t \in T : \E k \in S : h[k] = t
  OBVIOUS
<1>2. h \in Injection(S, T)
  BY <1>1 DEF Injection, IsInjective
<1>3. h \in Surjection(S, T)
  BY <1>1 DEF Surjection
<1>4. ExistsBijection(S, T)
  BY <1>2, <1>3 DEF ExistsBijection, Bijection
<1> QED
  BY <1>4, FS_Bijection

-----------------------------------------------------------------------------
(* InOrder.                                                                *)

\* Nothing is listed of no position.
LEMMA InOrderEmpty ==
    ASSUME NEW f
    PROVE  InOrder(<<>>, {}, f)
BY FS_EmptySet DEF InOrder

\* A later position comes after all the others and leaves their ranks alone.
LEMMA RankAdd ==
    ASSUME NEW S \in SUBSET Nat, IsFiniteSet(S), NEW i \in Nat, \A j \in S : j < i
    PROVE  /\ IsFiniteSet(S \cup {i})
           /\ Cardinality(S) \in Nat /\ Cardinality(S \cup {i}) = Cardinality(S) + 1
           /\ Rank(S \cup {i}, i) = Cardinality(S) + 1
           /\ \A k \in S : /\ Rank(S \cup {i}, k) = Rank(S, k)
                           /\ Rank(S, k) \in 1..Cardinality(S)
<1>1. i \notin S
  OBVIOUS
<1>2. /\ IsFiniteSet(S \cup {i})
      /\ Cardinality(S) \in Nat /\ Cardinality(S \cup {i}) = Cardinality(S) + 1
  BY <1>1, FS_AddElement, FS_CardinalityType
<1>3. Rank(S \cup {i}, i) = Cardinality(S) + 1
  <2>1. \A j \in S \cup {i} : j <= i
    OBVIOUS
  <2>2. {j \in S \cup {i} : j <= i} = S \cup {i}
    BY <2>1
  <2> QED
    BY <1>2, <2>2 DEF Rank
<1>4. ASSUME NEW k \in S
      PROVE  Rank(S \cup {i}, k) = Rank(S, k) /\ Rank(S, k) \in 1..Cardinality(S)
  <2>1. Rank(S \cup {i}, k) = Rank(S, k)
    <3>1. {j \in S \cup {i} : j <= k} = {j \in S : j <= k}
      OBVIOUS
    <3> QED
      BY <3>1 DEF Rank
  <2>2. /\ IsFiniteSet({j \in S : j <= k})
        /\ Cardinality({j \in S : j <= k}) <= Cardinality(S)
    BY FS_Subset
  <2>3. Cardinality({j \in S : j <= k}) \in Nat \ {0}
    <3>1. k \in {j \in S : j <= k}
      OBVIOUS
    <3>2. {j \in S : j <= k} # {}
      BY <3>1
    <3> QED
      BY <2>2, <3>2, FS_CardinalityType, FS_EmptySet
  <2> QED
    BY <1>2, <2>1, <2>2, <2>3 DEF Rank
<1> QED
  BY <1>2, <1>3, <1>4

\* In an interval from one a position is its own rank.
LEMMA RankInterval ==
    ASSUME NEW n \in Nat
    PROVE  /\ IsFiniteSet(1..n) /\ Cardinality(1..n) = n
           /\ \A k \in 1..n : Rank(1..n, k) = k
<1>1. \A m \in Nat : IsFiniteSet(1..m) /\ Cardinality(1..m) = m
  <2>1. SUFFICES ASSUME NEW m \in Nat PROVE IsFiniteSet(1..m) /\ Cardinality(1..m) = m
    OBVIOUS
  <2>2. /\ IsFiniteSet(1..m)
        /\ Cardinality(1..m) = IF 1 > m THEN 0 ELSE m - 1 + 1
    BY FS_Interval
  <2> QED
    BY <2>2
<1>2. ASSUME NEW k \in 1..n PROVE Rank(1..n, k) = k
  <2>1. {j \in 1..n : j <= k} = 1..k
    OBVIOUS
  <2>2. Rank(1..n, k) = Cardinality(1..k)
    BY <2>1 DEF Rank
  <2>3. k \in Nat
    OBVIOUS
  <2> QED
    BY <1>1, <2>2, <2>3
<1> QED
  BY <1>1, <1>2

\* A later position adds its entry at the end.
LEMMA InOrderAppend ==
    ASSUME NEW S \in SUBSET Nat, IsFiniteSet(S), NEW i \in Nat, \A j \in S : j < i,
           NEW A, NEW out \in Seq(A), NEW f, InOrder(out, S, f), NEW e \in A, e = f[i]
    PROVE  /\ InOrder(Append(out, e), S \cup {i}, f)
           /\ Len(out) = Cardinality(S)
<1>1. /\ Cardinality(S) \in Nat /\ Cardinality(S \cup {i}) = Cardinality(S) + 1
      /\ Rank(S \cup {i}, i) = Cardinality(S) + 1
      /\ \A k \in S : /\ Rank(S \cup {i}, k) = Rank(S, k)
                      /\ Rank(S, k) \in 1..Cardinality(S)
  BY RankAdd
<1>2. Len(out) = Cardinality(S)
  BY <1>1 DEF InOrder
<1>3. ASSUME NEW k \in S
      PROVE  Append(out, e)[Rank(S \cup {i}, k)] = f[k]
  <2>1. Rank(S, k) \in 1..Len(out) /\ Rank(S \cup {i}, k) = Rank(S, k)
    BY <1>1, <1>2
  <2>2. Append(out, e)[Rank(S, k)] = out[Rank(S, k)]
    BY <2>1
  <2> QED
    BY <2>1, <2>2 DEF InOrder
<1>4. Append(out, e)[Rank(S \cup {i}, i)] = f[i]
  BY <1>1, <1>2
<1>5. DOMAIN Append(out, e) = 1..Cardinality(S \cup {i})
  BY <1>1, <1>2
<1> QED
  BY <1>2, <1>3, <1>4, <1>5 DEF InOrder

\* All of a sequence, selected, is the sequence.
LEMMA SelectedAll ==
    ASSUME NEW n \in Nat, NEW f
    PROVE  Selected(1..n, f) = [r \in 1..n |-> f[r]]
<1>1. ASSUME NEW r \in 1..n PROVE (CHOOSE k \in 1..n : Rank(1..n, k) = r) = r
  <2>1. \A k \in 1..n : Rank(1..n, k) = k
    BY RankInterval
  <2> QED
    BY <2>1
<1>2. Cardinality(1..n) = n
  BY RankInterval
<1>3. Selected(1..n, f) = [r \in 1..n |-> f[CHOOSE k \in 1..n : Rank(1..n, k) = r]]
  BY <1>2 DEF Selected
<1>4. \A r \in 1..n : f[CHOOSE k \in 1..n : Rank(1..n, k) = r] = f[r]
  BY <1>1
<1> QED
  BY <1>3, <1>4

\* The values of a function on a finite set are finitely many.
LEMMA FiniteImage ==
    ASSUME NEW S, IsFiniteSet(S), NEW g
    PROVE  IsFiniteSet({g[k] : k \in S})
<1> DEFINE T == {g[k] : k \in S}
           h == [k \in S |-> g[k]]
<1>1. h \in [S -> T] /\ \A t \in T : \E k \in S : h[k] = t
  OBVIOUS
<1>2. h \in Surjection(S, T)
  BY <1>1 DEF Surjection
<1> QED
  BY <1>2, FS_Surjection

\* How many of the first t values of g are w, and that n values after those are all v.
CountOf(g, t, w) == Cardinality({x \in 1..t : g[x] = w})
Repeats(g, t, n, v) == \A i \in 1..n : g[t + i] = v

\* Values that follow, all the same, count for that value alone.
LEMMA CountAdd ==
    ASSUME NEW t \in Nat, NEW n \in Nat, NEW g, NEW v, Repeats(g, t, n, v), NEW w
    PROVE  /\ CountOf(g, t, w) \in Nat
           /\ CountOf(g, t + n, w) = CountOf(g, t, w) + IF v = w THEN n ELSE 0
<1> USE DEF CountOf, Repeats
<1> DEFINE A == {x \in 1..t : g[x] = w}
           B == {x \in 1..(t + n) : g[x] = w}
           C == (t + 1)..(t + n)
<1>1. IsFiniteSet(1..t)
  BY RankInterval
<1>2. IsFiniteSet(A) /\ Cardinality(A) \in Nat
  <2>1. A \in SUBSET (1..t)
    OBVIOUS
  <2> QED
    BY <1>1, <2>1, FS_Subset, FS_CardinalityType
<1>3. \A x \in C : g[x] = v
  <2>1. SUFFICES ASSUME NEW x \in C PROVE g[x] = v
    OBVIOUS
  <2>2. x - t \in 1..n /\ t + (x - t) = x
    OBVIOUS
  <2> QED
    BY <2>2
<1>4. \A x : x \in 1..(t + n) <=> x \in 1..t \/ x \in C
  OBVIOUS
<1>5. (1..t) \cap C = {}
  OBVIOUS
<1>6. IsFiniteSet(C) /\ Cardinality(C) = n
  <2>1. t + 1 \in Int /\ t + n \in Int
    OBVIOUS
  <2>2. IsFiniteSet(C) /\ Cardinality(C) = IF t + 1 > t + n THEN 0 ELSE t + n - (t + 1) + 1
    BY <2>1, FS_Interval
  <2> QED
    BY <2>2
<1> HIDE DEF C
<1>7. CASE v = w
  <2>1. B = A \cup C /\ A \cap C = {}
    BY <1>3, <1>4, <1>5, <1>7
  <2> HIDE DEF A, B
  <2>2. Cardinality(A \cup C) = Cardinality(A) + Cardinality(C) - Cardinality(A \cap C)
    BY <1>2, <1>6, FS_Union
  <2>3. Cardinality(A \cap C) = 0
    BY <2>1, FS_EmptySet
  <2>4. Cardinality(B) = Cardinality(A) + n
    BY <1>2, <1>6, <2>1, <2>2, <2>3
  <2> QED
    BY <1>2, <1>7, <2>4 DEF A, B
<1>8. CASE v # w
  <2>1. B = A
    BY <1>3, <1>4, <1>8
  <2> HIDE DEF A, B
  <2>2. Cardinality(B) = Cardinality(A) + 0
    BY <1>2, <2>1
  <2> QED
    BY <1>2, <1>8, <2>2 DEF A, B
<1> QED
  BY <1>7, <1>8

-----------------------------------------------------------------------------
(* Selected.                                                               *)

\* The ranks of a finite set of positions are the numbers up to its size, each once.
LEMMA RankOnto ==
    ASSUME NEW S \in SUBSET Nat, IsFiniteSet(S)
    PROVE  /\ Cardinality(S) \in Nat
           /\ \A i \in S : Rank(S, i) \in 1..Cardinality(S)
           /\ \A i, j \in S : Rank(S, i) = Rank(S, j) => i = j
           /\ \A r \in 1..Cardinality(S) : \E i \in S : Rank(S, i) = r
<1>1. Cardinality(S) \in Nat
  BY FS_CardinalityType
<1> DEFINE Upto(i) == {j \in S : j <= i}
<1>2. \A i \in S : /\ IsFiniteSet(Upto(i)) /\ Cardinality(Upto(i)) \in 1..Cardinality(S)
  <2>1. SUFFICES ASSUME NEW i \in S
                 PROVE  IsFiniteSet(Upto(i)) /\ Cardinality(Upto(i)) \in 1..Cardinality(S)
    OBVIOUS
  <2>2. IsFiniteSet(Upto(i)) /\ Cardinality(Upto(i)) <= Cardinality(S)
    BY FS_Subset
  <2>3. i \in Upto(i)
    OBVIOUS
  <2>4. Cardinality(Upto(i)) \in Nat /\ Cardinality(Upto(i)) # 0
    BY <2>2, <2>3, FS_CardinalityType, FS_EmptySet
  <2> QED
    BY <1>1, <2>2, <2>4
<1>3. \A i, j \in S : i < j => Cardinality(Upto(i)) < Cardinality(Upto(j))
  <2>1. SUFFICES ASSUME NEW i \in S, NEW j \in S, i < j
                 PROVE  Cardinality(Upto(i)) < Cardinality(Upto(j))
    OBVIOUS
  <2>2. Upto(i) \in SUBSET Upto(j) /\ j \in Upto(j) /\ j \notin Upto(i)
    <3>1. i \in Nat /\ j \in Nat /\ (\A k \in S : k \in Nat) /\ i < j
      BY <2>1
    <3>2. \A k \in S : k <= i => k <= j
      BY <3>1
    <3>3. j <= j /\ ~(j <= i)
      BY <3>1
    <3> QED
      BY <3>2, <3>3
  <2>3. IsFiniteSet(Upto(j)) /\ Upto(i) # Upto(j)
    BY <1>2, <2>2
  <2> HIDE DEF Upto
  <2>4. Cardinality(Upto(i)) <= Cardinality(Upto(j))
        /\ (Cardinality(Upto(i)) = Cardinality(Upto(j)) => Upto(i) = Upto(j))
    BY <2>2, <2>3, FS_Subset
  <2>5. Cardinality(Upto(i)) \in Nat /\ Cardinality(Upto(j)) \in Nat
    BY <1>1, <1>2
  <2> QED
    BY <2>3, <2>4, <2>5
<1>4. \A i \in S : Rank(S, i) = Cardinality(Upto(i))
  BY DEF Rank
<1> HIDE DEF Upto
<1>5. \A i \in S : Rank(S, i) \in 1..Cardinality(S)
  BY <1>2, <1>4
<1>6. \A i, j \in S : Rank(S, i) = Rank(S, j) => i = j
  <2>1. SUFFICES ASSUME NEW i \in S, NEW j \in S, Rank(S, i) = Rank(S, j), i # j PROVE FALSE
    OBVIOUS
  <2>2. i < j \/ j < i
    BY <2>1
  <2>3. Cardinality(Upto(i)) < Cardinality(Upto(j)) \/ Cardinality(Upto(j)) < Cardinality(Upto(i))
    BY <1>3, <2>2
  <2>4. Cardinality(Upto(i)) \in Nat /\ Cardinality(Upto(j)) \in Nat
    BY <1>1, <1>2
  <2> QED
    BY <1>4, <2>1, <2>3, <2>4
<1>7. \A r \in 1..Cardinality(S) : \E i \in S : Rank(S, i) = r
  <2> DEFINE n == Cardinality(S)
             g == [i \in S |-> Rank(S, i)]
  <2>1. g \in [S -> 1..n] /\ \A i, j \in S : g[i] = g[j] => i = j
    BY <1>5, <1>6
  <2>2. g \in Injection(S, 1..n)
    BY <2>1 DEF Injection, IsInjective
  <2>3. IsFiniteSet(1..n) /\ Cardinality(1..n) = n
    BY <1>1, RankInterval
  <2>4. g \in Surjection(S, 1..n)
    BY <2>2, <2>3, FS_Injection
  <2> QED
    BY <2>4 DEF Surjection
<1> QED
  BY <1>1, <1>5, <1>6, <1>7

\* What is selected is what was asked for.
LEMMA SelectedHolds ==
    ASSUME NEW S \in SUBSET Nat, IsFiniteSet(S), NEW f
    PROVE  /\ Cardinality(S) \in Nat
           /\ Selected(S, f) \in [1..Cardinality(S) -> {f[i] : i \in S}]
           /\ \A i \in S : \E r \in 1..Cardinality(S) : Selected(S, f)[r] = f[i]
<1> DEFINE At(r) == CHOOSE i \in S : Rank(S, i) = r
<1>1. /\ Cardinality(S) \in Nat
      /\ \A i \in S : Rank(S, i) \in 1..Cardinality(S)
      /\ \A i, j \in S : Rank(S, i) = Rank(S, j) => i = j
      /\ \A r \in 1..Cardinality(S) : \E i \in S : Rank(S, i) = r
  BY RankOnto
<1>2. \A r \in 1..Cardinality(S) : At(r) \in S /\ Rank(S, At(r)) = r
  BY <1>1
<1>3. Selected(S, f) = [r \in 1..Cardinality(S) |-> f[At(r)]]
  BY DEF Selected
<1> HIDE DEF At
<1>4. \A i \in S : At(Rank(S, i)) = i
  BY <1>1, <1>2
<1> QED
  BY <1>1, <1>2, <1>3, <1>4

-----------------------------------------------------------------------------
(* Joined.                                                                 *)

\* Where sequences that follow each other end.
LEMMA EndsIs ==
    ASSUME NEW A, NEW ss \in Seq(Seq(A))
    PROVE  /\ Ends(ss) \in [0..Len(ss) -> Nat] /\ Ends(ss)[0] = 0
           /\ \A k \in 1..Len(ss) : Ends(ss)[k] = Ends(ss)[k - 1] + Len(ss[k])
<1> DEFINE n == Len(ss)
           g == [k \in 1..n |-> [v \in Nat |-> v + Len(ss[k])]]
           E(f) == [k \in 0..n |-> IF k = 0 THEN 0 ELSE f[k - 1] + Len(ss[k])]
<1>1. n \in Nat /\ \A k \in 1..n : Len(ss[k]) \in Nat
  OBVIOUS
<1>2. g \in [1..n -> [Nat -> Nat]]
  BY <1>1
<1>3. PICK f \in [0..n -> Nat] : f[0] = 0 /\ \A j \in 1..n : f[j] = g[j][f[j - 1]]
  <2> DEFINE Rec(V, m, a, h) ==
                 \E f \in [0..m -> V] : f[0] = a /\ \A j \in 1..m : f[j] = h[j][f[j - 1]]
  <2>1. \A V : \A m \in Nat : \A a \in V : \A h \in [1..m -> [V -> V]] : Rec(V, m, a, h)
    BY RecursionFrom, Zenon
  <2>2. 0 \in Nat
    OBVIOUS
  <2> HIDE DEF g, n, Rec
  <2>3. \A h \in [1..n -> [Nat -> Nat]] : Rec(Nat, n, 0, h)
    BY <1>1, <2>1, <2>2, Zenon
  <2> QED
    BY <1>2, <2>3, Zenon DEF Rec
<1>4. \A j \in 1..n : j - 1 \in 0..n /\ j \in 0..n /\ f[j - 1] \in Nat
  <2> HIDE DEF g, n
  <2>1. \A j \in 1..n : j - 1 \in 0..n /\ j \in 0..n
    BY <1>1
  <2> QED
    BY <1>3, <2>1
<1>5. \A j \in 1..n : f[j] = f[j - 1] + Len(ss[j])
  BY <1>3, <1>4
<1>6. \A k \in 0..n : k = 0 \/ k \in 1..n
  BY <1>1
<1>7. f = E(f)
  BY <1>3, <1>5, <1>6
<1>8. Ends(ss) = CHOOSE h : h = E(h)
  BY Zenon DEF Ends
<1>9. Ends(ss) = E(Ends(ss))
  <2> HIDE DEF E
  <2> QED
    BY <1>7, <1>8
<1> DEFINE e == Ends(ss)
<1>10. e = E(e)
  BY <1>9
<1> HIDE DEF e
<1>11. DOMAIN e = 0..n /\ \A k \in 0..n : e[k] = IF k = 0 THEN 0 ELSE e[k - 1] + Len(ss[k])
  BY <1>10, Zenon
<1>12. e[0] = 0 /\ \A k \in 1..n : e[k] = e[k - 1] + Len(ss[k])
  BY <1>1, <1>11
<1>13. \A k \in 0..n : e[k] \in Nat
  <2> DEFINE S == {k \in 0..n : e[k] \in Nat}
  <2>1. 0 \in S
    BY <1>1, <1>12
  <2>2. ASSUME NEW k \in 0..n, k < n, k \in S PROVE k + 1 \in S
    <3>1. k + 1 \in 1..n /\ k + 1 - 1 = k /\ k + 1 \in 0..n
      BY <1>1, <2>2
    <3>2. e[k + 1] = e[k] + Len(ss[k + 1])
      BY <1>12, <3>1
    <3> QED
      BY <1>1, <2>2, <3>1, <3>2
  <2> HIDE DEF S, n
  <2>3. \A k \in 0..n : k \in S
    BY <1>1, <2>1, <2>2, IntervalInduction
  <2> QED
    BY <2>3 DEF S
<1>14. e = [k \in 0..n |-> e[k]]
  <2> DEFINE b(k) == IF k = 0 THEN 0 ELSE e[k - 1] + Len(ss[k])
  <2>1. e = [k \in 0..n |-> b(k)] /\ \A k \in 0..n : e[k] = b(k)
    BY <1>10, <1>11, Zenon
  <2> HIDE DEF b
  <2> QED
    BY <2>1
<1>15. e \in [0..n -> Nat]
  BY <1>13, <1>14
<1> QED
  BY <1>12, <1>15 DEF e

\* The ends do not go back.
LEMMA EndsGrow ==
    ASSUME NEW A, NEW ss \in Seq(Seq(A)), NEW j \in 0..Len(ss), NEW k \in 0..Len(ss), j <= k
    PROVE  Ends(ss)[j] <= Ends(ss)[k]
<1> DEFINE n == Len(ss)
           e == Ends(ss)
           S == {m \in 0..n : j <= m => e[j] <= e[m]}
<1>1. /\ e \in [0..n -> Nat] /\ e[0] = 0 /\ n \in Nat
      /\ \A m \in 1..n : e[m] = e[m - 1] + Len(ss[m]) /\ Len(ss[m]) \in Nat
  BY EndsIs
<1> HIDE DEF e, n
<1>2. j \in 0..n /\ k \in 0..n
  BY DEF n
<1>3. 0 \in S
  <2>1. e[j] \in Nat
    BY <1>1, <1>2
  <2> QED
    BY <1>1, <1>2, <2>1
<1>4. ASSUME NEW m \in 0..n, m < n, m \in S PROVE m + 1 \in S
  <2>1. m + 1 \in 1..n /\ (m + 1) - 1 = m /\ m + 1 \in 0..n
    BY <1>1, <1>4
  <2>2. e[m + 1] = e[m] + Len(ss[m + 1]) /\ Len(ss[m + 1]) \in Nat
    BY <1>1, <2>1
  <2>3. e[m] \in Nat /\ e[m + 1] \in Nat /\ e[j] \in Nat
    BY <1>1, <1>2, <2>1
  <2>4. CASE j <= m
    BY <1>4, <2>1, <2>2, <2>3, <2>4
  <2>5. CASE j = m + 1
    BY <2>1, <2>3, <2>5
  <2>6. CASE ~(j <= m + 1)
    BY <2>1, <2>6
  <2> QED
    BY <1>2, <2>4, <2>5, <2>6
<1> HIDE DEF S
<1>5. \A m \in 0..n : m \in S
  BY <1>1, <1>3, <1>4, IntervalInduction
<1>6. k \in S
  BY <1>2, <1>5
<1> QED
  BY <1>6 DEF S, e

\* What stands where when sequences follow each other.
LEMMA JoinedIs ==
    ASSUME NEW A, NEW ss \in Seq(Seq(A))
    PROVE  /\ Ends(ss)[Len(ss)] \in Nat
           /\ Joined(ss) \in [1..Ends(ss)[Len(ss)] -> A]
           /\ \A k \in 1..Len(ss) : \A i \in 1..Len(ss[k]) :
                 /\ Ends(ss)[k - 1] + i \in 1..Ends(ss)[Len(ss)]
                 /\ Joined(ss)[Ends(ss)[k - 1] + i] = ss[k][i]
           /\ \A x \in 1..Ends(ss)[Len(ss)] :
                 \E k \in 1..Len(ss) : \E i \in 1..Len(ss[k]) : x = Ends(ss)[k - 1] + i
<1> DEFINE n == Len(ss)
           e == Ends(ss)
           J == Joined(ss)
           Of(x, k) == e[k - 1] < x /\ x <= e[k]
           At(x) == CHOOSE k \in 1..n : Of(x, k)
<1>1. /\ e \in [0..n -> Nat] /\ e[0] = 0 /\ n \in Nat
      /\ \A k \in 1..n : e[k] = e[k - 1] + Len(ss[k]) /\ Len(ss[k]) \in Nat
  BY EndsIs
<1>2. \A j, k \in 0..n : j <= k => e[j] <= e[k]
  BY EndsGrow
<1>3. \A k \in 1..n : ss[k] \in Seq(A) /\ \A i \in 1..Len(ss[k]) : ss[k][i] \in A
  OBVIOUS
<1>4. J = [x \in 1..e[n] |-> ss[At(x)][x - e[At(x) - 1]]]
  BY DEF Joined
<1> HIDE DEF e, n, J, At
<1>5. \A k \in 1..n : k \in 0..n /\ k - 1 \in 0..n
  BY <1>1
<1>6. e[n] \in Nat /\ \A k \in 1..n : e[k] \in Nat /\ e[k - 1] \in Nat
  <2>1. n \in 0..n
    BY <1>1
  <2> QED
    BY <1>1, <1>5, <2>1
<1>7. ASSUME NEW x \in 1..e[n] PROVE \E k \in 1..n : Of(x, k)
  <2> DEFINE S == {k \in 0..n : x <= e[k]}
  <2>1. n \in S
    BY <1>1, <1>6
  <2>2. S \in SUBSET Nat
    BY <1>1
  <2> HIDE DEF S
  <2>3. PICK k \in S : \A j \in S : k <= j
    BY <2>1, <2>2, LeastElement
  <2>4. k \in 0..n /\ x <= e[k]
    BY <2>3 DEF S
  <2>5. k # 0
    BY <1>1, <1>6, <2>4
  <2>6. k \in 1..n
    BY <1>1, <2>4, <2>5
  <2>7. k - 1 \notin S
    BY <2>3, <2>6
  <2>8. ~(x <= e[k - 1])
    BY <1>5, <2>6, <2>7 DEF S
  <2>9. e[k - 1] < x
    BY <1>6, <2>6, <2>8
  <2> QED
    BY <2>4, <2>6, <2>9
<1>8. ASSUME NEW x \in 1..e[n], NEW j \in 1..n, NEW k \in 1..n, Of(x, j), Of(x, k) PROVE j = k
  <2>1. \A a, b \in 1..n : a < b => e[a] <= e[b - 1]
    <3>1. ASSUME NEW a \in 1..n, NEW b \in 1..n, a < b PROVE e[a] <= e[b - 1]
      <4>1. a <= b - 1 /\ a \in 0..n /\ b - 1 \in 0..n
        BY <1>1, <3>1
      <4> QED
        BY <1>2, <4>1
    <3> QED
      BY <3>1
  <2>2. ~(j < k)
    <3>1. j < k => e[j] <= e[k - 1]
      BY <2>1
    <3> QED
      BY <1>6, <1>8, <3>1
  <2>3. ~(k < j)
    <3>1. k < j => e[k] <= e[j - 1]
      BY <2>1
    <3> QED
      BY <1>6, <1>8, <3>1
  <2> QED
    BY <1>1, <2>2, <2>3
<1>9. ASSUME NEW x \in 1..e[n] PROVE At(x) \in 1..n /\ Of(x, At(x))
  BY <1>7 DEF At
<1>10. ASSUME NEW k \in 1..n, NEW i \in 1..Len(ss[k])
       PROVE  e[k - 1] + i \in 1..e[n] /\ J[e[k - 1] + i] = ss[k][i]
  <2> DEFINE x == e[k - 1] + i
  <2>1. e[k] <= e[n]
    <3>1. k \in 0..n /\ n \in 0..n /\ k <= n
      BY <1>1
    <3> QED
      BY <1>2, <3>1
  <2>2. e[k] = e[k - 1] + Len(ss[k]) /\ Len(ss[k]) \in Nat /\ e[k] \in Nat /\ e[k - 1] \in Nat
    BY <1>1, <1>6
  <2>3. x \in 1..e[n] /\ Of(x, k) /\ x - e[k - 1] = i
    <3> DEFINE a == e[k - 1]
               b == e[k]
               l == Len(ss[k])
               z == e[n]
    <3>1. a \in Nat /\ b \in Nat /\ z \in Nat /\ l \in Nat /\ b = a + l /\ b <= z /\ i \in 1..l
      BY <1>6, <2>1, <2>2
    <3> HIDE DEF a, b, l, z
    <3>2. a + i \in 1..z /\ a < a + i /\ a + i <= b /\ (a + i) - a = i
      BY <3>1
    <3> QED
      BY <3>2 DEF a, b, z
  <2> HIDE DEF x, Of
  <2>4. At(x) = k
    BY <1>8, <1>9, <2>3
  <2>5. J[x] = ss[k][i]
    BY <1>4, <2>3, <2>4
  <2> QED
    BY <2>3, <2>5 DEF x
<1>11. ASSUME NEW x \in 1..e[n]
       PROVE  \E k \in 1..n : \E i \in 1..Len(ss[k]) : x = e[k - 1] + i
  <2>1. PICK k \in 1..n : Of(x, k)
    BY <1>7
  <2>2. e[k] = e[k - 1] + Len(ss[k]) /\ Len(ss[k]) \in Nat /\ e[k] \in Nat /\ e[k - 1] \in Nat
    BY <1>1, <1>6
  <2> DEFINE a == e[k - 1]
             b == e[k]
             l == Len(ss[k])
             z == e[n]
  <2>3. a \in Nat /\ b \in Nat /\ l \in Nat /\ z \in Nat /\ b = a + l /\ x \in 1..z /\ a < x /\ x <= b
    BY <1>6, <2>1, <2>2
  <2> HIDE DEF a, b, l, z
  <2>4. x - a \in 1..l /\ x = a + (x - a)
    BY <2>3
  <2> QED
    BY <2>4 DEF a, l
<1>12. ASSUME NEW x \in 1..e[n] PROVE J[x] \in A
  <2>1. PICK k \in 1..n : \E i \in 1..Len(ss[k]) : x = e[k - 1] + i
    BY <1>11
  <2>2. PICK i \in 1..Len(ss[k]) : x = e[k - 1] + i
    BY <2>1
  <2> QED
    BY <1>3, <1>10, <2>2
<1>13. J \in [1..e[n] -> A]
  BY <1>4, <1>12
<1> QED
  BY <1>6, <1>10, <1>11, <1>13 DEF e, n, J

\* A later position has a greater rank, in the same set.
LEMMA RankGrows ==
    ASSUME NEW S \in SUBSET Nat, IsFiniteSet(S), NEW i \in S, NEW j \in S, i < j
    PROVE  Rank(S, i) < Rank(S, j)
<1> DEFINE A == {k \in S : k <= i}
           B == {k \in S : k <= j}
<1>1. IsFiniteSet(B)
  BY FS_Subset, B \subseteq S, Zenon
<1>2. i \in Nat /\ j \in Nat
  OBVIOUS
<1>3. j <= j /\ ~(j <= i) /\ \A k \in S : k \in Nat /\ (k <= i => k <= j)
  BY <1>2
<1>4. A \subseteq B /\ j \in B /\ j \notin A
  BY <1>3, Zenon
<1>5. IsFiniteSet(B) /\ A \subseteq B /\ j \in B /\ j \notin A
  BY <1>1, <1>4
<1>6. IsFiniteSet(A) /\ Cardinality(A) <= Cardinality(B) /\ (Cardinality(A) = Cardinality(B) => A = B)
  BY <1>5, FS_Subset, Zenon
<1>7. Cardinality(A) \in Nat /\ Cardinality(B) \in Nat
  BY <1>5, <1>6, FS_CardinalityType
<1>8. A # B
  BY <1>5
<1> HIDE DEF A, B
<1>9. Cardinality(A) < Cardinality(B)
  BY <1>6, <1>7, <1>8
<1> QED
  BY <1>9 DEF A, B, Rank

\* What is selected of a position stands at its rank.
LEMMA SelectedAt ==
    ASSUME NEW S \in SUBSET Nat, IsFiniteSet(S), NEW f
    PROVE  /\ Cardinality(S) \in Nat /\ DOMAIN Selected(S, f) = 1..Cardinality(S)
           /\ \A i \in S : Rank(S, i) \in 1..Cardinality(S) /\ Selected(S, f)[Rank(S, i)] = f[i]
           /\ \A r \in 1..Cardinality(S) : \E i \in S : Rank(S, i) = r /\ Selected(S, f)[r] = f[i]
<1>1. /\ Cardinality(S) \in Nat
      /\ \A i \in S : Rank(S, i) \in 1..Cardinality(S)
      /\ \A i, j \in S : Rank(S, i) = Rank(S, j) => i = j
      /\ \A r \in 1..Cardinality(S) : \E i \in S : Rank(S, i) = r
  BY RankOnto, Zenon
<1>2. ASSUME NEW i \in S
      PROVE  Selected(S, f)[Rank(S, i)] = f[i]
  <2> DEFINE j == CHOOSE j \in S : Rank(S, j) = Rank(S, i)
  <2>1. j \in S /\ Rank(S, j) = Rank(S, i)
    OBVIOUS
  <2>2. j = i
    BY <2>1, <1>1
  <2>3. Selected(S, f)[Rank(S, i)] = f[j]
    BY <1>1 DEF Selected
  <2> QED
    BY <2>2, <2>3
<1> QED
  BY <1>1, <1>2 DEF Selected

\* The positions e gives those of S.
Images(e, S) == {e[i] : i \in S}

\* Selecting by positions that grow is selecting what stands at them.
LEMMA SelectedImage ==
    ASSUME NEW S \in SUBSET Nat, IsFiniteSet(S), NEW e, \A i \in S : e[i] \in Nat,
           \A i, j \in S : i < j => e[i] < e[j],
           NEW f, NEW g, \A i \in S : g[i] = f[e[i]]
    PROVE  Selected(Images(e, S), f) = Selected(S, g)
<1> DEFINE R == {e[i] : i \in S}
<1>1. \A i, j \in S : e[i] = e[j] => i = j
  <2> SUFFICES ASSUME NEW i \in S, NEW j \in S, i # j
               PROVE  e[i] # e[j]
    OBVIOUS
  <2>1. i < j \/ j < i
    BY i \in Nat, j \in Nat
  <2>2. e[i] \in Nat /\ e[j] \in Nat /\ (e[i] < e[j] \/ e[j] < e[i])
    BY <2>1
  <2> HIDE DEF R
  <2> QED
    BY <2>2
<1>5. IsFiniteSet({e[i] : i \in S}) /\ Cardinality({e[i] : i \in S}) = Cardinality(S)
  BY ONLY IsFiniteSet(S), <1>1, SameSize
<1>2. R \in SUBSET Nat /\ IsFiniteSet(R) /\ Cardinality(R) = Cardinality(S)
  BY <1>5
<1>3. ASSUME NEW i \in S
      PROVE  Rank(R, e[i]) = Rank(S, i)
  <2> DEFINE T == {k \in S : k <= i}
  <2>1. \A k \in S : k <= i <=> e[k] <= e[i]
    <3> SUFFICES ASSUME NEW k \in S
                 PROVE  k <= i <=> e[k] <= e[i]
      OBVIOUS
    <3>1. k \in Nat /\ i \in Nat /\ e[k] \in Nat /\ e[i] \in Nat
      OBVIOUS
    <3>2. (k < i => e[k] < e[i]) /\ (i < k => e[i] < e[k]) /\ (k = i => e[k] = e[i])
      OBVIOUS
    <3> QED
      BY ONLY <3>1, <3>2
  <2>2. {y \in R : y <= e[i]} = {e[k] : k \in T}
    BY <2>1
  <2>3. IsFiniteSet(T) /\ \A j, k \in T : e[j] = e[k] => j = k
    BY <1>1, FS_Subset
  <2>4. Cardinality({e[k] : k \in T}) = Cardinality(T)
    <3> HIDE DEF T
    <3> QED
      BY ONLY <2>3, SameSize
  <2> QED
    BY <2>2, <2>4 DEF Rank
<1>4. ASSUME NEW r \in 1..Cardinality(S)
      PROVE  Selected(R, f)[r] = Selected(S, g)[r]
  <2>1. PICK i \in S : Rank(S, i) = r /\ Selected(S, g)[r] = g[i]
    BY SelectedAt
  <2>2. e[i] \in R /\ Selected(R, f)[Rank(R, e[i])] = f[e[i]]
    <3> HIDE DEF R
    <3>1. \A y \in R : Selected(R, f)[Rank(R, y)] = f[y]
      BY ONLY <1>2, SelectedAt
    <3>2. e[i] \in R
      BY DEF R
    <3> QED
      BY <3>1, <3>2
  <2> QED
    BY <2>1, <2>2, <1>3
<1>6. Images(e, S) = R
  BY DEF Images
<1> HIDE DEF R
<1> QED
  BY <1>2, <1>4, <1>6 DEF Selected

\* Selecting twice is selecting once.
LEMMA SelectedTwice ==
    ASSUME NEW S \in SUBSET Nat, IsFiniteSet(S), NEW T \in SUBSET S, NEW f
    PROVE  Selected({Rank(S, i) : i \in T}, Selected(S, f)) = Selected(T, f)
<1> DEFINE e == [i \in T |-> Rank(S, i)]
           h == Selected(S, f)
<1>1. T \in SUBSET Nat /\ IsFiniteSet(T)
  BY FS_Subset
<1>2. \A i \in T : e[i] \in Nat /\ f[i] = h[e[i]]
  BY SelectedAt
<1>3. \A i, j \in T : i < j => e[i] < e[j]
  BY RankGrows
<1>4. {Rank(S, i) : i \in T} = Images(e, T)
  BY DEF Images
<1> HIDE DEF e, h
<1>5. Selected(Images(e, T), h) = Selected(T, f)
  BY <1>1, <1>2, <1>3, SelectedImage
<1> QED
  BY <1>4, <1>5 DEF h

\* Selecting by a sequence of positions that grow.
LEMMA SelectedInTurn ==
    ASSUME NEW n \in Nat, NEW e, \A i \in 1..n : e[i] \in Nat,
           \A i, j \in 1..n : i < j => e[i] < e[j], NEW f
    PROVE  Selected(Images(e, 1..n), f) = [k \in 1..n |-> f[e[k]]]
<1> DEFINE g == [k \in 1..n |-> f[e[k]]]
           I == 1..n
<1>1. I \in SUBSET Nat /\ IsFiniteSet(I)
  BY RankInterval
<1>2. \A i \in I : g[i] = f[e[i]]
  OBVIOUS
<1>3. Selected(I, g) = [k \in 1..n |-> g[k]]
  BY SelectedAll
<1>4. \A i \in I : e[i] \in Nat
  OBVIOUS
<1>5. \A i, j \in I : i < j => e[i] < e[j]
  OBVIOUS
<1> HIDE DEF g, I
<1>6. Selected(Images(e, I), f) = Selected(I, g)
  BY ONLY <1>1, <1>2, <1>4, <1>5, SelectedImage
<1> QED
  BY <1>3, <1>6 DEF g, I


=============================================================================
