--------------------------- MODULE SelectionProofs ---------------------------
(***************************************************************************)
(* What Selected returns, for every sequence and every set of places; that *)
(* a finite set can be listed in an order, in one way; and the             *)
(* least-element principle that stands in for induction over data.         *)
(***************************************************************************)
EXTENDS Selection, FiniteSetTheorems, WellFoundedInduction, TLAPS

\* Every set of natural numbers that is not empty has a least element: inclusion
\* is well-founded on the finite intervals that end at its elements.
LEMMA LeastOf ==
    ASSUME NEW S \in SUBSET Nat, S # {}
    PROVE  \E n \in S : \A m \in S : n <= m
<1> DEFINE T == {0..k : k \in S}
<1>1. T \subseteq FiniteSubsetsOf(Nat) /\ T # {}
  <2>1. \A k \in S : IsFiniteSet(0..k) /\ 0..k \in SUBSET Nat
    BY FS_Interval
  <2>2. \A k \in S : 0..k \in FiniteSubsetsOf(Nat)
    BY <2>1 DEF FiniteSubsetsOf
  <2> QED
    BY <2>2
<1>2. PICK x \in T : \A y \in T : <<y, x>> \notin StrictSubsetOrdering(Nat)
  <2> HIDE DEF T
  <2> QED
    BY <1>1, WFMin, FS_StrictSubsetOrderingWellFounded, Zenon
<1>3. PICK n \in S : x = 0..n
  OBVIOUS
<1>4. ASSUME NEW m \in S, m < n PROVE FALSE
  <2>1. n \in 0..n /\ n \notin 0..m
    BY <1>4
  <2>2. 0..m \in T /\ 0..m \subseteq 0..n /\ 0..m # 0..n /\ 0..n \subseteq Nat
    BY <1>4, <2>1
  <2> QED
    BY <1>2, <1>3, <2>2 DEF StrictSubsetOrdering
<1> QED
  BY <1>4

\* at lists the places of keep in ascending order, each once, and Selected has
\* the elements at those places.
InOrder(at, s, keep) ==
    LET N == Cardinality(keep)
    IN  /\ at \in [1..N -> keep]
        /\ \A j, k \in 1..N : j < k => at[j] < at[k]
        /\ \A k \in keep : \E j \in 1..N : at[j] = k
        /\ Selected(s, keep) = [k \in 1..N |-> s[at[k]]]

LEMMA SelectedInOrder ==
    ASSUME NEW s, NEW keep \in SUBSET Nat, IsFiniteSet(keep)
    PROVE  \E at : InOrder(at, s, keep)
<1> DEFINE N == Cardinality(keep)
           Below(k) == {j \in keep : j <= k}
           rank == [k \in keep |-> Cardinality(Below(k))]
           at == [n \in 1..N |-> CHOOSE k \in keep : Cardinality(Below(k)) = n]
<1>0. \A k \in keep : k \in Nat
  OBVIOUS
<1>1. N \in Nat
  BY FS_CardinalityType
<1>2. ASSUME NEW k \in keep
      PROVE  IsFiniteSet(Below(k)) /\ Cardinality(Below(k)) \in 1..N
  <2>1. Below(k) \in SUBSET keep
    OBVIOUS
  <2>2. IsFiniteSet(Below(k)) /\ Cardinality(Below(k)) <= N
    BY <2>1, FS_Subset
  <2>3. Cardinality(Below(k)) \in Nat
    BY <2>2, FS_CardinalityType
  <2>4. k \in Below(k)
    OBVIOUS
  <2>5. Cardinality(Below(k)) # 0
    BY <2>2, <2>4, FS_EmptySet
  <2> HIDE DEF Below
  <2> QED
    BY <1>1, <2>2, <2>3, <2>5
<1>3. ASSUME NEW j \in keep, NEW k \in keep, j < k
      PROVE  Cardinality(Below(j)) < Cardinality(Below(k))
  <2>1. Below(j) \in SUBSET Below(k)
    <3>1. \A i \in keep : i <= j => i <= k
      BY <1>0, <1>3
    <3> QED
      BY <3>1
  <2>2. k \in Below(k) /\ k \notin Below(j)
    BY <1>0, <1>3
  <2>3. /\ Cardinality(Below(j)) <= Cardinality(Below(k))
        /\ Cardinality(Below(j)) # Cardinality(Below(k))
    <3> HIDE DEF Below
    <3> QED
      BY <1>2, <2>1, <2>2, FS_Subset
  <2> HIDE DEF Below
  <2> QED
    BY <1>1, <1>2, <2>3
<1> HIDE DEF Below
<1>4. rank \in Surjection(keep, 1..N)
  <2>1. rank \in [keep -> 1..N]
    BY <1>2
  <2>2. \A j, k \in keep : rank[j] = rank[k] => j = k
    BY <1>1, <1>2, <1>3
  <2>3. rank \in Injection(keep, 1..N)
    BY <2>1, <2>2 DEF Injection, IsInjective
  <2>4. IsFiniteSet(1..N) /\ Cardinality(1..N) = N
    BY <1>1, FS_Interval
  <2> HIDE DEF rank
  <2> QED
    BY <2>3, <2>4, FS_Injection
<1>5. \A n \in 1..N : \E k \in keep : Cardinality(Below(k)) = n
  BY <1>4 DEF Surjection
<1>6. \A n \in 1..N : at[n] \in keep /\ Cardinality(Below(at[n])) = n
  BY <1>5
<1>7. at \in [1..N -> keep]
  BY <1>6
<1>8. Selected(s, keep) = [n \in 1..N |-> s[at[n]]]
  BY DEF Selected, Below
<1> HIDE DEF at
<1>9. \A m, n \in 1..N : m < n => at[m] < at[n]
  <2> SUFFICES ASSUME NEW m \in 1..N, NEW n \in 1..N, m < n, ~(at[m] < at[n])
               PROVE  FALSE
    OBVIOUS
  <2>1. at[m] \in Nat /\ at[n] \in Nat /\ at[m] \in keep /\ at[n] \in keep
    BY <1>6
  <2>2. at[m] = at[n] \/ at[n] < at[m]
    BY <2>1
  <2> QED
    BY <1>1, <1>3, <1>6, <2>1, <2>2
<1>10. \A k \in keep : \E n \in 1..N : at[n] = k
  <2> SUFFICES ASSUME NEW k \in keep PROVE \E n \in 1..N : at[n] = k
    OBVIOUS
  <2>1. PICK n \in 1..N : n = Cardinality(Below(k))
    BY <1>2
  <2>2. at[n] \in keep /\ Cardinality(Below(at[n])) = n
    BY <1>6
  <2>3. k \in Nat /\ at[n] \in Nat /\ n \in Nat
    <3>1. k \in Nat /\ at[n] \in Nat
      BY <1>0, <2>2, Zenon
    <3>2. n \in Nat
      BY <1>1
    <3> QED
      BY <3>1, <3>2
  <2>4. ~(at[n] < k)
    BY <1>3, <2>1, <2>2, <2>3
  <2>5. ~(k < at[n])
    BY <1>3, <2>1, <2>2, <2>3
  <2> QED
    BY <2>3, <2>4, <2>5
<1> HIDE DEF at, N
<1> QED
  BY <1>7, <1>8, <1>9, <1>10 DEF InOrder, N
-----------------------------------------------------------------------------
(* Finite sets in an order. *)

\* The pairs of R order S strictly and totally.
Orders(R, S) ==
    /\ \A x \in S : <<x, x>> \notin R
    /\ \A x, y, z \in S : <<x, y>> \in R /\ <<y, z>> \in R => <<x, z>> \in R
    /\ \A x, y \in S : x = y \/ <<x, y>> \in R \/ <<y, x>> \in R

\* s lists S in the order R.
Lists(s, S, R) ==
    /\ s \in [1..Cardinality(S) -> S]
    /\ \A i, j \in 1..Cardinality(S) : i < j => <<s[i], s[j]>> \in R

\* Every finite set that is ordered can be listed in that order.
LEMMA ListExists ==
    ASSUME NEW S, IsFiniteSet(S), NEW R, Orders(R, S)
    PROVE  \E s : Lists(s, S, R)
<1> DEFINE N == Cardinality(S)
           UpTo(x) == {y \in S : y = x \/ <<y, x>> \in R}
           rank == [x \in S |-> Cardinality(UpTo(x))]
           s == [n \in 1..N |-> CHOOSE x \in S : Cardinality(UpTo(x)) = n]
<1>1. N \in Nat
  BY FS_CardinalityType
<1>2. ASSUME NEW x \in S
      PROVE  IsFiniteSet(UpTo(x)) /\ Cardinality(UpTo(x)) \in 1..N
  <2>1. UpTo(x) \in SUBSET S /\ x \in UpTo(x)
    OBVIOUS
  <2> HIDE DEF UpTo
  <2>2. IsFiniteSet(UpTo(x)) /\ Cardinality(UpTo(x)) <= N
    BY <2>1, FS_Subset
  <2>3. Cardinality(UpTo(x)) \in Nat /\ Cardinality(UpTo(x)) # 0
    BY <2>1, <2>2, FS_CardinalityType, FS_EmptySet
  <2> QED
    BY <1>1, <2>2, <2>3
<1>3. ASSUME NEW x \in S, NEW y \in S, <<x, y>> \in R
      PROVE  Cardinality(UpTo(x)) < Cardinality(UpTo(y))
  <2>1. UpTo(x) \in SUBSET UpTo(y)
    BY <1>3, Zenon DEF Orders
  <2>2. y \in UpTo(y) /\ y \notin UpTo(x)
    BY <1>3, Zenon DEF Orders
  <2> HIDE DEF UpTo
  <2>3. /\ Cardinality(UpTo(x)) <= Cardinality(UpTo(y))
        /\ Cardinality(UpTo(x)) # Cardinality(UpTo(y))
    BY <1>2, <2>1, <2>2, FS_Subset
  <2> QED
    BY <1>1, <1>2, <2>3
<1> HIDE DEF UpTo
<1>4. rank \in Surjection(S, 1..N)
  <2>1. rank \in [S -> 1..N]
    BY <1>2
  <2>2. \A x, y \in S : rank[x] = rank[y] => x = y
    <3> SUFFICES ASSUME NEW x \in S, NEW y \in S, rank[x] = rank[y], x # y PROVE FALSE
      OBVIOUS
    <3>1. <<x, y>> \in R \/ <<y, x>> \in R
      BY DEF Orders
    <3>2. Cardinality(UpTo(x)) \in Nat /\ Cardinality(UpTo(x)) = Cardinality(UpTo(y))
      BY <1>1, <1>2
    <3> QED
      BY <1>3, <3>1, <3>2
  <2>3. rank \in Injection(S, 1..N)
    BY <2>1, <2>2 DEF Injection, IsInjective
  <2>4. IsFiniteSet(1..N) /\ Cardinality(1..N) = N
    BY <1>1, FS_Interval
  <2> HIDE DEF rank
  <2> QED
    BY <2>3, <2>4, FS_Injection
<1>5. \A n \in 1..N : \E x \in S : Cardinality(UpTo(x)) = n
  BY <1>4 DEF Surjection
<1>6. \A n \in 1..N : s[n] \in S /\ Cardinality(UpTo(s[n])) = n
  BY <1>5
<1>7. s \in [1..N -> S]
  BY <1>6
<1> HIDE DEF s
<1>8. \A m, n \in 1..N : m < n => <<s[m], s[n]>> \in R
  <2> SUFFICES ASSUME NEW m \in 1..N, NEW n \in 1..N, m < n
               PROVE  <<s[m], s[n]>> \in R
    OBVIOUS
  <2>1. s[m] # s[n] /\ ~(Cardinality(UpTo(s[n])) < Cardinality(UpTo(s[m])))
    BY <1>1, <1>6
  <2> QED
    BY <1>3, <1>6, <2>1 DEF Orders
<1> HIDE DEF N
<1> QED
  BY <1>7, <1>8 DEF Lists, N

\* A list in an order has every element, and each once.
LEMMA ListIsComplete ==
    ASSUME NEW S, IsFiniteSet(S), NEW R, Orders(R, S), NEW s, Lists(s, S, R)
    PROVE  \A x \in S : \E n \in 1..Cardinality(S) : s[n] = x
<1> DEFINE N == Cardinality(S)
<1>1. N \in Nat
  BY FS_CardinalityType
<1>2. \A m, n \in 1..N : s[m] = s[n] => m = n
  <2> SUFFICES ASSUME NEW m \in 1..N, NEW n \in 1..N, s[m] = s[n], m < n PROVE FALSE
    BY <1>1
  <2> QED
    BY DEF Lists, Orders
<1>3. s \in Injection(1..N, S)
  BY <1>2 DEF Lists, Injection, IsInjective
<1>4. IsFiniteSet(1..N) /\ Cardinality(1..N) = N
  BY <1>1, FS_Interval
<1> HIDE DEF N
<1>5. s \in Surjection(1..N, S)
  BY <1>3, <1>4, FS_Injection DEF N
<1> QED
  BY <1>5 DEF Surjection, N
=============================================================================
