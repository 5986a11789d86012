---------------------------- MODULE SortingProofs ----------------------------
(***************************************************************************)
(* What Sorting returns, for every finite set and every order of it.       *)
(***************************************************************************)
EXTENDS Sorting, FiniteSetTheorems, FunctionTheorems, WellFoundedInduction, TLAPS

\* Every set of natural numbers has a least one.
LEMMA Least ==
  ASSUME NEW T \in SUBSET Nat, T # {}
  PROVE  \E m \in T : \A k \in T : m <= k
<1>1. PICK m \in T : \A k \in T : ~(<<k, m>> \in OpToRel(<, Nat))
  BY NatLessThanWellFounded, WFMin
<1>2. \A k \in T : ~(k < m)
  BY <1>1 DEF OpToRel
<1> QED  BY <1>2

\* What is counted before a place is counted before a later one, and the element besides.
LEMMA PlacesGrow ==
  ASSUME NEW S, IsFiniteSet(S), NEW before, Orders(before, S),
         NEW x \in S, NEW y \in S, <<x, y>> \in before
  PROVE  Place(x, S, before) < Place(y, S, before)
<1> DEFINE Ahead(z) == {u \in S : <<u, z>> \in before}
<1>1. Ahead(x) \cup {x} \subseteq Ahead(y) /\ x \notin Ahead(x)
  BY DEF Orders
<1>2. /\ IsFiniteSet(Ahead(x)) /\ Cardinality(Ahead(x)) \in Nat
      /\ IsFiniteSet(Ahead(y)) /\ Cardinality(Ahead(y)) \in Nat
  BY FS_Subset, FS_CardinalityType
<1>3. Cardinality(Ahead(x) \cup {x}) = Cardinality(Ahead(x)) + 1
  BY <1>1, <1>2, FS_AddElement
<1>4. Cardinality(Ahead(x) \cup {x}) <= Cardinality(Ahead(y))
  BY <1>1, <1>2, FS_Subset
<1> HIDE DEF Ahead
<1>5. Cardinality(Ahead(x)) < Cardinality(Ahead(y))
  BY <1>2, <1>3, <1>4
<1> QED  BY <1>5, <1>2 DEF Place, Ahead

\* The places of a set of n elements are the numbers from 1 to n, each taken once.
LEMMA PlacesAreTaken ==
  ASSUME NEW S, IsFiniteSet(S), NEW before, Orders(before, S)
  PROVE  /\ Cardinality(S) \in Nat
         /\ \A x \in S : Place(x, S, before) \in 1..Cardinality(S)
         /\ \A x, y \in S : Place(x, S, before) = Place(y, S, before) => x = y
         /\ \A n \in 1..Cardinality(S) : \E x \in S : Place(x, S, before) = n
<1> DEFINE N == Cardinality(S)
           place == [x \in S |-> Place(x, S, before)]
<1>1. N \in Nat
  BY FS_CardinalityType
<1>2. ASSUME NEW x \in S PROVE Place(x, S, before) \in 1..N
  <2> DEFINE ahead == {y \in S : <<y, x>> \in before}
  <2>1. ahead \subseteq S \ {x}
    BY DEF Orders
  <2>2. IsFiniteSet(S \ {x}) /\ Cardinality(S \ {x}) = N - 1
    BY FS_RemoveElement
  <2>3. Cardinality(ahead) \in Nat /\ Cardinality(ahead) <= N - 1
    <3> HIDE DEF ahead, N
    <3> QED  BY <2>1, <2>2, FS_Subset, FS_CardinalityType
  <2>4. Place(x, S, before) = 1 + Cardinality(ahead)
    BY DEF Place
  <2> HIDE DEF ahead, N
  <2> QED  BY <2>3, <2>4, <1>1
<1>3. ASSUME NEW x \in S, NEW y \in S, x # y
      PROVE  Place(x, S, before) # Place(y, S, before)
  <2>1. <<x, y>> \in before \/ <<y, x>> \in before
    BY <1>3 DEF Orders
  <2>2. Place(x, S, before) < Place(y, S, before) \/ Place(y, S, before) < Place(x, S, before)
    BY <2>1, PlacesGrow
  <2> QED  BY <2>2, <1>2, <1>1
<1>4. place \in Injection(S, 1..N)
  <2>1. place \in [S -> 1..N]
    BY <1>2
  <2>2. \A x, y \in S : place[x] = place[y] => x = y
    BY <1>3
  <2> QED  BY <2>1, <2>2 DEF Injection, IsInjective
<1>5. IsFiniteSet(1..N) /\ Cardinality(1..N) = N
  BY <1>1, FS_Interval
<1>6. place \in Surjection(S, 1..N)
  BY <1>4, <1>5, FS_Injection
<1>7. \A n \in 1..N : \E x \in S : place[x] = n
  BY <1>6 DEF Surjection
<1> QED  BY <1>1, <1>2, <1>3, <1>7

\* A sorted set is a sequence of all its elements, each at its place, in the order.
LEMMA SortedInOrder ==
  ASSUME NEW S, IsFiniteSet(S), NEW before, Orders(before, S)
  PROVE  /\ Sorted(S, before) \in Seq(S)
         /\ Len(Sorted(S, before)) = Cardinality(S)
         /\ DOMAIN Sorted(S, before) = 1..Cardinality(S)
         /\ \A n \in DOMAIN Sorted(S, before) :
              /\ Sorted(S, before)[n] \in S
              /\ Place(Sorted(S, before)[n], S, before) = n
         /\ \A x \in S : /\ Place(x, S, before) \in DOMAIN Sorted(S, before)
                         /\ Sorted(S, before)[Place(x, S, before)] = x
         /\ \A i, j \in DOMAIN Sorted(S, before) :
              i < j => <<Sorted(S, before)[i], Sorted(S, before)[j]>> \in before
<1> DEFINE N == Cardinality(S)
           s == Sorted(S, before)
           At(x) == Place(x, S, before)
<1>1. /\ N \in Nat
      /\ \A x \in S : At(x) \in 1..N
      /\ \A x, y \in S : At(x) = At(y) => x = y
      /\ \A n \in 1..N : \E x \in S : At(x) = n
  BY PlacesAreTaken
<1>2. s = [n \in 1..N |-> CHOOSE x \in S : At(x) = n]
  BY DEF Sorted
<1> HIDE DEF N, s, At
<1>3. DOMAIN s = 1..N
  BY <1>2
<1>4. ASSUME NEW n \in 1..N PROVE s[n] \in S /\ At(s[n]) = n
  BY <1>1, <1>2
<1>5. s \in [1..N -> S]
  BY <1>2, <1>4, Zenon
<1>6. s \in Seq(S) /\ Len(s) = N
  BY <1>1, <1>5
<1>7. ASSUME NEW x \in S PROVE At(x) \in 1..N /\ s[At(x)] = x
  BY <1>1, <1>4
<1>8. ASSUME NEW i \in 1..N, NEW j \in 1..N, i < j PROVE <<s[i], s[j]>> \in before
  <2>1. s[i] \in S /\ s[j] \in S /\ At(s[i]) = i /\ At(s[j]) = j
    BY <1>4
  <2>2. i \in Nat /\ j \in Nat /\ i # j
    BY <1>1, <1>8
  <2>3. s[i] # s[j]
    BY <2>1, <2>2
  <2>4. CASE <<s[j], s[i]>> \in before
    <3>1. At(s[j]) < At(s[i])
      BY <2>1, <2>4, PlacesGrow DEF At
    <3> QED  BY <3>1, <2>1, <2>2, <1>8
  <2> QED  BY <2>1, <2>3, <2>4 DEF Orders
<1> QED  BY <1>3, <1>4, <1>6, <1>7, <1>8 DEF N, s, At
=============================================================================
