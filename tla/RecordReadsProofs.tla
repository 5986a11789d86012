-------------------------- MODULE RecordReadsProofs --------------------------
(***************************************************************************)
(* Proofs about RecordReads and Conversations: the pages of a trace leave  *)
(* nothing out, and the list of conversations is a forest of all of them,  *)
(* for any records, readers and limits, and for any links between them.    *)
(***************************************************************************)
EXTENDS RecordReads, SortingProofs

-----------------------------------------------------------------------------
(***************************************************************************)
(* From a conversation up.                                                 *)
(***************************************************************************)

Above(x, parentOf) == IF x \in DOMAIN parentOf THEN parentOf[x].key ELSE x

\* The first steps of a walk.
WalksTo(g, n, of, parentOf) ==
  g = [i \in 0..n |-> IF i = 0 THEN of ELSE Above(g[i - 1], parentOf)]

\* There are walks of every length, and they agree as far as they go.
LEMMA WalksExist ==
  ASSUME NEW of, NEW parentOf
  PROVE  \A n \in Nat : \E g : WalksTo(g, n, of, parentOf)
<1> DEFINE T == {n \in Nat : ~\E g : WalksTo(g, n, of, parentOf)}
<1> SUFFICES ASSUME T # {} PROVE FALSE
  OBVIOUS
<1>1. PICK m \in T : \A k \in T : m <= k
  BY Least
<1>2. CASE m = 0
  <2> DEFINE g == [i \in 0..0 |-> of]
  <2>1. g = [i \in 0..0 |-> IF i = 0 THEN of ELSE Above(g[i - 1], parentOf)]
    OBVIOUS
  <2> QED  BY <2>1, <1>2 DEF WalksTo
<1>3. CASE m # 0
  <2>1. m \in Nat /\ m - 1 \in Nat /\ m - 1 < m
    BY <1>3
  <2>2. m - 1 \notin T
    BY <2>1, <1>1
  <2>3. PICK g : WalksTo(g, m - 1, of, parentOf)
    BY <2>1, <2>2
  <2> DEFINE h == [i \in 0..m |-> IF i = 0 THEN of ELSE Above(g[i - 1], parentOf)]
  <2>4. \A i \in 0..m : i # 0 => h[i - 1] = g[i - 1]
    <3> SUFFICES ASSUME NEW i \in 0..m, i # 0 PROVE h[i - 1] = g[i - 1]
      OBVIOUS
    <3>1. i - 1 \in 0..m /\ i - 1 \in 0..(m - 1)
      BY <2>1
    <3>2. h[i - 1] = IF i - 1 = 0 THEN of ELSE Above(g[(i - 1) - 1], parentOf)
      BY <3>1
    <3>3. g[i - 1] = IF i - 1 = 0 THEN of ELSE Above(g[(i - 1) - 1], parentOf)
      <4> HIDE DEF T
      <4> DEFINE j == i - 1
      <4>1. g = [k \in 0..(m - 1) |-> IF k = 0 THEN of ELSE Above(g[k - 1], parentOf)]
        BY <2>3 DEF WalksTo
      <4>2. j \in 0..(m - 1)
        BY <3>1
      <4> HIDE DEF j
      <4>3. g[j] = IF j = 0 THEN of ELSE Above(g[j - 1], parentOf)
        BY <4>1, <4>2
      <4> QED  BY <4>3 DEF j
    <3> QED  BY <3>2, <3>3
  <2>5. h = [i \in 0..m |-> IF i = 0 THEN of ELSE Above(h[i - 1], parentOf)]
    BY <2>4
  <2>6. WalksTo(h, m, of, parentOf)
    BY <2>5 DEF WalksTo
  <2> QED  BY <2>6
<1> QED  BY <1>2, <1>3

LEMMA WalksAgree ==
  ASSUME NEW of, NEW parentOf, NEW n \in Nat, NEW m \in Nat, NEW g, NEW h,
         WalksTo(g, n, of, parentOf), WalksTo(h, m, of, parentOf)
  PROVE  \A i \in Nat : i <= n /\ i <= m => g[i] = h[i]
<1> DEFINE T == {i \in Nat : i <= n /\ i <= m /\ g[i] # h[i]}
<1> SUFFICES ASSUME T # {} PROVE FALSE
  OBVIOUS
<1>1. PICK i \in T : \A k \in T : i <= k
  BY Least
<1>2. /\ i \in 0..n /\ i \in 0..m /\ g[i] # h[i]
  OBVIOUS
<1>3. /\ g[i] = IF i = 0 THEN of ELSE Above(g[i - 1], parentOf)
      /\ h[i] = IF i = 0 THEN of ELSE Above(h[i - 1], parentOf)
  <2> HIDE DEF T
  <2> QED  BY <1>2 DEF WalksTo
<1>4. i # 0
  BY <1>2, <1>3
<1>5. i - 1 \in Nat /\ i - 1 <= n /\ i - 1 <= m /\ ~(i <= i - 1)
  BY <1>2, <1>4
<1>6. g[i - 1] = h[i - 1]
  BY <1>1, <1>5
<1> QED  BY <1>2, <1>3, <1>6

\* The walk goes from a conversation to its parent, as long as there is one.
LEMMA WalkSteps ==
  ASSUME NEW of, NEW parentOf
  PROVE  /\ Walk(of, parentOf)[0] = of
         /\ \A n \in Nat : Walk(of, parentOf)[n + 1] = Above(Walk(of, parentOf)[n], parentOf)
<1> DEFINE G(n) == CHOOSE g : WalksTo(g, n, of, parentOf)
           f == [n \in Nat |-> G(n)[n]]
<1>1. \A n \in Nat : WalksTo(G(n), n, of, parentOf)
  BY WalksExist
<1>2. \A n \in Nat : n # 0 => f[n] = Above(f[n - 1], parentOf)
  <2> SUFFICES ASSUME NEW n \in Nat, n # 0 PROVE f[n] = Above(f[n - 1], parentOf)
    OBVIOUS
  <2>1. n - 1 \in Nat /\ n - 1 <= n /\ n \in 0..n
    OBVIOUS
  <2>2. WalksTo(G(n), n, of, parentOf) /\ WalksTo(G(n - 1), n - 1, of, parentOf)
    BY <1>1, <2>1
  <2> HIDE DEF G
  <2>3. G(n)[n] = Above(G(n)[n - 1], parentOf)
    BY <2>1, <2>2 DEF WalksTo
  <2>4. G(n)[n - 1] = G(n - 1)[n - 1]
    BY <2>1, <2>2, WalksAgree
  <2> QED  BY <2>1, <2>3, <2>4
<1>3. f[0] = of
  <2>1. WalksTo(G(0), 0, of, parentOf)
    BY <1>1
  <2> HIDE DEF G
  <2>2. G(0)[0] = of
    BY <2>1 DEF WalksTo
  <2> QED  BY <2>2
<1> HIDE DEF f
<1>4. f = [n \in Nat |-> IF n = 0 THEN of ELSE Above(f[n - 1], parentOf)]
  <2>1. f = [n \in Nat |-> f[n]]
    BY DEF f
  <2> QED  BY <2>1, <1>2, <1>3
<1> DEFINE up == Walk(of, parentOf)
<1>5. up = [n \in Nat |-> IF n = 0 THEN of ELSE Above(up[n - 1], parentOf)]
  BY <1>4 DEF Walk, Above
<1> HIDE DEF up
<1>6. up[0] = of
  BY <1>5
<1>7. \A n \in Nat : up[n + 1] = Above(up[n], parentOf)
  <2> SUFFICES ASSUME NEW n \in Nat PROVE up[n + 1] = Above(up[n], parentOf)
    OBVIOUS
  <2>1. n + 1 \in Nat /\ n + 1 # 0 /\ (n + 1) - 1 = n
    OBVIOUS
  <2>2. up[n + 1] = Above(up[(n + 1) - 1], parentOf)
    BY <1>5, <2>1
  <2> QED  BY <2>1, <2>2
<1> QED  BY <1>6, <1>7 DEF up
\* Where there is no parent a walk stays, and what has come round comes round again.
LEMMA WalkRepeats ==
  ASSUME NEW of, NEW parentOf, NEW i \in Nat, NEW j \in Nat,
         Walk(of, parentOf)[i] = Walk(of, parentOf)[j]
  PROVE  \A d \in Nat : Walk(of, parentOf)[i + d] = Walk(of, parentOf)[j + d]
<1> DEFINE up == Walk(of, parentOf)
           T == {d \in Nat : up[i + d] # up[j + d]}
<1>1. \A n \in Nat : up[n + 1] = Above(up[n], parentOf)
  BY WalkSteps
<1>2. up[i] = up[j]
  OBVIOUS
<1> HIDE DEF up
<1> SUFFICES ASSUME T # {} PROVE FALSE
  BY DEF up
<1>3. PICK d \in T : \A k \in T : d <= k
  BY Least
<1>4. d # 0
  BY <1>2, <1>3
<1>5. d - 1 \in Nat /\ ~(d <= d - 1)
  BY <1>4
<1>6. up[i + (d - 1)] = up[j + (d - 1)]
  BY <1>3, <1>5
<1>7. /\ i + (d - 1) \in Nat /\ (i + (d - 1)) + 1 = i + d
      /\ j + (d - 1) \in Nat /\ (j + (d - 1)) + 1 = j + d
  BY <1>5
<1>8. up[i + d] = up[j + d]
  <2>1. /\ up[(i + (d - 1)) + 1] = Above(up[i + (d - 1)], parentOf)
        /\ up[(j + (d - 1)) + 1] = Above(up[j + (d - 1)], parentOf)
    BY <1>1, <1>7
  <2> QED  BY <2>1, <1>6, <1>7
<1> QED  BY <1>3, <1>8

LEMMA WalkStays ==
  ASSUME NEW of, NEW parentOf, NEW i \in Nat, Walk(of, parentOf)[i] \notin DOMAIN parentOf
  PROVE  \A d \in Nat : Walk(of, parentOf)[i + d] = Walk(of, parentOf)[i]
<1> DEFINE up == Walk(of, parentOf)
           T == {d \in Nat : up[i + d] # up[i]}
<1>1. \A n \in Nat : up[n + 1] = Above(up[n], parentOf)
  BY WalkSteps
<1>2. up[i] \notin DOMAIN parentOf
  OBVIOUS
<1> HIDE DEF up
<1> SUFFICES ASSUME T # {} PROVE FALSE
  BY DEF up
<1>3. PICK d \in T : \A k \in T : d <= k
  BY Least
<1>4. d # 0
  BY <1>3
<1>5. d - 1 \in Nat /\ ~(d <= d - 1)
  BY <1>4
<1>6. up[i + (d - 1)] = up[i]
  BY <1>3, <1>5
<1>7. i + (d - 1) \in Nat /\ (i + (d - 1)) + 1 = i + d
  BY <1>5
<1>8. up[i + d] = up[i]
  <2>1. up[(i + (d - 1)) + 1] = Above(up[i + (d - 1)], parentOf)
    BY <1>1, <1>7
  <2> QED  BY <2>1, <1>2, <1>6, <1>7 DEF Above
<1> QED  BY <1>3, <1>8

Nodes(parentOf) == DOMAIN parentOf \cup {parentOf[k].key : k \in DOMAIN parentOf}
Began(parentOf) == {<<k, parentOf[k].key>> : k \in DOMAIN parentOf}

\* As many steps as there are conversations with a parent go all the way: a walk finds
\* the ancestors of a conversation, no others, and all of them.
LEMMA WalkFindsAncestors ==
  ASSUME NEW parentOf, IsFiniteSet(DOMAIN parentOf), NEW of \in Nodes(parentOf), NEW candidate
  PROVE  IsAncestor(candidate, of, parentOf)
           <=> Reaches(Began(parentOf), Nodes(parentOf), of, candidate)
<1> DEFINE up == Walk(of, parentOf)
           D == DOMAIN parentOf
           C == Cardinality(D)
<1>1. C \in Nat
  BY FS_CardinalityType
<1>2. /\ up[0] = of
      /\ \A n \in Nat : up[n + 1] = Above(up[n], parentOf)
  BY WalkSteps
<1>3. IsAncestor(candidate, of, parentOf) <=> \E n \in 0..C : up[n] = candidate
  BY DEF IsAncestor
<1>4. \A i, j \in Nat : up[i] = up[j] => \A d \in Nat : up[i + d] = up[j + d]
  BY WalkRepeats
<1>5. \A i \in Nat : up[i] \notin D => \A d \in Nat : up[i + d] = up[i]
  BY WalkStays
<1> HIDE DEF up, C
<1>6. ASSUME NEW T \in SUBSET Nodes(parentOf), of \in T,
             \A e \in Began(parentOf) : e[1] \in T => e[2] \in T
      PROVE  \A n \in Nat : up[n] \in T
  <2> DEFINE Out == {n \in Nat : up[n] \notin T}
  <2> SUFFICES ASSUME Out # {} PROVE FALSE
    OBVIOUS
  <2>1. PICK m \in Out : \A k \in Out : m <= k
    BY Least
  <2>2. m # 0
    BY <2>1, <1>2, <1>6
  <2>3. m - 1 \in Nat /\ ~(m <= m - 1) /\ (m - 1) + 1 = m
    BY <2>2
  <2>4. up[m - 1] \in T
    BY <2>1, <2>3
  <2>5. up[m] = Above(up[m - 1], parentOf)
    BY <1>2, <2>3
  <2>6. \A k \in DOMAIN parentOf : k \in T => parentOf[k].key \in T
    <3> SUFFICES ASSUME NEW k \in DOMAIN parentOf, k \in T PROVE parentOf[k].key \in T
      OBVIOUS
    <3>1. <<k, parentOf[k].key>> \in Began(parentOf)
      BY DEF Began
    <3> QED  BY <3>1, <1>6
  <2>7. up[m] \in T
    BY <2>4, <2>5, <2>6 DEF Above
  <2> QED  BY <2>1, <2>7
<1>7. ASSUME NEW n \in 0..C, up[n] = candidate
      PROVE  Reaches(Began(parentOf), Nodes(parentOf), of, candidate)
  BY <1>1, <1>6, <1>7 DEF Reaches
<1>8. ASSUME Reaches(Began(parentOf), Nodes(parentOf), of, candidate)
      PROVE  \E n \in 0..C : up[n] = candidate
  <2> DEFINE T == {up[n] : n \in 0..C}
  <2>1. of \in T
    BY <1>1, <1>2
  <2>2. T \in SUBSET Nodes(parentOf)
    <3>1. \A e \in Began(parentOf) : e[2] \in Nodes(parentOf)
      BY DEF Began, Nodes
    <3>2. \A n \in Nat : up[n] \in Nodes(parentOf)
      BY <1>6, <3>1
    <3> QED  BY <3>2, <1>1
  <2>3. up[C + 1] \in T
    <3>1. CASE \E i \in 0..C : up[i] \notin D
      <4>1. PICK i \in 0..C : up[i] \notin D
        BY <3>1
      <4>2. i \in Nat /\ (C + 1) - i \in Nat /\ i + ((C + 1) - i) = C + 1
        BY <1>1
      <4>3. up[C + 1] = up[i]
        BY <4>1, <4>2, <1>5
      <4> QED  BY <4>1, <4>3
    <3>2. CASE \A i \in 0..C : up[i] \in D
      <4> DEFINE f == [i \in 0..C |-> up[i]]
      <4>1. f \in [0..C -> D]
        BY <3>2
      <4>2. IsFiniteSet(0..C) /\ Cardinality(0..C) = C + 1 /\ C < C + 1
        BY <1>1, FS_Interval
      <4>3. \E i, j \in 0..C : i # j /\ f[i] = f[j]
        <5> HIDE DEF f
        <5> QED  BY <4>1, <4>2, FS_PigeonHole DEF C
      <4>4. PICK i \in 0..C : \E j \in 0..C : i < j /\ up[i] = up[j]
        <5>1. PICK i \in 0..C, j \in 0..C : i # j /\ up[i] = up[j]
          BY <4>3
        <5>2. i < j \/ j < i
          BY <5>1, <1>1
        <5> QED  BY <5>1, <5>2
      <4>5. PICK j \in 0..C : i < j /\ up[i] = up[j]
        BY <4>4
      <4> DEFINE d == (C + 1) - j
      <4>6. /\ i \in Nat /\ j \in Nat /\ d \in Nat /\ j + d = C + 1
            /\ i + d \in 0..C
        BY <4>5, <1>1
      <4>7. up[i + d] = up[j + d]
        <5> HIDE DEF d
        <5> QED  BY <4>5, <4>6, <1>4
      <4> HIDE DEF d
      <4> QED  BY <4>6, <4>7
    <3> QED  BY <3>1, <3>2
  <2>4. ASSUME NEW e \in Began(parentOf), e[1] \in T PROVE e[2] \in T
    <3>1. PICK k \in D : e = <<k, parentOf[k].key>>
      BY DEF Began
    <3>2. PICK n \in 0..C : up[n] = k
      BY <2>4, <3>1
    <3>3. up[n + 1] = parentOf[k].key
      BY <1>1, <1>2, <3>2 DEF Above
    <3>4. n + 1 \in 0..C \/ n + 1 = C + 1
      BY <1>1
    <3> QED  BY <3>1, <3>3, <3>4, <2>3
  <2> HIDE DEF T
  <2>5. candidate \in T
    BY <2>1, <2>2, <2>4, <1>8 DEF Reaches
  <2> QED  BY <2>5 DEF T
<1> QED  BY <1>3, <1>7, <1>8

-----------------------------------------------------------------------------
(***************************************************************************)
(* The list of conversations.                                              *)
(***************************************************************************)

Under(list) == {<<k, list[k].under>> : k \in {c \in DOMAIN list : list[c].under # None}}
ReachedFrom(list, k) == {x \in DOMAIN list : Reaches(Under(list), DOMAIN list, k, x)}
Closed(list, T) == \A e \in Under(list) : e[1] \in T => e[2] \in T

\* What is reached from a conversation is the least set that has it and is closed.
LEMMA ReachedIsLeast ==
  ASSUME NEW list, NEW k \in DOMAIN list,
         \A c \in DOMAIN list : list[c].under \in DOMAIN list \cup {None}
  PROVE  /\ k \in ReachedFrom(list, k)
         /\ ReachedFrom(list, k) \subseteq DOMAIN list
         /\ Closed(list, ReachedFrom(list, k))
         /\ \A T \in SUBSET DOMAIN list :
              k \in T /\ Closed(list, T) => ReachedFrom(list, k) \subseteq T
<1>1. k \in ReachedFrom(list, k)
  BY DEF ReachedFrom, Reaches
<1>2. ReachedFrom(list, k) \subseteq DOMAIN list
  BY DEF ReachedFrom
<1>3. Closed(list, ReachedFrom(list, k))
  <2> SUFFICES ASSUME NEW e \in Under(list), e[1] \in ReachedFrom(list, k)
               PROVE  e[2] \in ReachedFrom(list, k)
    BY DEF Closed
  <2>1. e[2] \in DOMAIN list
    BY DEF Under
  <2>2. \A T \in SUBSET DOMAIN list :
          k \in T /\ (\A f \in Under(list) : f[1] \in T => f[2] \in T) => e[1] \in T
    BY DEF ReachedFrom, Reaches
  <2>3. \A T \in SUBSET DOMAIN list :
          k \in T /\ (\A f \in Under(list) : f[1] \in T => f[2] \in T) => e[2] \in T
    BY <2>2
  <2> QED  BY <2>1, <2>3 DEF ReachedFrom, Reaches
<1>4. ASSUME NEW T \in SUBSET DOMAIN list, k \in T, Closed(list, T)
      PROVE  ReachedFrom(list, k) \subseteq T
  BY <1>4 DEF ReachedFrom, Reaches, Closed
<1> QED  BY <1>1, <1>2, <1>3, <1>4

\* In a finite list where no conversation is reached from the one it is under, each
\* is under exactly one root.
LEMMA OneRoot ==
  ASSUME NEW list, IsFiniteSet(DOMAIN list), None \notin DOMAIN list,
         \A c \in DOMAIN list : list[c].under \in DOMAIN list \cup {None},
         \A c \in DOMAIN list : list[c].under # None => c \notin ReachedFrom(list, list[c].under)
  PROVE  EachIsListed(list)
<1> DEFINE N == DOMAIN list
           C(k) == ReachedFrom(list, k)
           Roots(k) == {x \in N : list[x].under = None /\ x \in C(k)}
           Bad == {k \in N : Cardinality(Roots(k)) # 1}
<1>1. \A k \in N : IsFiniteSet(C(k)) /\ Cardinality(C(k)) \in Nat
  BY ReachedIsLeast, FS_Subset, FS_CardinalityType
<1>2. ASSUME NEW k \in N, list[k].under = None PROVE Cardinality(Roots(k)) = 1
  <2>1. Closed(list, {k})
    BY <1>2 DEF Closed, Under
  <2>2. C(k) = {k}
    BY <2>1, ReachedIsLeast
  <2>3. Roots(k) = {k}
    BY <1>2, <2>2
  <2> QED  BY <2>3, FS_Singleton
<1>3. ASSUME NEW k \in N, list[k].under # None
      PROVE  /\ list[k].under \in N
             /\ Roots(k) = Roots(list[k].under)
             /\ Cardinality(C(list[k].under)) < Cardinality(C(k))
  <2> DEFINE u == list[k].under
  <2>1. u \in N /\ <<k, u>> \in Under(list) /\ k \notin C(u)
    BY <1>3 DEF Under
  <2> HIDE DEF u
  <2>2. u \in C(k) /\ k \in C(k)
    BY <2>1, ReachedIsLeast DEF Closed
  <2>3. C(u) \subseteq C(k)
    BY <2>1, <2>2, ReachedIsLeast
  <2>4. Closed(list, {k} \cup C(u))
    <3>1. Closed(list, C(u)) /\ u \in C(u)
      BY <2>1, ReachedIsLeast
    <3>2. ASSUME NEW e \in Under(list), e[1] = k PROVE e[2] = u
      BY <3>2 DEF Under, u
    <3> QED  BY <3>1, <3>2 DEF Closed
  <2>5. C(k) \subseteq {k} \cup C(u)
    BY <2>1, <2>4, ReachedIsLeast
  <2>6. Roots(k) = Roots(u)
    BY <2>3, <2>5, <1>3
  <2>7. Cardinality(C(u)) <= Cardinality(C(k)) /\ Cardinality(C(u)) # Cardinality(C(k))
    BY <1>1, <2>1, <2>2, <2>3, FS_Subset
  <2>8. Cardinality(C(u)) < Cardinality(C(k))
    <3> HIDE DEF C
    <3> QED  BY <2>7, <2>1, <1>1
  <2> QED  BY <2>1, <2>6, <2>8 DEF u
<1>4. Bad = {}
  <2> SUFFICES ASSUME Bad # {} PROVE FALSE
    OBVIOUS
  <2> DEFINE M == {Cardinality(C(k)) : k \in Bad}
  <2>1. M \in SUBSET Nat /\ M # {}
    BY <1>1
  <2>2. PICK m \in M : \A n \in M : m <= n
    BY <2>1, Least
  <2>3. PICK k \in Bad : m = Cardinality(C(k))
    BY <2>2
  <2>4. k \in N /\ list[k].under # None /\ Cardinality(Roots(k)) # 1
    BY <2>3, <1>2
  <2> DEFINE u == list[k].under
  <2>5. u \in N /\ Roots(k) = Roots(u) /\ Cardinality(C(u)) < Cardinality(C(k))
    BY <2>4, <1>3
  <2>6. u \in Bad
    BY <2>4, <2>5
  <2>7. Cardinality(C(u)) \in M
    BY <2>6
  <2>8. m <= Cardinality(C(u))
    BY <2>7, <2>2
  <2> HIDE DEF C, M, u, Bad
  <2>9. m \in Nat /\ Cardinality(C(u)) \in Nat
    BY <2>1, <2>2, <2>7
  <2> QED  BY <2>3, <2>5, <2>8, <2>9
<1>5. \A k \in N : Roots(k) = {root \in N :
                     list[root].under = None /\ Reaches(Under(list), N, k, root)}
  BY DEF ReachedFrom
<1>6. \A k \in N : Cardinality({root \in N :
                     list[root].under = None /\ Reaches(Under(list), N, k, root)}) = 1
  BY <1>4, <1>5
<1> QED  BY <1>6 DEF EachIsListed, Under

\* Nesting under the parent, unless the parent began with it, leaves no circle.
LEMMA NestingIsAForest ==
  ASSUME NEW list, IsFiniteSet(DOMAIN list), None \notin DOMAIN list,
         NEW parentOf, IsFiniteSet(DOMAIN parentOf),
         \A k \in DOMAIN list :
           list[k].under = IF k \notin DOMAIN parentOf THEN None
                           ELSE IF parentOf[k].key \notin DOMAIN list THEN None
                           ELSE IF IsAncestor(k, parentOf[k].key, parentOf) THEN None
                           ELSE parentOf[k].key
  PROVE  EachIsListed(list)
<1>1. \A c \in DOMAIN list : list[c].under \in DOMAIN list \cup {None}
  OBVIOUS
<1>2. ASSUME NEW c \in DOMAIN list, list[c].under # None
      PROVE  /\ c \in DOMAIN parentOf /\ parentOf[c].key = list[c].under
             /\ ~IsAncestor(c, list[c].under, parentOf)
  BY <1>2
<1>3. ASSUME NEW k \in DOMAIN list, list[k].under # None
      PROVE  k \notin ReachedFrom(list, list[k].under)
  <2> DEFINE p == list[k].under
  <2>1. p \in Nodes(parentOf) /\ ~IsAncestor(k, p, parentOf) /\ p \in DOMAIN list
    BY <1>1, <1>2, <1>3 DEF Nodes
  <2> HIDE DEF p
  <2>2. ~Reaches(Began(parentOf), Nodes(parentOf), p, k)
    BY <2>1, WalkFindsAncestors
  <2>3. PICK T \in SUBSET Nodes(parentOf) :
          p \in T /\ (\A e \in Began(parentOf) : e[1] \in T => e[2] \in T) /\ k \notin T
    BY <2>2 DEF Reaches
  <2> DEFINE U == T \cap DOMAIN list
  <2>4. Closed(list, U)
    <3> SUFFICES ASSUME NEW e \in Under(list), e[1] \in U PROVE e[2] \in U
      BY DEF Closed
    <3>1. PICK c \in DOMAIN list : list[c].under # None /\ e = <<c, list[c].under>>
      BY DEF Under
    <3>2. e \in Began(parentOf)
      BY <3>1, <1>2 DEF Began
    <3> QED  BY <3>1, <3>2, <2>3, <1>1
  <2>5. p \in U /\ U \in SUBSET DOMAIN list /\ k \notin U
    BY <2>1, <2>3
  <2> HIDE DEF U
  <2>6. ReachedFrom(list, p) \subseteq U
    BY <2>1, <2>4, <2>5, <1>1, ReachedIsLeast
  <2> QED  BY <2>5, <2>6 DEF p
<1> QED  BY <1>1, <1>3, OneRoot

LEMMA ImageIsFinite ==
  ASSUME NEW f, IsFiniteSet(DOMAIN f)
  PROVE  IsFiniteSet({f[x] : x \in DOMAIN f})
<1> DEFINE T == {f[x] : x \in DOMAIN f}
           g == [x \in DOMAIN f |-> f[x]]
<1>1. g \in Surjection(DOMAIN f, T)
  BY DEF Surjection
<1> QED  BY <1>1, FS_Surjection

LEMMA SequenceIsFinite ==
  ASSUME NEW S, NEW s \in Seq(S)
  PROVE  /\ IsFiniteSet(DOMAIN s) /\ DOMAIN s \subseteq Nat
         /\ IsFiniteSet(ToSet(s)) /\ ToSet(s) \subseteq S
<1>1. DOMAIN s = 1..Len(s) /\ Len(s) \in Nat
  OBVIOUS
<1>2. IsFiniteSet(DOMAIN s)
  BY <1>1, FS_Interval
<1>3. IsFiniteSet(ToSet(s))
  BY <1>2, ImageIsFinite DEF ToSet
<1>4. ToSet(s) \subseteq S
  BY DEF ToSet
<1> QED  BY <1>1, <1>2, <1>3, <1>4

\* A session or a link is of a conversation.
LEMMA KeysAreKeys ==
  ASSUME NEW s, s.agent \in STRING, s.id \in Seq(STRING)
  PROVE  KeyOf(s) \in ConversationKey
<1> DEFINE id == s.id
<1>1. SessionKey(id).conversation \in Seq(STRING)
  <2>0. id \in Seq(STRING) /\ Len(id) \in Nat
    OBVIOUS
  <2> HIDE DEF id
  <2>1. CASE Len(id) < 2 \/ id[Len(id)] \notin Turns
    BY <2>0, <2>1 DEF SessionKey
  <2>2. CASE ~(Len(id) < 2 \/ id[Len(id)] \notin Turns)
    <3>1. CASE Len(id) >= 4 /\ id[Len(id) - 2] = "sub"
      <4>1. SubSeq(id, 1, Len(id) - 3) \in Seq(STRING)
        BY <2>0, <3>1
      <4> QED  BY <4>1, <2>2, <3>1 DEF SessionKey
    <3>2. CASE ~(Len(id) >= 4 /\ id[Len(id) - 2] = "sub")
      <4>1. SubSeq(id, 1, Len(id) - 1) \in Seq(STRING)
        BY <2>0, <2>2
      <4> QED  BY <4>1, <2>2, <3>2 DEF SessionKey
    <3> QED  BY <3>1, <3>2
  <2> QED  BY <2>1, <2>2
<1> QED  BY <1>1 DEF KeyOf, ConversationKey

\* Of places in the links one is the first.
LEMMA EarliestExists ==
  ASSUME NEW T \in SUBSET (Nat \X Nat), T # {}
  PROVE  \E o \in T : \A q \in T : ~Earlier(q, o)
<1> DEFINE A == {o[1] : o \in T}
<1>1. A \in SUBSET Nat /\ A # {}
  OBVIOUS
<1>2. PICK a \in A : \A x \in A : a <= x
  BY <1>1, Least
<1> DEFINE B == {o[2] : o \in {q \in T : q[1] = a}}
<1>3. B \in SUBSET Nat /\ B # {}
  BY <1>2
<1>4. PICK b \in B : \A x \in B : b <= x
  BY <1>3, Least
<1>5. PICK o \in T : o[1] = a /\ o[2] = b
  BY <1>4
<1>6. ASSUME NEW q \in T PROVE ~Earlier(q, o)
  <2>1. a <= q[1] /\ (q[1] = a => b <= q[2])
    BY <1>2, <1>4
  <2>2. q[1] \in Nat /\ q[2] \in Nat /\ a \in Nat /\ b \in Nat
    BY <1>5
  <2> QED  BY <2>1, <2>2, <1>5 DEF Earlier
<1> QED  BY <1>6

\* The parents: finitely many conversations have one, each an edge that there is.
LEMMA ParentsAreEdges ==
  ASSUME NEW sess, NEW lks \in Seq(LinkRow)
  PROVE  /\ IsFiniteSet(DOMAIN ParentOf(sess, lks))
         /\ \A k \in DOMAIN ParentOf(sess, lks) : ParentOf(sess, lks)[k] # None
<1> DEFINE seen == {o \in Observed(lks) : EdgeOf(o, sess, lks) # None}
           first(child) == CHOOSE o \in seen :
             Child(o, lks) = child /\ \A q \in seen : Child(q, lks) = child => ~Earlier(q, o)
           D == {Child(o, lks) : o \in seen}
<1>1. ParentOf(sess, lks) = [child \in D |-> EdgeOf(first(child), sess, lks)]
  BY DEF ParentOf
<1>2. seen \subseteq Nat \X Nat
  <2>1. DOMAIN lks \subseteq Nat
    OBVIOUS
  <2>2. ASSUME NEW i \in DOMAIN lks PROVE DOMAIN lks[i].tags \subseteq Nat
    <3>1. lks[i] \in LinkRow
      OBVIOUS
    <3>2. lks[i].tags \in Seq(TagType)
      BY <3>1 DEF LinkRow
    <3> QED  BY <3>2
  <2>3. Observed(lks) \subseteq Nat \X Nat
    BY <2>1, <2>2 DEF Observed
  <2> QED  BY <2>3
<1>3. IsFiniteSet(D)
  <2> DEFINE f == [i \in DOMAIN lks |-> KeyOf(lks[i])]
  <2>1. IsFiniteSet(DOMAIN f)
    BY SequenceIsFinite
  <2>2. IsFiniteSet({f[i] : i \in DOMAIN f})
    BY <2>1, ImageIsFinite
  <2>3. D \subseteq {f[i] : i \in DOMAIN f}
    BY DEF Child, Observed
  <2> QED  BY <2>2, <2>3, FS_Subset
<1>4. ASSUME NEW k \in D PROVE EdgeOf(first(k), sess, lks) # None
  <2> DEFINE T == {o \in seen : Child(o, lks) = k}
  <2> HIDE DEF seen
  <2>1. T \in SUBSET (Nat \X Nat) /\ T # {}
    BY <1>2, <1>4
  <2>2. PICK o \in T : \A q \in T : ~Earlier(q, o)
    BY <2>1, EarliestExists
  <2>3. \E x \in seen : Child(x, lks) = k /\ \A q \in seen : Child(q, lks) = k => ~Earlier(q, x)
    BY <2>2
  <2>4. first(k) \in seen
    BY <2>3
  <2> HIDE DEF first
  <2> QED  BY <2>4 DEF seen
<1> HIDE DEF D, first
<1> QED  BY <1>1, <1>3, <1>4

\* For any sessions and any links between them, whatever moments the two were read
\* at: every conversation of the sessions is listed under exactly one root, and each
\* is nested under its parent unless that is not listed or began with it in turn.
THEOREM ListIsAForestOfAll ==
  ASSUME None \notin ConversationKey, NEW sess \in Seq(SessionSummary), NEW lks \in Seq(LinkRow)
  PROVE  LET list == BuildConversations(sess, lks)
         IN  /\ DOMAIN list = Keys(sess)
             /\ EachIsListed(list)
             /\ NestedUnlessCircular(list, sess, lks)
<1> DEFINE list == BuildConversations(sess, lks)
           parentOf == ParentOf(sess, lks)
<1>1. /\ DOMAIN list = Keys(sess)
      /\ \A k \in DOMAIN list :
           /\ list[k].parent = IF k \in DOMAIN parentOf THEN parentOf[k] ELSE None
           /\ list[k].under = IF k \notin DOMAIN parentOf THEN None
                              ELSE IF parentOf[k].key \notin DOMAIN list THEN None
                              ELSE IF IsAncestor(k, parentOf[k].key, parentOf) THEN None
                              ELSE parentOf[k].key
  <2>1. DOMAIN Group(sess) = Keys(sess)
    BY DEF Group
  <2> HIDE DEF parentOf
  <2> DEFINE under(key) ==
               IF key \notin DOMAIN parentOf THEN None
               ELSE IF parentOf[key].key \notin DOMAIN Group(sess) THEN None
               ELSE IF IsAncestor(key, parentOf[key].key, parentOf) THEN None
               ELSE parentOf[key].key
  <2>2. list = [key \in DOMAIN Group(sess) |->
                  [entry |-> Group(sess)[key],
                   parent |-> IF key \in DOMAIN parentOf THEN parentOf[key] ELSE None,
                   under |-> under(key),
                   messages_in |-> MessagesIn(key, lks)]]
    BY DEF BuildConversations, parentOf
  <2> HIDE DEF list
  <2>3. DOMAIN list = Keys(sess)
    BY <2>1, <2>2
  <2>4. ASSUME NEW k \in DOMAIN list
        PROVE  /\ list[k].parent = IF k \in DOMAIN parentOf THEN parentOf[k] ELSE None
               /\ list[k].under = under(k)
    BY <2>2
  <2> QED  BY <2>1, <2>3, <2>4
<1>2. /\ IsFiniteSet(DOMAIN parentOf)
      /\ \A k \in DOMAIN parentOf : parentOf[k] # None
  BY ParentsAreEdges
<1>3. IsFiniteSet(DOMAIN list) /\ None \notin DOMAIN list
  <2>1. IsFiniteSet(ToSet(sess)) /\ ToSet(sess) \subseteq SessionSummary
    BY SequenceIsFinite
  <2> DEFINE f == [s \in ToSet(sess) |-> KeyOf(s)]
  <2>2. IsFiniteSet({f[s] : s \in DOMAIN f})
    BY <2>1, ImageIsFinite
  <2>3. Keys(sess) = {f[s] : s \in DOMAIN f}
    BY DEF Keys
  <2>4. \A s \in ToSet(sess) : KeyOf(s) \in ConversationKey
    <3> SUFFICES ASSUME NEW s \in ToSet(sess) PROVE KeyOf(s) \in ConversationKey
      OBVIOUS
    <3>1. s.agent \in STRING /\ s.id \in Seq(STRING)
      BY <2>1 DEF SessionSummary
    <3> QED  BY <3>1, KeysAreKeys
  <2>5. None \notin Keys(sess)
    BY <2>4 DEF Keys
  <2> HIDE DEF f
  <2> QED  BY <2>2, <2>3, <2>5, <1>1
<1> HIDE DEF list, parentOf
<1>4. EachIsListed(list)
  BY <1>1, <1>2, <1>3, NestingIsAForest
<1>5. NestedUnlessCircular(list, sess, lks)
  <2>1. ASSUME NEW k \in DOMAIN list
        PROVE  list[k].under =
                 IF list[k].parent = None THEN None
                 ELSE IF list[k].parent.key \notin DOMAIN list THEN None
                 ELSE IF Reaches(Began(parentOf), Nodes(parentOf), list[k].parent.key, k) THEN None
                 ELSE list[k].parent.key
    <3>1. CASE k \notin DOMAIN parentOf
      BY <3>1, <1>1
    <3>2. CASE k \in DOMAIN parentOf
      <4>1. list[k].parent = parentOf[k] /\ list[k].parent # None
        BY <3>2, <1>1, <1>2
      <4>2. parentOf[k].key \in Nodes(parentOf)
        BY <3>2 DEF Nodes
      <4>3. IsAncestor(k, parentOf[k].key, parentOf)
              <=> Reaches(Began(parentOf), Nodes(parentOf), parentOf[k].key, k)
        BY <4>2, <1>2, WalkFindsAncestors
      <4>4. list[k].under = IF parentOf[k].key \notin DOMAIN list THEN None
                            ELSE IF IsAncestor(k, parentOf[k].key, parentOf) THEN None
                            ELSE parentOf[k].key
        BY <3>2, <1>1
      <4> QED  BY <4>1, <4>3, <4>4
    <3> QED  BY <3>1, <3>2
  <2> QED  BY <2>1 DEF NestedUnlessCircular, Began, Nodes, parentOf
<1> QED  BY <1>1, <1>4, <1>5 DEF list

-----------------------------------------------------------------------------
(***************************************************************************)
(* The ledger and its readers: the inductive invariant.                    *)
(***************************************************************************)

Places == {"idle", "agent", "trace", "session", "both", "sessions", "links", "end", "none"}

TypeOK ==
  /\ row \in [Records -> LinkRow]
  /\ sequence \in [Records -> Nat]
  /\ committed \subseteq Records
  /\ pc \in [Readers -> Places]
  /\ cursor \in [Readers -> Nat \cup {None}]
  /\ got \in [Readers -> Seq(Records)]
  /\ sessions \in [Readers -> Seq(SessionSummary)]
  /\ links \in [Readers -> Seq(LinkRow)]
  /\ since \in [Readers -> SUBSET Records]

\* What the readers ask for is what some scenario has.
AskedFor ==
  \A p \in Readers : /\ ask[p].op \in {"trace", "session", "list"}
                     /\ ask[p].op # "session" => ask[p].limit \in Nat \ {0}

\* No two records have the same sequence, and what is seen has one.
SequencesAreTaken ==
  /\ committed \subseteq Inserted
  /\ \A r \in Inserted : sequence[r] <= Cardinality(Inserted)
  /\ \A r, x \in Inserted : sequence[r] = sequence[x] => r = x

\* A reader is at one of the queries of what it asks for.
OnTheWay(p) ==
  /\ pc[p] = "trace" => ask[p].op = "trace"
  /\ pc[p] = "session" => ask[p].op = "session"
  /\ pc[p] = "agent" => ask[p].op # "list"
  /\ pc[p] \in {"both", "sessions", "links"} => ask[p].op = "list"
  /\ pc[p] = "idle" => got[p] = <<>> /\ cursor[p] = None

\* It was given records of the agent it asked for, which it may see.
OfTheAgent(p) ==
  /\ \A i \in DOMAIN got[p] : /\ got[p][i] \in committed
                              /\ row[got[p][i]].agent = ask[p].agent
  /\ pc[p] \in {"trace", "session"} \/ got[p] # <<>> => InScope(ask[p].scope, ask[p].agent)

\* The pages so far are those before the cursor, and all that was there when they
\* began is in them or before the cursor.
PagesSoFar(p) ==
  ask[p].op = "trace" =>
    /\ \A i, j \in DOMAIN got[p] : i < j => sequence[got[p][i]] > sequence[got[p][j]]
    /\ pc[p] \in {"agent", "trace"} =>
         IF cursor[p] = None THEN got[p] = <<>>
         ELSE \A i \in DOMAIN got[p] : sequence[got[p][i]] >= cursor[p]
    /\ since[p] \subseteq committed
    /\ pc[p] \in {"agent", "trace", "end"} =>
         \A r \in since[p] : row[r].agent = ask[p].agent =>
           \/ r \in ToSet(got[p])
           \/ pc[p] # "end" /\ (cursor[p] = None \/ sequence[r] < cursor[p])

\* What the queries of the list return is in the reader's scope.
ListInScope(p) ==
  \A s \in ToSet(sessions[p]) \cup ToSet(links[p]) : InScope(ask[p].scope, s.agent)

ReadsInv ==
  /\ TypeOK /\ AskedFor /\ SequencesAreTaken
  /\ \A p \in Readers : OnTheWay(p) /\ OfTheAgent(p) /\ PagesSoFar(p) /\ ListInScope(p)

-----------------------------------------------------------------------------
(***************************************************************************)
(* What the queries return.                                                *)
(***************************************************************************)

LEMMA MinOfTwo ==
  ASSUME NEW a \in Nat, NEW b \in Nat
  PROVE  Min({a, b}) \in {a, b} /\ Min({a, b}) <= a /\ Min({a, b}) <= b
<1>1. \E x \in {a, b} : \A y \in {a, b} : x <= y
  OBVIOUS
<1>2. Min({a, b}) \in {a, b} /\ \A y \in {a, b} : Min({a, b}) <= y
  BY <1>1 DEF Min
<1> QED  BY <1>2

\* The sequence orders any records that are seen, either way.
LEMMA SequenceOrders ==
  ASSUME TypeOK, SequencesAreTaken, NEW S \in SUBSET committed
  PROVE  /\ IsFiniteSet(S)
         /\ Orders(Ascending(sequence), S) /\ Orders(Descending(sequence), S)
         /\ \A x, y \in S : /\ <<x, y>> \in Ascending(sequence) <=> sequence[x] < sequence[y]
                            /\ <<x, y>> \in Descending(sequence) <=> sequence[x] > sequence[y]
<1>1. S \subseteq Records /\ S \subseteq Inserted /\ DOMAIN sequence = Records
  BY DEF TypeOK, SequencesAreTaken
<1>2. IsFiniteSet(S)
  BY <1>1, FS_Subset, ReadsAssumption
<1>3. \A x, y \in S : /\ <<x, y>> \in Ascending(sequence) <=> sequence[x] < sequence[y]
                      /\ <<x, y>> \in Descending(sequence) <=> sequence[x] > sequence[y]
  BY <1>1 DEF Ascending, Descending
<1>4. \A x \in S : sequence[x] \in Nat
  BY <1>1 DEF TypeOK
<1>5. \A x, y \in S : x = y \/ sequence[x] < sequence[y] \/ sequence[y] < sequence[x]
  BY <1>1, <1>4 DEF SequencesAreTaken
<1>6. Orders(Ascending(sequence), S)
  <2>1. \A x \in S : <<x, x>> \notin Ascending(sequence)
    BY <1>3, <1>4
  <2>2. \A x, y \in S : x = y \/ <<x, y>> \in Ascending(sequence) \/ <<y, x>> \in Ascending(sequence)
    BY <1>3, <1>5
  <2>3. \A x, y, z \in S : /\ <<x, y>> \in Ascending(sequence)
                           /\ <<y, z>> \in Ascending(sequence)
                           => <<x, z>> \in Ascending(sequence)
    BY <1>3, <1>4
  <2> QED  BY <2>1, <2>2, <2>3 DEF Orders
<1>7. Orders(Descending(sequence), S)
  <2>1. \A x \in S : <<x, x>> \notin Descending(sequence)
    BY <1>3, <1>4
  <2>2. \A x, y \in S : x = y \/ <<x, y>> \in Descending(sequence) \/ <<y, x>> \in Descending(sequence)
    BY <1>3, <1>5
  <2>3. \A x, y, z \in S : /\ <<x, y>> \in Descending(sequence)
                           /\ <<y, z>> \in Descending(sequence)
                           => <<x, z>> \in Descending(sequence)
    BY <1>3, <1>4
  <2> QED  BY <2>1, <2>2, <2>3 DEF Orders
<1> QED  BY <1>2, <1>3, <1>6, <1>7

\* A page: the first records before its cursor, newest first.  Those left over come
\* before the next cursor, and where there is no next cursor none are.
LEMMA PageHasTheFirst ==
  ASSUME TypeOK, SequencesAreTaken, NEW agent, NEW before \in Nat \cup {None},
         NEW limit \in Nat \ {0}
  PROVE  LET page == Page(agent, before, limit)
         IN  /\ page.rows \in Seq(Records)
             /\ page.nextCursor \in Nat \cup {None}
             /\ page.nextCursor # None => page.rows # <<>>
             /\ \A i \in DOMAIN page.rows :
                  /\ page.rows[i] \in Below(agent, before)
                  /\ page.nextCursor # None => sequence[page.rows[i]] >= page.nextCursor
             /\ \A i, j \in DOMAIN page.rows :
                  i < j => sequence[page.rows[i]] > sequence[page.rows[j]]
             /\ \A r \in Below(agent, before) :
                  \/ r \in ToSet(page.rows)
                  \/ page.nextCursor # None /\ sequence[r] < page.nextCursor
<1> DEFINE S == Below(agent, before)
           rows == NewestFirst(S)
           m == Min({limit, Len(rows)})
           page == Page(agent, before, limit)
<1>1. S \in SUBSET committed /\ S \subseteq Records
  BY DEF Below, TypeOK
<1>2. /\ IsFiniteSet(S) /\ Orders(Descending(sequence), S)
      /\ \A x, y \in S : <<x, y>> \in Descending(sequence) <=> sequence[x] > sequence[y]
  <2> HIDE DEF S
  <2> QED  BY <1>1, SequenceOrders
<1>3. /\ rows \in Seq(S)
      /\ \A x \in S : \E i \in DOMAIN rows : rows[i] = x
      /\ \A i, j \in DOMAIN rows : i < j => <<rows[i], rows[j]>> \in Descending(sequence)
  <2> HIDE DEF S
  <2> QED  BY <1>2, SortedInOrder DEF NewestFirst
<1>4. page.rows = SubSeq(rows, 1, m)
  BY DEF Page
<1>5. page.nextCursor = IF Len(rows) > limit THEN sequence[rows[limit]] ELSE None
  BY DEF Page
<1> HIDE DEF page, S, rows
<1>6. /\ Len(rows) \in Nat /\ DOMAIN rows = 1..Len(rows)
      /\ \A i \in DOMAIN rows : rows[i] \in S
  BY <1>3
<1>7. m \in {limit, Len(rows)} /\ m <= limit /\ m <= Len(rows)
  BY <1>6, MinOfTwo
<1>8. m \in Nat
  BY <1>6, <1>7
<1> HIDE DEF m
<1>9. /\ page.rows \in Seq(S) /\ DOMAIN page.rows = 1..m
      /\ \A i \in 1..m : page.rows[i] = rows[i]
  BY <1>3, <1>4, <1>6, <1>7, <1>8
<1>10. \A x \in S : sequence[x] \in Nat
  BY <1>1 DEF TypeOK
<1>11. \A i, j \in DOMAIN rows : i < j => sequence[rows[i]] > sequence[rows[j]]
  BY <1>2, <1>3, <1>6
<1>12. page.rows \in Seq(Records)
  BY <1>1, <1>9
<1>13. \A i \in DOMAIN page.rows : i \in DOMAIN rows /\ page.rows[i] = rows[i] /\ page.rows[i] \in S
  <2> SUFFICES ASSUME NEW i \in 1..m
               PROVE  i \in DOMAIN rows /\ page.rows[i] = rows[i] /\ page.rows[i] \in S
    BY <1>9
  <2>0. Len(rows) \in Nat /\ m <= Len(rows) /\ DOMAIN rows = 1..Len(rows)
    BY <1>6, <1>7
  <2>1. i \in 1..Len(rows)
    BY <2>0, <1>8
  <2>2. page.rows[i] = rows[i]
    BY <1>9
  <2>3. i \in DOMAIN rows /\ rows[i] \in S
    BY <2>0, <2>1, <1>6
  <2> QED  BY <2>2, <2>3
<1>14. \A i, j \in DOMAIN page.rows : i < j => sequence[page.rows[i]] > sequence[page.rows[j]]
  BY <1>13, <1>11
<1>15. CASE Len(rows) > limit
  <2>0. page.nextCursor = sequence[rows[limit]]
    BY <1>5, <1>15
  <2>1. m = limit /\ limit \in DOMAIN rows /\ page.nextCursor = sequence[rows[limit]]
    <3>1. Len(rows) \in Nat /\ DOMAIN rows = 1..Len(rows)
      BY <1>6
    <3>2. (m = limit \/ m = Len(rows)) /\ m <= limit
      BY <1>7
    <3>3. m = limit
      BY <3>1, <3>2, <1>15
    <3>4. limit \in 1..Len(rows)
      BY <3>1, <1>15
    <3> QED  BY <2>0, <3>1, <3>3, <3>4
  <2>2. page.nextCursor \in Nat /\ page.nextCursor # None
    BY <2>1, <1>6, <1>10, ReadsAssumption
  <2>3. ASSUME NEW i \in DOMAIN page.rows PROVE sequence[page.rows[i]] >= page.nextCursor
    <3>1. i \in DOMAIN rows /\ page.rows[i] = rows[i] /\ i <= limit
      BY <2>1, <1>6, <1>9
    <3>2. CASE i = limit
      BY <3>1, <3>2, <2>1, <1>6, <1>10
    <3>3. CASE i < limit
      <4>1. sequence[rows[i]] > sequence[rows[limit]]
        BY <3>1, <3>3, <2>1, <1>11
      <4> QED  BY <4>1, <3>1, <2>1, <1>6, <1>10
    <3> QED  BY <3>1, <3>2, <3>3, <1>6
  <2>4. ASSUME NEW r \in S PROVE r \in ToSet(page.rows) \/ sequence[r] < page.nextCursor
    <3>1. PICK i \in DOMAIN rows : rows[i] = r
      BY <1>3
    <3>2. CASE i <= limit
      <4>1. i \in DOMAIN page.rows /\ page.rows[i] = r
        BY <3>1, <3>2, <2>1, <1>6, <1>9
      <4> QED  BY <4>1 DEF ToSet
    <3>3. CASE i > limit
      <4>1. sequence[rows[limit]] > sequence[rows[i]]
        BY <3>3, <2>1, <1>11
      <4> QED  BY <4>1, <3>1, <2>1, <1>6, <1>10
    <3> QED  BY <3>2, <3>3, <1>6
  <2>5. page.rows # <<>>
    <3>1. 1 \in DOMAIN page.rows
      BY <2>1, <1>8, <1>9
    <3> QED  BY <3>1
  <2> QED  BY <2>2, <2>3, <2>4, <2>5, <1>12, <1>13, <1>14 DEF page, S
<1>16. CASE ~(Len(rows) > limit)
  <2>0. page.nextCursor = None
    BY <1>5, <1>16
  <2>1. m = Len(rows) /\ page.nextCursor = None
    <3>1. Len(rows) <= limit
      BY <1>6, <1>16
    <3>2. m = limit \/ m = Len(rows)
      BY <1>7
    <3>3. Len(rows) \in Nat /\ m <= Len(rows)
      BY <1>6, <1>7
    <3>4. m = Len(rows)
      BY <3>1, <3>2, <3>3
    <3> QED  BY <2>0, <3>4
  <2>2. ASSUME NEW r \in S PROVE r \in ToSet(page.rows)
    <3>1. PICK i \in DOMAIN rows : rows[i] = r
      BY <1>3
    <3>2. i \in DOMAIN page.rows /\ page.rows[i] = r
      BY <3>1, <2>1, <1>6, <1>9
    <3> QED  BY <3>2 DEF ToSet
  <2> QED  BY <2>1, <2>2, <1>12, <1>13, <1>14 DEF page, S
<1> QED  BY <1>15, <1>16

\* A query in the order of the sequence returns records that it selects.
LEMMA QueryReturnsItsRows ==
  ASSUME TypeOK, SequencesAreTaken, NEW S \in SUBSET committed
  PROVE  /\ OldestFirst(S) \in Seq(S) /\ OldestFirst(S) \in Seq(Records)
         /\ NewestFirst(S) \in Seq(S) /\ NewestFirst(S) \in Seq(Records)
<1>1. OldestFirst(S) \in Seq(S) /\ NewestFirst(S) \in Seq(S)
  BY SequenceOrders, SortedInOrder DEF OldestFirst, NewestFirst
<1>2. S \subseteq Records
  BY DEF TypeOK
<1> QED  BY <1>1, <1>2

\* The sessions and the links of the list are those of records in the reader's scope.
LEMMA SummariesInScope ==
  ASSUME TypeOK, AskedFor, SequencesAreTaken, NEW p \in Readers, ask[p].op = "list"
  PROVE  /\ Summaries(p) \in Seq(SessionSummary)
         /\ \A s \in ToSet(Summaries(p)) : InScope(ask[p].scope, s.agent)
<1> DEFINE rows == Visible(p)
           order == NewestFirst(LatestOf(rows))
           count(r) == Cardinality({x \in rows : SessionOf(x) = SessionOf(r)})
           summary(r) == [agent |-> row[r].agent, id |-> row[r].id, count |-> count(r)]
           m == Min({ask[p].limit, Len(order)})
<1>1. Summaries(p) = [i \in 1..m |-> summary(order[i])]
  BY DEF Summaries
<1>2. rows \subseteq committed /\ LatestOf(rows) \subseteq rows
  BY DEF Visible, LatestOf
<1>3. order \in Seq(LatestOf(rows))
  <2> HIDE DEF rows
  <2> QED  BY <1>2, QueryReturnsItsRows
<1>4. ASSUME NEW r \in LatestOf(rows)
      PROVE  summary(r) \in SessionSummary /\ InScope(ask[p].scope, summary(r).agent)
  <2>1. r \in rows /\ r \in Records /\ row[r] \in LinkRow
    BY <1>2 DEF TypeOK
  <2>2. row[r].agent \in STRING /\ row[r].id \in Seq(STRING)
    BY <2>1 DEF LinkRow
  <2>3. count(r) \in Nat
    <3>1. {x \in rows : SessionOf(x) = SessionOf(r)} \in SUBSET committed
      BY <1>2
    <3>2. IsFiniteSet({x \in rows : SessionOf(x) = SessionOf(r)})
      BY <3>1, SequenceOrders
    <3> QED  BY <3>2, FS_CardinalityType
  <2>4. InScope(ask[p].scope, row[r].agent)
    BY <2>1 DEF Visible
  <2> HIDE DEF count
  <2> QED  BY <2>2, <2>3, <2>4 DEF SessionSummary
<1>5. Len(order) \in Nat /\ DOMAIN order = 1..Len(order)
  <2> HIDE DEF order
  <2> QED  BY <1>3
<1>6. ask[p].limit \in Nat
  BY DEF AskedFor
<1>7. m \in Nat /\ m <= Len(order)
  <2> HIDE DEF order
  <2> QED  BY <1>5, <1>6, MinOfTwo
<1>8. ASSUME NEW i \in 1..m PROVE order[i] \in LatestOf(rows)
  <2> HIDE DEF order, m
  <2>1. i \in 1..Len(order)
    BY <1>5, <1>7
  <2> QED  BY <2>1, <1>3, <1>5
<1> HIDE DEF order, m, summary, rows
<1>9. \A i \in 1..m : summary(order[i]) \in SessionSummary
  BY <1>4, <1>8
<1>10. Summaries(p) \in Seq(SessionSummary)
  BY <1>1, <1>7, <1>9
<1>11. ASSUME NEW s \in ToSet(Summaries(p)) PROVE InScope(ask[p].scope, s.agent)
  <2>1. PICK i \in 1..m : s = summary(order[i])
    BY <1>1 DEF ToSet
  <2> QED  BY <2>1, <1>4, <1>8
<1> QED  BY <1>10, <1>11

LEMMA LinksInScope ==
  ASSUME TypeOK, SequencesAreTaken, NEW p \in Readers
  PROVE  /\ OwnedLinks(p) \in Seq(LinkRow)
         /\ \A s \in ToSet(OwnedLinks(p)) : InScope(ask[p].scope, s.agent)
<1> DEFINE rows == {r \in Visible(p) :
                      row[r].behavior \in {"Delegating", "Observing"} /\ row[r].tags # <<>>}
           order == OldestFirst(rows)
<1>1. OwnedLinks(p) = [i \in DOMAIN order |-> row[order[i]]]
  BY DEF OwnedLinks
<1>2. rows \in SUBSET committed
  BY DEF Visible
<1>3. order \in Seq(rows)
  <2> HIDE DEF rows
  <2> QED  BY <1>2, QueryReturnsItsRows
<1>4. ASSUME NEW r \in rows PROVE row[r] \in LinkRow /\ InScope(ask[p].scope, row[r].agent)
  BY <1>2 DEF TypeOK, Visible
<1> HIDE DEF rows, order
<1>5. /\ Len(order) \in Nat /\ DOMAIN order = 1..Len(order)
      /\ \A i \in DOMAIN order : order[i] \in rows
  BY <1>3
<1>6. \A i \in DOMAIN order : row[order[i]] \in LinkRow
  BY <1>4, <1>5
<1>7. OwnedLinks(p) \in Seq(LinkRow)
  BY <1>1, <1>5, <1>6
<1>8. ASSUME NEW s \in ToSet(OwnedLinks(p)) PROVE InScope(ask[p].scope, s.agent)
  <2>1. PICK i \in DOMAIN order : s = row[order[i]]
    BY <1>1 DEF ToSet
  <2> QED  BY <2>1, <1>4, <1>5
<1> QED  BY <1>7, <1>8

-----------------------------------------------------------------------------
(***************************************************************************)
(* Every step keeps the invariant.                                         *)
(***************************************************************************)

ReaderInv(p) == OnTheWay(p) /\ OfTheAgent(p) /\ PagesSoFar(p) /\ ListInScope(p)

LEMMA InitReads == Init => ReadsInv
<1> SUFFICES ASSUME Init PROVE ReadsInv
  OBVIOUS
<1>1. PICK s \in Scenarios : row = s[1] /\ ask = s[2]
  BY DEF Init
<1>2. TypeOK
  <2>1. row \in [Records -> LinkRow]
    BY <1>1, ReadsAssumption
  <2>2. <<>> \in Seq(Records) /\ <<>> \in Seq(SessionSummary) /\ <<>> \in Seq(LinkRow)
    OBVIOUS
  <2> QED  BY <2>1, <2>2 DEF Init, TypeOK, Places
<1>3. AskedFor
  BY <1>1, ReadsAssumption DEF AskedFor
<1>4. SequencesAreTaken
  <2>1. Inserted = {} /\ committed = {}
    BY DEF Init, Inserted
  <2> QED  BY <2>1 DEF SequencesAreTaken
<1>5. ASSUME NEW p \in Readers PROVE ReaderInv(p)
  <2>1. /\ pc[p] = "idle" /\ cursor[p] = None /\ got[p] = <<>> /\ since[p] = {}
        /\ sessions[p] = <<>> /\ links[p] = <<>>
    BY DEF Init
  <2>2. OnTheWay(p)
    BY <2>1 DEF OnTheWay
  <2>3. OfTheAgent(p)
    BY <2>1 DEF OfTheAgent
  <2>4. PagesSoFar(p)
    BY <2>1 DEF PagesSoFar
  <2>5. ListInScope(p)
    BY <2>1 DEF ListInScope, ToSet
  <2> QED  BY <2>2, <2>3, <2>4, <2>5 DEF ReaderInv
<1> QED  BY <1>2, <1>3, <1>4, <1>5 DEF ReadsInv, ReaderInv

\* A reader that takes no step is not disturbed by the steps of the others.
LEMMA Untouched ==
  ASSUME NEW q \in Readers, ReaderInv(q), UNCHANGED <<row, ask, sequence, committed>>,
         pc'[q] = pc[q], cursor'[q] = cursor[q], got'[q] = got[q],
         sessions'[q] = sessions[q], links'[q] = links[q], since'[q] = since[q]
  PROVE  ReaderInv(q)'
<1>1. OnTheWay(q)'
  BY DEF OnTheWay, ReaderInv
<1>2. OfTheAgent(q)'
  BY DEF OfTheAgent, ReaderInv
<1>3. PagesSoFar(q)'
  BY DEF PagesSoFar, ReaderInv
<1>4. ListInScope(q)'
  BY DEF ListInScope, ReaderInv
<1> QED  BY <1>1, <1>2, <1>3, <1>4 DEF ReaderInv

LEMMA TableStays ==
  ASSUME ReadsInv, UNCHANGED <<row, ask, sequence, committed>>
  PROVE  AskedFor' /\ SequencesAreTaken'
BY DEF ReadsInv, AskedFor, SequencesAreTaken, Inserted

LEMMA KeptByInsert ==
  ASSUME ReadsInv, NEW r \in Records, Insert(r)
  PROVE  ReadsInv'
<1>1. /\ UNCHANGED <<row, ask, committed, pc, cursor, got, sessions, links, since>>
      /\ sequence' = [sequence EXCEPT ![r] = 1 + Cardinality(Inserted)] /\ r \notin Inserted
  BY DEF Insert, reading
<1>2. IsFiniteSet(Inserted) /\ Cardinality(Inserted) \in Nat
  <2>1. Inserted \subseteq Records
    BY DEF Inserted
  <2> QED  BY <2>1, ReadsAssumption, FS_Subset, FS_CardinalityType
<1>3. /\ sequence'[r] = 1 + Cardinality(Inserted)
      /\ \A x \in Records : x # r => sequence'[x] = sequence[x]
      /\ sequence' \in [Records -> Nat]
  BY <1>1, <1>2 DEF ReadsInv, TypeOK
<1>4. TypeOK'
  BY <1>1, <1>3 DEF ReadsInv, TypeOK
<1>5. AskedFor'
  BY <1>1 DEF ReadsInv, AskedFor
<1>6. Inserted' = Inserted \cup {r}
  BY <1>2, <1>3 DEF Inserted
<1>7. Cardinality(Inserted') = Cardinality(Inserted) + 1
  BY <1>1, <1>2, <1>6, FS_AddElement
<1>8. committed \subseteq Inserted /\ r \notin committed
  BY <1>1 DEF ReadsInv, SequencesAreTaken
<1>9. \A x \in committed : x \in Records /\ sequence'[x] = sequence[x]
  BY <1>3, <1>8 DEF ReadsInv, TypeOK
<1>10. SequencesAreTaken'
  <2>1. \A x \in Inserted : x \in Records /\ sequence'[x] = sequence[x] /\ sequence[x] \in Nat
    BY <1>1, <1>3 DEF Inserted, ReadsInv, TypeOK
  <2>2. \A x \in Inserted : sequence[x] <= Cardinality(Inserted)
    BY DEF ReadsInv, SequencesAreTaken
  <2>3. \A x, y \in Inserted : sequence[x] = sequence[y] => x = y
    BY DEF ReadsInv, SequencesAreTaken
  <2>4. committed' \subseteq Inserted'
    BY <1>1, <1>6, <1>8
  <2>5. \A x \in Inserted' : sequence'[x] <= Cardinality(Inserted')
    BY <1>2, <1>3, <1>6, <1>7, <2>1, <2>2
  <2>6. \A x \in Inserted : sequence'[x] # sequence'[r]
    BY <1>2, <1>3, <2>1, <2>2
  <2>7. \A x, y \in Inserted' : sequence'[x] = sequence'[y] => x = y
    BY <1>6, <2>1, <2>3, <2>6
  <2> QED  BY <2>4, <2>5, <2>7 DEF SequencesAreTaken
<1>11. ASSUME NEW q \in Readers PROVE ReaderInv(q)'
  <2>1. OnTheWay(q) /\ OfTheAgent(q) /\ PagesSoFar(q) /\ ListInScope(q)
    BY DEF ReadsInv
  <2>2. \A i \in DOMAIN got[q] : got[q][i] \in committed
    BY <2>1 DEF OfTheAgent
  <2>3. OnTheWay(q)'
    BY <1>1, <2>1 DEF OnTheWay
  <2>4. OfTheAgent(q)'
    BY <1>1, <2>1 DEF OfTheAgent
  <2>5. PagesSoFar(q)'
    <3>1. ask[q].op = "trace" =>
            /\ \A i, j \in DOMAIN got[q] : i < j => sequence'[got[q][i]] > sequence'[got[q][j]]
            /\ pc[q] \in {"agent", "trace"} =>
                 IF cursor[q] = None THEN got[q] = <<>>
                 ELSE \A i \in DOMAIN got[q] : sequence'[got[q][i]] >= cursor[q]
      BY <1>9, <2>1, <2>2 DEF PagesSoFar
    <3>2. ask[q].op = "trace" =>
            /\ since[q] \subseteq committed
            /\ pc[q] \in {"agent", "trace", "end"} =>
                 \A x \in since[q] : row[x].agent = ask[q].agent =>
                   \/ x \in ToSet(got[q])
                   \/ pc[q] # "end" /\ (cursor[q] = None \/ sequence'[x] < cursor[q])
      BY <1>9, <2>1 DEF PagesSoFar
    <3> QED  BY <1>1, <3>1, <3>2 DEF PagesSoFar
  <2>6. ListInScope(q)'
    BY <1>1, <2>1 DEF ListInScope
  <2> QED  BY <2>3, <2>4, <2>5, <2>6 DEF ReaderInv
<1> QED  BY <1>4, <1>5, <1>10, <1>11 DEF ReadsInv, ReaderInv

LEMMA KeptByCommit ==
  ASSUME ReadsInv, NEW r \in Records, Commit(r)
  PROVE  ReadsInv'
<1>1. /\ UNCHANGED <<row, ask, sequence, pc, cursor, got, sessions, links, since>>
      /\ committed' = committed \cup {r} /\ r \in Inserted
  BY DEF Commit, reading
<1>2. TypeOK'
  BY <1>1 DEF ReadsInv, TypeOK
<1>3. AskedFor'
  BY <1>1 DEF ReadsInv, AskedFor
<1>4. SequencesAreTaken'
  BY <1>1 DEF ReadsInv, SequencesAreTaken, Inserted
<1>5. ASSUME NEW q \in Readers PROVE ReaderInv(q)'
  <2>1. OnTheWay(q) /\ OfTheAgent(q) /\ PagesSoFar(q) /\ ListInScope(q)
    BY DEF ReadsInv
  <2>2. OnTheWay(q)'
    BY <1>1, <2>1 DEF OnTheWay
  <2>3. OfTheAgent(q)'
    BY <1>1, <2>1 DEF OfTheAgent
  <2>4. PagesSoFar(q)'
    BY <1>1, <2>1 DEF PagesSoFar
  <2>5. ListInScope(q)'
    BY <1>1, <2>1 DEF ListInScope
  <2> QED  BY <2>2, <2>3, <2>4, <2>5 DEF ReaderInv
<1> QED  BY <1>2, <1>3, <1>4, <1>5 DEF ReadsInv, ReaderInv

\* Steps that change nothing the invariant speaks of: Abort, Reread, and standing still.
LEMMA KeptWhenUnseen ==
  ASSUME ReadsInv,
         UNCHANGED <<row, ask, sequence, committed, pc, cursor, got, sessions, links, since>>
  PROVE  ReadsInv'
<1>1. TypeOK'
  BY DEF ReadsInv, TypeOK
<1>2. AskedFor' /\ SequencesAreTaken'
  BY TableStays
<1>3. \A q \in Readers : ReaderInv(q)'
  BY Untouched DEF ReadsInv, ReaderInv
<1> QED  BY <1>1, <1>2, <1>3 DEF ReadsInv, ReaderInv

\* A step of one reader leaves the others as they were.
LEMMA OneReaderSteps ==
  ASSUME ReadsInv, NEW p \in Readers, UNCHANGED <<row, ask, sequence, committed>>,
         \A q \in Readers \ {p} :
           /\ pc'[q] = pc[q] /\ cursor'[q] = cursor[q] /\ got'[q] = got[q]
           /\ sessions'[q] = sessions[q] /\ links'[q] = links[q] /\ since'[q] = since[q],
         TypeOK', ReaderInv(p)'
  PROVE  ReadsInv'
<1>1. AskedFor' /\ SequencesAreTaken'
  BY TableStays
<1>2. ASSUME NEW q \in Readers PROVE ReaderInv(q)'
  <2>1. CASE q = p
    BY <2>1
  <2>2. CASE q # p
    <3>1. ReaderInv(q)
      BY DEF ReadsInv, ReaderInv
    <3>2. /\ pc'[q] = pc[q] /\ cursor'[q] = cursor[q] /\ got'[q] = got[q]
          /\ sessions'[q] = sessions[q] /\ links'[q] = links[q] /\ since'[q] = since[q]
      BY <2>2
    <3> QED  BY <3>1, <3>2, Untouched
  <2> QED  BY <2>1, <2>2
<1> QED  BY <1>1, <1>2 DEF ReadsInv, ReaderInv

LEMMA KeptByArrive ==
  ASSUME ReadsInv, NEW p \in Readers, Arrive(p)
  PROVE  ReadsInv'
<1>1. /\ UNCHANGED <<row, ask, sequence, committed, cursor, got, sessions, links>>
      /\ pc[p] = "idle"
      /\ since' = [since EXCEPT ![p] = IF ask[p].op = "trace" THEN committed ELSE {}]
      /\ pc' = [pc EXCEPT ![p] = IF ask[p].op = "list" THEN "both" ELSE "agent"]
  BY DEF Arrive
<1>2. TypeOK /\ AskedFor /\ ReaderInv(p)
  BY DEF ReadsInv, ReaderInv
<1>3. /\ pc'[p] = (IF ask[p].op = "list" THEN "both" ELSE "agent")
      /\ since'[p] = (IF ask[p].op = "trace" THEN committed ELSE {})
      /\ \A q \in Readers \ {p} : pc'[q] = pc[q] /\ since'[q] = since[q]
  BY <1>1, <1>2 DEF TypeOK
<1>4. TypeOK'
  BY <1>1, <1>2 DEF TypeOK, Places
<1>5. got[p] = <<>> /\ cursor[p] = None
  BY <1>1, <1>2 DEF ReaderInv, OnTheWay
<1>6. OnTheWay(p)'
  BY <1>1, <1>3 DEF OnTheWay
<1>7. OfTheAgent(p)'
  BY <1>1, <1>3, <1>5 DEF OfTheAgent
<1>8. PagesSoFar(p)'
  BY <1>1, <1>3, <1>5 DEF PagesSoFar
<1>9. ListInScope(p)'
  BY <1>1, <1>2 DEF ListInScope, ReaderInv
<1>10. ReaderInv(p)'
  BY <1>6, <1>7, <1>8, <1>9 DEF ReaderInv
<1> QED  BY <1>1, <1>3, <1>4, <1>10, OneReaderSteps

LEMMA KeptByOwnedAgent ==
  ASSUME ReadsInv, NEW p \in Readers, OwnedAgent(p)
  PROVE  ReadsInv'
<1>1. /\ UNCHANGED <<row, ask, sequence, committed, cursor, got, sessions, links, since>>
      /\ pc[p] = "agent"
      /\ pc' = [pc EXCEPT ![p] =
           IF ~InScope(ask[p].scope, ask[p].agent) THEN "none" ELSE ask[p].op]
  BY DEF OwnedAgent
<1>2. TypeOK /\ AskedFor /\ ReaderInv(p)
  BY DEF ReadsInv, ReaderInv
<1>3. ask[p].op \in {"trace", "session"}
  BY <1>1, <1>2 DEF AskedFor, ReaderInv, OnTheWay
<1>4. /\ pc'[p] = (IF ~InScope(ask[p].scope, ask[p].agent) THEN "none" ELSE ask[p].op)
      /\ \A q \in Readers \ {p} : pc'[q] = pc[q]
  BY <1>1, <1>2 DEF TypeOK
<1>5. TypeOK'
  <2>1. (IF ~InScope(ask[p].scope, ask[p].agent) THEN "none" ELSE ask[p].op) \in Places
    BY <1>3 DEF Places
  <2>2. pc' \in [Readers -> Places]
    BY <1>1, <1>2, <2>1 DEF TypeOK
  <2> QED  BY <1>1, <1>2, <2>2 DEF TypeOK
<1>6. OnTheWay(p)'
  BY <1>1, <1>3, <1>4 DEF OnTheWay
<1>7. OfTheAgent(p)'
  <2>1. OfTheAgent(p)
    BY <1>2 DEF ReaderInv
  <2>2. \A i \in DOMAIN got[p] : got[p][i] \in committed /\ row[got[p][i]].agent = ask[p].agent
    BY <2>1 DEF OfTheAgent
  <2>3. got[p] # <<>> => InScope(ask[p].scope, ask[p].agent)
    BY <2>1 DEF OfTheAgent
  <2>4. pc'[p] \in {"trace", "session"} => InScope(ask[p].scope, ask[p].agent)
    BY <1>4
  <2>5. InScope(ask[p].scope, ask[p].agent) <=> InScope(ask'[p].scope, ask'[p].agent)
    BY <1>1
  <2> QED  BY <1>1, <2>2, <2>3, <2>4, <2>5 DEF OfTheAgent
<1>8. PagesSoFar(p)'
  <2>1. PagesSoFar(p)
    BY <1>2 DEF ReaderInv
  <2> QED  BY <1>1, <1>3, <1>4, <2>1 DEF PagesSoFar
<1>9. ListInScope(p)'
  BY <1>1, <1>2 DEF ListInScope, ReaderInv
<1>10. ReaderInv(p)'
  BY <1>6, <1>7, <1>8, <1>9 DEF ReaderInv
<1> QED  BY <1>1, <1>4, <1>5, <1>10, OneReaderSteps

LEMMA KeptByReadPage ==
  ASSUME ReadsInv, NEW p \in Readers, ReadPage(p)
  PROVE  ReadsInv'
<1> DEFINE page == Page(ask[p].agent, cursor[p], ask[p].limit)
           mine == got[p]
           next == page.nextCursor
<1>1. /\ UNCHANGED <<row, ask, sequence, committed, sessions, links, since>>
      /\ pc[p] = "trace"
      /\ got' = [got EXCEPT ![p] = @ \o page.rows]
      /\ cursor' = [cursor EXCEPT ![p] = next]
      /\ pc' = [pc EXCEPT ![p] = IF next = None THEN "end" ELSE "agent"]
  BY DEF ReadPage
<1>2. TypeOK /\ AskedFor /\ SequencesAreTaken /\ ReaderInv(p)
  BY DEF ReadsInv, ReaderInv
<1>3. ask[p].op = "trace" /\ ask[p].limit \in Nat \ {0} /\ cursor[p] \in Nat \cup {None}
  <2>1. ask[p].op = "trace"
    BY <1>1, <1>2 DEF ReaderInv, OnTheWay
  <2> QED  BY <2>1, <1>2 DEF AskedFor, TypeOK
<1>4. /\ page.rows \in Seq(Records)
      /\ page.nextCursor \in Nat \cup {None}
      /\ page.nextCursor # None => page.rows # <<>>
      /\ \A i \in DOMAIN page.rows :
           /\ page.rows[i] \in Below(ask[p].agent, cursor[p])
           /\ page.nextCursor # None => sequence[page.rows[i]] >= page.nextCursor
      /\ \A i, j \in DOMAIN page.rows :
           i < j => sequence[page.rows[i]] > sequence[page.rows[j]]
      /\ \A r \in Below(ask[p].agent, cursor[p]) :
           \/ r \in ToSet(page.rows)
           \/ page.nextCursor # None /\ sequence[r] < page.nextCursor
  BY <1>2, <1>3, PageHasTheFirst
<1> HIDE DEF page
<1>5. mine \in Seq(Records) /\ mine \o page.rows \in Seq(Records)
  BY <1>2, <1>4 DEF TypeOK
<1>6. /\ got'[p] = mine \o page.rows /\ cursor'[p] = next
      /\ pc'[p] = (IF next = None THEN "end" ELSE "agent")
      /\ \A q \in Readers \ {p} : got'[q] = got[q] /\ cursor'[q] = cursor[q] /\ pc'[q] = pc[q]
  BY <1>1, <1>2 DEF TypeOK
<1>7. TypeOK'
  <2>1. got' \in [Readers -> Seq(Records)]
    BY <1>1, <1>2, <1>5 DEF TypeOK
  <2>2. cursor' \in [Readers -> Nat \cup {None}]
    BY <1>1, <1>2, <1>4 DEF TypeOK
  <2>3. pc' \in [Readers -> Places]
    BY <1>1, <1>2 DEF TypeOK, Places
  <2> QED  BY <1>1, <1>2, <2>1, <2>2, <2>3 DEF TypeOK
<1>8. OfTheAgent(p) /\ PagesSoFar(p)
  BY <1>2 DEF ReaderInv
<1>9. \A i \in DOMAIN mine : /\ mine[i] \in committed /\ row[mine[i]].agent = ask[p].agent
                             /\ sequence[mine[i]] \in Nat
  BY <1>2, <1>8 DEF OfTheAgent, TypeOK
<1>10. \A i \in DOMAIN page.rows :
         /\ page.rows[i] \in committed /\ row[page.rows[i]].agent = ask[p].agent
         /\ cursor[p] = None \/ sequence[page.rows[i]] < cursor[p]
         /\ sequence[page.rows[i]] \in Nat
  BY <1>2, <1>4 DEF Below, TypeOK
<1>11. IF cursor[p] = None THEN mine = <<>>
       ELSE \A i \in DOMAIN mine : sequence[mine[i]] >= cursor[p]
  BY <1>1, <1>3, <1>8 DEF PagesSoFar
<1> DEFINE all == mine \o page.rows
<1> HIDE DEF mine, next
<1>12. /\ \A i \in DOMAIN all :
            \/ i \in DOMAIN mine /\ all[i] = mine[i]
            \/ i - Len(mine) \in DOMAIN page.rows /\ all[i] = page.rows[i - Len(mine)] /\ i > Len(mine)
       /\ ToSet(all) = ToSet(mine) \cup ToSet(page.rows)
  <2>1. /\ DOMAIN all = 1..(Len(mine) + Len(page.rows))
        /\ Len(mine) \in Nat /\ DOMAIN mine = 1..Len(mine)
        /\ Len(page.rows) \in Nat /\ DOMAIN page.rows = 1..Len(page.rows)
    BY <1>4, <1>5
  <2>2. ASSUME NEW i \in DOMAIN all, i <= Len(mine) PROVE i \in DOMAIN mine /\ all[i] = mine[i]
    BY <2>1, <2>2, <1>4, <1>5
  <2>3. ASSUME NEW i \in DOMAIN all, i > Len(mine)
        PROVE  i - Len(mine) \in DOMAIN page.rows /\ all[i] = page.rows[i - Len(mine)]
    BY <2>1, <2>3, <1>4, <1>5
  <2>4. ASSUME NEW i \in DOMAIN mine PROVE i \in DOMAIN all /\ all[i] = mine[i]
    BY <2>1, <1>4, <1>5
  <2>5. ASSUME NEW i \in DOMAIN page.rows
        PROVE  i + Len(mine) \in DOMAIN all /\ all[i + Len(mine)] = page.rows[i]
    BY <2>1, <1>4, <1>5
  <2> HIDE DEF all
  <2>6. \A i \in DOMAIN all : i <= Len(mine) \/ i > Len(mine)
    BY <2>1
  <2>7. ToSet(all) \subseteq ToSet(mine) \cup ToSet(page.rows)
    BY <2>2, <2>3, <2>6 DEF ToSet
  <2>8. ToSet(mine) \cup ToSet(page.rows) \subseteq ToSet(all)
    BY <2>4, <2>5 DEF ToSet
  <2> QED  BY <2>2, <2>3, <2>6, <2>7, <2>8
<1>13. got'[p] = all
  BY <1>6
<1>14. \A i \in DOMAIN all : i \in Nat
  BY <1>4, <1>5
<1> HIDE DEF all
<1>15. OnTheWay(p)'
  BY <1>1, <1>3, <1>6 DEF OnTheWay
<1>16. OfTheAgent(p)'
  <2>1. InScope(ask[p].scope, ask[p].agent)
    BY <1>1, <1>8 DEF OfTheAgent
  <2>2. \A i \in DOMAIN all : all[i] \in committed /\ row[all[i]].agent = ask[p].agent
    BY <1>9, <1>10, <1>12
  <2>3. InScope(ask'[p].scope, ask'[p].agent)
    BY <1>1, <2>1
  <2> QED  BY <1>1, <1>13, <2>2, <2>3 DEF OfTheAgent
<1>17. PagesSoFar(p)'
  <2>1. ASSUME NEW i \in DOMAIN all, NEW j \in DOMAIN all, i < j
        PROVE  sequence[all[i]] > sequence[all[j]]
    <3>0. /\ Len(mine) \in Nat /\ i \in Nat /\ j \in Nat
          /\ \A k \in DOMAIN mine : k \in Nat /\ k <= Len(mine)
      BY <1>5, <1>14
    <3>1. CASE j \in DOMAIN mine /\ all[j] = mine[j]
      <4>1. i \in DOMAIN mine /\ all[i] = mine[i]
        BY <3>0, <3>1, <2>1, <1>12
      <4>2. \A k, l \in DOMAIN mine : k < l => sequence[mine[k]] > sequence[mine[l]]
        BY <1>3, <1>8 DEF PagesSoFar, mine
      <4> QED  BY <4>1, <4>2, <3>1, <2>1
    <3>2. CASE j - Len(mine) \in DOMAIN page.rows /\ all[j] = page.rows[j - Len(mine)]
      <4>1. CASE i \in DOMAIN mine /\ all[i] = mine[i]
        <5>1. mine # <<>>
          BY <4>1
        <5>2. cursor[p] # None /\ sequence[mine[i]] >= cursor[p]
          BY <5>1, <4>1, <1>11
        <5>3. sequence[all[j]] < cursor[p] /\ sequence[all[j]] \in Nat
          BY <3>2, <5>2, <1>10
        <5>4. cursor[p] \in Nat /\ sequence[all[i]] \in Nat
          BY <5>2, <4>1, <1>3, <1>9
        <5> QED  BY <5>2, <5>3, <5>4, <4>1
      <4>2. CASE i - Len(mine) \in DOMAIN page.rows /\ all[i] = page.rows[i - Len(mine)]
        <5>1. i - Len(mine) < j - Len(mine)
          BY <3>0, <2>1
        <5> QED  BY <5>1, <4>2, <3>2, <1>4
      <4> QED  BY <4>1, <4>2, <1>12
    <3> QED  BY <3>1, <3>2, <1>12
  <2>2. ASSUME next # None, NEW i \in DOMAIN all PROVE sequence[all[i]] >= next
    <3>1. next \in Nat
      BY <2>2, <1>4 DEF next
    <3>2. CASE i \in DOMAIN mine /\ all[i] = mine[i]
      <4>1. cursor[p] # None /\ sequence[mine[i]] >= cursor[p]
        BY <3>2, <1>11
      <4>2. 1 \in DOMAIN page.rows
        BY <2>2, <1>4 DEF next
      <4>3. sequence[page.rows[1]] < cursor[p] /\ sequence[page.rows[1]] >= next
        BY <4>1, <4>2, <2>2, <1>4, <1>10 DEF next
      <4> QED  BY <4>1, <4>2, <4>3, <3>1, <3>2, <1>3, <1>9, <1>10
    <3>3. CASE i - Len(mine) \in DOMAIN page.rows /\ all[i] = page.rows[i - Len(mine)]
      BY <3>3, <2>2, <1>4 DEF next
    <3> QED  BY <3>2, <3>3, <1>12
  <2>3. ASSUME NEW r \in since[p], row[r].agent = ask[p].agent
        PROVE  r \in ToSet(all) \/ (next # None /\ sequence[r] < next)
    <3>1. r \in committed
      BY <1>3, <1>8 DEF PagesSoFar
    <3>2. r \in ToSet(mine) \/ cursor[p] = None \/ sequence[r] < cursor[p]
      BY <1>1, <1>3, <1>8, <2>3 DEF PagesSoFar, mine
    <3>3. CASE r \in ToSet(mine)
      BY <3>3, <1>12
    <3>4. CASE cursor[p] = None \/ sequence[r] < cursor[p]
      <4>1. r \in Below(ask[p].agent, cursor[p])
        BY <3>1, <3>4, <2>3 DEF Below
      <4>2. r \in ToSet(page.rows) \/ (next # None /\ sequence[r] < next)
        BY <4>1, <1>4 DEF next
      <4> QED  BY <4>2, <1>12
    <3> QED  BY <3>2, <3>3, <3>4
  <2>4. since[p] \subseteq committed
    BY <1>3, <1>8 DEF PagesSoFar
  <2>5. pc'[p] = "end" <=> next = None
    BY <1>6
  <2>6. pc'[p] \in {"agent", "trace"} => next # None
    BY <1>6
  <2> QED  BY <1>1, <1>6, <1>13, <2>1, <2>2, <2>3, <2>4, <2>5, <2>6 DEF PagesSoFar
<1>18. ListInScope(p)'
  BY <1>1, <1>2 DEF ListInScope, ReaderInv
<1>19. ReaderInv(p)'
  BY <1>15, <1>16, <1>17, <1>18 DEF ReaderInv
<1> QED  BY <1>1, <1>6, <1>7, <1>19, OneReaderSteps

LEMMA KeptByReadSession ==
  ASSUME ReadsInv, NEW p \in Readers, ReadSession(p)
  PROVE  ReadsInv'
<1> DEFINE S == {r \in committed : row[r].agent = ask[p].agent /\ row[r].id = ask[p].id}
           rows == OldestFirst(S)
<1>1. /\ UNCHANGED <<row, ask, sequence, committed, cursor, sessions, links, since>>
      /\ pc[p] = "session"
      /\ got' = [got EXCEPT ![p] = rows]
      /\ pc' = [pc EXCEPT ![p] = "end"]
  BY DEF ReadSession
<1>2. TypeOK /\ SequencesAreTaken /\ ReaderInv(p)
  BY DEF ReadsInv, ReaderInv
<1>3. rows \in Seq(S) /\ rows \in Seq(Records)
  <2>1. S \in SUBSET committed
    OBVIOUS
  <2> HIDE DEF S
  <2> QED  BY <2>1, <1>2, QueryReturnsItsRows
<1> HIDE DEF rows
<1>4. /\ got'[p] = rows /\ pc'[p] = "end"
      /\ \A q \in Readers \ {p} : got'[q] = got[q] /\ pc'[q] = pc[q]
  BY <1>1, <1>2 DEF TypeOK
<1>5. TypeOK'
  BY <1>1, <1>2, <1>3 DEF TypeOK, Places
<1>6. ask[p].op = "session" /\ InScope(ask[p].scope, ask[p].agent)
  BY <1>1, <1>2 DEF ReaderInv, OnTheWay, OfTheAgent
<1>7. OnTheWay(p)'
  BY <1>4 DEF OnTheWay
<1>8. OfTheAgent(p)'
  <2>1. \A i \in DOMAIN rows : rows[i] \in S
    BY <1>3
  <2>2. \A i \in DOMAIN rows : rows[i] \in committed /\ row[rows[i]].agent = ask[p].agent
    BY <2>1
  <2>3. InScope(ask'[p].scope, ask'[p].agent)
    BY <1>1, <1>6
  <2> QED  BY <1>1, <1>4, <2>2, <2>3 DEF OfTheAgent
<1>9. PagesSoFar(p)'
  BY <1>1, <1>6 DEF PagesSoFar
<1>10. ListInScope(p)'
  BY <1>1, <1>2 DEF ListInScope, ReaderInv
<1>11. ReaderInv(p)'
  BY <1>7, <1>8, <1>9, <1>10 DEF ReaderInv
<1> QED  BY <1>1, <1>4, <1>5, <1>11, OneReaderSteps

\* The two queries of the list: the pages, of which it has none, stay as they were.
LEMMA ListReaderKeeps ==
  ASSUME NEW p \in Readers, ReaderInv(p), pc[p] \in {"both", "sessions", "links"},
         pc'[p] \in {"sessions", "links", "end"},
         UNCHANGED <<row, ask, sequence, committed, cursor, got, since>>
  PROVE  OnTheWay(p)' /\ OfTheAgent(p)' /\ PagesSoFar(p)'
<1>1. ask[p].op = "list"
  BY DEF ReaderInv, OnTheWay
<1>2. OnTheWay(p)'
  BY <1>1 DEF OnTheWay
<1>3. OfTheAgent(p)'
  <2>1. \A i \in DOMAIN got[p] : got[p][i] \in committed /\ row[got[p][i]].agent = ask[p].agent
    BY DEF ReaderInv, OfTheAgent
  <2>2. got[p] # <<>> => InScope(ask[p].scope, ask[p].agent)
    BY DEF ReaderInv, OfTheAgent
  <2>3. got[p] # <<>> => InScope(ask'[p].scope, ask'[p].agent)
    BY <2>2
  <2> QED  BY <2>1, <2>3 DEF OfTheAgent
<1>4. PagesSoFar(p)'
  BY <1>1 DEF PagesSoFar
<1> QED  BY <1>2, <1>3, <1>4

LEMMA KeptByReadSummaries ==
  ASSUME ReadsInv, NEW p \in Readers, ReadSummaries(p)
  PROVE  ReadsInv'
<1> DEFINE summaries == Summaries(p)
<1>1. /\ UNCHANGED <<row, ask, sequence, committed, cursor, got, links, since>>
      /\ pc[p] \in {"both", "sessions"}
      /\ sessions' = [sessions EXCEPT ![p] = summaries]
      /\ pc' = [pc EXCEPT ![p] = IF pc[p] = "both" THEN "links" ELSE "end"]
  BY DEF ReadSummaries
<1>2. TypeOK /\ AskedFor /\ SequencesAreTaken /\ ReaderInv(p)
  BY DEF ReadsInv, ReaderInv
<1>3. ask[p].op = "list"
  BY <1>1, <1>2 DEF ReaderInv, OnTheWay
<1>4. /\ summaries \in Seq(SessionSummary)
      /\ \A s \in ToSet(summaries) : InScope(ask[p].scope, s.agent)
  BY <1>2, <1>3, SummariesInScope
<1> HIDE DEF summaries
<1>5. /\ sessions'[p] = summaries /\ pc'[p] = (IF pc[p] = "both" THEN "links" ELSE "end")
      /\ \A q \in Readers \ {p} : sessions'[q] = sessions[q] /\ pc'[q] = pc[q]
  BY <1>1, <1>2 DEF TypeOK
<1>6. TypeOK'
  BY <1>1, <1>2, <1>4 DEF TypeOK, Places
<1>7. OnTheWay(p)' /\ OfTheAgent(p)' /\ PagesSoFar(p)'
  BY <1>1, <1>2, <1>5, ListReaderKeeps
<1>8. ListInScope(p)'
  <2>1. \A s \in ToSet(links[p]) : InScope(ask[p].scope, s.agent)
    BY <1>2 DEF ReaderInv, ListInScope
  <2> QED  BY <1>1, <1>4, <1>5, <2>1 DEF ListInScope
<1>9. ReaderInv(p)'
  BY <1>7, <1>8 DEF ReaderInv
<1> QED  BY <1>1, <1>5, <1>6, <1>9, OneReaderSteps

LEMMA KeptByReadLinks ==
  ASSUME ReadsInv, NEW p \in Readers, ReadLinks(p)
  PROVE  ReadsInv'
<1> DEFINE owned == OwnedLinks(p)
<1>1. /\ UNCHANGED <<row, ask, sequence, committed, cursor, got, sessions, since>>
      /\ pc[p] \in {"both", "links"}
      /\ links' = [links EXCEPT ![p] = owned]
      /\ pc' = [pc EXCEPT ![p] = IF pc[p] = "both" THEN "sessions" ELSE "end"]
  BY DEF ReadLinks
<1>2. TypeOK /\ SequencesAreTaken /\ ReaderInv(p)
  BY DEF ReadsInv, ReaderInv
<1>3. owned \in Seq(LinkRow) /\ \A s \in ToSet(owned) : InScope(ask[p].scope, s.agent)
  BY <1>2, LinksInScope
<1> HIDE DEF owned
<1>4. /\ links'[p] = owned /\ pc'[p] = (IF pc[p] = "both" THEN "sessions" ELSE "end")
      /\ \A q \in Readers \ {p} : links'[q] = links[q] /\ pc'[q] = pc[q]
  BY <1>1, <1>2 DEF TypeOK
<1>5. TypeOK'
  BY <1>1, <1>2, <1>3 DEF TypeOK, Places
<1>6. OnTheWay(p)' /\ OfTheAgent(p)' /\ PagesSoFar(p)'
  BY <1>1, <1>2, <1>4, ListReaderKeeps
<1>7. ListInScope(p)'
  <2>1. \A s \in ToSet(sessions[p]) : InScope(ask[p].scope, s.agent)
    BY <1>2 DEF ReaderInv, ListInScope
  <2> QED  BY <1>1, <1>3, <1>4, <2>1 DEF ListInScope
<1>8. ReaderInv(p)'
  BY <1>6, <1>7 DEF ReaderInv
<1> QED  BY <1>1, <1>4, <1>5, <1>8, OneReaderSteps

-----------------------------------------------------------------------------
(***************************************************************************)
(* The theorems.                                                           *)
(***************************************************************************)

LEMMA NextKeepsReads == ReadsInv /\ [Next]_vars => ReadsInv'
<1> SUFFICES ASSUME ReadsInv, [Next]_vars PROVE ReadsInv'
  OBVIOUS
<1>1. ASSUME NEW r \in Records, Insert(r) PROVE ReadsInv'
  BY <1>1, KeptByInsert
<1>2. ASSUME NEW r \in Records, Commit(r) PROVE ReadsInv'
  BY <1>2, KeptByCommit
<1>3. ASSUME NEW r \in Records, Abort(r) PROVE ReadsInv'
  <2>1. UNCHANGED <<row, ask, sequence, committed, pc, cursor, got, sessions, links, since>>
    BY <1>3 DEF Abort, reading
  <2> QED  BY <2>1, KeptWhenUnseen
<1>4. ASSUME NEW p \in Readers, Read(p) PROVE ReadsInv'
  <2>1. CASE Arrive(p)
    BY <2>1, KeptByArrive
  <2>2. CASE OwnedAgent(p)
    BY <2>2, KeptByOwnedAgent
  <2>3. CASE ReadPage(p)
    BY <2>3, KeptByReadPage
  <2>4. CASE ReadSession(p)
    BY <2>4, KeptByReadSession
  <2>5. CASE ReadSummaries(p)
    BY <2>5, KeptByReadSummaries
  <2>6. CASE ReadLinks(p)
    BY <2>6, KeptByReadLinks
  <2> QED  BY <1>4, <2>1, <2>2, <2>3, <2>4, <2>5, <2>6 DEF Read
<1>5. ASSUME NEW p \in Readers, Reread(p) PROVE ReadsInv'
  <2>1. UNCHANGED <<row, ask, sequence, committed, pc, cursor, got, sessions, links, since>>
    BY <1>5 DEF Reread
  <2> QED  BY <2>1, KeptWhenUnseen
<1>6. CASE UNCHANGED vars
  <2>1. UNCHANGED <<row, ask, sequence, committed, pc, cursor, got, sessions, links, since>>
    BY <1>6 DEF vars, reading
  <2> QED  BY <2>1, KeptWhenUnseen
<1> QED  BY <1>1, <1>2, <1>3, <1>4, <1>5, <1>6 DEF Next

\* The invariant holds in every state of the specification: sequences are taken once,
\* a reader's pages are all before the cursor that followed them, and what was there
\* when it began is either among them or still before the cursor.
THEOREM ReadsInvariant == Spec => []ReadsInv
<1>1. Init => ReadsInv
  BY InitReads
<1>2. ReadsInv /\ [Next]_vars => ReadsInv'
  BY NextKeepsReads
<1> QED  BY <1>1, <1>2, PTL DEF Spec

\* PagesCoverTheTrace for any records, readers and limits (repository.ts ownedTracePage):
\* newest first, none twice, none left out that was committed before the first page.
THEOREM PagesAlwaysCoverTheTrace == Spec => []PagesCoverTheTrace
<1>1. ReadsInv => PagesCoverTheTrace
  <2> SUFFICES ASSUME ReadsInv, NEW p \in Readers
               PROVE  /\ ToSet(got[p]) \subseteq
                           {r \in committed : InScope(ask[p].scope, row[r].agent)}
                      /\ ask[p].op = "trace" =>
                           /\ \A i, j \in DOMAIN got[p] :
                                i < j => sequence[got[p][i]] > sequence[got[p][j]]
                           /\ pc[p] = "end" =>
                                {r \in since[p] : row[r].agent = ask[p].agent} \subseteq ToSet(got[p])
    BY DEF PagesCoverTheTrace
  <2>1. OfTheAgent(p) /\ PagesSoFar(p)
    BY DEF ReadsInv
  <2>2. \A i \in DOMAIN got[p] : got[p][i] \in committed /\ row[got[p][i]].agent = ask[p].agent
    BY <2>1 DEF OfTheAgent
  <2>3. ASSUME NEW i \in DOMAIN got[p] PROVE InScope(ask[p].scope, row[got[p][i]].agent)
    <3>1. got[p] # <<>>
      OBVIOUS
    <3>2. InScope(ask[p].scope, ask[p].agent)
      BY <3>1, <2>1 DEF OfTheAgent
    <3> QED  BY <3>2, <2>2
  <2>4. ToSet(got[p]) \subseteq {r \in committed : InScope(ask[p].scope, row[r].agent)}
    BY <2>2, <2>3 DEF ToSet
  <2>5. ask[p].op = "trace" =>
          \A i, j \in DOMAIN got[p] : i < j => sequence[got[p][i]] > sequence[got[p][j]]
    BY <2>1 DEF PagesSoFar
  <2>6. ask[p].op = "trace" /\ pc[p] = "end" =>
          {r \in since[p] : row[r].agent = ask[p].agent} \subseteq ToSet(got[p])
    BY <2>1 DEF PagesSoFar
  <2> QED  BY <2>4, <2>5, <2>6
<1> QED  BY <1>1, ReadsInvariant, PTL

\* ListsAreWhole for any records, links and moments at which the two queries were
\* made (pages/index.astro, conversations.ts buildConversations).
THEOREM ListsAlwaysWhole == Spec => []ListsAreWhole
<1>1. ReadsInv => ListsAreWhole
  <2> SUFFICES ASSUME ReadsInv, NEW p \in Readers
               PROVE  LET list == BuildConversations(sessions[p], links[p])
                      IN  /\ \A s \in ToSet(sessions[p]) \cup ToSet(links[p]) :
                               InScope(ask[p].scope, s.agent)
                          /\ EachIsListed(list)
                          /\ NestedUnlessCircular(list, sessions[p], links[p])
    BY DEF ListsAreWhole
  <2>1. sessions[p] \in Seq(SessionSummary) /\ links[p] \in Seq(LinkRow)
    BY DEF ReadsInv, TypeOK
  <2>2. \A s \in ToSet(sessions[p]) \cup ToSet(links[p]) : InScope(ask[p].scope, s.agent)
    BY DEF ReadsInv, ListInScope
  <2>3. None \notin ConversationKey
    BY ReadsAssumption
  <2> QED  BY <2>1, <2>2, <2>3, ListIsAForestOfAll
<1> QED  BY <1>1, ReadsInvariant, PTL
=============================================================================
