------------------------------- MODULE Sorting -------------------------------
(***************************************************************************)
(* The elements of a finite set in an order: an ORDER BY of the database,  *)
(* or a list built in the order of the records.  The order is a set of     *)
(* pairs, the first of which comes before the second.                      *)
(***************************************************************************)
EXTENDS Naturals, Sequences, FiniteSets

Increasing(S) == {p \in S \X S : p[1] < p[2]}
Ascending(rank) == {p \in (DOMAIN rank) \X (DOMAIN rank) : rank[p[1]] < rank[p[2]]}
Descending(rank) == {p \in (DOMAIN rank) \X (DOMAIN rank) : rank[p[1]] > rank[p[2]]}

\* Pairs of numbers: by the first, then by the second.
Earlier(p, q) == p[1] < q[1] \/ (p[1] = q[1] /\ p[2] < q[2])
Lexicographic(S) == {e \in S \X S : Earlier(e[1], e[2])}

Place(x, S, before) == 1 + Cardinality({y \in S : <<y, x>> \in before})
Sorted(S, before) == [n \in 1..Cardinality(S) |-> CHOOSE x \in S : Place(x, S, before) = n]

\* Of any two elements one comes first.
Orders(before, S) ==
  /\ \A x \in S : <<x, x>> \notin before
  /\ \A x, y \in S : x = y \/ <<x, y>> \in before \/ <<y, x>> \in before
  /\ \A x, y, z \in S : <<x, y>> \in before /\ <<y, z>> \in before => <<x, z>> \in before
=============================================================================
