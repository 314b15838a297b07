-------------------------------- MODULE Ranks --------------------------------
(***************************************************************************)
(* The elements of a finite set of numbers in increasing order: what a loop *)
(* over an array with a read and a write index does to the entries it keeps.*)
(***************************************************************************)
EXTENDS Naturals, FiniteSets

\* The place of i in S, counted from 1.
RankIn(S, i) == Cardinality({k \in S : k <= i})

\* The element of S at place n.
Nth(S, n) == CHOOSE i \in S : RankIn(S, i) = n
============================================================================
