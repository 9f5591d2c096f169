------------------------------ MODULE Ranking -------------------------------
(***************************************************************************)
(* Finite sets written as sequences.                                       *)
(***************************************************************************)
EXTENDS Naturals, FiniteSets

\* before maps each element of a set to those that come before it: the n-th of
\* the set is the one that n - 1 others come before.
Ranked(before) ==
  [n \in 1 .. Cardinality(DOMAIN before) |->
     CHOOSE e \in DOMAIN before : Cardinality(before[e]) = n - 1]

\* Positions, from the first to the last.
Ascending(keep) == Ranked([n \in keep |-> {m \in keep : m < n}])

\* The rows at the positions to keep, in their order.
Picked(rows, keep) ==
  LET at == Ascending(keep) IN [n \in DOMAIN at |-> rows[at[n]]]
=============================================================================
