---------------------------- MODULE MCRegulation ----------------------------
(* Regulation on a few records, merchants and points in time. *)
EXTENDS Regulation, TLC

CONSTANTS s1, s2, t1, p1, p2, c1, c2, m1, m2

\* The weights of a payment and of reported fraud.
SomeWeights == {5, -50}

\* Reviews that are out of range, without a rating and of two stars.
SomeRatings == {-30, 0, 2}

\* A merchant that is new, and one that was paid six times: one dispute takes part of
\* the dispute driver only.
SomeHistories == {<<>>, [i \in 1..6 |-> [type |-> "payment", rating |-> 0, at |-> 0]]}

Symmetry == Permutations(ConsentIds) \cup Permutations(Merchants)
=============================================================================
