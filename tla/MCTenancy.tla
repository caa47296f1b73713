------------------------------ MODULE MCTenancy ------------------------------
(* Tenancy with two names and two e-mail addresses. *)
EXTENDS Tenancy, TLC

CONSTANTS n1, n2, m1, m2

Symmetry == Permutations(Names) \cup Permutations(Emails)
==============================================================================
