----------------------------- MODULE MCCommerce -----------------------------
(* Constants for checking Commerce on small instances. *)
EXTENDS Commerce, TLC

CONSTANTS t1, k1, k2, c1, c2, r1, r2, l1, l2, a1, a2

AllOptions == {{"unitCost", "counterpartyId", "actorId"}}

\* Nothing checks the sign of a quantity.
Signed == {-1, 1}

\* The longest event log looked at.
CONSTANT MaxEvents
ShortLog == Len(events) <= MaxEvents

\* Items, lots, allocations, carts and receipts are only compared for equality.
Symmetry == Permutations(LotIds) \cup Permutations(AllocIds) \cup Permutations(Skus)
            \cup Permutations(Carts) \cup Permutations(Receipts)
=============================================================================
