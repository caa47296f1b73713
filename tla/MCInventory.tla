----------------------------- MODULE MCInventory -----------------------------
(* Constants for checking Inventory on small instances. *)
EXTENDS Inventory, TLC

CONSTANTS t1, t2, k1, k2, c1, c2, r1, r2, l1, l2, a1, a2, a3

\* A receipt with every optional field, and one with only the required ones.
AllOptions == {{"unitCost", "counterpartyId", "actorId"}}
SomeOptions == AllOptions \cup {{}}

\* Lots, allocations, carts and receipts are only compared for equality.
Symmetry == Permutations(LotIds) \cup Permutations(AllocIds)
            \cup Permutations(Carts) \cup Permutations(Receipts)
=============================================================================
