--------------------------- MODULE MCCartCheckout ---------------------------
(* CartCheckout on a few carts, payments and webhook calls. *)
EXTENDS CartCheckout, TLC

CONSTANTS c1, r1, r2

Symmetry == Permutations(Carts) \cup Permutations(Refs)
=============================================================================
