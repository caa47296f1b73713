----------------------------- MODULE OfferLedger -----------------------------
(***************************************************************************)
(* What the rows that carry a credential promise: an offer is made for one *)
(* holder, at most one at a time, and is never taken back; and the offer a *)
(* holder refers to was made for it, in the step that made it refer to it. *)
(* A holder may lose its reference, and an offer may be one that no holder *)
(* knows of.                                                               *)
(***************************************************************************)
EXTENDS Naturals, Sequences

VARIABLES made,     \* the holder of every offer, in the order of the offers
          held      \* the offer each holder refers to, 0 for none

vars == <<made, held>>

Init == made = <<>> /\ held = [h \in {} |-> 0]

\* Rows that carry no credential yet.
Open ==
    /\ made' = made
    /\ DOMAIN held \subseteq DOMAIN held'
    /\ \A h \in DOMAIN held' : held'[h] = IF h \in DOMAIN held THEN held[h] ELSE 0

\* An offer, which its holder takes or which is lost to it; a holder that has lost
\* one may keep what it had.
Make(h) ==
    /\ made' = Append(made, h)
    /\ \E ref \in {held[h], Len(made) + 1, 0} : held' = [held EXCEPT ![h] = ref]

Drop(h) == held' = [held EXCEPT ![h] = 0] /\ made' = made

Next ==
    \/ Open
    \/ \E h \in DOMAIN held : Make(h) \/ Drop(h)

Spec == Init /\ [][Next]_vars
==============================================================================
