-------------------------- MODULE PaymentLifecycle --------------------------
(***************************************************************************)
(* What the handling of a payment promises, whatever the handlers do: the  *)
(* record of a payment says `paid' only when the provider has taken the    *)
(* money, and never says anything else again.  A failed attempt may still  *)
(* be paid, with the same reference.                                       *)
(***************************************************************************)
CONSTANT Refs           \* source references, one per payment

VARIABLES settled,      \* the payments the provider has taken the money of
          state         \* what ack_payments says of each

vars == <<settled, state>>

States == {"none", "pending", "failed", "paid"}

TypeOK == settled \in SUBSET Refs /\ state \in [Refs -> States]

Init == settled = {} /\ state = [r \in Refs |-> "none"]

Settle(r) == r \notin settled /\ settled' = settled \cup {r} /\ UNCHANGED state

Move(r, from, to) ==
    /\ state[r] \in from
    /\ state' = [state EXCEPT ![r] = to]
    /\ UNCHANGED settled

Record(r) == Move(r, {"none"}, "pending")
Fail(r)   == Move(r, {"pending"}, "failed")
Pay(r)    == r \in settled /\ Move(r, {"pending", "failed"}, "paid")

Next == \E r \in Refs : Settle(r) \/ Record(r) \/ Fail(r) \/ Pay(r)

Spec == Init /\ [][Next]_vars
=============================================================================
