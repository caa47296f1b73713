------------------------- MODULE MCWorkflowTriggers -------------------------
(* WorkflowTriggers on one or two workflows and triggers. *)
EXTENDS WorkflowTriggers

CONSTANTS w1, w2, t1, t2, e1, s1
=============================================================================
