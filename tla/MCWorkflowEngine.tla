-------------------------- MODULE MCWorkflowEngine --------------------------
(* WorkflowEngine with two workflows: v may call w, w may pause or name an *)
(* action nobody registered.                                               *)
EXTENDS WorkflowEngine

CONSTANTS v, w

Short == [x \in Workflows |->
    IF x = v THEN {<<"plain", w, "plain">>, <<"plain">>}
    ELSE {<<"plain", "pause", "plain">>, <<"plain", "unknown">>}]
=============================================================================
