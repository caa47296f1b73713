------------------------------- MODULE MCPeople -------------------------------
(* People with a handful of requests. *)
EXTENDS People

CONSTANTS t1, t2
===============================================================================
