---------------------------- MODULE WorkflowRuns ----------------------------
(***************************************************************************)
(* What the record of a workflow run promises to those who read it while   *)
(* it executes: steps are only added while it is running, it can be paused *)
(* and taken up again, and once it has completed or failed it stays so.    *)
(***************************************************************************)
EXTENDS Naturals

CONSTANT Runs

VARIABLES status,       \* of each run; "gone" when its workflow was deleted
          done          \* how many of its steps have completed

vars == <<status, done>>

Statuses == {"none", "pending", "running", "paused", "completed", "failed", "gone"}

TypeOK == status \in [Runs -> Statuses] /\ done \in [Runs -> Nat]

Init == status = [r \in Runs |-> "none"] /\ done = [r \in Runs |-> 0]

Move(r, from, to) == status[r] = from /\ status' = [status EXCEPT ![r] = to]
Count(r)          == done' = [done EXCEPT ![r] = @ + 1]

\* A run that is created begins, unless the process dies: then it stays pending.
Create(r) == Move(r, "none", "pending") /\ UNCHANGED done
Begin(r)  == Move(r, "none", "running") /\ UNCHANGED done
Step(r)   == status[r] = "running" /\ Count(r) /\ UNCHANGED status
Pause(r)  == Move(r, "running", "paused") /\ Count(r)
Resume(r) == Move(r, "paused", "running") /\ UNCHANGED done
End(r)    == (Move(r, "running", "completed") \/ Move(r, "running", "failed"))
             /\ UNCHANGED done

Delete(rs) == /\ \A r \in rs : status[r] # "none"
              /\ status' = [r \in Runs |-> IF r \in rs THEN "gone" ELSE status[r]]
              /\ done' = [r \in Runs |-> IF r \in rs THEN 0 ELSE done[r]]

Next == \/ \E r \in Runs : \/ Create(r) \/ Begin(r) \/ Step(r)
                            \/ Pause(r) \/ Resume(r) \/ End(r)
        \/ \E rs \in SUBSET Runs : Delete(rs)

Spec == Init /\ [][Next]_vars
=============================================================================
