--------------------------- MODULE WorkflowEngine ---------------------------
(***************************************************************************)
(* The workflow engine: src/src/services/WorkflowService.ts on top of      *)
(* src/src/persistence/WorkflowRepository.ts and WorkflowRunRepository.ts. *)
(*                                                                         *)
(* executeRun is a loop that awaits one action after the other.  A run     *)
(* that executes is a row of `fibers', the memory of its loop; `runs' and  *)
(* `steps' are what it has written.  The process has one thread: while a   *)
(* loop is between two awaits nothing else happens, except that the        *)
(* process may die there, also between two statements of one handler,      *)
(* which are not in a transaction: what the first of them wrote stays.     *)
(***************************************************************************)
EXTENDS Integers, Sequences, FiniteSets, Tables

CONSTANTS Workflows,    \* ids under which workflows are registered
          Definitions,  \* the action lists a workflow may be registered with
          MaxStarts,    \* calls of executeWorkflow by others than the engine
          MaxChanges,   \* calls of registerWorkflow and deleteWorkflow
          MaxCrashes

\* A registered action; one that asks for a pause; a name nobody registered;
\* or workflow.trigger with the workflow it names.
Action == {"plain", "pause", "unknown"} \cup Workflows

ASSUME EngineAssumption ==
    /\ Definitions \in [Workflows -> SUBSET Seq(Action)]
    /\ MaxStarts \in Nat /\ MaxChanges \in Nat /\ MaxCrashes \in Nat
    /\ Workflows \cap {"plain", "pause", "unknown"} = {}

VARIABLES workflows,    \* the table workflows: the actions of each
          runs,         \* the table workflow_runs
          steps,        \* the table workflow_steps: the rows of each run
          fibers,       \* the runs whose loop is in memory
          ids,          \* run ids drawn so far
          starts, changes, crashes

vars == <<workflows, runs, steps, fibers, ids, starts, changes, crashes>>

NoRun == 0

Run   == [workflow: Workflows, current: Nat,
          status: {"pending", "running", "paused", "completed", "failed"}]
Step  == [index: Nat, action: Action, input: SUBSET Nat,
          status: {"pending", "running", "completed", "failed"}]
\* state is the set of steps whose output context.state holds.
Fiber == [actions: Seq(Action), at: Nat, state: SUBSET Nat, parent: Nat,
          phase: {"loop", "action", "call", "sub", "back", "threw"}]

TypeOK ==
    /\ IsTable(workflows, Workflows, Seq(Action))
    /\ IsTable(runs, 1..ids, Run)
    /\ IsTable(steps, 1..ids, Seq(Step)) /\ DOMAIN steps = DOMAIN runs
    /\ IsTable(fibers, 1..ids, Fiber)
    /\ ids \in Nat /\ starts \in 0..MaxStarts
    /\ changes \in 0..MaxChanges /\ crashes \in 0..MaxCrashes

Init ==
    /\ workflows = EmptyTable /\ runs = EmptyTable /\ steps = EmptyTable
    /\ fibers = EmptyTable /\ ids = 0
    /\ starts = 0 /\ changes = 0 /\ crashes = 0

\* No loop is between two awaits: the thread is free for the next event.
Settled == \A r \in DOMAIN fibers : fibers[r].phase \in {"action", "sub"}

-----------------------------------------------------------------------------
(* The repository.  An UPDATE of a row that was deleted changes nothing.     *)

SetStatus(r, status) ==
    IF r \in DOMAIN runs THEN Put(runs, r, [runs[r] EXCEPT !.status = status]) ELSE runs

\* The step of an action that runs is the last of its run.
UpdateStep(r, status) ==
    IF r \in DOMAIN steps
    THEN Put(steps, r, [steps[r] EXCEPT ![Len(steps[r])].status = status]) ELSE steps

\* A slip: a run is created in another status.
NewRun_Queued(w) == [workflow |-> w, current |-> 1, status |-> "queued"]

NewRun(w)     == [workflow |-> w, current |-> 1, status |-> "running"]
PendingRun(w) == [workflow |-> w, current |-> 1, status |-> "pending"]
FailRun(r)    == SetStatus(r, "failed")

-----------------------------------------------------------------------------
(* The loop in memory                                                        *)

NewFiber(actions, at, parent) ==
    [actions |-> actions, at |-> at, state |-> {}, parent |-> parent, phase |-> "loop"]

WithPhase(r, phase) == Put(fibers, r, [fibers[r] EXCEPT !.phase = phase])

\* executeRun returns ("back") or throws ("threw"): a parent that awaits it
\* goes on.  And a slip, a promise that is never settled.
Ended_Unsettled(r, how) == Without(fibers, {r})
Ended(r, how) ==
    LET rest == Without(fibers, {r})
        p    == fibers[r].parent
    IN IF p \in DOMAIN rest THEN Put(rest, p, [rest[p] EXCEPT !.phase = how]) ELSE rest

\* What the actions so far put into context.state.
Output(r) == fibers[r].state \cup {fibers[r].at}

Proceed(r) == Put(fibers, r, [fibers[r] EXCEPT !.at = @ + 1, !.state = Output(r),
                                               !.phase = "loop"])

CreateRun(run) ==
    /\ runs' = Put(runs, ids + 1, run)
    /\ steps' = Put(steps, ids + 1, <<>>)
    /\ ids' = ids + 1

\* executeWorkflow, synchronous or not, up to the loop: createRun of a pending
\* run and updateRun(running).
Begin(w) == CreateRun(NewRun(w))

ExecuteWorkflow(w) ==
    /\ Settled /\ starts < MaxStarts
    /\ w \in DOMAIN workflows
    /\ Begin(w)
    /\ fibers' = Put(fibers, ids + 1, NewFiber(workflows[w], 1, NoRun))
    /\ starts' = starts + 1
    /\ UNCHANGED <<workflows, changes, crashes>>

Looping(r) == r \in DOMAIN fibers /\ fibers[r].phase = "loop"
Current(r) == fibers[r].actions[fibers[r].at]
More(r)    == fibers[r].at <= Len(fibers[r].actions)

Starting(r) == Looping(r) /\ More(r) /\ Current(r) # "unknown"

AddStep(r, status) ==
    Put(steps, r, Append(steps[r], [index |-> fibers[r].at, action |-> Current(r),
                                    input |-> fibers[r].state, status |-> status]))
AtStep(r) == Put(runs, r, [runs[r] EXCEPT !.current = fibers[r].at])

\* createStep of a pending step, updateRun(currentStep), updateStep(running), and
\* the call.
StartAction(r) ==
    /\ Starting(r) /\ r \in DOMAIN runs
    /\ steps' = AddStep(r, "running")
    /\ runs' = AtStep(r)
    /\ fibers' = WithPhase(r, IF Current(r) \in Workflows THEN "call" ELSE "action")
    /\ UNCHANGED <<workflows, ids, starts, changes, crashes>>

\* The run was deleted: the foreign key refuses its step, outside any try.
StepRefused(r) ==
    /\ Starting(r) /\ r \notin DOMAIN runs
    /\ fibers' = Ended(r, "threw")
    /\ UNCHANGED <<workflows, runs, steps, ids, starts, changes, crashes>>

\* Unknown action: the run fails without a step.
UnknownAction(r) ==
    /\ Looping(r) /\ More(r) /\ Current(r) = "unknown"
    /\ runs' = FailRun(r)
    /\ fibers' = Ended(r, "back")
    /\ UNCHANGED <<workflows, steps, ids, starts, changes, crashes>>

CompleteRun(r) ==
    /\ Looping(r) /\ ~More(r)
    /\ runs' = SetStatus(r, "completed")
    /\ fibers' = Ended(r, "back")
    /\ UNCHANGED <<workflows, steps, ids, starts, changes, crashes>>

\* The action whose await ends: an I/O of its own, or the call of a sub-workflow
\* that has just ended.
Awaited(r, after) ==
    /\ r \in DOMAIN fibers
    /\ fibers[r].phase = after \/ (Settled /\ fibers[r].phase = "action")

\* updateStep(completed); the loop goes on.
ActionReturns(r) ==
    /\ Awaited(r, "back")
    /\ steps' = UpdateStep(r, "completed")
    /\ fibers' = Proceed(r)
    /\ UNCHANGED <<workflows, runs, ids, starts, changes, crashes>>

\* updateStep(failed), updateRun(failed).
ActionThrows(r) ==
    /\ Awaited(r, "threw")
    /\ steps' = UpdateStep(r, "failed")
    /\ runs' = FailRun(r)
    /\ fibers' = Ended(r, "back")
    /\ UNCHANGED <<workflows, ids, starts, changes, crashes>>

\* It throws WORKFLOW_PAUSE: the next step is kept, context.state is not.
ActionPauses(r) ==
    /\ Settled /\ r \in DOMAIN fibers /\ fibers[r].phase = "action" /\ Current(r) = "pause"
    /\ steps' = UpdateStep(r, "completed")
    /\ runs' = IF r \in DOMAIN runs
               THEN Put(runs, r, [runs[r] EXCEPT !.status = "paused", !.current = fibers[r].at + 1])
               ELSE runs
    /\ fibers' = Ended(r, "back")
    /\ UNCHANGED <<workflows, ids, starts, changes, crashes>>

\* What the parent does after the call: it awaits the sub-workflow; and a slip.
AfterCall_NoAwait == "back"
AfterCall == "sub"

\* triggerSubWorkflow; executeWorkflow throws when there is no such workflow.
CallSubWorkflow(r) ==
    /\ r \in DOMAIN fibers /\ fibers[r].phase = "call"
    /\ IF Current(r) \in DOMAIN workflows
       THEN /\ Begin(Current(r))
            /\ fibers' = Put(WithPhase(r, AfterCall), ids + 1,
                             NewFiber(workflows[Current(r)], 1, r))
       ELSE /\ fibers' = WithPhase(r, "threw")
            /\ UNCHANGED <<runs, steps, ids>>
    /\ UNCHANGED <<workflows, starts, changes, crashes>>

-----------------------------------------------------------------------------
(* Requests                                                                  *)

\* The status test of resumeWorkflow; and a slip that retries failed runs too.
Resumable_Retry(r) == runs[r].status \in {"paused", "failed"}
Resumable(r) == runs[r].status = "paused"

\* Where a run goes on; and a slip, the step that asked for the pause.
ResumeAt_Pause(r) == runs[r].current - 1
ResumeAt(r) == runs[r].current

\* resumeWorkflow: the actions are read again, context.state is {} again.
ResumeWorkflow(r) ==
    /\ Settled
    /\ r \in DOMAIN runs /\ Resumable(r) /\ runs[r].workflow \in DOMAIN workflows
    /\ runs' = SetStatus(r, "running")
    /\ fibers' = Put(fibers, r, NewFiber(workflows[runs[r].workflow], ResumeAt(r), NoRun))
    /\ UNCHANGED <<workflows, steps, ids, starts, changes, crashes>>

Change == Settled /\ changes < MaxChanges /\ changes' = changes + 1

\* registerWorkflow: INSERT, or UPDATE of the row with that id.
RegisterWorkflow(w, actions) ==
    /\ Change
    /\ workflows' = Put(workflows, w, actions)
    /\ UNCHANGED <<runs, steps, fibers, ids, starts, crashes>>

RunsOf(w) == {r \in DOMAIN runs : runs[r].workflow = w}

\* deleteWorkflow: the runs and the steps go with it (ON DELETE CASCADE).
DeleteWorkflow(w) ==
    /\ Change
    /\ w \in DOMAIN workflows
    /\ workflows' = Without(workflows, {w})
    /\ runs' = Without(runs, RunsOf(w))
    /\ steps' = Without(steps, RunsOf(w))
    /\ UNCHANGED <<fibers, ids, starts, crashes>>

-----------------------------------------------------------------------------
(* The process dies, wherever its thread is.                                 *)

Dies == /\ crashes < MaxCrashes /\ crashes' = crashes + 1
        /\ fibers' = EmptyTable
        /\ UNCHANGED <<workflows, changes>>

\* After createRun, of a caller or of a loop that calls a sub-workflow.
DiesAfterCreateRun(w) ==
    /\ Dies /\ w \in DOMAIN workflows
    /\ \/ Settled /\ starts < MaxStarts /\ starts' = starts + 1
       \/ /\ \E r \in DOMAIN fibers : fibers[r].phase = "call" /\ Current(r) = w
          /\ UNCHANGED starts
    /\ CreateRun(PendingRun(w))

\* After createStep, or after updateRun(currentStep).
DiesAfterCreateStep(r) ==
    /\ Dies /\ Starting(r) /\ r \in DOMAIN runs
    /\ steps' = AddStep(r, "pending")
    /\ runs' \in {runs, AtStep(r)}
    /\ UNCHANGED <<ids, starts>>

\* After updateStep(failed), of an action that threw.
DiesAfterFailStep(r) ==
    /\ Dies /\ Awaited(r, "threw")
    /\ steps' = UpdateStep(r, "failed")
    /\ UNCHANGED <<runs, ids, starts>>

\* With nothing half written, or after the updateStep(completed) of a pause, which
\* is that of any action that returns.
DiesClean == Dies /\ UNCHANGED <<runs, steps, ids, starts>>

Crash == \/ DiesClean
         \/ \E w \in Workflows : DiesAfterCreateRun(w)
         \/ \E r \in 1..ids : DiesAfterCreateStep(r) \/ DiesAfterFailStep(r)

-----------------------------------------------------------------------------
LoopStep(r) == \/ StartAction(r) \/ StepRefused(r) \/ UnknownAction(r)
               \/ CompleteRun(r) \/ CallSubWorkflow(r)
ActionEnds(r) == ActionReturns(r) \/ ActionThrows(r) \/ ActionPauses(r)

Requests ==
    \/ \E w \in Workflows : \/ ExecuteWorkflow(w) \/ DeleteWorkflow(w)
                            \/ \E actions \in Definitions[w] : RegisterWorkflow(w, actions)
    \/ \E r \in 1..ids : ResumeWorkflow(r)

Next == \/ Requests \/ Crash
        \/ \E r \in 1..ids : LoopStep(r) \/ ActionEnds(r)

Spec == Init /\ [][Next]_vars

\* Enough ids when a run a caller starts leads to at most one sub-workflow.
RunIds == 1..(2 * MaxStarts)

\* The thread goes on, and an action that was called returns or throws.
FairSpec == /\ Spec
            /\ WF_vars(\E r \in 1..ids : LoopStep(r))
            /\ \A r \in RunIds : WF_vars(ActionEnds(r))

-----------------------------------------------------------------------------
(* Properties *)

Lifecycle == INSTANCE WorkflowRuns WITH
    Runs   <- RunIds,
    status <- [r \in RunIds |-> IF r \in DOMAIN runs THEN runs[r].status
                                ELSE IF r <= ids THEN "gone" ELSE "none"],
    done   <- [r \in RunIds |-> IF r \notin DOMAIN steps THEN 0
                 ELSE Cardinality({i \in DOMAIN steps[r] : steps[r][i].status = "completed"})]

\* A run is added to only while it runs, can be resumed only when paused, and is
\* over when it has completed or failed: also after the process died, and when
\* its workflow is changed or deleted while it executes.
ImplementsWorkflowRuns == Lifecycle!Spec

\* The earlier steps of a run since it was last paused.
SincePause(log, i) ==
    {j \in 1..(i - 1) : \A k \in j..(i - 1) : log[k].action # "pause"}

\* The steps of a run are its actions in order, each executed once, the loops
\* before and after a pause taken together; only the last can be other than
\* completed, and its status and current_step agree with the run's.  "Sequential
\* action execution with shared state": a step sees the output of every step
\* before it, at least of those since its run was last paused.  A process that
\* died between two statements leaves at most a run that never began, a last
\* step that never began, one ahead of current_step or not, or a failed last
\* step, and such a run is still marked running.
StepLog ==
    \A r \in DOMAIN runs :
        LET log  == steps[r]
            n    == Len(log)
            run  == runs[r]
            last == IF n > 0 THEN log[n].status ELSE "none"
        IN /\ \A i \in 1..n : /\ log[i].index = i /\ (i < n => log[i].status = "completed")
                             /\ SincePause(log, i) \subseteq log[i].input
           /\ run.status = "pending" => n = 0 /\ crashes > 0
           /\ n > 0 => CASE run.status = "paused"    -> last = "completed" /\ run.current = n + 1
                         [] run.status = "completed" -> last = "completed"
                         [] run.status = "failed"    -> last \in {"completed", "failed"}
                         [] OTHER -> \/ last = "completed" /\ run.current \in {n, n + 1}
                                     \/ last = "running" /\ run.current = n
                                     \/ last = "failed" /\ run.current = n /\ crashes > 0
                                     \/ last = "pending" /\ run.current \in {n - 1, n} /\ crashes > 0

\* Memory and tables tell the same: a run is marked running exactly while its loop
\* is in memory, as long as the process has not died; and a parent waits exactly
\* as long as the one sub-workflow it called executes, even if either is deleted.
LoopsMatchRuns ==
    /\ crashes = 0 => \A r \in DOMAIN runs : runs[r].status = "running" <=> r \in DOMAIN fibers
    /\ \A p \in DOMAIN fibers :
          LET children == {r \in DOMAIN fibers : fibers[r].parent = p}
          IN IF fibers[p].phase = "sub" THEN Cardinality(children) = 1 ELSE children = {}

\* A run that executes ends or pauses, and so do the runs that wait for it, as
\* long as the process lives: deleting workflows does not leave one hanging.
RunsEnd == \A r \in RunIds : r \in DOMAIN fibers ~> r \notin DOMAIN fibers
=============================================================================
