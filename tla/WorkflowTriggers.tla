-------------------------- MODULE WorkflowTriggers --------------------------
(***************************************************************************)
(* What starts workflows by itself: src/src/services/TriggerService.ts.    *)
(* The table workflow_triggers says which triggers there are and which are *)
(* active; the cron jobs and the event listeners that act on them are in   *)
(* memory.  Every operation runs between two awaits, so each is one step.  *)
(* Of the engine only the calls of executeWorkflow are seen here.          *)
(***************************************************************************)
EXTENDS Naturals, Sequences, Tables

CONSTANTS Workflows, Triggers,
          Events, Sources,  \* event types, and who emits them
          MaxFirings,       \* webhooks, cron times and events
          MaxChanges,       \* changes of the table, by requests
          MaxCrashes

ASSUME TriggersAssumption == MaxFirings \in Nat /\ MaxChanges \in Nat /\ MaxCrashes \in Nat

Kinds == {"webhook", "schedule"} \cup Events

VARIABLES workflows,    \* the ids in the table workflows
          triggers,     \* the table workflow_triggers
          jobs,         \* scheduledJobs: the workflow each cron job starts
          listeners,    \* eventListeners: pairs of an event type and a trigger
          up,           \* the server has called initialize
          drawn,        \* trigger ids drawn so far
          firings,      \* the time, in firings
          started,      \* the calls of executeWorkflow that found the workflow
          changes, crashes

vars == <<workflows, triggers, jobs, listeners, up, drawn, firings, started, changes, crashes>>

\* valid: cron.validate accepts the expression.  only: the source filter, if any.
Trigger == [workflow: Workflows, kind: Kinds, valid: BOOLEAN, only: SUBSET Sources,
            active: BOOLEAN, last: Nat]
Start   == [trigger: Triggers, workflow: Workflows, at: Nat]

TypeOK ==
    /\ workflows \in SUBSET Workflows /\ drawn \in SUBSET Triggers
    /\ IsTable(triggers, drawn, Trigger)
    /\ IsTable(jobs, drawn, Workflows) /\ listeners \in SUBSET (Events \X drawn)
    /\ up \in BOOLEAN /\ started \in SUBSET Start
    /\ firings \in 0..MaxFirings /\ changes \in 0..MaxChanges /\ crashes \in 0..MaxCrashes

Init ==
    /\ workflows = {} /\ triggers = EmptyTable /\ jobs = EmptyTable /\ listeners = {}
    /\ up = FALSE /\ drawn = {} /\ started = {}
    /\ firings = 0 /\ changes = 0 /\ crashes = 0

-----------------------------------------------------------------------------
(* The triggers in memory                                                    *)

\* Slips: deactivating a schedule forgets its job; initialize arms every row.
Disarm_EventsOnly(t) == jobs
ToArm_All == DOMAIN triggers

\* startScheduledTrigger (an invalid cron expression is logged, and no job is
\* created) and stopScheduledTrigger.
Arm(t, row) == IF row.kind = "schedule" /\ row.valid THEN Put(jobs, t, row.workflow) ELSE jobs
Disarm(t)   == Without(jobs, {t})

Listen(t, row) == IF row.kind \in Events THEN listeners \cup {<<row.kind, t>>} ELSE listeners
Unlisten(t)    == {l \in listeners : l[2] # t}

\* initialize: the active triggers of the table.
ToArm == {t \in DOMAIN triggers : triggers[t].active}

Initialize ==
    /\ ~up /\ up' = TRUE
    /\ jobs' = [t \in {u \in ToArm : triggers[u].kind = "schedule" /\ triggers[u].valid} |->
                    triggers[t].workflow]
    /\ listeners' = {<<triggers[t].kind, t>> : t \in {u \in ToArm : triggers[u].kind \in Events}}
    /\ UNCHANGED <<workflows, triggers, drawn, firings, started, changes, crashes>>

-----------------------------------------------------------------------------
(* Requests                                                                  *)

Request == up /\ changes < MaxChanges /\ changes' = changes + 1

\* createTrigger; the foreign key wants the workflow, the controllers an active
\* trigger.
CreateTrigger(t, w, kind, valid, only) ==
    LET row == [workflow |-> w, kind |-> kind, valid |-> valid, only |-> only,
                active |-> TRUE, last |-> 0]
    IN /\ Request
       /\ t \notin drawn /\ w \in workflows
       /\ drawn' = drawn \cup {t}
       /\ triggers' = Put(triggers, t, row)
       /\ jobs' = Arm(t, row) /\ listeners' = Listen(t, row)
       /\ UNCHANGED <<workflows, up, firings, started, crashes>>

SetTriggerActive(t, active) ==
    /\ Request
    /\ t \in DOMAIN triggers
    /\ triggers' = Put(triggers, t, [triggers[t] EXCEPT !.active = active])
    /\ jobs' = IF active THEN Arm(t, triggers[t]) ELSE Disarm(t)
    /\ listeners' = IF active THEN Listen(t, triggers[t]) ELSE Unlisten(t)
    /\ UNCHANGED <<workflows, up, drawn, firings, started, crashes>>

\* deleteTrigger; for a row that is gone it stops nothing.
DeleteTrigger(t) ==
    /\ Request
    /\ t \in DOMAIN triggers
    /\ triggers' = Without(triggers, {t})
    /\ jobs' = Disarm(t) /\ listeners' = Unlisten(t)
    /\ UNCHANGED <<workflows, up, drawn, firings, started, crashes>>

RegisterWorkflow(w) ==
    /\ Request
    /\ workflows' = workflows \cup {w}
    /\ UNCHANGED <<triggers, jobs, listeners, up, drawn, firings, started, crashes>>

\* WorkflowService.deleteWorkflow: the rows of its triggers go with it (ON
\* DELETE CASCADE), the jobs and listeners stay.
DeleteWorkflow(w) ==
    /\ Request
    /\ w \in workflows
    /\ workflows' = workflows \ {w}
    /\ triggers' = Without(triggers, {t \in DOMAIN triggers : triggers[t].workflow = w})
    /\ UNCHANGED <<jobs, listeners, up, drawn, firings, started, crashes>>

-----------------------------------------------------------------------------
(* Firings                                                                   *)

Fire == up /\ firings < MaxFirings /\ firings' = firings + 1

\* updateLastTriggered of some triggers: rows that are gone are not updated.
Stamp(ts) == [t \in DOMAIN triggers |->
    IF t \in ts THEN [triggers[t] EXCEPT !.last = firings + 1] ELSE triggers[t]]

\* executeWorkflow, for triggers and the workflow of each; the missing ones throw.
Execute(ts, workflow) ==
    started' = started \cup {[trigger |-> t, workflow |-> workflow[t], at |-> firings + 1] :
                             t \in {u \in ts : workflow[u] \in workflows}}

OfRow(ts) == [t \in ts |-> triggers[t].workflow]

\* handleWebhookTrigger, past the check of the required fields.
HandleWebhookTrigger(t) ==
    /\ Fire
    /\ t \in DOMAIN triggers /\ triggers[t].active /\ triggers[t].kind = "webhook"
    /\ triggers' = Stamp({t})
    /\ Execute({t}, OfRow({t}))
    /\ UNCHANGED <<workflows, jobs, listeners, up, drawn, changes, crashes>>

\* The callback of a cron job, which looks at no row.
CronFires(t) ==
    /\ Fire
    /\ t \in DOMAIN jobs
    /\ triggers' = Stamp({t})
    /\ Execute({t}, jobs)
    /\ UNCHANGED <<workflows, jobs, listeners, up, drawn, changes, crashes>>

Passes(row, source) == row.only = {} \/ source = {} \/ row.only = source

\* A slip of emitEvent: a trigger without a filter takes events without source.
Listening_Strict(event, source) ==
    {t \in DOMAIN triggers : /\ <<event, t>> \in listeners /\ triggers[t].active
                             /\ triggers[t].only = source}

\* The listeners of the event that emitEvent does not skip.
Listening(event, source) ==
    {t \in DOMAIN triggers : /\ <<event, t>> \in listeners /\ triggers[t].active
                             /\ Passes(triggers[t], source)}

EmitEvent(event, source) ==
    LET ts == Listening(event, source)
    IN /\ Fire
       /\ triggers' = Stamp(ts)
       /\ Execute(ts, OfRow(ts))
       /\ UNCHANGED <<workflows, jobs, listeners, up, drawn, changes, crashes>>

\* The process dies, and its memory with it.
Crash ==
    /\ up /\ crashes < MaxCrashes /\ crashes' = crashes + 1
    /\ up' = FALSE /\ jobs' = EmptyTable /\ listeners' = {}
    /\ UNCHANGED <<workflows, triggers, drawn, firings, started, changes>>

-----------------------------------------------------------------------------
Optional(S) == {{}} \cup {{x} : x \in S}

Requests ==
    \/ \E t \in Triggers :
          \/ DeleteTrigger(t)
          \/ \E active \in BOOLEAN : SetTriggerActive(t, active)
          \/ \E w \in Workflows : \E kind \in Kinds, valid \in BOOLEAN, only \in Optional(Sources) :
                CreateTrigger(t, w, kind, valid, only)
    \/ \E w \in Workflows : RegisterWorkflow(w) \/ DeleteWorkflow(w)

Firings ==
    \/ \E t \in Triggers : HandleWebhookTrigger(t) \/ CronFires(t)
    \/ \E event \in Events, source \in Optional(Sources) : EmitEvent(event, source)

Next == Initialize \/ Requests \/ Firings \/ Crash

Spec == Init /\ [][Next]_vars

-----------------------------------------------------------------------------
(* Properties *)

Armed(t) == t \in DOMAIN jobs \/ \E event \in Events : <<event, t>> \in listeners

\* Memory agrees with the table while the server is up: a schedule or event
\* trigger is armed exactly when its row is active, with the workflow of its row,
\* after any changes, crashes and restarts (a schedule with an invalid cron
\* expression is never armed, although its row says active).  Of a trigger that went
\* with its workflow nothing is promised: its job runs on.
ArmedIffActive ==
    up => \A t \in DOMAIN triggers :
        LET row == triggers[t]
        IN /\ row.kind # "webhook" /\ row.valid => (Armed(t) <=> row.active)
           /\ t \in DOMAIN jobs => jobs[t] = row.workflow

\* What has just been started by a trigger with a row: that row is active, of this
\* workflow, and last_triggered_at says when.  (A job whose row went with its workflow
\* may start a workflow that is registered under the same id again.)
OnlyActiveFire ==
    [][\A s \in started' \ started : s.trigger \in DOMAIN triggers =>
          /\ triggers[s.trigger].active
          /\ triggers[s.trigger].workflow = s.workflow
          /\ triggers'[s.trigger].last = s.at]_vars

\* An event starts every active trigger that listens for it and whose filter lets
\* its source pass: no such trigger is missing from memory.
EventsReachTriggers ==
    [][\A event \in Events, source \in Optional(Sources) :
          EmitEvent(event, source) =>
              \A t \in DOMAIN triggers :
                  /\ triggers[t].kind = event /\ triggers[t].active
                  /\ Passes(triggers[t], source)
                  => \E s \in started' : s.trigger = t /\ s.at = firings']_vars
=============================================================================
