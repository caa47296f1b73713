----------------------- MODULE WorkflowTriggersProofs -----------------------
(***************************************************************************)
(* Theorems about WorkflowTriggers.  What the jobs and listeners in memory *)
(* are is said for each trigger by its row (Memory), with the foreign key  *)
(* of the table (Rooted); the three properties of the runs follow.         *)
(***************************************************************************)
EXTENDS WorkflowTriggers, TLAPS

-----------------------------------------------------------------------------
(* Tables *)

\* Put keeps a table a table.
LEMMA PutType ==
    ASSUME NEW Keys, NEW Rows, NEW table, IsTable(table, Keys, Rows),
           NEW key \in Keys, NEW row \in Rows
    PROVE  IsTable(Put(table, key, row), Keys, Rows)
BY DEF IsTable, Put

\* Without keeps a table a table.
LEMMA WithoutType ==
    ASSUME NEW Keys, NEW Rows, NEW table, IsTable(table, Keys, Rows), NEW keys
    PROVE  IsTable(Without(table, keys), Keys, Rows)
BY DEF IsTable, Without

\* A table may be empty.
LEMMA EmptyType ==
    ASSUME NEW Keys, NEW Rows
    PROVE  IsTable(EmptyTable, Keys, Rows) /\ DOMAIN EmptyTable = {}
BY DEF IsTable, EmptyTable

-----------------------------------------------------------------------------
(* The inductive invariant *)

\* The foreign key: a row of workflow_triggers has its workflow.
Rooted == \A t \in DOMAIN triggers : triggers[t].workflow \in workflows

\* While the server is up, a row says which job and which listener it has.
Memory ==
    up => \A t \in DOMAIN triggers :
        /\ t \in DOMAIN jobs
             <=> triggers[t].kind = "schedule" /\ triggers[t].valid /\ triggers[t].active
        /\ t \in DOMAIN jobs => jobs[t] = triggers[t].workflow
        /\ \A event \in Events :
              <<event, t>> \in listeners <=> triggers[t].kind = event /\ triggers[t].active

IInv == TypeOK /\ Rooted /\ Memory

-----------------------------------------------------------------------------
(* Rows *)

\* Switching a trigger changes what its row says of that alone.
LEMMA Switched ==
    ASSUME NEW row \in Trigger, NEW active \in BOOLEAN
    PROVE  LET new == [row EXCEPT !.active = active]
           IN /\ new \in Trigger /\ new.active = active
              /\ new.workflow = row.workflow /\ new.kind = row.kind /\ new.valid = row.valid
BY DEF Trigger

\* A stamped row differs in its time alone.
LEMMA Stamped ==
    ASSUME NEW row \in Trigger, NEW at \in Nat
    PROVE  LET new == [row EXCEPT !.last = at]
           IN /\ new \in Trigger /\ new.active = row.active /\ new.last = at
              /\ new.workflow = row.workflow /\ new.kind = row.kind /\ new.valid = row.valid
BY DEF Trigger

\* Stamp keeps the table, and what decides on jobs and listeners.
LEMMA StampKeeps ==
    ASSUME TypeOK, firings < MaxFirings, NEW ts
    PROVE  /\ IsTable(Stamp(ts), drawn, Trigger) /\ DOMAIN Stamp(ts) = DOMAIN triggers
           /\ \A t \in DOMAIN triggers :
                 /\ Stamp(ts)[t].workflow = triggers[t].workflow
                 /\ Stamp(ts)[t].kind = triggers[t].kind
                 /\ Stamp(ts)[t].valid = triggers[t].valid
                 /\ Stamp(ts)[t].active = triggers[t].active
                 /\ t \in ts => Stamp(ts)[t].last = firings + 1
<1>1. firings + 1 \in Nat  BY TriggersAssumption DEF TypeOK
<1>2. \A t \in DOMAIN triggers : triggers[t] \in Trigger  BY DEF TypeOK, IsTable
<1>3. DOMAIN Stamp(ts) = DOMAIN triggers  BY DEF Stamp
<1>4. ASSUME NEW t \in DOMAIN triggers
      PROVE  /\ Stamp(ts)[t] \in Trigger
             /\ Stamp(ts)[t].workflow = triggers[t].workflow
             /\ Stamp(ts)[t].kind = triggers[t].kind
             /\ Stamp(ts)[t].valid = triggers[t].valid
             /\ Stamp(ts)[t].active = triggers[t].active
             /\ t \in ts => Stamp(ts)[t].last = firings + 1
  <2>1. CASE t \in ts
    <3>1. Stamp(ts)[t] = [triggers[t] EXCEPT !.last = firings + 1]  BY <2>1 DEF Stamp
    <3>. QED  BY <1>1, <1>2, <3>1, Stamped
  <2>2. CASE t \notin ts
    <3>1. Stamp(ts)[t] = triggers[t]  BY <2>2 DEF Stamp
    <3>. QED  BY <1>2, <2>2, <3>1
  <2>. QED  BY <2>1, <2>2
<1>5. IsTable(Stamp(ts), drawn, Trigger)
  <2>1. DOMAIN triggers \subseteq drawn  BY DEF TypeOK, IsTable
  <2>2. Stamp(ts) \in [DOMAIN triggers -> Trigger]  BY <1>4 DEF Stamp
  <2>. QED  BY <1>3, <2>1, <2>2 DEF IsTable
<1>. QED  BY <1>3, <1>4, <1>5

\* The starts of a firing have their type.
LEMMA ExecuteType ==
    ASSUME TypeOK, firings < MaxFirings, NEW ts \in SUBSET Triggers, NEW workflow, Execute(ts, workflow)
    PROVE  started' \in SUBSET Start
<1>1. firings + 1 \in Nat  BY TriggersAssumption DEF TypeOK
<1>2. \A t \in {u \in ts : workflow[u] \in workflows} :
         [trigger |-> t, workflow |-> workflow[t], at |-> firings + 1] \in Start
  BY <1>1 DEF TypeOK, Start
<1>. QED  BY <1>2 DEF TypeOK, Execute

-----------------------------------------------------------------------------
(* Each kind of step keeps the invariant *)

LEMMA InitInv == ASSUME Init PROVE IInv
<1>1. TypeOK
  <2>1. IsTable(triggers, drawn, Trigger) /\ IsTable(jobs, drawn, Workflows)  BY EmptyType DEF Init
  <2>2. firings \in 0..MaxFirings /\ changes \in 0..MaxChanges /\ crashes \in 0..MaxCrashes
    BY TriggersAssumption DEF Init
  <2>3. workflows \in SUBSET Workflows /\ drawn \in SUBSET Triggers /\ up \in BOOLEAN
        /\ listeners \in SUBSET (Events \X drawn) /\ started \in SUBSET Start
    BY DEF Init
  <2>. QED  BY <2>1, <2>2, <2>3 DEF TypeOK
<1>2. DOMAIN triggers = {} /\ ~up  BY EmptyType DEF Init
<1>. QED  BY <1>1, <1>2 DEF IInv, Rooted, Memory

\* initialize arms the active rows.
LEMMA InitializeInv == ASSUME IInv, Initialize PROVE IInv'
<1>1. TypeOK'
  <2>1. \A t \in DOMAIN triggers : t \in drawn /\ triggers[t] \in Trigger
    BY DEF IInv, TypeOK, IsTable
  <2>2. IsTable(jobs', drawn, Workflows)
    BY <2>1 DEF Initialize, ToArm, IsTable, Trigger
  <2>3. listeners' \in SUBSET (Events \X drawn)
    BY <2>1 DEF Initialize, ToArm
  <2>. QED  BY <2>2, <2>3 DEF IInv, TypeOK, Initialize
<1>2. Rooted'  BY DEF IInv, Rooted, Initialize
<1>3. Memory'  BY DEF Memory, Initialize, ToArm
<1>. QED  BY <1>1, <1>2, <1>3 DEF IInv

\* A new row comes with its job or listener; its id was never used before.
LEMMA CreateInv ==
    ASSUME IInv, NEW t \in Triggers, NEW w \in Workflows, NEW kind \in Kinds, NEW valid \in BOOLEAN,
           NEW only \in Optional(Sources), CreateTrigger(t, w, kind, valid, only)
    PROVE  IInv'
<1>. DEFINE row == [workflow |-> w, kind |-> kind, valid |-> valid, only |-> only,
                    active |-> TRUE, last |-> 0]
<1>1. row \in Trigger  BY DEF Trigger, Optional
<1>2. /\ triggers' = Put(triggers, t, row) /\ jobs' = Arm(t, row) /\ listeners' = Listen(t, row)
      /\ t \notin drawn /\ w \in workflows /\ drawn' = drawn \cup {t} /\ changes' = changes + 1
      /\ changes < MaxChanges
      /\ UNCHANGED <<workflows, up, firings, started, crashes>>
  BY DEF CreateTrigger, Request
<1>3. /\ row.workflow = w /\ row.kind = kind /\ row.valid = valid /\ row.active = TRUE
  OBVIOUS
<1>. HIDE DEF row
<1>4. /\ IsTable(triggers, drawn', Trigger) /\ IsTable(jobs, drawn', Workflows)
      /\ listeners \subseteq Events \X drawn' /\ t \in drawn'
  BY <1>2 DEF IInv, TypeOK, IsTable
<1>5. TypeOK'
  <2>1. IsTable(triggers', drawn', Trigger)  BY <1>1, <1>2, <1>4, PutType
  <2>2. IsTable(jobs', drawn', Workflows)
    <3>1. CASE row.kind = "schedule" /\ row.valid
      <4>1. jobs' = Put(jobs, t, w)  BY <1>2, <1>3, <3>1 DEF Arm
      <4>. QED  BY <1>4, <4>1, PutType
    <3>2. CASE ~(row.kind = "schedule" /\ row.valid)
      BY <1>2, <1>4, <3>2 DEF Arm
    <3>. QED  BY <3>1, <3>2
  <2>3. listeners' \in SUBSET (Events \X drawn')  BY <1>2, <1>4 DEF Listen
  <2>4. changes' \in 0..MaxChanges  BY <1>2, TriggersAssumption DEF IInv, TypeOK
  <2>. QED  BY <1>2, <2>1, <2>2, <2>3, <2>4 DEF IInv, TypeOK
<1>6. t \notin DOMAIN triggers /\ t \notin DOMAIN jobs /\ \A event \in Events : <<event, t>> \notin listeners
  BY <1>2 DEF IInv, TypeOK, IsTable
<1>7. /\ DOMAIN triggers' = DOMAIN triggers \cup {t} /\ triggers'[t] = row
      /\ \A u \in DOMAIN triggers : triggers'[u] = triggers[u]
  BY <1>2, <1>6 DEF Put
<1>8. Rooted'  BY <1>2, <1>3, <1>7 DEF IInv, Rooted
<1>9. /\ t \in DOMAIN jobs' <=> kind = "schedule" /\ valid
      /\ t \in DOMAIN jobs' => jobs'[t] = w
      /\ \A u \in DOMAIN triggers : (u \in DOMAIN jobs' <=> u \in DOMAIN jobs) /\ (u \in DOMAIN jobs => jobs'[u] = jobs[u])
      /\ \A event \in Events : <<event, t>> \in listeners' <=> kind = event
      /\ \A event \in Events, u \in DOMAIN triggers : <<event, u>> \in listeners' <=> <<event, u>> \in listeners
  <2>1. jobs' = IF kind = "schedule" /\ valid THEN Put(jobs, t, w) ELSE jobs  BY <1>2, <1>3 DEF Arm
  <2>2. listeners' = IF kind \in Events THEN listeners \cup {<<kind, t>>} ELSE listeners
    BY <1>2, <1>3 DEF Listen
  <2>3. /\ t \in DOMAIN jobs' <=> kind = "schedule" /\ valid
        /\ t \in DOMAIN jobs' => jobs'[t] = w
    BY <1>6, <2>1 DEF Put
  <2>4. \A u \in DOMAIN triggers : (u \in DOMAIN jobs' <=> u \in DOMAIN jobs) /\ (u \in DOMAIN jobs => jobs'[u] = jobs[u])
    BY <1>6, <2>1 DEF Put
  <2>. QED  BY <1>6, <2>2, <2>3, <2>4
<1>10. Memory'  BY <1>2, <1>3, <1>7, <1>9 DEF IInv, Memory
<1>. QED  BY <1>5, <1>8, <1>10 DEF IInv

\* Switching a trigger arms or disarms it, and touches no other.
LEMMA SwitchInv ==
    ASSUME IInv, NEW t \in Triggers, NEW active \in BOOLEAN, SetTriggerActive(t, active)
    PROVE  IInv'
<1>. DEFINE row == [triggers[t] EXCEPT !.active = active]
<1>1. /\ t \in DOMAIN triggers /\ triggers' = Put(triggers, t, row)
      /\ jobs' = IF active THEN Arm(t, triggers[t]) ELSE Disarm(t)
      /\ listeners' = IF active THEN Listen(t, triggers[t]) ELSE Unlisten(t)
      /\ changes' = changes + 1 /\ changes < MaxChanges
      /\ UNCHANGED <<workflows, up, drawn, firings, started, crashes>>
  BY DEF SetTriggerActive, Request
<1>2. triggers[t] \in Trigger /\ t \in drawn  BY <1>1 DEF IInv, TypeOK, IsTable
<1>3. /\ row \in Trigger /\ row.active = active /\ row.workflow = triggers[t].workflow
      /\ row.kind = triggers[t].kind /\ row.valid = triggers[t].valid
  BY <1>2, Switched
<1>. HIDE DEF row
<1>4. jobs' = IF active THEN IF triggers[t].kind = "schedule" /\ triggers[t].valid
                            THEN Put(jobs, t, triggers[t].workflow) ELSE jobs
              ELSE Without(jobs, {t})
  BY <1>1 DEF Arm, Disarm
<1>5. listeners' = IF active THEN IF triggers[t].kind \in Events
                                 THEN listeners \cup {<<triggers[t].kind, t>>} ELSE listeners
                   ELSE {l \in listeners : l[2] # t}
  BY <1>1 DEF Listen, Unlisten
<1>6. TypeOK'
  <2>1. IsTable(triggers', drawn', Trigger)  BY <1>1, <1>2, <1>3, PutType DEF IInv, TypeOK
  <2>2. triggers[t].workflow \in Workflows  BY <1>2 DEF Trigger
  <2>3. IsTable(jobs', drawn', Workflows)
    <3>1. IsTable(jobs, drawn, Workflows)  BY DEF IInv, TypeOK
    <3>2. IsTable(Put(jobs, t, triggers[t].workflow), drawn, Workflows)  BY <1>2, <2>2, <3>1, PutType
    <3>3. IsTable(Without(jobs, {t}), drawn, Workflows)  BY <3>1, WithoutType
    <3>. QED  BY <1>1, <1>4, <3>1, <3>2, <3>3
  <2>4. listeners' \in SUBSET (Events \X drawn')  BY <1>1, <1>2, <1>5 DEF IInv, TypeOK
  <2>5. changes' \in 0..MaxChanges  BY <1>1, TriggersAssumption DEF IInv, TypeOK
  <2>. QED  BY <1>1, <2>1, <2>3, <2>4, <2>5 DEF IInv, TypeOK
<1>7. /\ DOMAIN triggers' = DOMAIN triggers /\ triggers'[t] = row
      /\ \A u \in DOMAIN triggers : u # t => triggers'[u] = triggers[u]
  BY <1>1 DEF Put
<1>8. Rooted'  BY <1>1, <1>3, <1>7 DEF IInv, Rooted
<1>9. ASSUME up
      PROVE  /\ t \in DOMAIN jobs' <=> triggers[t].kind = "schedule" /\ triggers[t].valid /\ active
             /\ t \in DOMAIN jobs' => jobs'[t] = triggers[t].workflow
             /\ \A u \in DOMAIN triggers : u # t =>
                   (u \in DOMAIN jobs' <=> u \in DOMAIN jobs) /\ (u \in DOMAIN jobs => jobs'[u] = jobs[u])
  <2>1. /\ t \in DOMAIN jobs <=> triggers[t].kind = "schedule" /\ triggers[t].valid /\ triggers[t].active
        /\ t \in DOMAIN jobs => jobs[t] = triggers[t].workflow
    BY <1>1, <1>9 DEF IInv, Memory
  <2>. QED  BY <1>4, <2>1 DEF Put, Without
<1>10. ASSUME up
       PROVE  /\ \A event \in Events :
                    <<event, t>> \in listeners' <=> triggers[t].kind = event /\ active
              /\ \A event \in Events, u \in DOMAIN triggers :
                    u # t => (<<event, u>> \in listeners' <=> <<event, u>> \in listeners)
  <2>1. \A event \in Events :
           <<event, t>> \in listeners <=> triggers[t].kind = event /\ triggers[t].active
    BY <1>1, <1>10 DEF IInv, Memory
  <2>2. CASE active
    <3>1. listeners' = IF triggers[t].kind \in Events
                       THEN listeners \cup {<<triggers[t].kind, t>>} ELSE listeners
      BY <1>5, <2>2
    <3>. QED  BY <2>1, <2>2, <3>1
  <2>3. CASE ~active
    <3>1. listeners' = {l \in listeners : l[2] # t}  BY <1>5, <2>3
    <3>. QED  BY <2>3, <3>1
  <2>. QED  BY <2>2, <2>3
<1>11. Memory'  BY <1>1, <1>3, <1>7, <1>9, <1>10 DEF IInv, Memory
<1>. QED  BY <1>6, <1>8, <1>11 DEF IInv

\* What is taken from the table leaves the memory of the rows that stay alone.
LEMMA DeleteInv ==
    ASSUME IInv, NEW gone, NEW W, triggers' = Without(triggers, gone), workflows' = workflows \ W,
           \A t \in DOMAIN triggers : triggers[t].workflow \in W => t \in gone,
           \/ UNCHANGED <<jobs, listeners>>
           \/ \E t \in gone : jobs' = Disarm(t) /\ listeners' = Unlisten(t),
           Request, UNCHANGED <<up, drawn, firings, started, crashes>>
    PROVE  IInv'
<1>1. /\ DOMAIN triggers' = DOMAIN triggers \ gone
      /\ \A t \in DOMAIN triggers' : triggers'[t] = triggers[t]
  BY DEF Without
<1>2. /\ \A t \in DOMAIN triggers' : (t \in DOMAIN jobs' <=> t \in DOMAIN jobs) /\ (t \in DOMAIN jobs => jobs'[t] = jobs[t])
      /\ \A event \in Events, t \in DOMAIN triggers' : <<event, t>> \in listeners' <=> <<event, t>> \in listeners
  <2>1. CASE UNCHANGED <<jobs, listeners>>  BY <2>1
  <2>2. CASE \E t \in gone : jobs' = Disarm(t) /\ listeners' = Unlisten(t)
    BY <1>1, <2>2 DEF Disarm, Unlisten, Without
  <2>. QED  BY <2>1, <2>2
<1>3. IsTable(jobs', drawn, Workflows) /\ listeners' \subseteq Events \X drawn
  <2>1. IsTable(jobs, drawn, Workflows) /\ listeners \subseteq Events \X drawn  BY DEF IInv, TypeOK
  <2>2. CASE UNCHANGED <<jobs, listeners>>  BY <2>1, <2>2
  <2>3. ASSUME NEW t \in gone, jobs' = Disarm(t), listeners' = Unlisten(t)
        PROVE  IsTable(jobs', drawn, Workflows) /\ listeners' \subseteq Events \X drawn
    <3>1. IsTable(jobs', drawn, Workflows)  BY <2>1, <2>3, WithoutType DEF Disarm
    <3>2. listeners' \subseteq Events \X drawn  BY <2>1, <2>3 DEF Unlisten
    <3>. QED  BY <3>1, <3>2
  <2>. QED  BY <2>2, <2>3
<1>4. IsTable(triggers', drawn, Trigger)  BY WithoutType DEF IInv, TypeOK
<1>5. changes' \in 0..MaxChanges  BY TriggersAssumption DEF Request, IInv, TypeOK
<1>6. TypeOK'  BY <1>3, <1>4, <1>5 DEF IInv, TypeOK
<1>7. Rooted'  BY <1>1 DEF IInv, Rooted
<1>8. Memory'  BY <1>1, <1>2 DEF IInv, Memory
<1>. QED  BY <1>6, <1>7, <1>8 DEF IInv

\* A firing stamps rows and starts workflows.
LEMMA FireInv ==
    ASSUME IInv, Fire, NEW ts \in SUBSET Triggers, NEW workflow, triggers' = Stamp(ts), Execute(ts, workflow),
           UNCHANGED <<workflows, jobs, listeners, up, drawn, changes, crashes>>
    PROVE  IInv'
<1>1. firings < MaxFirings /\ firings' = firings + 1 /\ TypeOK  BY DEF Fire, IInv
<1>2. firings' \in 0..MaxFirings  BY <1>1, TriggersAssumption DEF TypeOK
<1>3. started' \in SUBSET Start  BY <1>1, ExecuteType
<1>4. TypeOK'  BY <1>1, <1>2, <1>3, StampKeeps DEF TypeOK
<1>5. Rooted'  BY <1>1, StampKeeps DEF IInv, Rooted
<1>6. Memory'  BY <1>1, StampKeeps DEF IInv, Memory
<1>. QED  BY <1>4, <1>5, <1>6 DEF IInv

\* The process dies and forgets.
LEMMA CrashInv == ASSUME IInv, Crash PROVE IInv'
<1>1. IsTable(jobs', drawn, Workflows)  BY EmptyType DEF Crash
<1>2. crashes' \in 0..MaxCrashes  BY TriggersAssumption DEF Crash, IInv, TypeOK
<1>3. TypeOK'  BY <1>1, <1>2 DEF Crash, IInv, TypeOK
<1>4. Rooted' /\ Memory'  BY DEF Crash, IInv, Rooted, Memory
<1>. QED  BY <1>3, <1>4 DEF IInv

\* Every step keeps the invariant.
LEMMA StepInv == ASSUME IInv, [Next]_vars PROVE IInv'
<1>1. CASE Initialize  BY <1>1, InitializeInv
<1>2. CASE Crash  BY <1>2, CrashInv
<1>3. CASE UNCHANGED vars
  BY <1>3 DEF vars, IInv, TypeOK, Rooted, Memory
<1>4. ASSUME NEW t \in Triggers, DeleteTrigger(t) PROVE IInv'
  <2>. DEFINE gone == {t}
              none == {}
  <2>1. \A u \in DOMAIN triggers : triggers[u].workflow \in none => u \in gone  OBVIOUS
  <2>2. workflows' = workflows \ none  BY <1>4 DEF DeleteTrigger
  <2>3. triggers' = Without(triggers, gone)  BY <1>4 DEF DeleteTrigger
  <2>4. Request /\ UNCHANGED <<up, drawn, firings, started, crashes>>  BY <1>4 DEF DeleteTrigger
  <2>5. \/ UNCHANGED <<jobs, listeners>>
        \/ \E u \in gone : jobs' = Disarm(u) /\ listeners' = Unlisten(u)
    BY <1>4 DEF DeleteTrigger
  <2>. HIDE DEF gone, none
  <2>. QED  BY <1>4, <2>1, <2>2, <2>3, <2>4, <2>5, DeleteInv
<1>5. ASSUME NEW w \in Workflows, DeleteWorkflow(w) PROVE IInv'
  <2>. DEFINE gone == {t \in DOMAIN triggers : triggers[t].workflow = w}
  <2>1. \A t \in DOMAIN triggers : triggers[t].workflow \in {w} => t \in gone  OBVIOUS
  <2>2. workflows' = workflows \ {w}  BY <1>5 DEF DeleteWorkflow
  <2>3. triggers' = Without(triggers, gone)  BY <1>5 DEF DeleteWorkflow
  <2>4. Request /\ UNCHANGED <<up, drawn, firings, started, crashes>>  BY <1>5 DEF DeleteWorkflow
  <2>5. \/ UNCHANGED <<jobs, listeners>>
        \/ \E t \in gone : jobs' = Disarm(t) /\ listeners' = Unlisten(t)
    BY <1>5 DEF DeleteWorkflow
  <2>. HIDE DEF gone
  <2>. QED  BY <1>5, <2>1, <2>2, <2>3, <2>4, <2>5, DeleteInv
<1>6. ASSUME NEW w \in Workflows, RegisterWorkflow(w) PROVE IInv'
  <2>1. changes' \in 0..MaxChanges
    BY <1>6, TriggersAssumption DEF RegisterWorkflow, Request, IInv, TypeOK
  <2>2. TypeOK'  BY <1>6, <2>1 DEF RegisterWorkflow, IInv, TypeOK
  <2>3. Rooted' /\ Memory'  BY <1>6 DEF RegisterWorkflow, IInv, Rooted, Memory
  <2>. QED  BY <2>2, <2>3 DEF IInv
<1>7. ASSUME NEW t \in Triggers, HandleWebhookTrigger(t) PROVE IInv'
  BY <1>7, FireInv DEF HandleWebhookTrigger
<1>8. ASSUME NEW t \in Triggers, CronFires(t) PROVE IInv'
  BY <1>8, FireInv DEF CronFires
<1>9. ASSUME NEW event \in Events, NEW source \in Optional(Sources), EmitEvent(event, source) PROVE IInv'
  <2>1. Listening(event, source) \in SUBSET Triggers  BY DEF Listening, IInv, TypeOK, IsTable
  <2>. QED  BY <1>9, <2>1, FireInv DEF EmitEvent
<1>. QED
  BY <1>1, <1>2, <1>3, <1>4, <1>5, <1>6, <1>7, <1>8, <1>9, CreateInv, SwitchInv
  DEF Next, Requests, Firings

-----------------------------------------------------------------------------
(* Theorems *)

\* The invariant holds in every state.
THEOREM Invariant == Spec => []IInv
<1>1. Init => IInv  BY InitInv
<1>2. IInv /\ [Next]_vars => IInv'  BY StepInv
<1>. QED  BY <1>1, <1>2, PTL DEF Spec

\* Tables, jobs, listeners and starts keep their types: TriggerService only stamps
\* rows that are there, and every job and listener names a trigger that was created.
THEOREM TriggersTypeCorrect == Spec => []TypeOK
<1>1. IInv => TypeOK  BY DEF IInv
<1>. QED  BY <1>1, Invariant, PTL

\* The jobs and listeners in memory are those of the active rows, after any number
\* of changes, crashes and restarts.
THEOREM MemoryAgrees == Spec => []ArmedIffActive
<1>1. ASSUME IInv PROVE ArmedIffActive
  <2>1. \A t \in DOMAIN triggers : triggers[t].kind \in Kinds /\ triggers[t].active \in BOOLEAN
    BY <1>1 DEF IInv, TypeOK, IsTable, Trigger
  <2>. QED  BY <1>1, <2>1 DEF IInv, Memory, ArmedIffActive, Armed, Kinds
<1>. QED  BY <1>1, Invariant, PTL

\* A firing starts what Execute says.
LEMMA StartsOf ==
    ASSUME NEW ts, NEW workflow, Execute(ts, workflow), NEW s \in started' \ started
    PROVE  /\ s.trigger \in ts /\ s.workflow = workflow[s.trigger] /\ s.at = firings + 1
BY DEF Execute

\* A trigger with a row starts a workflow only while it is active, the workflow of
\* its row, and leaves its time there.
THEOREM OnlyTheActiveFire == Spec => OnlyActiveFire
<1>. DEFINE Right == \A s \in started' \ started : s.trigger \in DOMAIN triggers =>
                        /\ triggers[s.trigger].active
                        /\ triggers[s.trigger].workflow = s.workflow
                        /\ triggers'[s.trigger].last = s.at
<1>1. ASSUME IInv, [Next]_vars PROVE Right
  <2>. SUFFICES ASSUME NEW s \in started' \ started, s.trigger \in DOMAIN triggers
                PROVE  /\ triggers[s.trigger].active
                       /\ triggers[s.trigger].workflow = s.workflow
                       /\ triggers'[s.trigger].last = s.at
    OBVIOUS
  <2>1. ASSUME Fire, NEW ts, NEW workflow, triggers' = Stamp(ts), Execute(ts, workflow),
               \A t \in ts \cap DOMAIN triggers : triggers[t].active /\ workflow[t] = triggers[t].workflow
        PROVE  /\ triggers[s.trigger].active
               /\ triggers[s.trigger].workflow = s.workflow
               /\ triggers'[s.trigger].last = s.at
    <3>1. s.trigger \in ts /\ s.workflow = workflow[s.trigger] /\ s.at = firings + 1
      BY <2>1, StartsOf
    <3>2. Stamp(ts)[s.trigger].last = firings + 1
      BY <1>1, <2>1, <3>1, StampKeeps DEF IInv, Fire
    <3>. QED  BY <2>1, <3>1, <3>2
  <2>2. ASSUME NEW t \in Triggers, HandleWebhookTrigger(t)
        PROVE  /\ triggers[s.trigger].active
               /\ triggers[s.trigger].workflow = s.workflow
               /\ triggers'[s.trigger].last = s.at
    <3>1. \A u \in {t} \cap DOMAIN triggers : triggers[u].active /\ OfRow({t})[u] = triggers[u].workflow
      BY <2>2 DEF HandleWebhookTrigger, OfRow
    <3>. QED  BY <2>1, <2>2, <3>1 DEF HandleWebhookTrigger
  <2>3. ASSUME NEW t \in Triggers, CronFires(t)
        PROVE  /\ triggers[s.trigger].active
               /\ triggers[s.trigger].workflow = s.workflow
               /\ triggers'[s.trigger].last = s.at
    <3>1. \A u \in {t} \cap DOMAIN triggers : triggers[u].active /\ jobs[u] = triggers[u].workflow
      BY <1>1, <2>3 DEF CronFires, Fire, IInv, Memory
    <3>. QED  BY <2>1, <2>3, <3>1 DEF CronFires
  <2>4. ASSUME NEW event \in Events, NEW source \in Optional(Sources), EmitEvent(event, source)
        PROVE  /\ triggers[s.trigger].active
               /\ triggers[s.trigger].workflow = s.workflow
               /\ triggers'[s.trigger].last = s.at
    <3>. DEFINE ts == Listening(event, source)
    <3>1. \A u \in ts \cap DOMAIN triggers : triggers[u].active /\ OfRow(ts)[u] = triggers[u].workflow
      BY DEF Listening, OfRow
    <3>. QED  BY <2>1, <2>4, <3>1 DEF EmitEvent
  <2>5. CASE UNCHANGED started  BY <2>5
  <2>6. CASE Initialize \/ Requests \/ Crash \/ UNCHANGED vars
    BY <2>5, <2>6 DEF Initialize, Requests, Crash, vars, DeleteTrigger, SetTriggerActive,
       CreateTrigger, RegisterWorkflow, DeleteWorkflow
  <2>. QED  BY <1>1, <2>2, <2>3, <2>4, <2>6 DEF Next, Firings
<1>. QED  BY <1>1, Invariant, PTL DEF Spec, OnlyActiveFire

\* No active trigger misses an event of its kind that passes its filter.
THEOREM EventsReach == Spec => EventsReachTriggers
<1>. DEFINE Reached == \A event \in Events, source \in Optional(Sources) :
               EmitEvent(event, source) =>
                   \A t \in DOMAIN triggers :
                       /\ triggers[t].kind = event /\ triggers[t].active
                       /\ Passes(triggers[t], source)
                       => \E s \in started' : s.trigger = t /\ s.at = firings'
<1>1. ASSUME IInv PROVE Reached
  <2>. SUFFICES ASSUME NEW event \in Events, NEW source \in Optional(Sources), EmitEvent(event, source),
                       NEW t \in DOMAIN triggers, triggers[t].kind = event, triggers[t].active,
                       Passes(triggers[t], source)
                PROVE  \E s \in started' : s.trigger = t /\ s.at = firings'
    OBVIOUS
  <2>. DEFINE ts == Listening(event, source)
              s  == [trigger |-> t, workflow |-> OfRow(ts)[t], at |-> firings + 1]
  <2>1. t \in ts  BY <1>1 DEF Listening, EmitEvent, Fire, IInv, Memory
  <2>2. OfRow(ts)[t] \in workflows  BY <1>1, <2>1 DEF OfRow, IInv, Rooted
  <2>3. s \in started'  BY <2>1, <2>2 DEF EmitEvent, Execute
  <2>. QED  BY <2>3 DEF EmitEvent, Fire
<1>. QED  BY <1>1, Invariant, PTL DEF EventsReachTriggers
=============================================================================
