------------------------ MODULE WorkflowEngineProofs -------------------------
(***************************************************************************)
(* What holds of WorkflowEngine for any workflows, runs, changes and       *)
(* crashes: its type invariant, that the log of a run and its row agree,   *)
(* that memory and tables agree, and that it implements WorkflowRuns.      *)
(***************************************************************************)
EXTENDS WorkflowEngine, FiniteSetTheorems, TLAPS

-----------------------------------------------------------------------------
(* Tables *)

\* Put keeps a table a table.
LEMMA PutType ==
    ASSUME NEW Keys, NEW Rows, NEW table, IsTable(table, Keys, Rows),
           NEW key \in Keys, NEW row \in Rows
    PROVE  IsTable(Put(table, key, row), Keys, Rows)
BY DEF IsTable, Put

\* Without keeps a table a table.
LEMMA WithoutType ==
    ASSUME NEW Keys, NEW Rows, NEW table, IsTable(table, Keys, Rows), NEW keys
    PROVE  IsTable(Without(table, keys), Keys, Rows)
BY DEF IsTable, Without

\* A table may have room for more keys.
LEMMA MoreKeys ==
    ASSUME NEW n \in Nat, NEW Rows, NEW table, IsTable(table, 1..n, Rows)
    PROVE  IsTable(table, 1..(n + 1), Rows)
BY DEF IsTable

\* A table may be empty.
LEMMA EmptyType ==
    ASSUME NEW Keys, NEW Rows
    PROVE  IsTable(EmptyTable, Keys, Rows) /\ DOMAIN EmptyTable = {}
BY DEF IsTable, EmptyTable

\* The rows of a table of its type are rows.
LEMMA RowTypes ==
    ASSUME TypeOK
    PROVE  /\ ids \in Nat /\ DOMAIN steps = DOMAIN runs
           /\ \A w \in DOMAIN workflows : w \in Workflows /\ workflows[w] \in Seq(Action)
           /\ \A r \in DOMAIN runs : r \in 1..ids /\ runs[r] \in Run /\ steps[r] \in Seq(Step)
           /\ \A r \in DOMAIN fibers : r \in 1..ids /\ fibers[r] \in Fiber
BY DEF TypeOK, IsTable

-----------------------------------------------------------------------------
(* The inductive invariant *)

\* A loop that waits for an action or for a sub-workflow.
Free(r) == fibers[r].phase \in {"action", "sub"}

\* The process has one thread.
OneThread == \A r, q \in DOMAIN fibers : ~Free(r) /\ ~Free(q) => r = q

\* Who has a parent has one that waits, and who waits has one child.
Parented ==
    /\ \A r \in DOMAIN fibers :
          \/ fibers[r].parent = NoRun
          \/ /\ fibers[r].parent \in DOMAIN fibers
             /\ fibers[fibers[r].parent].phase = "sub"
    /\ \A p \in DOMAIN fibers :
          fibers[p].phase = "sub" => \E r \in DOMAIN fibers : fibers[r].parent = p
    /\ \A q, r \in DOMAIN fibers :
          fibers[q].parent = fibers[r].parent /\ fibers[r].parent # NoRun => q = r

\* The loop counts its actions from 1.
Counted == /\ \A r \in DOMAIN fibers : fibers[r].at >= 1
           /\ \A r \in DOMAIN runs : runs[r].current >= 1

\* A log is the actions in their order; all but the last have completed, and each saw
\* the output of those before it.
InOrder(log) ==
    \A i \in 1..Len(log) : /\ log[i].index = i
                           /\ i < Len(log) => log[i].status = "completed"
                           /\ SincePause(log, i) \subseteq log[i].input

\* Where a run marked running is, by its last step; a process that died may have left
\* it between two statements.
Latest(run, log, died) ==
    LET n == Len(log)
    IN \/ (n > 0 => log[n].status = "completed") /\ run.current \in {n, n + 1}
       \/ n > 0 /\ log[n].status = "running" /\ run.current = n
       \/ n > 0 /\ log[n].status = "failed" /\ run.current = n /\ died
       \/ n > 0 /\ log[n].status = "pending" /\ run.current \in {n - 1, n} /\ died

\* The last step of a log, and what the run's row says of it.
Ending(run, log, died) ==
    LET n == Len(log)
    IN /\ run.status = "running" => Latest(run, log, died)
       /\ run.status = "paused" => /\ n > 0 /\ log[n].status = "completed"
                                   /\ log[n].action = "pause" /\ run.current = n + 1
       /\ run.status = "completed" /\ n > 0 => log[n].status = "completed"
       /\ run.status = "failed" /\ n > 0 => log[n].status \in {"completed", "failed"}
       /\ run.status = "pending" => n = 0 /\ died

\* Where a loop is in its log: behind it, or waiting for its last step.
Following(fiber, log) ==
    LET n == Len(log)
    IN IF fiber.phase = "loop"
       THEN /\ fiber.at = n + 1
            /\ n > 0 => log[n].status = "completed"
            /\ SincePause(log, n + 1) \subseteq fiber.state
       ELSE /\ fiber.at = n /\ n > 0 /\ n <= Len(fiber.actions)
            /\ log[n].status = "running" /\ log[n].action = fiber.actions[n]
            /\ SincePause(log, n) \subseteq fiber.state

Tracked(r) ==
    r \in DOMAIN runs =>
        /\ InOrder(steps[r]) /\ Ending(runs[r], steps[r], crashes > 0)
        /\ r \in DOMAIN fibers =>
              runs[r].status = "running" /\ Following(fibers[r], steps[r])
        /\ crashes = 0 /\ runs[r].status = "running" => r \in DOMAIN fibers

IInv == TypeOK /\ OneThread /\ Parented /\ Counted /\ \A r \in Nat : Tracked(r)

-----------------------------------------------------------------------------
(* What is done to the loops in memory *)

\* One loop changes its phase.
LEMMA PhaseFacts ==
    ASSUME TypeOK, NEW r \in DOMAIN fibers,
           NEW phase \in {"loop", "action", "call", "sub", "back", "threw"}
    PROVE  /\ DOMAIN WithPhase(r, phase) = DOMAIN fibers
           /\ WithPhase(r, phase)[r] \in Fiber
           /\ WithPhase(r, phase)[r].phase = phase
           /\ WithPhase(r, phase)[r].at = fibers[r].at
           /\ WithPhase(r, phase)[r].actions = fibers[r].actions
           /\ WithPhase(r, phase)[r].state = fibers[r].state
           /\ WithPhase(r, phase)[r].parent = fibers[r].parent
           /\ \A q \in DOMAIN fibers : q # r => WithPhase(r, phase)[q] = fibers[q]
<1> DEFINE row == [fibers[r] EXCEPT !.phase = phase]
<1>1. /\ row \in Fiber /\ row.phase = phase /\ row.at = fibers[r].at
      /\ row.actions = fibers[r].actions /\ row.state = fibers[r].state
      /\ row.parent = fibers[r].parent
  BY RowTypes DEF Fiber
<1>2. WithPhase(r, phase) = Put(fibers, r, row)
  BY DEF WithPhase
<1> HIDE DEF row
<1> QED BY <1>1, <1>2 DEF Put

\* One loop goes on to its next action.
LEMMA ProceedFacts ==
    ASSUME TypeOK, NEW r \in DOMAIN fibers
    PROVE  /\ DOMAIN Proceed(r) = DOMAIN fibers
           /\ Proceed(r)[r] \in Fiber
           /\ Proceed(r)[r].phase = "loop"
           /\ Proceed(r)[r].at = fibers[r].at + 1
           /\ Proceed(r)[r].actions = fibers[r].actions
           /\ Proceed(r)[r].state = fibers[r].state \cup {fibers[r].at}
           /\ Proceed(r)[r].parent = fibers[r].parent
           /\ \A q \in DOMAIN fibers : q # r => Proceed(r)[q] = fibers[q]
<1> DEFINE old == fibers[r]
           first == [old EXCEPT !.at = @ + 1]
           second == [first EXCEPT !.state = Output(r)]
           row == [second EXCEPT !.phase = "loop"]
<1>1. old \in Fiber /\ Output(r) = fibers[r].state \cup {fibers[r].at}
  BY RowTypes DEF Output
<1>2. Output(r) \in SUBSET Nat
  BY <1>1 DEF Fiber
<1>3. Proceed(r) = Put(fibers, r, row)
  BY DEF Proceed
<1> HIDE DEF old
<1>4. /\ first \in Fiber /\ first.at = old.at + 1 /\ first.actions = old.actions
      /\ first.parent = old.parent
  BY <1>1 DEF Fiber
<1> HIDE DEF first
<1>5. /\ second \in Fiber /\ second.at = first.at /\ second.actions = first.actions
      /\ second.state = Output(r) /\ second.parent = first.parent
  BY <1>2, <1>4 DEF Fiber
<1> HIDE DEF second
<1>6. /\ row \in Fiber /\ row.phase = "loop" /\ row.at = second.at
      /\ row.actions = second.actions /\ row.state = second.state
      /\ row.parent = second.parent
  BY <1>5 DEF Fiber
<1> HIDE DEF row
<1>7. /\ row \in Fiber /\ row.phase = "loop" /\ row.at = old.at + 1
      /\ row.actions = old.actions /\ row.state = Output(r) /\ row.parent = old.parent
  BY <1>4, <1>5, <1>6
<1>8. /\ DOMAIN Proceed(r) = DOMAIN fibers /\ Proceed(r)[r] = row
      /\ \A q \in DOMAIN fibers : q # r => Proceed(r)[q] = fibers[q]
  BY <1>3 DEF Put
<1> QED BY <1>1, <1>7, <1>8 DEF old

\* One loop ends, and its parent goes on.
LEMMA EndedFacts ==
    ASSUME TypeOK, NEW r \in DOMAIN fibers, NEW how \in {"back", "threw"}
    PROVE  /\ DOMAIN Ended(r, how) = DOMAIN fibers \ {r}
           /\ \A q \in DOMAIN fibers \ {r} :
                 /\ Ended(r, how)[q] \in Fiber
                 /\ Ended(r, how)[q].at = fibers[q].at
                 /\ Ended(r, how)[q].actions = fibers[q].actions
                 /\ Ended(r, how)[q].state = fibers[q].state
                 /\ Ended(r, how)[q].parent = fibers[q].parent
                 /\ Ended(r, how)[q].phase = IF q = fibers[r].parent THEN how
                                             ELSE fibers[q].phase
<1> DEFINE rest == Without(fibers, {r})
           p == fibers[r].parent
           row == [rest[p] EXCEPT !.phase = how]
<1>1. /\ DOMAIN rest = DOMAIN fibers \ {r}
      /\ \A q \in DOMAIN fibers \ {r} : rest[q] = fibers[q] /\ rest[q] \in Fiber
  BY RowTypes DEF Without
<1>2. Ended(r, how) = IF p \in DOMAIN rest THEN Put(rest, p, row) ELSE rest
  BY DEF Ended
<1>3. CASE p \in DOMAIN rest
  <2>1. rest[p] \in Fiber /\ rest[p] = fibers[p]
    BY <1>1, <1>3
  <2>2. /\ row \in Fiber /\ row.phase = how /\ row.at = fibers[p].at
        /\ row.actions = fibers[p].actions /\ row.state = fibers[p].state
        /\ row.parent = fibers[p].parent
    BY <2>1 DEF Fiber
  <2> HIDE DEF rest, p, row
  <2>3. Ended(r, how) = Put(rest, p, row) /\ DOMAIN rest \cup {p} = DOMAIN rest
    BY <1>2, <1>3
  <2>4. /\ DOMAIN Ended(r, how) = DOMAIN rest /\ Ended(r, how)[p] = row
        /\ \A q \in DOMAIN rest : q # p => Ended(r, how)[q] = rest[q]
    BY <1>3, <2>3 DEF Put
  <2>5. ASSUME NEW q \in DOMAIN fibers \ {r}
        PROVE  /\ Ended(r, how)[q] \in Fiber
               /\ Ended(r, how)[q].at = fibers[q].at
               /\ Ended(r, how)[q].actions = fibers[q].actions
               /\ Ended(r, how)[q].state = fibers[q].state
               /\ Ended(r, how)[q].parent = fibers[q].parent
               /\ Ended(r, how)[q].phase = IF q = p THEN how ELSE fibers[q].phase
    BY <1>1, <2>2, <2>4
  <2> QED BY <1>1, <2>4, <2>5 DEF p
<1>4. CASE p \notin DOMAIN rest
  <2>1. Ended(r, how) = rest
    BY <1>2, <1>4
  <2> QED BY <1>1, <1>4, <2>1
<1> QED BY <1>3, <1>4

\* A loop begins.
LEMMA NewFacts ==
    ASSUME NEW old, NEW k, NEW actions \in Seq(Action), NEW at \in Nat, NEW parent \in Nat
    PROVE  /\ DOMAIN Put(old, k, NewFiber(actions, at, parent)) = DOMAIN old \cup {k}
           /\ NewFiber(actions, at, parent) \in Fiber
           /\ Put(old, k, NewFiber(actions, at, parent))[k] = NewFiber(actions, at, parent)
           /\ \A q \in DOMAIN old : q # k =>
                 Put(old, k, NewFiber(actions, at, parent))[q] = old[q]
BY DEF Put, NewFiber, Fiber

\* The last step of a run's log gets a status.
LEMMA UpdateFacts ==
    ASSUME TypeOK, NEW r \in DOMAIN steps, Len(steps[r]) > 0,
           NEW status \in {"completed", "failed"}
    PROVE  LET log == steps[r]
               new == UpdateStep(r, status)[r]
           IN /\ DOMAIN UpdateStep(r, status) = DOMAIN steps
              /\ \A q \in DOMAIN steps : q # r => UpdateStep(r, status)[q] = steps[q]
              /\ new \in Seq(Step) /\ Len(new) = Len(log)
              /\ \A i \in 1..Len(log) :
                    /\ new[i].index = log[i].index /\ new[i].action = log[i].action
                    /\ new[i].input = log[i].input
                    /\ new[i].status = IF i = Len(log) THEN status ELSE log[i].status
<1> DEFINE log == steps[r]
           n == Len(log)
           new == [log EXCEPT ![n].status = status]
<1>1. log \in Seq(Step) /\ n \in Nat /\ n > 0 /\ log[n] \in Step
  BY RowTypes
<1>2. UpdateStep(r, status) = Put(steps, r, new)
  BY DEF UpdateStep
<1> DEFINE last == [log[n] EXCEPT !.status = status]
<1>3. /\ last \in Step /\ last.index = log[n].index /\ last.action = log[n].action
      /\ last.input = log[n].input /\ last.status = status
  BY <1>1 DEF Step
<1>4. new = [log EXCEPT ![n] = last]
  BY <1>1
<1> HIDE DEF last, new, n, log
<1>5. /\ new \in Seq(Step) /\ Len(new) = n /\ new[n] = last
      /\ \A i \in 1..n : i # n => new[i] = log[i]
  BY <1>1, <1>3, <1>4 DEF n
<1>6. /\ DOMAIN UpdateStep(r, status) = DOMAIN steps
      /\ UpdateStep(r, status)[r] = new
      /\ \A q \in DOMAIN steps : q # r => UpdateStep(r, status)[q] = steps[q]
  BY <1>2 DEF Put
<1>7. \A i \in 1..n :
         /\ new[i].index = log[i].index /\ new[i].action = log[i].action
         /\ new[i].input = log[i].input
         /\ new[i].status = IF i = n THEN status ELSE log[i].status
  BY <1>3, <1>5
<1> QED BY <1>5, <1>6, <1>7 DEF n, log


\* One run gets a status.
LEMMA StatusFacts ==
    ASSUME TypeOK, NEW r \in Nat, NEW status \in {"pending", "running", "paused", "completed", "failed"}
    PROVE  /\ IsTable(SetStatus(r, status), 1..ids, Run)
           /\ DOMAIN SetStatus(r, status) = DOMAIN runs
           /\ \A q \in DOMAIN runs :
                 /\ SetStatus(r, status)[q].workflow = runs[q].workflow
                 /\ SetStatus(r, status)[q].current = runs[q].current
                 /\ SetStatus(r, status)[q].status = IF q = r THEN status ELSE runs[q].status
                 /\ q # r => SetStatus(r, status)[q] = runs[q]
<1>1. CASE r \in DOMAIN runs
  <2> DEFINE row == [runs[r] EXCEPT !.status = status]
  <2>1. /\ row \in Run /\ row.workflow = runs[r].workflow
        /\ row.current = runs[r].current /\ row.status = status
    BY <1>1, RowTypes DEF Run
  <2>2. SetStatus(r, status) = Put(runs, r, row)
    BY <1>1 DEF SetStatus
  <2> HIDE DEF row
  <2>3. IsTable(SetStatus(r, status), 1..ids, Run)
    <3>1. IsTable(runs, 1..ids, Run) /\ r \in 1..ids
      BY <1>1, RowTypes DEF TypeOK
    <3> QED BY <2>1, <2>2, <3>1, PutType
  <2>4. /\ DOMAIN SetStatus(r, status) = DOMAIN runs /\ SetStatus(r, status)[r] = row
        /\ \A q \in DOMAIN runs : q # r => SetStatus(r, status)[q] = runs[q]
    BY <1>1, <2>2 DEF Put
  <2> QED BY <2>1, <2>3, <2>4
<1>2. CASE r \notin DOMAIN runs
  BY <1>2 DEF SetStatus, TypeOK
<1> QED BY <1>1, <1>2

\* The row of a run that pauses.
LEMMA PauseFacts ==
    ASSUME NEW run \in Run, NEW at \in Nat
    PROVE  LET row == [run EXCEPT !.status = "paused", !.current = at]
           IN /\ row \in Run /\ row.workflow = run.workflow
              /\ row.current = at /\ row.status = "paused"
<1> DEFINE first == [run EXCEPT !.status = "paused"]
           row == [first EXCEPT !.current = at]
<1>1. first \in Run /\ first.workflow = run.workflow /\ first.status = "paused"
  BY DEF Run
<1>2. [run EXCEPT !.status = "paused", !.current = at] = row
  OBVIOUS
<1> HIDE DEF first
<1>3. /\ row \in Run /\ row.workflow = first.workflow
      /\ row.current = at /\ row.status = first.status
  BY <1>1 DEF Run
<1> QED BY <1>1, <1>2, <1>3

\* The loops in memory after one of them was changed, or ended.
LEMMA FibersType ==
    ASSUME TypeOK, NEW r \in DOMAIN fibers
    PROVE  /\ \A phase \in {"loop", "action", "call", "sub", "back", "threw"} :
                 IsTable(WithPhase(r, phase), 1..ids, Fiber)
           /\ IsTable(Proceed(r), 1..ids, Fiber)
           /\ \A how \in {"back", "threw"} : IsTable(Ended(r, how), 1..ids, Fiber)
<1>1. IsTable(fibers, 1..ids, Fiber) /\ DOMAIN fibers \subseteq 1..ids
  BY DEF TypeOK, IsTable
<1>2. ASSUME NEW phase \in {"loop", "action", "call", "sub", "back", "threw"}
      PROVE  IsTable(WithPhase(r, phase), 1..ids, Fiber)
  <2>1. /\ DOMAIN WithPhase(r, phase) = DOMAIN fibers
        /\ \A q \in DOMAIN fibers : WithPhase(r, phase)[q] \in Fiber
    BY PhaseFacts, RowTypes
  <2>2. WithPhase(r, phase) = [q \in DOMAIN fibers |-> WithPhase(r, phase)[q]]
    BY DEF WithPhase, Put
  <2> QED BY <1>1, <2>1, <2>2 DEF IsTable
<1>3. IsTable(Proceed(r), 1..ids, Fiber)
  <2>1. /\ DOMAIN Proceed(r) = DOMAIN fibers
        /\ \A q \in DOMAIN fibers : Proceed(r)[q] \in Fiber
    BY ProceedFacts, RowTypes
  <2>2. Proceed(r) = [q \in DOMAIN fibers |-> Proceed(r)[q]]
    BY DEF Proceed, Put
  <2> QED BY <1>1, <2>1, <2>2 DEF IsTable
<1>4. ASSUME NEW how \in {"back", "threw"}
      PROVE  IsTable(Ended(r, how), 1..ids, Fiber)
  <2>1. /\ DOMAIN Ended(r, how) = DOMAIN fibers \ {r}
        /\ \A q \in DOMAIN Ended(r, how) : Ended(r, how)[q] \in Fiber
    BY EndedFacts
  <2>2. Ended(r, how) = [q \in DOMAIN Ended(r, how) |-> Ended(r, how)[q]]
    BY DEF Ended, Put, Without
  <2> QED BY <1>1, <2>1, <2>2 DEF IsTable
<1> QED BY <1>2, <1>3, <1>4

\* A loop that waits for its action has a step to end, if its run still exists.
LEMMA LastStep ==
    ASSUME IInv, NEW r \in DOMAIN fibers, r \in DOMAIN runs, fibers[r].phase # "loop"
    PROVE  /\ fibers[r].at = Len(steps[r]) /\ Len(steps[r]) > 0
           /\ Len(steps[r]) <= Len(fibers[r].actions)
           /\ steps[r][Len(steps[r])].status = "running"
           /\ steps[r][Len(steps[r])].action = Current(r)
           /\ SincePause(steps[r], Len(steps[r])) \subseteq fibers[r].state
<1>1. TypeOK /\ Tracked(r)
  BY RowTypes DEF IInv
<1> QED BY <1>1 DEF Tracked, Following, Current

\* The steps after the last of one run ended.
LEMMA StepsType ==
    ASSUME IInv, NEW r \in DOMAIN fibers, fibers[r].phase # "loop",
           NEW status \in {"completed", "failed"}
    PROVE  /\ IsTable(UpdateStep(r, status), 1..ids, Seq(Step))
           /\ DOMAIN UpdateStep(r, status) = DOMAIN runs
<1>1. TypeOK /\ IsTable(steps, 1..ids, Seq(Step)) /\ DOMAIN steps = DOMAIN runs
  BY DEF IInv, TypeOK
<1>2. CASE r \in DOMAIN runs
  <2>1. Len(steps[r]) > 0
    BY <1>2, LastStep
  <2>2. /\ DOMAIN UpdateStep(r, status) = DOMAIN steps
        /\ \A q \in DOMAIN steps : q # r => UpdateStep(r, status)[q] = steps[q]
        /\ UpdateStep(r, status)[r] \in Seq(Step)
    BY <1>1, <1>2, <2>1, UpdateFacts
  <2>3. \A q \in DOMAIN steps : UpdateStep(r, status)[q] \in Seq(Step)
    BY <1>1, <2>2, RowTypes
  <2>4. UpdateStep(r, status) = [q \in DOMAIN UpdateStep(r, status) |-> UpdateStep(r, status)[q]]
    BY <1>1, <1>2 DEF UpdateStep, Put
  <2> QED BY <1>1, <2>2, <2>3, <2>4 DEF IsTable
<1>3. CASE r \notin DOMAIN runs
  BY <1>1, <1>3 DEF UpdateStep
<1> QED BY <1>2, <1>3

\* The action of a loop that has one is an action.
LEMMA CurrentType ==
    ASSUME IInv, NEW r \in DOMAIN fibers, More(r)
    PROVE  Current(r) \in Action
<1>1. fibers[r] \in Fiber /\ fibers[r].at >= 1
  BY RowTypes DEF IInv, Counted
<1> QED BY <1>1 DEF More, Current, Fiber

\* A run is created.
LEMMA CreateType ==
    ASSUME TypeOK, NEW run \in Run, CreateRun(run)
    PROVE  /\ IsTable(runs', 1..ids', Run) /\ DOMAIN steps' = DOMAIN runs'
           /\ IsTable(steps', 1..ids', Seq(Step))
           /\ ids' = ids + 1 /\ ids' \in Nat
<1>1. ids \in Nat /\ ids + 1 \in 1..(ids + 1) /\ <<>> \in Seq(Step)
  BY RowTypes
<1>2. /\ IsTable(runs, 1..(ids + 1), Run)
      /\ IsTable(steps, 1..(ids + 1), Seq(Step))
  BY <1>1, MoreKeys DEF TypeOK
<1>3. /\ ids' = ids + 1 /\ runs' = Put(runs, ids + 1, run)
      /\ steps' = Put(steps, ids + 1, <<>>)
  BY DEF CreateRun
<1>4. IsTable(Put(runs, ids + 1, run), 1..(ids + 1), Run)
  BY <1>1, <1>2, PutType
<1>5. IsTable(Put(steps, ids + 1, <<>>), 1..(ids + 1), Seq(Step))
  BY <1>1, <1>2, PutType
<1>6. DOMAIN steps' = DOMAIN runs'
  BY <1>3, RowTypes DEF Put
<1> QED BY <1>1, <1>3, <1>4, <1>5, <1>6

\* A run begins, and its loop.
LEMMA BeginType ==
    ASSUME TypeOK, NEW w \in DOMAIN workflows, Begin(w), NEW parent \in 0..ids
    PROVE  /\ IsTable(runs', 1..ids', Run) /\ DOMAIN steps' = DOMAIN runs'
           /\ IsTable(steps', 1..ids', Seq(Step))
           /\ ids' = ids + 1 /\ ids' \in Nat
           /\ NewFiber(workflows[w], 1, parent) \in Fiber
<1>1. ids \in Nat /\ w \in Workflows /\ workflows[w] \in Seq(Action)
  BY RowTypes
<1>2. NewRun(w) \in Run /\ CreateRun(NewRun(w))
  BY <1>1 DEF NewRun, Run, Begin
<1>3. NewFiber(workflows[w], 1, parent) \in Fiber
  BY <1>1 DEF NewFiber, Fiber
<1> QED BY <1>2, <1>3, CreateType

-----------------------------------------------------------------------------
(* Logs *)

\* Which steps come after a pause depends on the actions alone.
LEMMA SincePauseSame ==
    ASSUME NEW s, NEW t, NEW i \in Nat, \A k \in 1..(i - 1) : s[k].action = t[k].action
    PROVE  SincePause(s, i) = SincePause(t, i)
BY DEF SincePause

\* One step further: the steps since the pause are those before and the last, or none
\* if the last asked for a pause.
LEMMA SincePauseNext ==
    ASSUME NEW log, NEW n \in Nat, n > 0
    PROVE  /\ SincePause(log, n + 1) \subseteq SincePause(log, n) \cup {n}
           /\ log[n].action = "pause" => SincePause(log, n + 1) = {}
<1>1. (n + 1) - 1 = n /\ n \in 1..n
  OBVIOUS
<1>2. ASSUME NEW j \in SincePause(log, n + 1)
      PROVE  j \in SincePause(log, n) \cup {n} /\ log[n].action # "pause"
  <2>1. j \in 1..n /\ \A k \in j..n : log[k].action # "pause"
    BY <1>1, <1>2 DEF SincePause
  <2>2. j = n \/ j \in 1..(n - 1)
    BY <2>1
  <2>3. \A k \in j..(n - 1) : k \in j..n
    BY <2>1
  <2>4. n \in j..n
    BY <2>1
  <2> QED BY <2>1, <2>2, <2>3, <2>4 DEF SincePause
<1> QED BY <1>2

\* A log without a step.
LEMMA EmptyLog ==
    InOrder(<<>>) /\ SincePause(<<>>, 1) = {} /\ Len(<<>>) = 0
<1>1. Len(<<>>) = 0
  OBVIOUS
<1>2. 1 - 1 = 0 /\ 1..0 = {}
  OBVIOUS
<1>3. SincePause(<<>>, 1) = {}
  BY <1>2 DEF SincePause
<1>4. InOrder(<<>>)
  BY <1>1, <1>2 DEF InOrder
<1> QED BY <1>1, <1>3, <1>4

\* A log to which the next step is added.
LEMMA AppendLog ==
    ASSUME NEW log \in Seq(Step), InOrder(log), NEW step \in Step,
           Len(log) > 0 => log[Len(log)].status = "completed",
           step.index = Len(log) + 1,
           SincePause(log, Len(log) + 1) \subseteq step.input
    PROVE  LET new == Append(log, step)
           IN /\ Len(new) = Len(log) + 1 /\ new[Len(log) + 1] = step
              /\ InOrder(new)
              /\ SincePause(new, Len(log) + 1) = SincePause(log, Len(log) + 1)
<1> DEFINE n == Len(log)
           new == Append(log, step)
<1>1. /\ n \in Nat /\ Len(new) = n + 1 /\ new[n + 1] = step
      /\ \A i \in 1..n : new[i] = log[i]
  OBVIOUS
<1> HIDE DEF new
<1>2. ASSUME NEW i \in 1..(n + 1)
      PROVE  SincePause(new, i) = SincePause(log, i)
  <2>1. i \in Nat /\ \A k \in 1..(i - 1) : k \in 1..n
    BY <1>1
  <2>2. \A k \in 1..(i - 1) : new[k].action = log[k].action
    BY <1>1, <2>1
  <2> QED BY <2>1, <2>2, SincePauseSame
<1>3. ASSUME NEW i \in 1..(n + 1)
      PROVE  /\ new[i].index = i /\ (i < n + 1 => new[i].status = "completed")
             /\ SincePause(new, i) \subseteq new[i].input
  <2>1. CASE i = n + 1
    BY <1>1, <1>2, <2>1
  <2>2. CASE i \in 1..n
    <3>1. new[i] = log[i] /\ log[i].index = i /\ SincePause(log, i) \subseteq log[i].input
      BY <1>1, <2>2 DEF InOrder
    <3>2. i < n => log[i].status = "completed"
      BY <2>2 DEF InOrder
    <3>3. i < n \/ (i = n /\ n > 0)
      BY <1>1, <2>2
    <3> QED BY <1>2, <3>1, <3>2, <3>3
  <2> QED BY <1>1, <1>3, <2>1, <2>2
<1>4. InOrder(new)
  BY <1>1, <1>3 DEF InOrder
<1>5. n + 1 \in 1..(n + 1)
  BY <1>1
<1>6. SincePause(new, n + 1) = SincePause(log, n + 1)
  BY <1>2, <1>5
<1> QED BY <1>1, <1>4, <1>6 DEF new

\* A log whose last step ends.
LEMMA EndLog ==
    ASSUME IInv, NEW r \in DOMAIN steps, Len(steps[r]) > 0, InOrder(steps[r]),
           NEW status \in {"completed", "failed"}
    PROVE  LET log == steps[r]
               new == UpdateStep(r, status)[r]
               n   == Len(log)
           IN /\ Len(new) = n /\ InOrder(new)
              /\ new[n].status = status /\ new[n].action = log[n].action
              /\ \A i \in 1..(n + 1) : SincePause(new, i) = SincePause(log, i)
<1> DEFINE log == steps[r]
           new == UpdateStep(r, status)[r]
           n == Len(log)
<1>1. /\ Len(new) = n
      /\ \A i \in 1..n :
            /\ new[i].index = log[i].index /\ new[i].action = log[i].action
            /\ new[i].input = log[i].input
            /\ new[i].status = IF i = n THEN status ELSE log[i].status
  BY UpdateFacts DEF IInv
<1>2. n \in Nat /\ n > 0
  BY RowTypes DEF IInv
<1> HIDE DEF new
<1>3. ASSUME NEW i \in 1..(n + 1)
      PROVE  SincePause(new, i) = SincePause(log, i)
  <2>1. i \in Nat /\ \A k \in 1..(i - 1) : k \in 1..n
    BY <1>2
  <2>2. \A k \in 1..(i - 1) : new[k].action = log[k].action
    BY <1>1, <2>1
  <2> QED BY <2>1, <2>2, SincePauseSame
<1>4. \A i \in 1..n : i \in 1..(n + 1)
  BY <1>2
<1>5. \A i \in 1..n : /\ new[i].index = i /\ (i < n => new[i].status = "completed")
                      /\ SincePause(new, i) \subseteq new[i].input
  BY <1>1, <1>2, <1>3, <1>4 DEF InOrder
<1>6. InOrder(new)
  BY <1>1, <1>5 DEF InOrder
<1>7. n \in 1..n
  BY <1>2
<1>8. new[n].status = status /\ new[n].action = log[n].action
  BY <1>1, <1>7
<1> QED BY <1>1, <1>3, <1>6, <1>8 DEF new

\* The steps of a log that have completed.
Completed(log) == {i \in DOMAIN log : log[i].status = "completed"}

\* A step that has not completed is not counted.
LEMMA CompletedAppend ==
    ASSUME NEW log \in Seq(Step), NEW step \in Step, step.status # "completed"
    PROVE  Completed(Append(log, step)) = Completed(log)
<1> DEFINE new == Append(log, step)
           n == Len(log)
<1>1. /\ n \in Nat /\ DOMAIN log = 1..n /\ DOMAIN new = 1..(n + 1)
      /\ new[n + 1] = step /\ \A i \in 1..n : new[i] = log[i]
  OBVIOUS
<1> HIDE DEF new, n
<1>2. \A i : i \in 1..(n + 1) <=> i \in 1..n \/ i = n + 1
  BY <1>1
<1>3. new[n + 1].status # "completed"
  BY <1>1
<1> QED BY <1>1, <1>2, <1>3 DEF Completed, new

\* createStep and updateRun(currentStep), of a loop that is behind its log.
LEMMA StartFacts ==
    ASSUME IInv, NEW r \in Nat, Starting(r), r \in DOMAIN runs,
           NEW status \in {"pending", "running"}
    PROVE  LET log == steps[r]
               n   == Len(log)
               new == AddStep(r, status)[r]
               row == AtStep(r)[r]
           IN /\ IsTable(AddStep(r, status), 1..ids, Seq(Step))
              /\ IsTable(AtStep(r), 1..ids, Run)
              /\ DOMAIN AddStep(r, status) = DOMAIN runs /\ DOMAIN AtStep(r) = DOMAIN runs
              /\ \A q \in DOMAIN runs : q # r => /\ AddStep(r, status)[q] = steps[q]
                                               /\ AtStep(r)[q] = runs[q]
              /\ n \in Nat /\ fibers[r].at = n + 1 /\ fibers[r].phase = "loop"
              /\ runs[r].status = "running" /\ (n > 0 => log[n].status = "completed")
              /\ row.status = "running" /\ row.current = n + 1
              /\ Len(new) = n + 1 /\ InOrder(new)
              /\ new[n + 1].status = status /\ new[n + 1].action = Current(r)
              /\ SincePause(new, n + 1) \subseteq fibers[r].state
              /\ Completed(new) = Completed(log)
<1> DEFINE log == steps[r]
           n == Len(log)
           at == fibers[r].at
           step == [index |-> at, action |-> Current(r),
                    input |-> fibers[r].state, status |-> status]
           row == [runs[r] EXCEPT !.current = at]
           new == Append(log, step)
<1>1. /\ TypeOK /\ r \in DOMAIN fibers /\ fibers[r].phase = "loop" /\ More(r)
      /\ AddStep(r, status) = Put(steps, r, new) /\ AtStep(r) = Put(runs, r, row)
  BY DEF IInv, Starting, Looping, AddStep, AtStep
<1>2. /\ log \in Seq(Step) /\ n \in Nat /\ runs[r] \in Run /\ fibers[r] \in Fiber
      /\ r \in 1..ids /\ DOMAIN steps = DOMAIN runs
  BY <1>1, RowTypes
<1>3. step \in Step
  <2>1. Current(r) \in Action
    BY <1>1, CurrentType
  <2> QED BY <1>2, <2>1 DEF Step, Fiber
<1>4. row \in Run /\ row.current = at /\ row.status = runs[r].status
  BY <1>2 DEF Run, Fiber
<1>5. /\ InOrder(log) /\ runs[r].status = "running"
      /\ at = n + 1 /\ (n > 0 => log[n].status = "completed")
      /\ SincePause(log, n + 1) \subseteq fibers[r].state
  <2>1. Tracked(r)
    BY DEF IInv
  <2>2. Following(fibers[r], log) /\ InOrder(log) /\ runs[r].status = "running"
    BY <1>1, <2>1 DEF Tracked
  <2> QED BY <1>1, <2>2 DEF Following
<1>6. /\ step.index = at /\ step.action = Current(r) /\ step.status = status
      /\ step.input = fibers[r].state
  OBVIOUS
<1> HIDE DEF step, row
<1>7. /\ Len(new) = n + 1 /\ new[n + 1] = step /\ InOrder(new)
      /\ SincePause(new, n + 1) = SincePause(log, n + 1)
  BY <1>2, <1>3, <1>5, <1>6, AppendLog
<1>8. Completed(new) = Completed(log) /\ new \in Seq(Step)
  BY <1>2, <1>3, <1>6, CompletedAppend
<1> HIDE DEF new
<1>9. /\ IsTable(AddStep(r, status), 1..ids, Seq(Step)) /\ IsTable(AtStep(r), 1..ids, Run)
  BY <1>1, <1>2, <1>4, <1>8, PutType DEF TypeOK
<1>10. /\ AddStep(r, status)[r] = new /\ AtStep(r)[r] = row
       /\ DOMAIN AddStep(r, status) = DOMAIN runs /\ DOMAIN AtStep(r) = DOMAIN runs
       /\ \A q \in DOMAIN runs : q # r => /\ AddStep(r, status)[q] = steps[q]
                                        /\ AtStep(r)[q] = runs[q]
  BY <1>1, <1>2 DEF Put
<1> QED BY <1>1, <1>2, <1>4, <1>5, <1>6, <1>7, <1>8, <1>9, <1>10

\* What a process that dies leaves behind.
LEMMA Deaths ==
    ASSUME IInv, Crash
    PROVE  /\ Dies /\ DOMAIN fibers' = {} /\ crashes' > 0
           /\ \/ UNCHANGED <<runs, steps, ids, starts>>
              \/ /\ \E w \in DOMAIN workflows : CreateRun(PendingRun(w))
                 /\ starts' = starts \/ (starts < MaxStarts /\ starts' = starts + 1)
              \/ /\ \E r \in DOMAIN runs \cap Nat : /\ Starting(r) /\ steps' = AddStep(r, "pending")
                                                  /\ runs' \in {runs, AtStep(r)}
                 /\ UNCHANGED <<ids, starts>>
              \/ /\ \E r \in DOMAIN fibers : /\ fibers[r].phase # "loop"
                                           /\ steps' = UpdateStep(r, "failed")
                 /\ UNCHANGED <<runs, ids, starts>>
<1>1. Dies
  BY DEF Crash, DiesClean, DiesAfterCreateRun, DiesAfterCreateStep, DiesAfterFailStep
<1>2. DOMAIN fibers' = {} /\ crashes' > 0 /\ 1..ids \subseteq Nat
  BY <1>1 DEF Dies, EmptyTable, IInv, TypeOK
<1>3. CASE DiesClean
  BY <1>1, <1>2, <1>3 DEF DiesClean
<1>4. CASE \E w \in Workflows : DiesAfterCreateRun(w)
  BY <1>1, <1>2, <1>4 DEF DiesAfterCreateRun
<1>5. CASE \E r \in 1..ids : DiesAfterCreateStep(r)
  BY <1>1, <1>2, <1>5 DEF DiesAfterCreateStep
<1>6. CASE \E r \in 1..ids : DiesAfterFailStep(r)
  BY <1>1, <1>2, <1>6 DEF DiesAfterFailStep, Awaited
<1> QED BY <1>3, <1>4, <1>5, <1>6 DEF Crash

-----------------------------------------------------------------------------
(* Types *)

\* The actions by name, for what is proved action by action.
LEMMA Actions ==
    ASSUME IInv, Next
    PROVE  \/ \E w \in Workflows : ExecuteWorkflow(w)
           \/ \E w \in Workflows : DeleteWorkflow(w)
           \/ \E w \in Workflows, actions \in Seq(Action) : RegisterWorkflow(w, actions)
           \/ \E r \in Nat : ResumeWorkflow(r)
           \/ Crash
           \/ \E r \in Nat : StartAction(r)
           \/ \E r \in Nat : StepRefused(r)
           \/ \E r \in Nat : UnknownAction(r)
           \/ \E r \in Nat : CompleteRun(r)
           \/ \E r \in Nat : CallSubWorkflow(r)
           \/ \E r \in Nat : ActionReturns(r)
           \/ \E r \in Nat : ActionThrows(r)
           \/ \E r \in Nat : ActionPauses(r)
<1>1. 1..ids \subseteq Nat
  BY DEF IInv, TypeOK
<1>2. \A w \in Workflows : Definitions[w] \subseteq Seq(Action)
  BY EngineAssumption
<1>3. CASE Requests
  <2>1. CASE \E w \in Workflows : \E actions \in Definitions[w] : RegisterWorkflow(w, actions)
    BY <1>2, <2>1
  <2>2. CASE \E w \in Workflows : ExecuteWorkflow(w) \/ DeleteWorkflow(w)
    BY <2>2
  <2>3. CASE \E r \in 1..ids : ResumeWorkflow(r)
    BY <1>1, <2>3
  <2> QED BY <1>3, <2>1, <2>2, <2>3 DEF Requests
<1>4. CASE \E r \in 1..ids : LoopStep(r) \/ ActionEnds(r)
  BY <1>1, <1>4 DEF LoopStep, ActionEnds
<1> QED BY <1>3, <1>4 DEF Next

\* A step of the engine keeps the types.
LEMMA TypeStep ==
    ASSUME IInv, Next
    PROVE  TypeOK'
<1>1. TypeOK /\ ids \in Nat /\ 1..ids \subseteq Nat
  BY DEF IInv, TypeOK
<1> USE EngineAssumption
<1>2. ASSUME NEW w \in Workflows, ExecuteWorkflow(w)
      PROVE  TypeOK'
  <2>1. w \in DOMAIN workflows /\ Begin(w)
    BY <1>2 DEF ExecuteWorkflow
  <2>2. /\ IsTable(runs', 1..ids', Run) /\ DOMAIN steps' = DOMAIN runs'
        /\ IsTable(steps', 1..ids', Seq(Step))
        /\ ids' = ids + 1 /\ ids' \in Nat
        /\ NewFiber(workflows[w], 1, NoRun) \in Fiber
    <3>1. NoRun \in 0..ids
      BY <1>1 DEF NoRun
    <3> QED BY <1>1, <2>1, <3>1, BeginType
  <2>3. IsTable(fibers', 1..ids', Fiber)
    <3>1. IsTable(fibers, 1..(ids + 1), Fiber) /\ ids + 1 \in 1..(ids + 1)
      BY <1>1, MoreKeys DEF TypeOK
    <3>2. IsTable(Put(fibers, ids + 1, NewFiber(workflows[w], 1, NoRun)), 1..(ids + 1), Fiber)
      BY <2>2, <3>1, PutType
    <3>3. fibers' = Put(fibers, ids + 1, NewFiber(workflows[w], 1, NoRun))
      BY <1>2 DEF ExecuteWorkflow
    <3> QED BY <2>2, <3>2, <3>3
  <2>4. starts' \in 0..MaxStarts /\ UNCHANGED <<workflows, changes, crashes>>
    BY <1>1, <1>2 DEF ExecuteWorkflow, TypeOK
  <2> QED BY <1>1, <2>2, <2>3, <2>4 DEF TypeOK
<1>3. ASSUME NEW w \in Workflows, DeleteWorkflow(w)
      PROVE  TypeOK'
  <2>1. /\ workflows' = Without(workflows, {w}) /\ runs' = Without(runs, RunsOf(w))
        /\ steps' = Without(steps, RunsOf(w))
        /\ UNCHANGED <<fibers, ids, starts, crashes>>
    BY <1>3 DEF DeleteWorkflow
  <2>2. changes' \in 0..MaxChanges
    BY <1>1, <1>3 DEF DeleteWorkflow, Change, TypeOK
  <2>3. /\ IsTable(workflows', Workflows, Seq(Action)) /\ IsTable(runs', 1..ids, Run)
        /\ IsTable(steps', 1..ids, Seq(Step))
    BY <1>1, <2>1, WithoutType DEF TypeOK
  <2>4. DOMAIN steps' = DOMAIN runs'
    BY <1>1, <2>1 DEF Without, TypeOK
  <2> QED BY <1>1, <2>1, <2>2, <2>3, <2>4 DEF TypeOK
<1>4. ASSUME NEW w \in Workflows, NEW actions \in Seq(Action), RegisterWorkflow(w, actions)
      PROVE  TypeOK'
  <2>1. /\ workflows' = Put(workflows, w, actions)
        /\ UNCHANGED <<runs, steps, fibers, ids, starts, crashes>>
    BY <1>4 DEF RegisterWorkflow
  <2>2. changes' \in 0..MaxChanges
    BY <1>1, <1>4 DEF RegisterWorkflow, Change, TypeOK
  <2>3. IsTable(workflows', Workflows, Seq(Action))
    BY <1>1, <2>1, PutType DEF TypeOK
  <2> QED BY <1>1, <2>1, <2>2, <2>3 DEF TypeOK
<1>5. ASSUME NEW r \in Nat, ResumeWorkflow(r)
      PROVE  TypeOK'
  <2>1. /\ r \in DOMAIN runs /\ runs[r].workflow \in DOMAIN workflows
        /\ runs' = SetStatus(r, "running")
        /\ fibers' = Put(fibers, r, NewFiber(workflows[runs[r].workflow], ResumeAt(r), NoRun))
        /\ UNCHANGED <<workflows, steps, ids, starts, changes, crashes>>
    BY <1>5 DEF ResumeWorkflow
  <2>2. IsTable(runs', 1..ids, Run) /\ DOMAIN runs' = DOMAIN runs
    BY <1>1, <2>1, StatusFacts
  <2>3. r \in 1..ids /\ NewFiber(workflows[runs[r].workflow], ResumeAt(r), NoRun) \in Fiber
    BY <1>1, <2>1, RowTypes DEF NewFiber, Fiber, ResumeAt, Run, NoRun
  <2>4. IsTable(fibers', 1..ids, Fiber)
    BY <1>1, <2>1, <2>3, PutType DEF TypeOK
  <2> QED BY <1>1, <2>1, <2>2, <2>4 DEF TypeOK
<1>6. ASSUME Crash
      PROVE  TypeOK'
  <2>1. /\ crashes' \in 0..MaxCrashes /\ UNCHANGED <<workflows, changes>>
        /\ fibers' = EmptyTable
    BY <1>1, <1>6, Deaths DEF Dies, TypeOK
  <2>2. IsTable(fibers', 1..ids', Fiber)
    BY <2>1, EmptyType
  <2> SUFFICES /\ IsTable(runs', 1..ids', Run) /\ IsTable(steps', 1..ids', Seq(Step))
               /\ DOMAIN steps' = DOMAIN runs' /\ ids' \in Nat /\ starts' \in 0..MaxStarts
    BY <1>1, <2>1, <2>2 DEF TypeOK
  <2>3. CASE UNCHANGED <<runs, steps, ids, starts>>
    BY <1>1, <2>3 DEF TypeOK
  <2>4. CASE /\ \E w \in DOMAIN workflows : CreateRun(PendingRun(w))
             /\ starts' = starts \/ (starts < MaxStarts /\ starts' = starts + 1)
    <3>1. PICK w \in DOMAIN workflows : CreateRun(PendingRun(w))
      BY <2>4
    <3>2. PendingRun(w) \in Run
      BY <1>1, RowTypes DEF PendingRun, Run
    <3>3. starts' \in 0..MaxStarts
      BY <1>1, <2>4 DEF TypeOK
    <3> QED BY <1>1, <3>1, <3>2, <3>3, CreateType
  <2>5. CASE /\ \E r \in DOMAIN runs \cap Nat : /\ Starting(r) /\ steps' = AddStep(r, "pending")
                                              /\ runs' \in {runs, AtStep(r)}
             /\ UNCHANGED <<ids, starts>>
    <3>1. PICK r \in DOMAIN runs \cap Nat : /\ Starting(r) /\ steps' = AddStep(r, "pending")
                                          /\ runs' \in {runs, AtStep(r)}
      BY <2>5
    <3>2. /\ IsTable(AddStep(r, "pending"), 1..ids, Seq(Step))
          /\ IsTable(AtStep(r), 1..ids, Run)
          /\ DOMAIN AddStep(r, "pending") = DOMAIN runs /\ DOMAIN AtStep(r) = DOMAIN runs
      BY <3>1, StartFacts
    <3>3. IsTable(runs, 1..ids, Run) /\ starts \in 0..MaxStarts /\ ids \in Nat
      BY <1>1 DEF TypeOK
    <3> QED BY <2>5, <3>1, <3>2, <3>3
  <2>6. CASE /\ \E r \in DOMAIN fibers : fibers[r].phase # "loop" /\ steps' = UpdateStep(r, "failed")
             /\ UNCHANGED <<runs, ids, starts>>
    <3>1. PICK r \in DOMAIN fibers : fibers[r].phase # "loop" /\ steps' = UpdateStep(r, "failed")
      BY <2>6
    <3>2. IsTable(steps', 1..ids, Seq(Step)) /\ DOMAIN steps' = DOMAIN runs
      BY <3>1, StepsType
    <3> QED BY <1>1, <2>6, <3>2 DEF TypeOK
  <2> QED BY <1>6, <2>3, <2>4, <2>5, <2>6, Deaths
<1>7. ASSUME NEW r \in Nat, StartAction(r)
      PROVE  TypeOK'
  <2>1. /\ Starting(r) /\ r \in DOMAIN fibers /\ r \in DOMAIN runs
        /\ steps' = AddStep(r, "running") /\ runs' = AtStep(r)
        /\ UNCHANGED <<workflows, ids, starts, changes, crashes>>
    BY <1>7 DEF StartAction, Looping, Starting
  <2>2. PICK phase \in {"call", "action"} : fibers' = WithPhase(r, phase)
    BY <1>7 DEF StartAction
  <2>3. IsTable(fibers', 1..ids, Fiber)
    BY <1>1, <2>1, <2>2, FibersType
  <2>4. /\ IsTable(runs', 1..ids, Run) /\ IsTable(steps', 1..ids, Seq(Step))
        /\ DOMAIN steps' = DOMAIN runs'
    BY <2>1, StartFacts
  <2> QED BY <1>1, <2>1, <2>3, <2>4 DEF TypeOK
<1>8. ASSUME NEW r \in Nat, StepRefused(r)
      PROVE  TypeOK'
  <2>1. /\ r \in DOMAIN fibers /\ fibers' = Ended(r, "threw")
        /\ UNCHANGED <<workflows, runs, steps, ids, starts, changes, crashes>>
    BY <1>8 DEF StepRefused, Looping, Starting
  <2>2. IsTable(fibers', 1..ids, Fiber)
    BY <1>1, <2>1, FibersType
  <2> QED BY <1>1, <2>1, <2>2 DEF TypeOK
<1>9. ASSUME NEW r \in Nat, UnknownAction(r) \/ CompleteRun(r)
      PROVE  TypeOK'
  <2>1. /\ r \in DOMAIN fibers /\ fibers' = Ended(r, "back")
        /\ runs' = SetStatus(r, "failed") \/ runs' = SetStatus(r, "completed")
        /\ UNCHANGED <<workflows, steps, ids, starts, changes, crashes>>
    BY <1>9 DEF UnknownAction, CompleteRun, Looping, FailRun
  <2>2. IsTable(fibers', 1..ids, Fiber)
    BY <1>1, <2>1, FibersType
  <2>3. IsTable(runs', 1..ids, Run) /\ DOMAIN runs' = DOMAIN runs
    BY <1>1, <2>1, StatusFacts
  <2> QED BY <1>1, <2>1, <2>2, <2>3 DEF TypeOK
<1>10. ASSUME NEW r \in Nat, CallSubWorkflow(r)
       PROVE  TypeOK'
  <2>1. r \in DOMAIN fibers /\ UNCHANGED <<workflows, starts, changes, crashes>>
    BY <1>10 DEF CallSubWorkflow
  <2>2. CASE Current(r) \in DOMAIN workflows
    <3> DEFINE new == NewFiber(workflows[Current(r)], 1, r)
    <3>1. Begin(Current(r)) /\ fibers' = Put(WithPhase(r, "sub"), ids + 1, new)
      BY <1>10, <2>2 DEF CallSubWorkflow, AfterCall
    <3>2. r \in 0..ids
      BY <1>1, <2>1, RowTypes
    <3>3. /\ IsTable(runs', 1..ids', Run) /\ DOMAIN steps' = DOMAIN runs'
          /\ IsTable(steps', 1..ids', Seq(Step))
          /\ ids' = ids + 1 /\ ids' \in Nat /\ new \in Fiber
      BY <1>1, <2>2, <3>1, <3>2, BeginType
    <3>4. IsTable(WithPhase(r, "sub"), 1..(ids + 1), Fiber) /\ ids + 1 \in 1..(ids + 1)
      BY <1>1, <2>1, FibersType, MoreKeys
    <3> HIDE DEF new
    <3>5. IsTable(fibers', 1..(ids + 1), Fiber)
      BY <3>1, <3>3, <3>4, PutType
    <3> QED BY <1>1, <2>1, <3>3, <3>5 DEF TypeOK
  <2>3. CASE Current(r) \notin DOMAIN workflows
    <3>1. fibers' = WithPhase(r, "threw") /\ UNCHANGED <<runs, steps, ids>>
      BY <1>10, <2>3 DEF CallSubWorkflow
    <3>2. IsTable(fibers', 1..ids, Fiber)
      BY <1>1, <2>1, <3>1, FibersType
    <3> QED BY <1>1, <2>1, <3>1, <3>2 DEF TypeOK
  <2> QED BY <2>2, <2>3
<1>11. ASSUME NEW r \in Nat, ActionReturns(r) \/ ActionThrows(r) \/ ActionPauses(r)
       PROVE  TypeOK'
  <2>1. /\ r \in DOMAIN fibers /\ fibers[r].phase # "loop"
        /\ steps' = UpdateStep(r, "completed") \/ steps' = UpdateStep(r, "failed")
        /\ fibers' = Proceed(r) \/ fibers' = Ended(r, "back")
        /\ UNCHANGED <<workflows, ids, starts, changes, crashes>>
    BY <1>11 DEF ActionReturns, ActionThrows, ActionPauses, Awaited
  <2>2. IsTable(steps', 1..ids, Seq(Step)) /\ DOMAIN steps' = DOMAIN runs
    BY <1>1, <2>1, StepsType
  <2>3. IsTable(fibers', 1..ids, Fiber)
    BY <1>1, <2>1, FibersType
  <2>4. IsTable(runs', 1..ids, Run) /\ DOMAIN runs' = DOMAIN runs
    <3>1. CASE ActionReturns(r)
      BY <1>1, <3>1 DEF ActionReturns, TypeOK
    <3>2. CASE ActionThrows(r)
      BY <1>1, <3>2, StatusFacts DEF ActionThrows, FailRun
    <3>3. CASE ActionPauses(r)
      <4>1. CASE r \notin DOMAIN runs
        BY <1>1, <3>3, <4>1 DEF ActionPauses, TypeOK
      <4>2. CASE r \in DOMAIN runs
        <5> DEFINE row == [runs[r] EXCEPT !.status = "paused", !.current = fibers[r].at + 1]
        <5>1. runs[r] \in Run /\ fibers[r].at + 1 \in Nat /\ r \in 1..ids
          BY <1>1, <2>1, <4>2, RowTypes DEF Fiber
        <5>2. row \in Run
          BY <5>1, PauseFacts
        <5>3. runs' = Put(runs, r, row)
          BY <3>3, <4>2 DEF ActionPauses
        <5> HIDE DEF row
        <5>4. IsTable(runs', 1..ids, Run)
          BY <1>1, <5>1, <5>2, <5>3, PutType DEF TypeOK
        <5> QED BY <4>2, <5>3, <5>4 DEF Put
      <4> QED BY <4>1, <4>2
    <3> QED BY <1>11, <3>1, <3>2, <3>3
  <2> QED BY <1>1, <2>1, <2>2, <2>3, <2>4 DEF TypeOK
<1> QED BY <1>2, <1>3, <1>4, <1>5, <1>6, <1>7, <1>8, <1>9, <1>10, <1>11, Actions

-----------------------------------------------------------------------------
(* One thread, and who waits for whom *)

\* The loop the thread is in, or the one an event wakes, is the only one that does
\* not wait.
LEMMA Alone ==
    ASSUME OneThread, NEW r \in DOMAIN fibers, ~Free(r) \/ Settled
    PROVE  \A q \in DOMAIN fibers : q # r => Free(q)
BY DEF OneThread, Settled, Free

\* A loop moves on, without a sub-workflow.
LEMMA Moved ==
    ASSUME Parented, NEW r \in DOMAIN fibers, \A q \in DOMAIN fibers : q # r => Free(q),
           DOMAIN fibers' = DOMAIN fibers,
           fibers[r].phase # "sub", fibers'[r].phase # "sub",
           fibers'[r].parent = fibers[r].parent,
           \A q \in DOMAIN fibers : q # r => fibers'[q] = fibers[q]
    PROVE  OneThread' /\ Parented'
<1>1. OneThread'
  BY DEF OneThread, Free
<1>2. \A q \in DOMAIN fibers : /\ fibers'[q].parent = fibers[q].parent
                               /\ fibers'[q].phase = "sub" <=> fibers[q].phase = "sub"
  OBVIOUS
<1>3. Parented'
  BY <1>2 DEF Parented
<1> QED BY <1>1, <1>3

\* A loop ends.
LEMMA EndMoves ==
    ASSUME TypeOK, Parented, NEW r \in DOMAIN fibers,
           \A q \in DOMAIN fibers : q # r => Free(q), fibers[r].phase # "sub",
           NEW how \in {"back", "threw"}, fibers' = Ended(r, how)
    PROVE  OneThread' /\ Parented'
<1> DEFINE parent == fibers[r].parent
<1>1. /\ DOMAIN fibers' = DOMAIN fibers \ {r}
      /\ \A q \in DOMAIN fibers \ {r} :
            /\ fibers'[q].parent = fibers[q].parent
            /\ fibers'[q].phase = IF q = parent THEN how ELSE fibers[q].phase
  BY EndedFacts
<1>2. parent = NoRun \/ (parent \in DOMAIN fibers /\ parent # r)
  BY DEF Parented
<1>3. \A q \in DOMAIN fibers \ {r} : fibers[q].parent = parent => parent = NoRun
  BY DEF Parented
<1>4. \A q \in DOMAIN fibers \ {r} : fibers[q].parent # r \/ r = NoRun
  BY DEF Parented
<1>5. NoRun \notin DOMAIN fibers
  BY RowTypes DEF NoRun
<1> HIDE DEF parent
<1>6. \A q \in DOMAIN fibers' : q # parent => fibers'[q].phase \in {"action", "sub"}
  BY <1>1 DEF Free
<1>7. OneThread'
  BY <1>6 DEF OneThread, Free
<1>8. \A q \in DOMAIN fibers' :
         \/ fibers'[q].parent = NoRun
         \/ /\ fibers'[q].parent \in DOMAIN fibers'
            /\ fibers'[fibers'[q].parent].phase = "sub"
  <2> SUFFICES ASSUME NEW q \in DOMAIN fibers \ {r}, fibers[q].parent # NoRun
               PROVE  /\ fibers[q].parent \in DOMAIN fibers \ {r}
                      /\ fibers'[fibers[q].parent].phase = "sub"
    BY <1>1
  <2>1. /\ fibers[q].parent \in DOMAIN fibers
        /\ fibers[fibers[q].parent].phase = "sub"
    BY DEF Parented
  <2>2. fibers[q].parent # parent /\ fibers[q].parent # r
    BY <1>3, <1>4, <1>5
  <2> QED BY <1>1, <2>1, <2>2
<1>9. \A p \in DOMAIN fibers' : fibers'[p].phase = "sub" =>
         \E q \in DOMAIN fibers' : fibers'[q].parent = p
  <2> SUFFICES ASSUME NEW p \in DOMAIN fibers \ {r}, fibers'[p].phase = "sub"
               PROVE  \E q \in DOMAIN fibers \ {r} : fibers'[q].parent = p
    BY <1>1
  <2>1. p # parent /\ fibers[p].phase = "sub"
    BY <1>1
  <2>2. PICK q \in DOMAIN fibers : fibers[q].parent = p
    BY <2>1 DEF Parented
  <2>3. q # r
    BY <2>1, <2>2 DEF parent
  <2> QED BY <1>1, <2>2, <2>3
<1>10. \A q, s \in DOMAIN fibers' :
          fibers'[q].parent = fibers'[s].parent /\ fibers'[s].parent # NoRun => q = s
  BY <1>1 DEF Parented
<1> QED BY <1>7, <1>8, <1>9, <1>10 DEF Parented

\* A request begins a loop.
LEMMA NewMoves ==
    ASSUME Parented, Settled, NEW k, k \notin DOMAIN fibers,
           DOMAIN fibers' = DOMAIN fibers \cup {k},
           fibers'[k].parent = NoRun, fibers'[k].phase = "loop",
           \A q \in DOMAIN fibers : q # k => fibers'[q] = fibers[q]
    PROVE  OneThread' /\ Parented'
<1>1. OneThread'
  BY DEF OneThread, Free, Settled
<1>2. \A q \in DOMAIN fibers : fibers'[q] = fibers[q]
  OBVIOUS
<1>3. \A q \in DOMAIN fibers' :
         \/ fibers'[q].parent = NoRun
         \/ /\ fibers'[q].parent \in DOMAIN fibers'
            /\ fibers'[fibers'[q].parent].phase = "sub"
  BY <1>2 DEF Parented
<1>4. \A p \in DOMAIN fibers' : fibers'[p].phase = "sub" =>
         \E q \in DOMAIN fibers' : fibers'[q].parent = p
  <2> SUFFICES ASSUME NEW p \in DOMAIN fibers, fibers[p].phase = "sub"
               PROVE  \E q \in DOMAIN fibers' : fibers'[q].parent = p
    BY <1>2
  <2>1. PICK q \in DOMAIN fibers : fibers[q].parent = p
    BY DEF Parented
  <2> QED BY <1>2, <2>1
<1>5. \A q, s \in DOMAIN fibers' :
         fibers'[q].parent = fibers'[s].parent /\ fibers'[s].parent # NoRun => q = s
  BY <1>2 DEF Parented
<1> QED BY <1>1, <1>3, <1>4, <1>5 DEF Parented

\* A loop calls a sub-workflow and waits for it.
LEMMA CallMoves ==
    ASSUME Parented, NEW r \in DOMAIN fibers, \A q \in DOMAIN fibers : q # r => Free(q),
           fibers[r].phase = "call", r # NoRun, NEW k, k \notin DOMAIN fibers,
           DOMAIN fibers' = DOMAIN fibers \cup {k},
           fibers'[k].parent = r, fibers'[k].phase = "loop",
           fibers'[r].parent = fibers[r].parent, fibers'[r].phase = "sub",
           \A q \in DOMAIN fibers : q # r => fibers'[q] = fibers[q]
    PROVE  OneThread' /\ Parented'
<1>1. OneThread'
  BY DEF OneThread, Free
<1>2. \A q \in DOMAIN fibers : /\ fibers'[q].parent = fibers[q].parent
                               /\ fibers[q].parent # r
                               /\ q # r => fibers'[q].phase = fibers[q].phase
                               /\ fibers[q].phase = "sub" => fibers'[q].phase = "sub"
  BY DEF Parented
<1>3. \A q \in DOMAIN fibers' :
         \/ fibers'[q].parent = NoRun
         \/ /\ fibers'[q].parent \in DOMAIN fibers'
            /\ fibers'[fibers'[q].parent].phase = "sub"
  <2> SUFFICES ASSUME NEW q \in DOMAIN fibers, fibers[q].parent # NoRun
               PROVE  /\ fibers[q].parent \in DOMAIN fibers
                      /\ fibers'[fibers[q].parent].phase = "sub"
    BY <1>2
  <2>1. /\ fibers[q].parent \in DOMAIN fibers
        /\ fibers[fibers[q].parent].phase = "sub"
    BY DEF Parented
  <2> QED BY <1>2, <2>1
<1>4. \A p \in DOMAIN fibers' : fibers'[p].phase = "sub" =>
         \E q \in DOMAIN fibers' : fibers'[q].parent = p
  <2> SUFFICES ASSUME NEW p \in DOMAIN fibers, p # r, fibers[p].phase = "sub"
               PROVE  \E q \in DOMAIN fibers' : fibers'[q].parent = p
    BY <1>2
  <2>1. PICK q \in DOMAIN fibers : fibers[q].parent = p
    BY DEF Parented
  <2> QED BY <1>2, <2>1
<1>5. \A q, s \in DOMAIN fibers' :
         fibers'[q].parent = fibers'[s].parent /\ fibers'[s].parent # NoRun => q = s
  BY <1>2 DEF Parented
<1> QED BY <1>1, <1>3, <1>4, <1>5 DEF Parented

\* What an action finds of the loop it moves.
LEMMA Mover ==
    ASSUME IInv, NEW r \in Nat,
           \/ StartAction(r) \/ StepRefused(r) \/ UnknownAction(r) \/ CompleteRun(r)
           \/ CallSubWorkflow(r)
           \/ ActionReturns(r) \/ ActionThrows(r) \/ ActionPauses(r)
    PROVE  /\ TypeOK /\ r \in DOMAIN fibers /\ fibers[r] \in Fiber /\ r # NoRun
           /\ fibers[r].phase # "sub"
           /\ \A q \in DOMAIN fibers : q # r => Free(q)
<1>1. TypeOK /\ OneThread
  BY DEF IInv
<1>2. CASE \/ StartAction(r) \/ StepRefused(r) \/ UnknownAction(r) \/ CompleteRun(r)
           \/ CallSubWorkflow(r)
  <2>1. r \in DOMAIN fibers /\ fibers[r].phase \in {"loop", "call"}
    BY <1>2 DEF StartAction, StepRefused, UnknownAction, CompleteRun, CallSubWorkflow, Looping, Starting
  <2>2. ~Free(r)
    BY <2>1 DEF Free
  <2>3. \A q \in DOMAIN fibers : q # r => Free(q)
    BY <1>1, <2>1, <2>2, Alone
  <2> QED BY <1>1, <2>1, <2>3, RowTypes DEF NoRun
<1>3. CASE ActionReturns(r) \/ ActionThrows(r) \/ ActionPauses(r)
  <2>1. /\ r \in DOMAIN fibers /\ fibers[r].phase \in {"back", "threw", "action"}
        /\ fibers[r].phase \in {"back", "threw"} \/ Settled
    BY <1>3 DEF ActionReturns, ActionThrows, ActionPauses, Awaited
  <2>2. ~Free(r) \/ Settled
    BY <2>1 DEF Free
  <2>3. \A q \in DOMAIN fibers : q # r => Free(q)
    BY <1>1, <2>1, <2>2, Alone
  <2> QED BY <1>1, <2>1, <2>3, RowTypes DEF NoRun
<1> QED BY <1>2, <1>3

\* A run that is not running has no loop, and a run that is not yet has none.
LEMMA NoLoop ==
    ASSUME IInv
    PROVE  /\ \A r \in DOMAIN runs : runs[r].status # "running" => r \notin DOMAIN fibers
           /\ ids + 1 \notin DOMAIN fibers /\ ids + 1 \notin DOMAIN runs
<1>1. TypeOK
  BY DEF IInv
<1>2. \A r \in DOMAIN runs : Tracked(r)
  BY <1>1, RowTypes DEF IInv
<1>3. \A r \in DOMAIN runs : runs[r].status # "running" => r \notin DOMAIN fibers
  BY <1>2 DEF Tracked
<1>4. ids \in Nat /\ \A r \in DOMAIN fibers \cup DOMAIN runs : r \in 1..ids
  BY <1>1, RowTypes
<1> QED BY <1>3, <1>4

\* A step of the engine keeps one thread, and parents that wait for their child.
LEMMA ThreadStep ==
    ASSUME IInv, Next
    PROVE  OneThread' /\ Parented'
<1>1. TypeOK /\ OneThread /\ Parented /\ ids \in Nat
  BY DEF IInv, TypeOK
<1>2. ASSUME NEW w \in Workflows, ExecuteWorkflow(w)
      PROVE  OneThread' /\ Parented'
  <2>1. /\ Settled /\ w \in DOMAIN workflows
        /\ fibers' = Put(fibers, ids + 1, NewFiber(workflows[w], 1, NoRun))
    BY <1>2 DEF ExecuteWorkflow
  <2>2. /\ ids + 1 \notin DOMAIN fibers /\ DOMAIN fibers' = DOMAIN fibers \cup {ids + 1}
        /\ fibers'[ids + 1].parent = NoRun /\ fibers'[ids + 1].phase = "loop"
        /\ \A q \in DOMAIN fibers : q # ids + 1 => fibers'[q] = fibers[q]
    BY <2>1, NoLoop DEF Put, NewFiber
  <2> QED BY <1>1, <2>1, <2>2, NewMoves
<1>3. ASSUME \/ \E w \in Workflows : DeleteWorkflow(w)
             \/ \E w \in Workflows, actions \in Seq(Action) : RegisterWorkflow(w, actions)
      PROVE  OneThread' /\ Parented'
  <2>1. fibers' = fibers
    BY <1>3 DEF DeleteWorkflow, RegisterWorkflow
  <2> QED BY <1>1, <2>1 DEF OneThread, Free, Parented
<1>4. ASSUME NEW r \in Nat, ResumeWorkflow(r)
      PROVE  OneThread' /\ Parented'
  <2>1. /\ Settled /\ r \in DOMAIN runs /\ runs[r].status = "paused"
        /\ fibers' = Put(fibers, r, NewFiber(workflows[runs[r].workflow], ResumeAt(r), NoRun))
    BY <1>4 DEF ResumeWorkflow, Resumable
  <2>2. r \notin DOMAIN fibers
    BY <2>1, NoLoop
  <2>3. /\ DOMAIN fibers' = DOMAIN fibers \cup {r}
        /\ fibers'[r].parent = NoRun /\ fibers'[r].phase = "loop"
        /\ \A q \in DOMAIN fibers : q # r => fibers'[q] = fibers[q]
    BY <2>1 DEF Put, NewFiber
  <2> QED BY <1>1, <2>1, <2>2, <2>3, NewMoves
<1>5. ASSUME Crash
      PROVE  OneThread' /\ Parented'
  <2>1. DOMAIN fibers' = {}
    BY <1>5, Deaths
  <2> QED BY <2>1 DEF OneThread, Parented
<1>6. ASSUME NEW r \in Nat, StartAction(r)
      PROVE  OneThread' /\ Parented'
  <2>1. PICK phase \in {"call", "action"} : fibers' = WithPhase(r, phase)
    BY <1>6 DEF StartAction, Starting
  <2>2. /\ r \in DOMAIN fibers /\ fibers[r].phase # "sub"
        /\ \A q \in DOMAIN fibers : q # r => Free(q)
    BY <1>6, Mover
  <2>3. /\ DOMAIN fibers' = DOMAIN fibers /\ fibers'[r].phase # "sub"
        /\ fibers'[r].parent = fibers[r].parent
        /\ \A q \in DOMAIN fibers : q # r => fibers'[q] = fibers[q]
    BY <1>1, <2>1, <2>2, PhaseFacts
  <2> QED BY <1>1, <2>2, <2>3, Moved
<1>7. ASSUME NEW r \in Nat, \/ StepRefused(r) \/ UnknownAction(r) \/ CompleteRun(r)
                            \/ ActionThrows(r) \/ ActionPauses(r)
      PROVE  OneThread' /\ Parented'
  <2>1. PICK how \in {"back", "threw"} : fibers' = Ended(r, how)
    BY <1>7 DEF StepRefused, UnknownAction, CompleteRun, ActionThrows, ActionPauses, Starting
  <2>2. /\ r \in DOMAIN fibers /\ fibers[r].phase # "sub"
        /\ \A q \in DOMAIN fibers : q # r => Free(q)
    BY <1>7, Mover
  <2> QED BY <1>1, <2>1, <2>2, EndMoves
<1>8. ASSUME NEW r \in Nat, CallSubWorkflow(r)
      PROVE  OneThread' /\ Parented'
  <2>1. /\ r \in DOMAIN fibers /\ fibers[r].phase = "call" /\ r # NoRun
        /\ \A q \in DOMAIN fibers : q # r => Free(q)
    BY <1>8, Mover DEF CallSubWorkflow
  <2>2. CASE Current(r) \in DOMAIN workflows
    <3> DEFINE new == NewFiber(workflows[Current(r)], 1, r)
    <3>1. fibers' = Put(WithPhase(r, "sub"), ids + 1, new)
      BY <1>8, <2>2 DEF CallSubWorkflow, AfterCall
    <3>2. /\ DOMAIN WithPhase(r, "sub") = DOMAIN fibers
          /\ WithPhase(r, "sub")[r].phase = "sub"
          /\ WithPhase(r, "sub")[r].parent = fibers[r].parent
          /\ \A q \in DOMAIN fibers : q # r => WithPhase(r, "sub")[q] = fibers[q]
      BY <1>1, <2>1, PhaseFacts
    <3>3. new.parent = r /\ new.phase = "loop"
      BY DEF NewFiber
    <3>4. ids + 1 \notin DOMAIN fibers
      BY NoLoop
    <3> HIDE DEF new
    <3>5. /\ DOMAIN fibers' = DOMAIN fibers \cup {ids + 1} /\ fibers'[ids + 1] = new
          /\ \A q \in DOMAIN fibers : fibers'[q] = WithPhase(r, "sub")[q]
      BY <3>1, <3>2, <3>4 DEF Put
    <3> QED BY <1>1, <2>1, <3>2, <3>3, <3>4, <3>5, CallMoves
  <2>3. CASE Current(r) \notin DOMAIN workflows
    <3>1. fibers' = WithPhase(r, "threw")
      BY <1>8, <2>3 DEF CallSubWorkflow
    <3>2. /\ DOMAIN fibers' = DOMAIN fibers /\ fibers'[r].phase # "sub"
          /\ fibers'[r].parent = fibers[r].parent
          /\ \A q \in DOMAIN fibers : q # r => fibers'[q] = fibers[q]
      BY <1>1, <2>1, <3>1, PhaseFacts
    <3> QED BY <1>1, <2>1, <3>2, Moved
  <2> QED BY <2>2, <2>3
<1>9. ASSUME NEW r \in Nat, ActionReturns(r)
      PROVE  OneThread' /\ Parented'
  <2>1. /\ r \in DOMAIN fibers /\ fibers[r].phase # "sub"
        /\ \A q \in DOMAIN fibers : q # r => Free(q)
        /\ fibers' = Proceed(r)
    BY <1>9, Mover DEF ActionReturns
  <2>2. /\ DOMAIN fibers' = DOMAIN fibers /\ fibers'[r].phase # "sub"
        /\ fibers'[r].parent = fibers[r].parent
        /\ \A q \in DOMAIN fibers : q # r => fibers'[q] = fibers[q]
    BY <1>1, <2>1, ProceedFacts
  <2> QED BY <1>1, <2>1, <2>2, Moved
<1> QED BY <1>2, <1>3, <1>4, <1>5, <1>6, <1>7, <1>8, <1>9, Actions

-----------------------------------------------------------------------------
(* Counting from 1 *)

\* A step of the engine keeps the loops and the runs at an action from 1 on.
LEMMA CountedStep ==
    ASSUME IInv, Next
    PROVE  Counted'
<1> DEFINE Loops == \A q \in DOMAIN fibers' : fibers'[q].at >= 1
           Rows == \A q \in DOMAIN runs' : runs'[q].current >= 1
<1>1. /\ TypeOK /\ ids \in Nat
      /\ \A q \in DOMAIN fibers : fibers[q].at >= 1 /\ fibers[q].at \in Nat
      /\ \A q \in DOMAIN runs : runs[q].current >= 1 /\ runs[q].current \in Nat
  <2>1. TypeOK /\ ids \in Nat
    BY DEF IInv, TypeOK
  <2>2. \A q \in DOMAIN fibers : fibers[q] \in Fiber
    BY <2>1, RowTypes
  <2>3. \A q \in DOMAIN runs : runs[q] \in Run
    BY <2>1, RowTypes
  <2>4. \A q \in DOMAIN fibers : fibers[q].at >= 1 /\ fibers[q].at \in Nat
    BY <2>2 DEF IInv, Counted, Fiber
  <2>5. \A q \in DOMAIN runs : runs[q].current >= 1 /\ runs[q].current \in Nat
    BY <2>3 DEF IInv, Counted, Run
  <2> QED BY <2>1, <2>4, <2>5
<1>2. fibers' = fibers => Loops
  BY <1>1
<1>3. runs' = runs => Rows
  BY <1>1
<1>4. ASSUME NEW r \in DOMAIN fibers, NEW phase \in {"call", "action", "sub", "threw"},
             fibers' = WithPhase(r, phase)
      PROVE  Loops
  <2>1. /\ DOMAIN WithPhase(r, phase) = DOMAIN fibers
        /\ WithPhase(r, phase)[r].at = fibers[r].at
        /\ \A q \in DOMAIN fibers : q # r => WithPhase(r, phase)[q] = fibers[q]
    BY <1>1, PhaseFacts
  <2> QED BY <1>1, <1>4, <2>1
<1>5. ASSUME NEW r \in DOMAIN fibers, NEW how \in {"back", "threw"},
             fibers' = Ended(r, how)
      PROVE  Loops
  <2>1. /\ DOMAIN Ended(r, how) = DOMAIN fibers \ {r}
        /\ \A q \in DOMAIN fibers \ {r} : Ended(r, how)[q].at = fibers[q].at
    <3>1. TypeOK
      BY <1>1
    <3> QED BY ONLY <1>5, <3>1, EndedFacts
  <2> QED BY <1>1, <1>5, <2>1
<1>6. ASSUME NEW r \in Nat,
             NEW status \in {"pending", "running", "paused", "completed", "failed"},
             runs' = SetStatus(r, status)
      PROVE  Rows
  BY <1>1, <1>6, StatusFacts
<1>7. ASSUME NEW w, Begin(w)
      PROVE  Rows
  <2>1. runs' = Put(runs, ids + 1, NewRun(w)) /\ NewRun(w).current = 1
    BY <1>7 DEF Begin, NewRun, CreateRun
  <2> QED BY <1>1, <2>1 DEF Put
<1>8. ASSUME NEW k, NEW at \in Nat, at >= 1, NEW parent, NEW actions,
             fibers' = Put(fibers, k, NewFiber(actions, at, parent))
      PROVE  Loops
  BY <1>1, <1>8 DEF Put, NewFiber
<1>8a. ASSUME NEW r \in Nat, r \in DOMAIN runs, Starting(r), runs' = AtStep(r)
       PROVE  Rows
  <2>1. /\ DOMAIN AtStep(r) = DOMAIN runs /\ AtStep(r)[r].current >= 1
        /\ \A q \in DOMAIN runs : q # r => AtStep(r)[q] = runs[q]
    BY <1>8a, StartFacts
  <2> QED BY <1>1, <1>8a, <2>1
<1>9. ASSUME NEW w \in Workflows, ExecuteWorkflow(w)
      PROVE  Loops /\ Rows
  <2>1. Begin(w) /\ fibers' = Put(fibers, ids + 1, NewFiber(workflows[w], 1, NoRun))
    BY <1>9 DEF ExecuteWorkflow
  <2> HIDE DEF Loops, Rows
  <2> QED BY <1>7, <1>8, <2>1
<1>10. ASSUME NEW w \in Workflows, DeleteWorkflow(w)
       PROVE  Loops /\ Rows
  <2>1. fibers' = fibers /\ runs' = Without(runs, RunsOf(w))
    BY <1>10 DEF DeleteWorkflow
  <2> QED BY <1>1, <2>1 DEF Without
<1>11. ASSUME NEW w \in Workflows, NEW actions \in Seq(Action), RegisterWorkflow(w, actions)
       PROVE  Loops /\ Rows
  BY <1>2, <1>3, <1>11 DEF RegisterWorkflow
<1>12. ASSUME NEW r \in Nat, ResumeWorkflow(r)
       PROVE  Loops /\ Rows
  <2>1. /\ r \in DOMAIN runs /\ runs' = SetStatus(r, "running")
        /\ fibers' = Put(fibers, r, NewFiber(workflows[runs[r].workflow], runs[r].current, NoRun))
    BY <1>12 DEF ResumeWorkflow, ResumeAt
  <2>2. runs[r].current \in Nat /\ runs[r].current >= 1
    BY <1>1, <2>1
  <2> HIDE DEF Loops, Rows
  <2> QED BY <1>6, <1>8, <2>1, <2>2
<1>13. ASSUME Crash
       PROVE  Loops /\ Rows
  <2>1. Loops
    BY <1>13, Deaths
  <2>2. CASE runs' = runs
    BY <1>3, <2>1, <2>2
  <2>3. CASE \E w \in DOMAIN workflows : CreateRun(PendingRun(w))
    BY <1>1, <2>1, <2>3 DEF CreateRun, PendingRun, Put
  <2>4. CASE \E r \in DOMAIN runs \cap Nat : Starting(r) /\ runs' = AtStep(r)
    <3>1. PICK r \in DOMAIN runs \cap Nat : Starting(r) /\ runs' = AtStep(r)
      BY <2>4
    <3> QED BY <1>8a, <2>1, <3>1
  <2> QED BY <1>13, <2>1, <2>2, <2>3, <2>4, Deaths
<1>14. ASSUME NEW r \in Nat, StartAction(r)
       PROVE  Loops /\ Rows
  <2>1. PICK phase \in {"call", "action"} : fibers' = WithPhase(r, phase)
    BY <1>14 DEF StartAction, Starting
  <2>2. r \in DOMAIN fibers
    BY <1>14, Mover
  <2>3. Loops
    BY <1>4, <2>1, <2>2
  <2>4. Rows
    BY <1>14, <1>8a DEF StartAction
  <2> QED BY <2>3, <2>4
<1>15. ASSUME NEW r \in Nat, StepRefused(r)
       PROVE  Loops /\ Rows
  <2>1. r \in DOMAIN fibers /\ fibers' = Ended(r, "threw") /\ runs' = runs
    BY <1>15 DEF StepRefused, Looping, Starting
  <2> HIDE DEF Loops, Rows
  <2> QED BY <1>3, <1>5, <2>1
<1>16. ASSUME NEW r \in Nat, UnknownAction(r) \/ CompleteRun(r) \/ ActionThrows(r)
       PROVE  Loops /\ Rows
  <2>1. r \in DOMAIN fibers
    BY <1>16, Mover
  <2>2. /\ fibers' = Ended(r, "back")
        /\ runs' = SetStatus(r, "failed") \/ runs' = SetStatus(r, "completed")
    BY <1>16 DEF UnknownAction, CompleteRun, ActionThrows, FailRun
  <2> HIDE DEF Loops, Rows
  <2> QED BY <1>5, <1>6, <2>1, <2>2
<1>17. ASSUME NEW r \in Nat, ActionPauses(r)
       PROVE  Loops /\ Rows
  <2>1. r \in DOMAIN fibers /\ fibers' = Ended(r, "back")
    BY <1>17 DEF ActionPauses
  <2>2. Rows
    <3>1. CASE r \notin DOMAIN runs
      BY <1>3, <1>17, <3>1 DEF ActionPauses
    <3>2. CASE r \in DOMAIN runs
      <4> DEFINE row == [runs[r] EXCEPT !.status = "paused", !.current = fibers[r].at + 1]
      <4>1. runs[r] \in Run /\ fibers[r].at + 1 \in Nat /\ fibers[r].at + 1 >= 1
        BY <1>1, <2>1, <3>2, RowTypes
      <4>2. row.current = fibers[r].at + 1
        BY <4>1, PauseFacts
      <4>3. runs' = Put(runs, r, row)
        BY <1>17, <3>2 DEF ActionPauses
      <4> HIDE DEF row
      <4> QED BY <1>1, <4>1, <4>2, <4>3 DEF Put
    <3> QED BY <3>1, <3>2
  <2> QED BY <1>5, <2>1, <2>2
<1>18. ASSUME NEW r \in Nat, CallSubWorkflow(r)
       PROVE  Loops /\ Rows
  <2>1. r \in DOMAIN fibers
    BY <1>18, Mover
  <2>2. CASE Current(r) \in DOMAIN workflows
    <3>1. /\ Begin(Current(r))
          /\ fibers' = Put(WithPhase(r, "sub"), ids + 1, NewFiber(workflows[Current(r)], 1, r))
      BY <1>18, <2>2 DEF CallSubWorkflow, AfterCall
    <3>2. Rows
      BY <1>7, <3>1
    <3>3. /\ DOMAIN WithPhase(r, "sub") = DOMAIN fibers
          /\ \A q \in DOMAIN fibers : WithPhase(r, "sub")[q].at = fibers[q].at
      BY <1>1, <2>1, PhaseFacts
    <3>4. NewFiber(workflows[Current(r)], 1, r).at = 1
      BY DEF NewFiber
    <3>5. Loops
      BY <1>1, <3>1, <3>3, <3>4 DEF Put
    <3> QED BY <3>2, <3>5
  <2>3. CASE Current(r) \notin DOMAIN workflows
    <3>1. fibers' = WithPhase(r, "threw") /\ runs' = runs
      BY <1>18, <2>3 DEF CallSubWorkflow
    <3> HIDE DEF Loops, Rows
    <3> QED BY <1>3, <1>4, <2>1, <3>1
  <2> QED BY <2>2, <2>3
<1>19. ASSUME NEW r \in Nat, ActionReturns(r)
       PROVE  Loops /\ Rows
  <2>1. r \in DOMAIN fibers /\ fibers' = Proceed(r) /\ runs' = runs
    BY <1>19, Mover DEF ActionReturns
  <2>2. Loops
    BY <1>1, <2>1, ProceedFacts
  <2> QED BY <1>3, <2>1, <2>2
<1> HIDE DEF Loops, Rows
<1>20. Loops /\ Rows
  BY <1>9, <1>10, <1>11, <1>12, <1>13, <1>14, <1>15, <1>16, <1>17, <1>18, <1>19, Actions
<1> QED BY <1>20 DEF Counted, Loops, Rows

-----------------------------------------------------------------------------
(* Logs, rows and loops agree *)

\* A step of another loop leaves this one where it was, but may wake it.
Kept(q) ==
    /\ q \in DOMAIN fibers' <=> q \in DOMAIN fibers
    /\ q \in DOMAIN fibers =>
          /\ fibers'[q].at = fibers[q].at /\ fibers'[q].actions = fibers[q].actions
          /\ fibers'[q].state = fibers[q].state
          /\ fibers'[q].phase = "loop" <=> fibers[q].phase = "loop"

\* What is not touched stays in agreement.
LEMMA Untouched ==
    ASSUME NEW q, Tracked(q), Kept(q), crashes' = crashes,
           q \in DOMAIN runs' => /\ q \in DOMAIN runs /\ runs'[q] = runs[q]
                                 /\ steps'[q] = steps[q]
    PROVE  Tracked(q)'
<1> SUFFICES ASSUME q \in DOMAIN runs'
             PROVE  Tracked(q)'
  BY DEF Tracked
<1>1. /\ q \in DOMAIN runs /\ runs'[q] = runs[q] /\ steps'[q] = steps[q]
      /\ InOrder(steps[q]) /\ Ending(runs[q], steps[q], crashes > 0)
      /\ q \in DOMAIN fibers => runs[q].status = "running" /\ Following(fibers[q], steps[q])
      /\ crashes = 0 /\ runs[q].status = "running" => q \in DOMAIN fibers
  BY DEF Tracked
<1>2. q \in DOMAIN fibers' => q \in DOMAIN fibers /\ Following(fibers'[q], steps'[q])
  BY <1>1 DEF Kept, Following
<1>3. q \in DOMAIN fibers <=> q \in DOMAIN fibers'
  BY DEF Kept
<1> QED BY <1>1, <1>2, <1>3 DEF Tracked

\* A loop that changes or ends leaves the others where they were.
LEMMA OthersKept ==
    ASSUME IInv, NEW r \in DOMAIN fibers,
           \/ \E phase \in {"call", "action", "sub", "threw"} : fibers' = WithPhase(r, phase)
           \/ fibers' = Proceed(r)
           \/ \E how \in {"back", "threw"} : fibers' = Ended(r, how)
    PROVE  \A q : q # r => Kept(q)
<1>1. TypeOK
  BY DEF IInv
<1>2. CASE \E phase \in {"call", "action", "sub", "threw"} : fibers' = WithPhase(r, phase)
  <2>1. PICK phase \in {"call", "action", "sub", "threw"} : fibers' = WithPhase(r, phase)
    BY <1>2
  <2>2. /\ DOMAIN WithPhase(r, phase) = DOMAIN fibers
        /\ \A q \in DOMAIN fibers : q # r => WithPhase(r, phase)[q] = fibers[q]
    BY <1>1, PhaseFacts
  <2> QED BY <2>1, <2>2 DEF Kept
<1>3. CASE fibers' = Proceed(r)
  <2>1. /\ DOMAIN Proceed(r) = DOMAIN fibers
        /\ \A q \in DOMAIN fibers : q # r => Proceed(r)[q] = fibers[q]
    BY <1>1, ProceedFacts
  <2> QED BY <1>3, <2>1 DEF Kept
<1>4. CASE \E how \in {"back", "threw"} : fibers' = Ended(r, how)
  <2>1. PICK how \in {"back", "threw"} : fibers' = Ended(r, how)
    BY <1>4
  <2>2. /\ DOMAIN Ended(r, how) = DOMAIN fibers \ {r}
        /\ \A q \in DOMAIN fibers \ {r} :
              /\ Ended(r, how)[q] \in Fiber
              /\ Ended(r, how)[q].at = fibers[q].at
              /\ Ended(r, how)[q].actions = fibers[q].actions
              /\ Ended(r, how)[q].state = fibers[q].state
              /\ Ended(r, how)[q].parent = fibers[q].parent
              /\ Ended(r, how)[q].phase = IF q = fibers[r].parent THEN how
                                          ELSE fibers[q].phase
    <3>1. r \in DOMAIN fibers /\ how \in {"back", "threw"}
      OBVIOUS
    <3> QED BY ONLY <1>1, <3>1, EndedFacts
  <2>3. fibers[r].parent \in DOMAIN fibers => fibers[fibers[r].parent].phase = "sub"
    <3>1. \/ fibers[r].parent = NoRun
          \/ fibers[fibers[r].parent].phase = "sub"
      BY DEF IInv, Parented
    <3>2. NoRun \notin DOMAIN fibers
      BY <1>1, RowTypes DEF NoRun
    <3> QED BY <3>1, <3>2
  <2>4. \A q \in DOMAIN fibers \ {r} :
           Ended(r, how)[q].phase = "loop" <=> fibers[q].phase = "loop"
    BY <2>2, <2>3
  <2> QED BY <2>1, <2>2, <2>4 DEF Kept
<1> QED BY <1>2, <1>3, <1>4

\* A loop that awaits its action or its sub-workflow, whatever it is woken with.
LEMMA WaitingKept ==
    ASSUME IInv, NEW r \in DOMAIN fibers, fibers[r].phase # "loop",
           NEW phase \in {"call", "action", "sub", "back", "threw"},
           fibers' = WithPhase(r, phase)
    PROVE  \A q : Kept(q)
<1>1. /\ DOMAIN WithPhase(r, phase) = DOMAIN fibers
      /\ WithPhase(r, phase)[r].phase = phase
      /\ WithPhase(r, phase)[r].at = fibers[r].at
      /\ WithPhase(r, phase)[r].actions = fibers[r].actions
      /\ WithPhase(r, phase)[r].state = fibers[r].state
      /\ \A q \in DOMAIN fibers : q # r => WithPhase(r, phase)[q] = fibers[q]
  BY PhaseFacts DEF IInv
<1> QED BY <1>1 DEF Kept

\* What a run that has begun looks like.
LEMMA BegunTracked ==
    ASSUME NEW w, Begin(w), NEW actions, NEW parent, NEW k, k = ids + 1,
           k \in DOMAIN fibers', fibers'[k] = NewFiber(actions, 1, parent)
    PROVE  Tracked(k)'
<1>1. runs'[k] = NewRun(w) /\ steps'[k] = <<>>
  BY DEF Begin, Put, CreateRun
<1>2. Following(NewFiber(actions, 1, parent), <<>>)
  BY EmptyLog DEF Following, NewFiber
<1>3. Ending(NewRun(w), <<>>, crashes' > 0) /\ NewRun(w).status = "running"
  BY EmptyLog DEF Ending, Latest, NewRun
<1> QED BY <1>1, <1>2, <1>3, EmptyLog DEF Tracked

\* A run that is begun leaves the others as they were.
LEMMA BeginKeeps ==
    ASSUME NEW w, Begin(w)
    PROVE  \A q : q # ids + 1 =>
              (q \in DOMAIN runs' => /\ q \in DOMAIN runs /\ runs'[q] = runs[q]
                                     /\ q \in DOMAIN steps => steps'[q] = steps[q])
BY DEF Begin, Put, CreateRun

\* When a loop and its run agree after a step of the loop, so do all.
LEMMA OthersTracked ==
    ASSUME IInv, NEW r \in DOMAIN fibers,
           \/ \E phase \in {"call", "action", "sub", "threw"} : fibers' = WithPhase(r, phase)
           \/ fibers' = Proceed(r)
           \/ \E how \in {"back", "threw"} : fibers' = Ended(r, how),
           crashes' = crashes,
           \A q \in DOMAIN runs' : q # r => /\ q \in DOMAIN runs /\ runs'[q] = runs[q]
                                            /\ steps'[q] = steps[q],
           Tracked(r)'
    PROVE  \A q \in Nat : Tracked(q)'
<1>1. \A q : q # r => Kept(q)
  BY OthersKept
<1>2. ASSUME NEW q \in Nat, q # r
      PROVE  Tracked(q)'
  <2>1. Tracked(q) /\ Kept(q)
    BY <1>1, <1>2 DEF IInv
  <2>2. q \in DOMAIN runs' => /\ q \in DOMAIN runs /\ runs'[q] = runs[q]
                              /\ steps'[q] = steps[q]
    BY <1>2
  <2> QED BY <2>1, <2>2, Untouched
<1> QED BY <1>2

\* StartAction: the step is added, with what the loop knows so far.
LEMMA StartTracked ==
    ASSUME IInv, NEW r \in Nat, StartAction(r)
    PROVE  \A q \in Nat : Tracked(q)'
<1> DEFINE n == Len(steps[r])
           new == AddStep(r, "running")[r]
           row == AtStep(r)[r]
<1>1. /\ TypeOK /\ r \in DOMAIN fibers /\ r \in DOMAIN runs /\ Starting(r) /\ More(r)
      /\ steps' = AddStep(r, "running") /\ runs' = AtStep(r) /\ crashes' = crashes
  BY DEF IInv, StartAction, Looping, Starting
<1>2. PICK phase \in {"call", "action"} : fibers' = WithPhase(r, phase)
  BY DEF StartAction
<1>3. /\ n \in Nat /\ fibers[r].at = n + 1
      /\ row.status = "running" /\ row.current = n + 1
      /\ Len(new) = n + 1 /\ InOrder(new)
      /\ new[n + 1].status = "running" /\ new[n + 1].action = Current(r)
      /\ SincePause(new, n + 1) \subseteq fibers[r].state
  BY <1>1, StartFacts
<1>4. \A q \in DOMAIN runs' : q # r => /\ q \in DOMAIN runs /\ runs'[q] = runs[q]
                                       /\ steps'[q] = steps[q]
  BY <1>1, StartFacts
<1>5. /\ r \in DOMAIN fibers' /\ fibers'[r].phase = phase /\ fibers'[r].at = n + 1
      /\ fibers'[r].actions = fibers[r].actions /\ fibers'[r].state = fibers[r].state
  BY <1>1, <1>2, <1>3, PhaseFacts
<1>6. n + 1 <= Len(fibers[r].actions) /\ Current(r) = fibers[r].actions[n + 1]
  BY <1>1, <1>3 DEF More, Current
<1>7. steps'[r] = new /\ runs'[r] = row
  BY <1>1
<1> HIDE DEF new, row, n
<1>8. Ending(row, new, crashes > 0)
  BY <1>3 DEF Ending, Latest
<1>9. Following(fibers'[r], new)
  BY <1>3, <1>5, <1>6 DEF Following
<1>10. Tracked(r)'
  BY <1>1, <1>3, <1>5, <1>7, <1>8, <1>9 DEF Tracked
<1> QED BY <1>1, <1>2, <1>4, <1>10, OthersTracked

\* ActionReturns, ActionThrows, ActionPauses: the last step ends, and with it the loop
\* or what it has done so far.
LEMMA EndTracked ==
    ASSUME IInv, NEW r \in Nat, ActionReturns(r) \/ ActionThrows(r) \/ ActionPauses(r)
    PROVE  \A q \in Nat : Tracked(q)'
<1> DEFINE log == steps[r]
           n == Len(log)
           row == [runs[r] EXCEPT !.status = "paused", !.current = fibers[r].at + 1]
<1>1. /\ TypeOK /\ r \in DOMAIN fibers /\ fibers[r].phase # "loop"
      /\ crashes' = crashes
  BY DEF IInv, ActionReturns, ActionThrows, ActionPauses, Awaited
<1>2. /\ fibers' = Proceed(r) \/ fibers' = Ended(r, "back")
      /\ steps' = UpdateStep(r, "completed") \/ steps' = UpdateStep(r, "failed")
      /\ \/ runs' = runs \/ runs' = SetStatus(r, "failed")
         \/ r \in DOMAIN runs /\ runs' = Put(runs, r, row)
  BY DEF ActionReturns, ActionThrows, ActionPauses, FailRun
<1>3. /\ DOMAIN runs' = DOMAIN runs
      /\ \A q \in DOMAIN runs : q # r => runs'[q] = runs[q]
  <2>1. CASE runs' = SetStatus(r, "failed")
    BY <1>1, <2>1, StatusFacts
  <2>2. CASE r \in DOMAIN runs /\ runs' = Put(runs, r, row)
    BY <2>2 DEF Put
  <2> QED BY <1>2, <2>1, <2>2
<1>4. \A q \in DOMAIN runs : q # r => steps'[q] = steps[q]
  BY <1>1, <1>2, RowTypes DEF UpdateStep, Put
<1>5. CASE r \notin DOMAIN runs
  <2>1. Tracked(r)'
    BY <1>3, <1>5 DEF Tracked
  <2> QED BY <1>1, <1>2, <1>3, <1>4, <2>1, OthersTracked
<1>6. CASE r \in DOMAIN runs
  <2>1. /\ fibers[r].at = n /\ n > 0 /\ log[n].status = "running"
        /\ log[n].action = Current(r) /\ SincePause(log, n) \subseteq fibers[r].state
    BY <1>1, <1>6, LastStep
  <2>2. /\ n \in Nat /\ runs[r] \in Run /\ r \in DOMAIN steps
    BY <1>1, <1>6, RowTypes
  <2>3. InOrder(log) /\ Ending(runs[r], log, crashes > 0) /\ runs[r].status = "running"
    <3>1. Tracked(r)
      BY DEF IInv
    <3> QED BY <1>1, <1>6, <3>1 DEF Tracked
  <2>4. ASSUME NEW status \in {"completed", "failed"}, steps' = UpdateStep(r, status)
        PROVE  /\ Len(steps'[r]) = n /\ InOrder(steps'[r])
               /\ steps'[r][n].status = status /\ steps'[r][n].action = log[n].action
               /\ \A i \in 1..(n + 1) : SincePause(steps'[r], i) = SincePause(log, i)
    BY <2>1, <2>2, <2>3, <2>4, EndLog
  <2>5. CASE ActionReturns(r)
    <3>1. /\ steps' = UpdateStep(r, "completed") /\ runs' = runs /\ fibers' = Proceed(r)
      BY <2>5 DEF ActionReturns
    <3>2. /\ Len(steps'[r]) = n /\ InOrder(steps'[r])
          /\ steps'[r][n].status = "completed"
          /\ \A i \in 1..(n + 1) : SincePause(steps'[r], i) = SincePause(log, i)
      BY <2>4, <3>1
    <3>3. /\ r \in DOMAIN fibers' /\ fibers'[r].phase = "loop" /\ fibers'[r].at = n + 1
          /\ fibers'[r].state = fibers[r].state \cup {n}
      BY <1>1, <2>1, <3>1, ProceedFacts
    <3>4. SincePause(steps'[r], n + 1) \subseteq fibers'[r].state
      <4>1. n + 1 \in 1..(n + 1)
        BY <2>2
      <4>2. SincePause(log, n + 1) \subseteq SincePause(log, n) \cup {n}
        BY <2>1, <2>2, SincePauseNext
      <4> QED BY <2>1, <3>2, <3>3, <4>1, <4>2
    <3>5. Following(fibers'[r], steps'[r])
      BY <3>2, <3>3, <3>4 DEF Following
    <3>6. Ending(runs'[r], steps'[r], crashes > 0)
      BY <2>1, <2>2, <2>3, <3>1, <3>2 DEF Ending, Latest
    <3>7. Tracked(r)'
      BY <1>1, <2>3, <3>1, <3>2, <3>3, <3>5, <3>6 DEF Tracked
    <3> QED BY <1>1, <1>2, <1>3, <1>4, <3>7, OthersTracked
  <2>6. CASE ActionThrows(r) \/ ActionPauses(r)
    <3>1. fibers' = Ended(r, "back")
      BY <2>6 DEF ActionThrows, ActionPauses
    <3>2. r \notin DOMAIN fibers'
      <4>1. DOMAIN Ended(r, "back") = DOMAIN fibers \ {r}
        BY <1>1, EndedFacts
      <4> QED BY <3>1, <4>1
    <3>3. /\ InOrder(steps'[r]) /\ Ending(runs'[r], steps'[r], crashes > 0)
          /\ runs'[r].status # "running"
      <4>1. CASE ActionThrows(r)
        <5>1. steps' = UpdateStep(r, "failed") /\ runs' = SetStatus(r, "failed")
          BY <4>1 DEF ActionThrows, FailRun
        <5>2. /\ Len(steps'[r]) = n /\ InOrder(steps'[r])
              /\ steps'[r][n].status = "failed"
          BY <2>4, <5>1
        <5>3. runs'[r].status = "failed"
          BY <1>1, <1>6, <5>1, StatusFacts
        <5> QED BY <5>2, <5>3 DEF Ending
      <4>2. CASE ActionPauses(r)
        <5>1. /\ steps' = UpdateStep(r, "completed") /\ runs' = Put(runs, r, row)
              /\ Current(r) = "pause"
          BY <1>6, <4>2 DEF ActionPauses
        <5>2. /\ Len(steps'[r]) = n /\ InOrder(steps'[r])
              /\ steps'[r][n].status = "completed" /\ steps'[r][n].action = "pause"
          BY <2>1, <2>4, <5>1
        <5>3. row.status = "paused" /\ row.current = n + 1
          <6>1. fibers[r].at + 1 \in Nat
            BY <2>1, <2>2
          <6>2. runs[r] \in Run
            BY <2>2
          <6>3. row.status = "paused" /\ row.current = fibers[r].at + 1
            BY ONLY <6>1, <6>2, PauseFacts
          <6> QED BY <2>1, <6>3
        <5> HIDE DEF row
        <5>4. runs'[r] = row
          BY <5>1 DEF Put
        <5> QED BY <2>1, <5>2, <5>3, <5>4 DEF Ending
      <4> QED BY <2>6, <4>1, <4>2
    <3>4. Tracked(r)'
      BY <1>1, <3>2, <3>3 DEF Tracked
    <3> QED BY <1>1, <1>2, <1>3, <1>4, <3>4, OthersTracked
  <2> QED BY <2>5, <2>6
<1> QED BY <1>5, <1>6

\* UnknownAction, CompleteRun, StepRefused: the loop ends behind its log.
LEMMA LoopEndTracked ==
    ASSUME IInv, NEW r \in Nat, StepRefused(r) \/ UnknownAction(r) \/ CompleteRun(r)
    PROVE  \A q \in Nat : Tracked(q)'
<1>1. /\ TypeOK /\ r \in DOMAIN fibers /\ fibers[r].phase = "loop"
      /\ crashes' = crashes /\ steps' = steps
      /\ r \notin DOMAIN runs \/ runs' = SetStatus(r, "failed")
         \/ runs' = SetStatus(r, "completed")
      /\ r \in DOMAIN runs \/ runs' = runs
  BY DEF IInv, StepRefused, UnknownAction, CompleteRun, Looping, FailRun, SetStatus, Starting
<1>2. PICK how \in {"back", "threw"} : fibers' = Ended(r, how)
  BY DEF StepRefused, UnknownAction, CompleteRun, Starting
<1>3. r \notin DOMAIN fibers'
  <2>1. DOMAIN Ended(r, how) = DOMAIN fibers \ {r}
    BY <1>1, EndedFacts
  <2> QED BY <1>2, <2>1
<1>4. DOMAIN runs' = DOMAIN runs /\ \A q \in DOMAIN runs : q # r => runs'[q] = runs[q]
  BY <1>1, StatusFacts
<1>5. Tracked(r)'
  <2>1. CASE r \notin DOMAIN runs
    BY <1>4, <2>1 DEF Tracked
  <2>2. CASE r \in DOMAIN runs
    <3>1. Tracked(r)
      BY DEF IInv
    <3>2. InOrder(steps[r]) /\ Following(fibers[r], steps[r])
      BY <1>1, <2>2, <3>1 DEF Tracked
    <3>3. Len(steps[r]) > 0 => steps[r][Len(steps[r])].status = "completed"
      BY <1>1, <3>2 DEF Following
    <3>4. runs'[r].status \in {"failed", "completed"}
      BY <1>1, <2>2, StatusFacts
    <3>5. Ending(runs'[r], steps[r], crashes > 0)
      BY <3>3, <3>4 DEF Ending
    <3> QED BY <1>1, <1>3, <3>2, <3>4, <3>5 DEF Tracked
  <2> QED BY <2>1, <2>2
<1> QED BY <1>1, <1>2, <1>4, <1>5, OthersTracked

\* ExecuteWorkflow, and the call of a sub-workflow: a run begins with an empty log.
LEMMA BeginTracked ==
    ASSUME IInv, NEW w, NEW actions, NEW parent, Begin(w), crashes' = crashes,
           NEW old, DOMAIN old = DOMAIN fibers,
           \A q \in DOMAIN fibers : /\ old[q].at = fibers[q].at
                                    /\ old[q].actions = fibers[q].actions
                                    /\ old[q].state = fibers[q].state
                                    /\ old[q].phase = "loop" <=> fibers[q].phase = "loop",
           fibers' = Put(old, ids + 1, NewFiber(actions, 1, parent))
    PROVE  \A q \in Nat : Tracked(q)'
<1>1. DOMAIN steps = DOMAIN runs /\ \A q \in Nat : Tracked(q)
  BY DEF IInv, TypeOK
<1>2. SUFFICES ASSUME NEW k, k = ids + 1
               PROVE  \A q \in Nat : Tracked(q)'
  OBVIOUS
<1>3. k \in DOMAIN fibers' /\ fibers'[k] = NewFiber(actions, 1, parent)
  BY <1>2 DEF Put
<1>4. Tracked(k)'
  BY <1>2, <1>3, BegunTracked
<1>5. k \notin DOMAIN fibers
  BY <1>2, NoLoop
<1>6. ASSUME NEW q \in Nat, q # k
      PROVE  Tracked(q)'
  <2>1. Kept(q)
    BY <1>2, <1>5, <1>6 DEF Kept, Put
  <2>2. q \in DOMAIN runs' => /\ q \in DOMAIN runs /\ runs'[q] = runs[q]
                              /\ steps'[q] = steps[q]
    BY <1>1, <1>2, <1>6, BeginKeeps
  <2> QED BY <1>1, <1>6, <2>1, <2>2, Untouched
<1> QED BY <1>4, <1>6

\* ResumeWorkflow: the run goes on behind its log, which ends with a pause.
LEMMA ResumeTracked ==
    ASSUME IInv, NEW r \in Nat, ResumeWorkflow(r)
    PROVE  \A q \in Nat : Tracked(q)'
<1> DEFINE log == steps[r]
           n == Len(log)
           new == NewFiber(workflows[runs[r].workflow], runs[r].current, NoRun)
<1>1. /\ TypeOK /\ r \in DOMAIN runs /\ runs[r].status = "paused"
      /\ runs' = SetStatus(r, "running") /\ fibers' = Put(fibers, r, new)
      /\ crashes' = crashes /\ steps' = steps
  BY DEF IInv, ResumeWorkflow, Resumable, ResumeAt
<1>2. \A q \in Nat : Tracked(q)
  BY DEF IInv
<1>3. /\ InOrder(log) /\ n > 0 /\ log[n].status = "completed"
      /\ log[n].action = "pause" /\ runs[r].current = n + 1
  BY <1>1, <1>2 DEF Tracked, Ending
<1>4. n \in Nat
  BY <1>1, RowTypes
<1>5. SincePause(log, n + 1) = {}
  BY <1>3, <1>4, SincePauseNext
<1>6. Following(new, log)
  BY <1>3, <1>5 DEF Following, NewFiber
<1> HIDE DEF new
<1>7. /\ DOMAIN runs' = DOMAIN runs /\ runs'[r].status = "running"
      /\ runs'[r].current = n + 1
      /\ \A q \in DOMAIN runs : q # r => runs'[q] = runs[q]
  BY <1>1, <1>3, StatusFacts
<1>8. r \in DOMAIN fibers' /\ fibers'[r] = new
  BY <1>1 DEF Put
<1>9. Ending(runs'[r], log, crashes > 0)
  BY <1>3, <1>4, <1>7 DEF Ending, Latest
<1>10. Tracked(r)'
  BY <1>1, <1>3, <1>6, <1>7, <1>8, <1>9 DEF Tracked
<1>11. ASSUME NEW q \in Nat, q # r
       PROVE  Tracked(q)'
  <2>1. Kept(q)
    BY <1>1, <1>11 DEF Kept, Put
  <2>2. q \in DOMAIN runs' => /\ q \in DOMAIN runs /\ runs'[q] = runs[q]
                              /\ steps'[q] = steps[q]
    BY <1>1, <1>7, <1>11
  <2> QED BY <1>1, <1>2, <1>11, <2>1, <2>2, Untouched
<1> QED BY <1>10, <1>11

\* What was so is so in a process that died.
LEMMA EndingDied ==
    ASSUME NEW run, NEW log, NEW died \in BOOLEAN, Ending(run, log, died)
    PROVE  Ending(run, log, TRUE)
BY DEF Ending, Latest

\* Crash: what it leaves of each run is in order, and no loop is left.
LEMMA DeathTracked ==
    ASSUME IInv, Crash
    PROVE  \A q \in Nat : Tracked(q)'
<1>1. /\ TypeOK /\ DOMAIN steps = DOMAIN runs /\ DOMAIN fibers' = {} /\ crashes' > 0
      /\ crashes' # 0
  BY Deaths DEF IInv, TypeOK
<1>2. ASSUME NEW q \in Nat, q \in DOMAIN runs
      PROVE  InOrder(steps[q]) /\ Ending(runs[q], steps[q], TRUE)
  <2>1. Tracked(q)
    BY DEF IInv
  <2>2. InOrder(steps[q]) /\ Ending(runs[q], steps[q], crashes > 0)
    BY <1>2, <2>1 DEF Tracked
  <2>3. (crashes > 0) \in BOOLEAN
    OBVIOUS
  <2> QED BY <2>2, <2>3, EndingDied
<1>3. SUFFICES ASSUME NEW q \in Nat, q \in DOMAIN runs'
               PROVE  InOrder(steps'[q]) /\ Ending(runs'[q], steps'[q], TRUE)
  BY <1>1 DEF Tracked
<1>4. CASE q \in DOMAIN runs /\ runs'[q] = runs[q] /\ steps'[q] = steps[q]
  BY <1>2, <1>4
<1>5. CASE \E w \in DOMAIN workflows : CreateRun(PendingRun(w))
  <2>1. PICK w \in DOMAIN workflows : CreateRun(PendingRun(w))
    BY <1>5
  <2>2. CASE q = ids + 1
    <3>1. runs'[q] = PendingRun(w) /\ steps'[q] = <<>>
      BY <2>1, <2>2 DEF CreateRun, Put
    <3>2. Ending(PendingRun(w), <<>>, TRUE)
      BY EmptyLog DEF Ending, PendingRun
    <3> QED BY <3>1, <3>2, EmptyLog
  <2>3. CASE q # ids + 1
    <3>1. q \in DOMAIN runs /\ runs'[q] = runs[q] /\ steps'[q] = steps[q]
      BY <1>1, <1>3, <2>1, <2>3 DEF CreateRun, Put
    <3> QED BY <1>4, <3>1
  <2> QED BY <2>2, <2>3
<1>6. CASE \E r \in DOMAIN runs \cap Nat : /\ Starting(r) /\ steps' = AddStep(r, "pending")
                                        /\ runs' \in {runs, AtStep(r)}
  <2>1. PICK r \in DOMAIN runs \cap Nat : /\ Starting(r) /\ steps' = AddStep(r, "pending")
                                        /\ runs' \in {runs, AtStep(r)}
    BY <1>6
  <2> DEFINE n == Len(steps[r])
             new == AddStep(r, "pending")[r]
             row == AtStep(r)[r]
  <2>2. /\ DOMAIN AtStep(r) = DOMAIN runs
        /\ \A o \in DOMAIN runs : o # r => /\ AddStep(r, "pending")[o] = steps[o]
                                         /\ AtStep(r)[o] = runs[o]
        /\ n \in Nat /\ runs[r].status = "running" /\ (n > 0 => steps[r][n].status = "completed")
        /\ row.status = "running" /\ row.current = n + 1
        /\ Len(new) = n + 1 /\ InOrder(new) /\ new[n + 1].status = "pending"
    BY <2>1, StartFacts
  <2>3. CASE q # r
    <3>1. q \in DOMAIN runs /\ runs'[q] = runs[q] /\ steps'[q] = steps[q]
      BY <1>3, <2>1, <2>2, <2>3
    <3> QED BY <1>4, <3>1
  <2>4. CASE q = r
    <3>1. steps'[q] = new /\ runs'[q] \in {runs[r], row}
      BY <2>1, <2>4
    <3>2. Ending(runs[r], steps[r], TRUE)
      BY <1>2, <2>1
    <3>3. runs[r].current \in {n, n + 1}
      BY <2>2, <3>2 DEF Ending, Latest
    <3> HIDE DEF new, row, n
    <3>4. runs'[q].status = "running" /\ runs'[q].current \in {n, n + 1}
      BY <2>2, <3>1, <3>3
    <3>5. Ending(runs'[q], new, TRUE)
      BY <2>2, <3>4 DEF Ending, Latest
    <3> QED BY <2>2, <3>1, <3>5
  <2> QED BY <2>3, <2>4
<1>7. CASE /\ \E r \in DOMAIN fibers : fibers[r].phase # "loop" /\ steps' = UpdateStep(r, "failed")
           /\ runs' = runs
  <2>1. PICK r \in DOMAIN fibers : fibers[r].phase # "loop" /\ steps' = UpdateStep(r, "failed")
    BY <1>7
  <2>2. CASE q # r \/ r \notin DOMAIN runs
    <3>1. steps'[q] = steps[q]
      BY <1>1, <1>3, <1>7, <2>1, <2>2 DEF UpdateStep, Put
    <3> QED BY <1>3, <1>4, <1>7, <3>1
  <2>3. CASE q = r /\ r \in DOMAIN runs
    <3> DEFINE n == Len(steps[r])
    <3>1. n > 0 /\ n \in Nat /\ steps[r][n].status = "running"
      BY <1>1, <2>1, <2>3, LastStep, RowTypes
    <3>2. InOrder(steps[r]) /\ Ending(runs[r], steps[r], TRUE) /\ runs[r].status = "running"
      BY <1>2, <2>1, <2>3 DEF IInv, Tracked
    <3>3. runs[r].current = n
      BY <3>1, <3>2 DEF Ending, Latest
    <3>4. Len(steps'[q]) = n /\ InOrder(steps'[q]) /\ steps'[q][n].status = "failed"
      BY <1>1, <2>1, <2>3, <3>1, <3>2, EndLog
    <3>5. Ending(runs'[q], steps'[q], TRUE)
      BY <1>7, <2>3, <3>1, <3>2, <3>3, <3>4 DEF Ending, Latest
    <3> QED BY <3>4, <3>5
  <2> QED BY <2>2, <2>3
<1>8. CASE UNCHANGED <<runs, steps>>
  BY <1>3, <1>4, <1>8
<1> QED BY <1>5, <1>6, <1>7, <1>8, Deaths

\* A step of the engine keeps logs, rows and loops in agreement.
LEMMA TrackedStep ==
    ASSUME IInv, Next
    PROVE  \A q \in Nat : Tracked(q)'
<1>1. TypeOK /\ DOMAIN steps = DOMAIN runs /\ \A q \in Nat : Tracked(q)
  BY DEF IInv, TypeOK
<1>2. ASSUME NEW w \in Workflows, ExecuteWorkflow(w)
      PROVE  \A q \in Nat : Tracked(q)'
  <2>1. /\ Begin(w) /\ crashes' = crashes
        /\ fibers' = Put(fibers, ids + 1, NewFiber(workflows[w], 1, NoRun))
    BY <1>2 DEF ExecuteWorkflow
  <2> QED BY <2>1, BeginTracked
<1>3. ASSUME NEW r \in Nat, CallSubWorkflow(r)
      PROVE  \A q \in Nat : Tracked(q)'
  <2>1. r \in DOMAIN fibers /\ fibers[r].phase = "call" /\ crashes' = crashes
    BY <1>3 DEF CallSubWorkflow
  <2>2. CASE Current(r) \in DOMAIN workflows
    <3>1. /\ Begin(Current(r))
          /\ fibers' = Put(WithPhase(r, "sub"), ids + 1, NewFiber(workflows[Current(r)], 1, r))
      BY <1>3, <2>2 DEF CallSubWorkflow, AfterCall
    <3> DEFINE old == WithPhase(r, "sub")
    <3>2. /\ DOMAIN old = DOMAIN fibers /\ old[r].at = fibers[r].at
          /\ old[r].actions = fibers[r].actions /\ old[r].state = fibers[r].state
          /\ old[r].phase = "sub"
          /\ \A q \in DOMAIN fibers : q # r => old[q] = fibers[q]
      BY <1>1, <2>1, PhaseFacts
    <3> HIDE DEF old
    <3>3. \A q \in DOMAIN fibers : /\ old[q].at = fibers[q].at
                                   /\ old[q].actions = fibers[q].actions
                                   /\ old[q].state = fibers[q].state
                                   /\ old[q].phase = "loop" <=> fibers[q].phase = "loop"
      BY <2>1, <3>2
    <3>4. fibers' = Put(old, ids + 1, NewFiber(workflows[Current(r)], 1, r))
      BY <3>1 DEF old
    <3> QED BY <2>1, <3>1, <3>2, <3>3, <3>4, BeginTracked
  <2>3. CASE Current(r) \notin DOMAIN workflows
    <3>1. fibers' = WithPhase(r, "threw") /\ UNCHANGED <<runs, steps>>
      BY <1>3, <2>3 DEF CallSubWorkflow
    <3>2. \A q : Kept(q)
      BY <2>1, <3>1, WaitingKept
    <3> QED BY <1>1, <2>1, <3>1, <3>2, Untouched
  <2> QED BY <2>2, <2>3
<1>4. ASSUME \/ \E w \in Workflows : DeleteWorkflow(w)
             \/ \E w \in Workflows, actions \in Seq(Action) : RegisterWorkflow(w, actions)
      PROVE  \A q \in Nat : Tracked(q)'
  <2>1. fibers' = fibers /\ crashes' = crashes
    BY <1>4 DEF DeleteWorkflow, RegisterWorkflow
  <2>2. \A q : q \in DOMAIN runs' => /\ q \in DOMAIN runs /\ runs'[q] = runs[q]
                                     /\ steps'[q] = steps[q]
    BY <1>1, <1>4 DEF DeleteWorkflow, RegisterWorkflow, Without
  <2>3. \A q : Kept(q)
    BY <2>1 DEF Kept
  <2> QED BY <1>1, <2>1, <2>2, <2>3, Untouched
<1> QED BY <1>2, <1>3, <1>4, StartTracked, EndTracked, LoopEndTracked,
           ResumeTracked, DeathTracked, Actions

-----------------------------------------------------------------------------
(* The theorems *)

\* The invariant holds of the engine at every time.
LEMMA Inductive == Spec => []IInv
<1>1. Init => IInv
  <2> SUFFICES ASSUME Init
               PROVE  IInv
    OBVIOUS
  <2>1. TypeOK
    BY EngineAssumption, EmptyType DEF Init, TypeOK
  <2>2. DOMAIN fibers = {} /\ DOMAIN runs = {}
    BY DEF Init, EmptyTable
  <2> QED BY <2>1, <2>2 DEF IInv, OneThread, Parented, Counted, Tracked
<1>2. IInv /\ [Next]_vars => IInv'
  <2> SUFFICES ASSUME IInv, [Next]_vars
               PROVE  IInv'
    OBVIOUS
  <2>1. CASE Next
    <3>1. TypeOK'
      BY <2>1, TypeStep
    <3>2. OneThread' /\ Parented'
      BY <2>1, ThreadStep
    <3>3. Counted'
      BY <2>1, CountedStep
    <3>4. \A q \in Nat : Tracked(q)'
      BY <2>1, TrackedStep
    <3> QED BY <3>1, <3>2, <3>3, <3>4 DEF IInv
  <2>2. CASE UNCHANGED vars
    BY <2>2 DEF vars, IInv, TypeOK, OneThread, Free, Parented, Counted, Tracked
  <2> QED BY <2>1, <2>2
<1> QED BY <1>1, <1>2, PTL DEF Spec

\* Every table and every loop of WorkflowService is of its type, whatever workflows are
\* registered, changed and deleted and wherever the process dies.
THEOREM EngineTypeCorrect == Spec => []TypeOK
BY Inductive, PTL DEF IInv

\* For any workflows and any number of runs, the rows of workflow_steps are the actions
\* of their run in order, each executed once, all but the last completed, and a step saw
\* the output of every step since the last pause; the row of the run agrees.  Wherever
\* between two statements the process dies, no run is left further apart from its log
\* than by the last step, and none is over that is not.
THEOREM StepLogs == Spec => []StepLog
<1>1. IInv => StepLog
  <2> SUFFICES ASSUME IInv, NEW r \in DOMAIN runs
               PROVE  LET log  == steps[r]
                          n    == Len(log)
                          run  == runs[r]
                          last == IF n > 0 THEN log[n].status ELSE "none"
                      IN /\ \A i \in 1..n :
                               /\ log[i].index = i /\ (i < n => log[i].status = "completed")
                               /\ SincePause(log, i) \subseteq log[i].input
                         /\ run.status = "pending" => n = 0 /\ crashes > 0
                         /\ n > 0 => CASE run.status = "paused"    -> last = "completed" /\ run.current = n + 1
                              [] run.status = "completed" -> last = "completed"
                              [] run.status = "failed"    -> last \in {"completed", "failed"}
                              [] OTHER -> \/ last = "completed" /\ run.current \in {n, n + 1}
                                          \/ last = "running" /\ run.current = n
                                          \/ last = "failed" /\ run.current = n /\ crashes > 0
                                          \/ last = "pending" /\ run.current \in {n - 1, n} /\ crashes > 0
    BY DEF StepLog
  <2> DEFINE log == steps[r]
             n == Len(log)
             run == runs[r]
  <2>1. InOrder(log) /\ Ending(run, log, crashes > 0) /\ run \in Run /\ n \in Nat
    <3>1. r \in Nat /\ runs[r] \in Run /\ steps[r] \in Seq(Step)
      BY RowTypes DEF IInv
    <3> QED BY <3>1 DEF IInv, Tracked
  <2>2. run.status \in {"pending", "running", "paused", "completed", "failed"}
    BY <2>1 DEF Run
  <2>3. \A i \in 1..n : /\ log[i].index = i /\ (i < n => log[i].status = "completed")
                        /\ SincePause(log, i) \subseteq log[i].input
    BY <2>1 DEF InOrder
  <2>4. run.status = "pending" => n = 0 /\ crashes > 0
    BY <2>1 DEF Ending
  <2> HIDE DEF run, log
  <2>5. ASSUME n > 0
        PROVE  /\ run.status = "paused" => log[n].status = "completed" /\ run.current = n + 1
               /\ run.status = "completed" => log[n].status = "completed"
               /\ run.status = "failed" => log[n].status \in {"completed", "failed"}
               /\ run.status = "running" =>
                     \/ log[n].status = "completed" /\ run.current \in {n, n + 1}
                     \/ log[n].status = "running" /\ run.current = n
                     \/ log[n].status = "failed" /\ run.current = n /\ crashes > 0
                     \/ log[n].status = "pending" /\ run.current \in {n - 1, n} /\ crashes > 0
    BY <2>1, <2>5 DEF Ending, Latest
  <2>6. n > 0 => CASE run.status = "paused"    -> log[n].status = "completed" /\ run.current = n + 1
           [] run.status = "completed" -> log[n].status = "completed"
           [] run.status = "failed"    -> log[n].status \in {"completed", "failed"}
           [] OTHER -> \/ log[n].status = "completed" /\ run.current \in {n, n + 1}
                       \/ log[n].status = "running" /\ run.current = n
                       \/ log[n].status = "failed" /\ run.current = n /\ crashes > 0
                       \/ log[n].status = "pending" /\ run.current \in {n - 1, n} /\ crashes > 0
    <3>1. CASE run.status = "paused"
      BY <2>5, <3>1
    <3>2. CASE run.status = "completed"
      BY <2>5, <3>2
    <3>3. CASE run.status = "failed"
      BY <2>5, <3>3
    <3>4. CASE run.status = "running"
      BY <2>5, <3>4
    <3>5. CASE run.status = "pending"
      BY <2>4, <2>1, <3>5
    <3> QED BY <2>2, <3>1, <3>2, <3>3, <3>4, <3>5
  <2> QED BY <2>3, <2>4, <2>6 DEF run, log
<1> QED BY <1>1, Inductive, PTL

\* Until the process dies a run is marked running exactly while its loop is in memory,
\* and at any time a loop waits for a sub-workflow exactly as long as the one it called
\* executes, for any nesting of sub-workflows.
THEOREM LoopsAgree == Spec => []LoopsMatchRuns
<1>1. IInv => LoopsMatchRuns
  <2> SUFFICES ASSUME IInv
               PROVE  LoopsMatchRuns
    OBVIOUS
  <2>1. ASSUME crashes = 0, NEW r \in DOMAIN runs
        PROVE  runs[r].status = "running" <=> r \in DOMAIN fibers
    <3>1. r \in Nat
      BY RowTypes DEF IInv
    <3> QED BY <2>1, <3>1 DEF IInv, Tracked
  <2>2. ASSUME NEW p \in DOMAIN fibers
        PROVE  LET children == {r \in DOMAIN fibers : fibers[r].parent = p}
               IN IF fibers[p].phase = "sub" THEN Cardinality(children) = 1 ELSE children = {}
    <3> DEFINE children == {r \in DOMAIN fibers : fibers[r].parent = p}
    <3>1. p # NoRun
      BY RowTypes DEF IInv, NoRun
    <3>2. CASE fibers[p].phase = "sub"
      <4>1. PICK o \in DOMAIN fibers : fibers[o].parent = p
        BY <3>2 DEF IInv, Parented
      <4>2. \A r \in children : r = o
        BY <3>1, <4>1 DEF IInv, Parented
      <4>3. children = {o}
        BY <4>1, <4>2
      <4>4. Cardinality({o}) = 1
        BY FS_Singleton
      <4> QED BY <3>2, <4>3, <4>4
    <3>3. CASE fibers[p].phase # "sub"
      <4>1. \A r \in DOMAIN fibers : fibers[r].parent # p
        BY <3>1, <3>3 DEF IInv, Parented
      <4> QED BY <3>3, <4>1
    <3> QED BY <3>2, <3>3
  <2> QED BY <2>1, <2>2 DEF LoopsMatchRuns
<1> QED BY <1>1, Inductive, PTL

-----------------------------------------------------------------------------
(* The engine implements the life of a run *)

\* What WorkflowRuns sees of a run.
StatusOf(r) == IF r \in DOMAIN runs THEN runs[r].status
               ELSE IF r <= ids THEN "gone" ELSE "none"
DoneOf(r) == IF r \notin DOMAIN steps THEN 0 ELSE Cardinality(Completed(steps[r]))

Status == [r \in RunIds |-> StatusOf(r)]
Done   == [r \in RunIds |-> DoneOf(r)]

\* Completed steps can be counted.
LEMMA CompletedFinite ==
    ASSUME NEW log \in Seq(Step)
    PROVE  IsFiniteSet(Completed(log))
<1>1. Len(log) \in Nat /\ DOMAIN log = 1..Len(log)
  OBVIOUS
<1>2. IsFiniteSet(DOMAIN log)
  BY <1>1, FS_Interval
<1>3. Completed(log) \in SUBSET DOMAIN log
  BY DEF Completed
<1> QED BY <1>2, <1>3, FS_Subset

\* The last step, which runs, is counted when it completes and not when it fails.
LEMMA CompletedUpdate ==
    ASSUME IInv, NEW r \in DOMAIN fibers, r \in DOMAIN runs, fibers[r].phase # "loop",
           NEW status \in {"completed", "failed"}
    PROVE  /\ r \in DOMAIN UpdateStep(r, status)
           /\ Cardinality(Completed(UpdateStep(r, status)[r])) =
                 IF status = "completed" THEN Cardinality(Completed(steps[r])) + 1
                 ELSE Cardinality(Completed(steps[r]))
<1> DEFINE log == steps[r]
           n == Len(log)
           new == UpdateStep(r, status)[r]
<1>1. TypeOK /\ n > 0 /\ log[n].status = "running"
  BY LastStep DEF IInv
<1>2. log \in Seq(Step) /\ n \in Nat /\ r \in DOMAIN steps
  BY <1>1, RowTypes
<1>3. /\ DOMAIN UpdateStep(r, status) = DOMAIN steps
      /\ new \in Seq(Step) /\ Len(new) = n
      /\ \A i \in 1..n : new[i].status = IF i = n THEN status ELSE log[i].status
  BY <1>1, <1>2, UpdateFacts
<1>4. DOMAIN log = 1..n /\ DOMAIN new = 1..n /\ n \in 1..n
  BY <1>1, <1>2, <1>3
<1>5. IsFiniteSet(Completed(log)) /\ n \notin Completed(log)
  BY <1>1, <1>2, CompletedFinite DEF Completed
<1> HIDE DEF new, log, n
<1>6. CASE status = "completed"
  <2>1. Completed(new) = Completed(log) \cup {n}
    BY <1>3, <1>4, <1>6 DEF Completed
  <2>2. Cardinality(Completed(log) \cup {n}) = Cardinality(Completed(log)) + 1
    BY <1>5, FS_AddElement
  <2> QED BY <1>2, <1>3, <1>6, <2>1, <2>2 DEF new, log
<1>7. CASE status = "failed"
  <2>1. Completed(new) = Completed(log)
    BY <1>3, <1>4, <1>5, <1>7 DEF Completed
  <2> QED BY <1>2, <1>3, <1>7, <2>1 DEF new, log
<1> QED BY <1>6, <1>7

\* The last step, which runs, was not counted before it failed.
LEMMA CompletedFailed ==
    ASSUME IInv, NEW r \in DOMAIN fibers, r \in DOMAIN runs, fibers[r].phase # "loop"
    PROVE  Completed(UpdateStep(r, "failed")[r]) = Completed(steps[r])
<1> DEFINE log == steps[r]
           n == Len(log)
           new == UpdateStep(r, "failed")[r]
<1>1. TypeOK /\ n > 0 /\ log[n].status = "running"
  BY LastStep DEF IInv
<1>2. log \in Seq(Step) /\ n \in Nat /\ r \in DOMAIN steps
  BY <1>1, RowTypes
<1>3. /\ new \in Seq(Step) /\ Len(new) = n
      /\ \A i \in 1..n : new[i].status = IF i = n THEN "failed" ELSE log[i].status
  BY <1>1, <1>2, UpdateFacts
<1>4. DOMAIN log = 1..n /\ DOMAIN new = 1..n
  BY <1>2, <1>3
<1> HIDE DEF new, log, n
<1>5. Completed(new) = Completed(log)
  BY <1>1, <1>3, <1>4 DEF Completed
<1> QED BY <1>5 DEF new, log

\* Nothing is seen of a step that changes no status and no count.
LEMMA Stutters ==
    ASSUME \A q \in RunIds : StatusOf(q)' = StatusOf(q) /\ DoneOf(q)' = DoneOf(q)
    PROVE  UNCHANGED Lifecycle!vars
<1>1. Status' = Status /\ Done' = Done
  BY DEF Status, Done, RunIds
<1> QED BY <1>1 DEF Lifecycle!vars, Status, Done, StatusOf, DoneOf, Completed

\* The steps of WorkflowRuns, of what it sees here.
LEMMA LifecycleSteps ==
    ASSUME NEW r
    PROVE  /\ Lifecycle!Create(r) <=> /\ Status[r] = "none"
                                      /\ Status' = [Status EXCEPT ![r] = "pending"]
                                      /\ Done' = Done
           /\ Lifecycle!Begin(r) <=> /\ Status[r] = "none"
                                     /\ Status' = [Status EXCEPT ![r] = "running"]
                                     /\ Done' = Done
           /\ Lifecycle!Step(r) <=> /\ Status[r] = "running"
                                    /\ Done' = [Done EXCEPT ![r] = @ + 1]
                                    /\ Status' = Status
           /\ Lifecycle!Pause(r) <=> /\ Status[r] = "running"
                                     /\ Status' = [Status EXCEPT ![r] = "paused"]
                                     /\ Done' = [Done EXCEPT ![r] = @ + 1]
           /\ Lifecycle!Resume(r) <=> /\ Status[r] = "paused"
                                      /\ Status' = [Status EXCEPT ![r] = "running"]
                                      /\ Done' = Done
           /\ Lifecycle!End(r) <=> /\ Status[r] = "running"
                                   /\ \/ Status' = [Status EXCEPT ![r] = "completed"]
                                      \/ Status' = [Status EXCEPT ![r] = "failed"]
                                   /\ Done' = Done
<1>1. Lifecycle!Begin(r) <=> /\ Status[r] = "none"
                             /\ Status' = [Status EXCEPT ![r] = "running"]
                             /\ Done' = Done
  BY DEF Lifecycle!Begin, Lifecycle!Move, Status, Done, StatusOf, DoneOf, Completed
<1>2. Lifecycle!Step(r) <=> /\ Status[r] = "running"
                            /\ Done' = [Done EXCEPT ![r] = @ + 1]
                            /\ Status' = Status
  BY DEF Lifecycle!Step, Lifecycle!Count, Status, Done, StatusOf, DoneOf, Completed
<1>3. Lifecycle!Pause(r) <=> /\ Status[r] = "running"
                             /\ Status' = [Status EXCEPT ![r] = "paused"]
                             /\ Done' = [Done EXCEPT ![r] = @ + 1]
  BY DEF Lifecycle!Pause, Lifecycle!Move, Lifecycle!Count,
         Status, Done, StatusOf, DoneOf, Completed
<1>4. Lifecycle!Resume(r) <=> /\ Status[r] = "paused"
                              /\ Status' = [Status EXCEPT ![r] = "running"]
                              /\ Done' = Done
  BY DEF Lifecycle!Resume, Lifecycle!Move, Status, Done, StatusOf, DoneOf, Completed
<1>5. Lifecycle!End(r) <=> /\ Status[r] = "running"
                           /\ \/ Status' = [Status EXCEPT ![r] = "completed"]
                              \/ Status' = [Status EXCEPT ![r] = "failed"]
                           /\ Done' = Done
  BY DEF Lifecycle!End, Lifecycle!Move, Status, Done, StatusOf, DoneOf, Completed
<1>6. Lifecycle!Create(r) <=> /\ Status[r] = "none"
                              /\ Status' = [Status EXCEPT ![r] = "pending"]
                              /\ Done' = Done
  BY DEF Lifecycle!Create, Lifecycle!Move, Status, Done, StatusOf, DoneOf, Completed
<1> QED BY <1>1, <1>2, <1>3, <1>4, <1>5, <1>6

\* One run takes one step of its life.
LEMMA RunMoves ==
    ASSUME NEW r,
           \A q \in RunIds : q # r => StatusOf(q)' = StatusOf(q) /\ DoneOf(q)' = DoneOf(q),
           \/ StatusOf(r)' = StatusOf(r) /\ DoneOf(r)' = DoneOf(r)
           \/ /\ \/ StatusOf(r) = "none" /\ StatusOf(r)' \in {"pending", "running"}
                 \/ StatusOf(r) = "paused" /\ StatusOf(r)' = "running"
                 \/ StatusOf(r) = "running" /\ StatusOf(r)' \in {"completed", "failed"}
              /\ DoneOf(r)' = DoneOf(r)
           \/ /\ StatusOf(r) = "running" /\ StatusOf(r)' \in {"running", "paused"}
              /\ DoneOf(r)' = DoneOf(r) + 1
    PROVE  [Lifecycle!Next]_(Lifecycle!vars)
<1>1. CASE r \notin RunIds \/ (StatusOf(r)' = StatusOf(r) /\ DoneOf(r)' = DoneOf(r))
  BY <1>1, Stutters
<1>2. CASE r \in RunIds /\ ~(StatusOf(r)' = StatusOf(r) /\ DoneOf(r)' = DoneOf(r))
  <2>1. /\ Status' = [Status EXCEPT ![r] = StatusOf(r)']
        /\ Done' = [Done EXCEPT ![r] = DoneOf(r)']
        /\ Status[r] = StatusOf(r) /\ Done[r] = DoneOf(r)
    BY <1>2 DEF Status, Done, RunIds
  <2>2. DoneOf(r)' = DoneOf(r) => Done' = Done
    BY <1>2, <2>1 DEF Done
  <2>3. StatusOf(r)' = StatusOf(r) => Status' = Status
    BY <1>2, <2>1 DEF Status
  <2>4. \/ Lifecycle!Create(r) \/ Lifecycle!Begin(r) \/ Lifecycle!Step(r) \/ Lifecycle!Pause(r)
        \/ Lifecycle!Resume(r) \/ Lifecycle!End(r)
    <3>1. CASE DoneOf(r)' = DoneOf(r)
      BY <1>2, <2>1, <2>2, <3>1, LifecycleSteps
    <3>2. CASE StatusOf(r) = "running" /\ StatusOf(r)' = "running" /\ DoneOf(r)' = DoneOf(r) + 1
      BY <2>1, <2>3, <3>2, LifecycleSteps
    <3>3. CASE StatusOf(r) = "running" /\ StatusOf(r)' = "paused" /\ DoneOf(r)' = DoneOf(r) + 1
      BY <2>1, <3>3, LifecycleSteps
    <3> QED BY <1>2, <3>1, <3>2, <3>3
  <2> QED BY <1>2, <2>4 DEF Lifecycle!Next
<1> QED BY <1>1, <1>2

\* A run whose rows do not change looks the same.
LEMMA LooksTheSame ==
    ASSUME NEW q, DOMAIN steps = DOMAIN runs, DOMAIN steps' = DOMAIN runs',
           q \in DOMAIN runs' <=> q \in DOMAIN runs,
           q \in DOMAIN runs => /\ runs'[q].status = runs[q].status
                                /\ Completed(steps'[q]) = Completed(steps[q]),
           q <= ids' <=> q <= ids
    PROVE  StatusOf(q)' = StatusOf(q) /\ DoneOf(q)' = DoneOf(q)
<1>1. StatusOf(q)' = StatusOf(q)
  BY DEF StatusOf
<1>2. DoneOf(q)' = IF q \notin DOMAIN steps' THEN 0 ELSE Cardinality(Completed(steps'[q]))
  BY DEF DoneOf, Completed
<1>3. DoneOf(q)' = DoneOf(q)
  <2>1. CASE q \in DOMAIN runs
    BY <1>2, <2>1 DEF DoneOf
  <2>2. CASE q \notin DOMAIN runs
    BY <1>2, <2>2 DEF DoneOf
  <2> QED BY <2>1, <2>2
<1> QED BY <1>1, <1>3

\* How many steps of a run have completed, after a step of the engine.
LEMMA DoneAfter ==
    ASSUME NEW q
    PROVE  /\ DoneOf(q)' = IF q \notin DOMAIN steps' THEN 0
                           ELSE Cardinality(Completed(steps'[q]))
           /\ StatusOf(q)' = IF q \in DOMAIN runs' THEN runs'[q].status
                             ELSE IF q <= ids' THEN "gone" ELSE "none"
BY DEF DoneOf, Completed, StatusOf

\* A run is created, and begins if the process lives.
LEMMA CreateSeen ==
    ASSUME IInv, TypeOK', NEW run, CreateRun(run), run.status \in {"pending", "running"}
    PROVE  [Lifecycle!Next]_(Lifecycle!vars)
<1>1. SUFFICES ASSUME NEW k, k = ids + 1
               PROVE  [Lifecycle!Next]_(Lifecycle!vars)
  OBVIOUS
<1>2. /\ DOMAIN steps = DOMAIN runs /\ DOMAIN steps' = DOMAIN runs' /\ ids \in Nat
      /\ k \notin DOMAIN runs
  BY <1>1, NoLoop DEF IInv, TypeOK
<1>3. /\ runs' = Put(runs, k, run) /\ steps' = Put(steps, k, <<>>) /\ ids' = k
  BY <1>1 DEF CreateRun
<1>4. RunIds \subseteq Nat
  BY EngineAssumption DEF RunIds
<1>5. ASSUME NEW q \in RunIds, q # k
      PROVE  StatusOf(q)' = StatusOf(q) /\ DoneOf(q)' = DoneOf(q)
  <2>1. q <= ids' <=> q <= ids
    <3>1. q \in Nat
      BY <1>4
    <3> QED BY <1>1, <1>2, <1>3, <1>5, <3>1
  <2>2. /\ q \in DOMAIN runs' <=> q \in DOMAIN runs
        /\ q \in DOMAIN runs => runs'[q] = runs[q] /\ steps'[q] = steps[q]
    BY <1>2, <1>3, <1>5 DEF Put
  <2> QED BY <1>2, <2>1, <2>2, LooksTheSame
<1>6. StatusOf(k) = "none" /\ DoneOf(k) = 0
  <2>1. ~(k <= ids)
    BY <1>1, <1>2
  <2> QED BY <1>2, <2>1 DEF StatusOf, DoneOf
<1>7. StatusOf(k)' \in {"pending", "running"}
  BY <1>3, DoneAfter DEF Put
<1>8. DoneOf(k)' = 0
  <2>1. steps'[k] = <<>> /\ k \in DOMAIN steps'
    BY <1>3 DEF Put
  <2>2. Completed(<<>>) = {}
    BY DEF Completed
  <2>3. Cardinality({}) = 0
    BY FS_EmptySet
  <2> QED BY <2>1, <2>2, <2>3, DoneAfter
<1> QED BY <1>5, <1>6, <1>7, <1>8, RunMoves

\* A step of one run that is kept in its tables.
LEMMA StepSeen ==
    ASSUME IInv, TypeOK', NEW r \in Nat, ids' = ids, DOMAIN runs' = DOMAIN runs,
           \A q \in DOMAIN runs : q # r => runs'[q] = runs[q] /\ steps'[q] = steps[q],
           r \in DOMAIN runs =>
              \/ /\ runs'[r].status = runs[r].status
                 /\ Completed(steps'[r]) = Completed(steps[r])
              \/ /\ \/ runs[r].status = "paused" /\ runs'[r].status = "running"
                    \/ runs[r].status = "running" /\ runs'[r].status \in {"completed", "failed"}
                 /\ Cardinality(Completed(steps'[r])) = Cardinality(Completed(steps[r]))
              \/ /\ runs[r].status = "running" /\ runs'[r].status \in {"running", "paused"}
                 /\ Cardinality(Completed(steps'[r])) = Cardinality(Completed(steps[r])) + 1
    PROVE  [Lifecycle!Next]_(Lifecycle!vars)
<1>1. DOMAIN steps = DOMAIN runs /\ DOMAIN steps' = DOMAIN runs'
  BY DEF IInv, TypeOK
<1>2. \A q \in RunIds : q # r => StatusOf(q)' = StatusOf(q) /\ DoneOf(q)' = DoneOf(q)
  BY <1>1, LooksTheSame
<1>3. CASE \/ r \notin DOMAIN runs
           \/ /\ runs'[r].status = runs[r].status
              /\ Completed(steps'[r]) = Completed(steps[r])
  <2>1. StatusOf(r)' = StatusOf(r) /\ DoneOf(r)' = DoneOf(r)
    BY <1>1, <1>3, LooksTheSame
  <2> QED BY <1>2, <2>1, RunMoves
<1>4. CASE /\ r \in DOMAIN runs
           /\ ~(/\ runs'[r].status = runs[r].status
                /\ Completed(steps'[r]) = Completed(steps[r]))
  <2>1. /\ StatusOf(r) = runs[r].status /\ StatusOf(r)' = runs'[r].status
        /\ DoneOf(r) = Cardinality(Completed(steps[r]))
        /\ DoneOf(r)' = Cardinality(Completed(steps'[r]))
    BY <1>1, <1>4, DoneAfter DEF StatusOf, DoneOf
  <2> QED BY <1>2, <1>4, <2>1, RunMoves
<1> QED BY <1>3, <1>4

\* The runs of a workflow are deleted.
LEMMA DeleteSeen ==
    ASSUME IInv, TypeOK', NEW w, DeleteWorkflow(w)
    PROVE  [Lifecycle!Next]_(Lifecycle!vars)
<1> SUFFICES ASSUME NEW rs, rs = RunsOf(w) \cap RunIds
             PROVE  [Lifecycle!Next]_(Lifecycle!vars)
  OBVIOUS
<1>1. /\ runs' = Without(runs, RunsOf(w)) /\ steps' = Without(steps, RunsOf(w))
      /\ ids' = ids /\ DOMAIN steps = DOMAIN runs
  BY DEF DeleteWorkflow, IInv, TypeOK
<1>2. ASSUME NEW q \in rs
      PROVE  StatusOf(q) # "none" /\ StatusOf(q)' = "gone" /\ DoneOf(q)' = 0
  <2>1. q \in DOMAIN runs /\ q <= ids /\ runs[q] \in Run
    BY RowTypes DEF IInv, RunsOf
  <2>2. q \notin DOMAIN runs' /\ q \notin DOMAIN steps'
    BY <1>1 DEF Without
  <2> QED BY <1>1, <2>1, <2>2, DoneAfter DEF StatusOf, Run
<1>3. ASSUME NEW q \in RunIds \ rs
      PROVE  StatusOf(q)' = StatusOf(q) /\ DoneOf(q)' = DoneOf(q)
  <2>1. /\ q \in DOMAIN runs' <=> q \in DOMAIN runs
        /\ q \in DOMAIN runs => runs'[q] = runs[q] /\ steps'[q] = steps[q]
        /\ DOMAIN steps' = DOMAIN runs'
    BY <1>1 DEF Without
  <2> QED BY <1>1, <2>1, LooksTheSame
<1>4. /\ Status' = [q \in RunIds |-> StatusOf(q)'] /\ Done' = [q \in RunIds |-> DoneOf(q)']
  BY DEF Status, Done, RunIds
<1>5. /\ \A q \in rs : Status[q] # "none"
      /\ Status' = [q \in RunIds |-> IF q \in rs THEN "gone" ELSE Status[q]]
      /\ Done' = [q \in RunIds |-> IF q \in rs THEN 0 ELSE Done[q]]
  BY <1>2, <1>3, <1>4 DEF Status, Done
<1>6. Lifecycle!Delete(rs)
  <2>1. Lifecycle!Delete(rs) <=>
           /\ \A q \in rs : Status[q] # "none"
           /\ Status' = [q \in RunIds |-> IF q \in rs THEN "gone" ELSE Status[q]]
           /\ Done' = [q \in RunIds |-> IF q \in rs THEN 0 ELSE Done[q]]
    BY DEF Lifecycle!Delete, Status, Done, StatusOf, DoneOf, Completed
  <2> QED BY <1>5, <2>1
<1>7. rs \in SUBSET RunIds
  OBVIOUS
<1> QED BY <1>6, <1>7 DEF Lifecycle!Next

\* Every step of the engine is a step in the life of one run, the deletion of several, or
\* nothing.
LEMMA RunsStep ==
    ASSUME IInv, TypeOK', [Next]_vars
    PROVE  [Lifecycle!Next]_(Lifecycle!vars)
<1>1. TypeOK /\ DOMAIN steps = DOMAIN runs /\ \A q \in Nat : Tracked(q)
  BY DEF IInv, TypeOK
<1>2. CASE ids' = ids /\ runs' = runs /\ steps' = steps
  BY <1>2 DEF Lifecycle!vars
<1>3. ASSUME NEW w, Begin(w)
      PROVE  [Lifecycle!Next]_(Lifecycle!vars)
  <2>1. CreateRun(NewRun(w)) /\ NewRun(w).status = "running"
    BY <1>3 DEF Begin, NewRun
  <2> QED BY <2>1, CreateSeen
<1>4. ASSUME NEW r \in Nat, ResumeWorkflow(r)
      PROVE  [Lifecycle!Next]_(Lifecycle!vars)
  <2>1. /\ r \in DOMAIN runs /\ runs[r].status = "paused"
        /\ runs' = SetStatus(r, "running") /\ steps' = steps /\ ids' = ids
    BY <1>4 DEF ResumeWorkflow, Resumable
  <2>2. /\ DOMAIN runs' = DOMAIN runs /\ runs'[r].status = "running"
        /\ \A q \in DOMAIN runs : q # r => runs'[q] = runs[q]
    BY <1>1, <2>1, StatusFacts
  <2> QED BY <2>1, <2>2, StepSeen
<1>5. ASSUME NEW r \in Nat, StartAction(r)
      PROVE  [Lifecycle!Next]_(Lifecycle!vars)
  <2>1. /\ r \in DOMAIN runs /\ Starting(r) /\ ids' = ids
        /\ steps' = AddStep(r, "running") /\ runs' = AtStep(r)
    BY <1>5 DEF StartAction
  <2>2. /\ DOMAIN runs' = DOMAIN runs /\ runs'[r].status = runs[r].status
        /\ Completed(steps'[r]) = Completed(steps[r])
        /\ \A q \in DOMAIN runs : q # r => runs'[q] = runs[q] /\ steps'[q] = steps[q]
    BY <2>1, StartFacts
  <2> QED BY <2>1, <2>2, StepSeen
<1>6. ASSUME NEW r \in Nat, UnknownAction(r) \/ CompleteRun(r)
      PROVE  [Lifecycle!Next]_(Lifecycle!vars)
  <2>1. /\ r \in DOMAIN fibers /\ steps' = steps /\ ids' = ids
        /\ runs' = SetStatus(r, "failed") \/ runs' = SetStatus(r, "completed")
    BY <1>6 DEF UnknownAction, CompleteRun, Looping, FailRun
  <2>2. /\ DOMAIN runs' = DOMAIN runs
        /\ \A q \in DOMAIN runs : q # r => runs'[q] = runs[q]
        /\ r \in DOMAIN runs => runs'[r].status \in {"completed", "failed"}
    BY <1>1, <2>1, StatusFacts
  <2>3. r \in DOMAIN runs => runs[r].status = "running"
    BY <1>1, <2>1 DEF Tracked
  <2> QED BY <2>1, <2>2, <2>3, StepSeen
<1>7. ASSUME NEW r \in Nat, ActionReturns(r) \/ ActionThrows(r) \/ ActionPauses(r)
      PROVE  [Lifecycle!Next]_(Lifecycle!vars)
  <2> DEFINE row == [runs[r] EXCEPT !.status = "paused", !.current = fibers[r].at + 1]
  <2>1. /\ r \in DOMAIN fibers /\ fibers[r].phase # "loop" /\ ids' = ids
        /\ \/ steps' = UpdateStep(r, "completed") /\ runs' = runs
           \/ steps' = UpdateStep(r, "failed") /\ runs' = SetStatus(r, "failed")
           \/ /\ steps' = UpdateStep(r, "completed")
              /\ runs' = IF r \in DOMAIN runs THEN Put(runs, r, row) ELSE runs
    BY <1>7 DEF ActionReturns, ActionThrows, ActionPauses, Awaited, FailRun
  <2>2. /\ DOMAIN runs' = DOMAIN runs
        /\ \A q \in DOMAIN runs : q # r => runs'[q] = runs[q]
    <3>1. CASE runs' = SetStatus(r, "failed")
      BY <1>1, <3>1, StatusFacts
    <3>2. CASE runs' = IF r \in DOMAIN runs THEN Put(runs, r, row) ELSE runs
      BY <3>2 DEF Put
    <3> QED BY <2>1, <3>1, <3>2
  <2>3. \A q \in DOMAIN runs : q # r => steps'[q] = steps[q]
    BY <1>1, <2>1 DEF UpdateStep, Put
  <2>4. ASSUME r \in DOMAIN runs
        PROVE  \/ /\ runs[r].status = "running" /\ runs'[r].status = "failed"
                  /\ Cardinality(Completed(steps'[r])) = Cardinality(Completed(steps[r]))
               \/ /\ runs[r].status = "running" /\ runs'[r].status \in {"running", "paused"}
                  /\ Cardinality(Completed(steps'[r])) = Cardinality(Completed(steps[r])) + 1
    <3>1. runs[r].status = "running"
      BY <1>1, <2>1, <2>4 DEF Tracked
    <3>2. CASE steps' = UpdateStep(r, "completed") /\ runs' = runs
      <4>1. Cardinality(Completed(steps'[r])) = Cardinality(Completed(steps[r])) + 1
        BY <2>1, <2>4, <3>2, CompletedUpdate
      <4> QED BY <3>1, <3>2, <4>1
    <3>3. CASE steps' = UpdateStep(r, "failed") /\ runs' = SetStatus(r, "failed")
      <4>1. Cardinality(Completed(steps'[r])) = Cardinality(Completed(steps[r]))
        BY <2>1, <2>4, <3>3, CompletedUpdate
      <4>2. runs'[r].status = "failed"
        BY <1>1, <2>4, <3>3, StatusFacts
      <4> QED BY <3>1, <4>1, <4>2
    <3>4. CASE /\ steps' = UpdateStep(r, "completed")
               /\ runs' = IF r \in DOMAIN runs THEN Put(runs, r, row) ELSE runs
      <4>1. Cardinality(Completed(steps'[r])) = Cardinality(Completed(steps[r])) + 1
        BY <2>1, <2>4, <3>4, CompletedUpdate
      <4>2. runs[r] \in Run /\ fibers[r].at + 1 \in Nat
        BY <1>1, <2>1, <2>4, RowTypes DEF Fiber
      <4>3. row.status = "paused"
        BY ONLY <4>2, PauseFacts
      <4> HIDE DEF row
      <4>4. runs'[r].status = "paused"
        BY <2>4, <3>4, <4>3 DEF Put
      <4> QED BY <3>1, <4>1, <4>4
    <3> QED BY <2>1, <3>2, <3>3, <3>4
  <2> QED BY <2>1, <2>2, <2>3, <2>4, StepSeen
<1>8. ASSUME Crash
       PROVE  [Lifecycle!Next]_(Lifecycle!vars)
  <2>1. CASE UNCHANGED <<runs, steps, ids, starts>>
    BY <1>2, <2>1
  <2>2. ASSUME NEW w \in DOMAIN workflows, CreateRun(PendingRun(w))
        PROVE  [Lifecycle!Next]_(Lifecycle!vars)
    <3>1. PendingRun(w).status = "pending"
      BY DEF PendingRun
    <3> QED BY <2>2, <3>1, CreateSeen
  <2>3. ASSUME NEW r \in DOMAIN runs \cap Nat, Starting(r), steps' = AddStep(r, "pending"),
               runs' \in {runs, AtStep(r)}, ids' = ids
        PROVE  [Lifecycle!Next]_(Lifecycle!vars)
    <3>1. /\ DOMAIN runs' = DOMAIN runs /\ runs'[r].status = runs[r].status
          /\ Completed(steps'[r]) = Completed(steps[r])
          /\ \A q \in DOMAIN runs : q # r => runs'[q] = runs[q] /\ steps'[q] = steps[q]
      BY <2>3, StartFacts
    <3> QED BY <2>3, <3>1, StepSeen
  <2>4. ASSUME NEW r \in DOMAIN fibers, fibers[r].phase # "loop",
               steps' = UpdateStep(r, "failed"), runs' = runs, ids' = ids
        PROVE  [Lifecycle!Next]_(Lifecycle!vars)
    <3>1. \A q \in DOMAIN runs : q # r => steps'[q] = steps[q]
      BY <1>1, <2>4 DEF UpdateStep, Put
    <3>2. r \in Nat
      BY <1>1, RowTypes
    <3>3. r \in DOMAIN runs => Completed(steps'[r]) = Completed(steps[r])
      BY <2>4, CompletedFailed
    <3> QED BY <2>4, <3>1, <3>2, <3>3, StepSeen
  <2> QED BY <1>8, <2>1, <2>2, <2>3, <2>4, Deaths
<1>9. CASE Next
  <2>1. \A r \in Nat : CallSubWorkflow(r) => \/ \E w : Begin(w)
                                             \/ ids' = ids /\ runs' = runs /\ steps' = steps
    BY DEF CallSubWorkflow
  <2>2. \A w : ExecuteWorkflow(w) => Begin(w)
    BY DEF ExecuteWorkflow
  <2>3. (\E w \in Workflows, actions \in Seq(Action) : RegisterWorkflow(w, actions))
              \/ (\E r \in Nat : StepRefused(r))
           => ids' = ids /\ runs' = runs /\ steps' = steps
    BY DEF RegisterWorkflow, StepRefused
  <2> QED BY <1>2, <1>3, <1>4, <1>5, <1>6, <1>7, <1>9, <1>8, <2>1, <2>2, <2>3, DeleteSeen, Actions
<1>10. CASE UNCHANGED vars
  BY <1>2, <1>10 DEF vars
<1> QED BY <1>9, <1>10

\* WorkflowRuns is what the engine does to the rows of its runs, for any number of runs,
\* changes and crashes: a run is added to only while it runs, resumed only when paused,
\* and once it has completed or failed it stays so.
THEOREM EngineImplementsRuns == Spec => ImplementsWorkflowRuns
<1>1. Init => Lifecycle!Init
  <2> SUFFICES ASSUME Init
               PROVE  Lifecycle!Init
    OBVIOUS
  <2>1. DOMAIN runs = {} /\ DOMAIN steps = {} /\ ids = 0
    BY DEF Init, EmptyTable
  <2>2. \A q \in RunIds : ~(q <= ids)
    BY <2>1, EngineAssumption DEF RunIds
  <2> QED BY <2>1, <2>2 DEF Lifecycle!Init
<1>2. IInv /\ TypeOK' /\ [Next]_vars => [Lifecycle!Next]_(Lifecycle!vars)
  BY RunsStep
<1>3. IInv => TypeOK
  BY DEF IInv
<1> QED BY <1>1, <1>2, <1>3, Inductive, PTL DEF Spec, ImplementsWorkflowRuns, Lifecycle!Spec
=============================================================================
