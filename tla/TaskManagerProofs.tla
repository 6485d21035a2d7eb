--------------------------- MODULE TaskManagerProofs ---------------------------
(***************************************************************************)
(* Proofs about TaskManager for any number of tasks, nodes, results and    *)
(* errors and any setting of the clean-up.  The inductive invariant says   *)
(* that the table has its type and that every record in it is consistent;  *)
(* an operation on the table changes one record by one of the functions of *)
(* TaskRecord, so the argument is made once per function and then lifted.  *)
(***************************************************************************)
EXTENDS TaskManager, FiniteSetTheorems, TLAPS

\* One record: what RecordMatchesStatus says of it.
Consistent(t) ==
  /\ t.result # None <=> t.status = "completed"
  /\ t.error # None <=> t.status = "failed"
  /\ t.status \in Terminal => t.ended
  /\ t.status = "pending" => ~t.started /\ ~t.ended
  /\ t.status = "running" => t.started
  /\ t.status = "delegated" => t.delegatedTo # None
  /\ t.delegatedTo # None => t.type = "remote"

GoodTask == {t \in Task : Consistent(t)}

IInv ==
  /\ DOMAIN tasks \subseteq TaskIds
  /\ tasks \in [DOMAIN tasks -> GoodTask]
  /\ clock \in Nat
  /\ lastCleanup \in Nat

-----------------------------------------------------------------------------
(* One record at a time.                                                     *)

\* A new task is consistent.
LEMMA NewTaskGood ==
  ASSUME NEW ty \in TaskTypes, NEW now \in Nat
  PROVE  NewTask(ty, now) \in GoodTask
BY NoneAssumption DEF NewTask, GoodTask, Task, Consistent, Status, Phases, Terminal

\* _prepare_task_for_reuse leaves a consistent task.
LEMMA ReusedGood ==
  ASSUME NEW t \in GoodTask, NEW ty \in TaskTypes, NEW preserve \in BOOLEAN
  PROVE  Reused(t, ty, preserve) \in GoodTask
BY NoneAssumption DEF Reused, NewTask, GoodTask, Task, Consistent, Status, Phases, Terminal

\* start_task on a task its guard admits.
LEMMA StartedGood ==
  ASSUME NEW t \in GoodTask, Startable(t.status)
  PROVE  Started(t) \in GoodTask
BY DEF Started, Startable, GoodTask, Task, Consistent, Status, Phases, Terminal

\* complete_task on a task its guard admits.
LEMMA CompletedGood ==
  ASSUME NEW t \in GoodTask, NEW r \in Results, Finishable(t.status)
  PROVE  Completed(t, r) \in GoodTask
BY NoneAssumption
   DEF Completed, Finishable, Settled, GoodTask, Task, Consistent, Status, Phases, Terminal

\* fail_task on a task its guard admits.
LEMMA FailedGood ==
  ASSUME NEW t \in GoodTask, NEW e \in Errors, Finishable(t.status)
  PROVE  Failed(t, e) \in GoodTask
BY NoneAssumption
   DEF Failed, Finishable, Settled, GoodTask, Task, Consistent, Status, Phases, Terminal

\* cancel_task on a task its guard admits.
LEMMA CancelledGood ==
  ASSUME NEW t \in GoodTask, Cancellable(t.status)
  PROVE  Cancelled(t) \in GoodTask
BY DEF Cancelled, Cancellable, GoodTask, Task, Consistent, Status, Phases, Terminal

\* delegate_task on a task its guard admits.
LEMMA DelegatedGood ==
  ASSUME NEW t \in GoodTask, NEW n \in Nodes, Delegable(t.status)
  PROVE  Delegated(t, n) \in GoodTask
BY NoneAssumption
   DEF Delegated, Delegable, GoodTask, Task, Consistent, Status, TaskTypes, Terminal

\* The setters that carry no status guard cannot break the record.
LEMMA SettersGood ==
  ASSUME NEW t \in GoodTask, NEW p \in Phases
  PROVE  WithPhase(t, p) \in GoodTask /\ WithStep(t) \in GoodTask
BY DEF WithPhase, WithStep, GoodTask, Task, Consistent, Status

-----------------------------------------------------------------------------
(* The clean-up.                                                             *)

\* _maybe_cleanup removes finished tasks and changes no other.
LEMMA CleanupDropsTerminal ==
  ASSUME IInv
  PROVE  \E gone \in SUBSET TerminalIds(tasks) : AfterCleanup = Without(tasks, gone)
<1>1. CASE ~CleanupDue
  <2>1. AfterCleanup = Without(tasks, {})
    BY <1>1 DEF AfterCleanup, Without, IInv
  <2> QED BY <2>1
<1>2. CASE CleanupDue
  <2> DEFINE gone == Expired(tasks) \cup Evicted(AfterExpiry)
  <2>1. Expired(tasks) \subseteq TerminalIds(tasks)
    BY DEF Expired, TerminalIds
  <2>2. Evicted(AfterExpiry) \subseteq TerminalIds(tasks)
    BY DEF Evicted, AfterExpiry, TerminalIds, Without
  <2>3. AfterCleanup = Without(tasks, gone)
    BY <1>2 DEF AfterCleanup, AfterExpiry, Without
  <2> QED BY <2>1, <2>2, <2>3
<1> QED BY <1>1, <1>2

-----------------------------------------------------------------------------
(* The inductive invariant.                                                  *)

\* Replacing one record by a good one keeps the table good.
LEMMA PutGood ==
  ASSUME IInv, NEW i \in DOMAIN tasks, NEW t \in GoodTask,
         tasks' = Put(i, t), UNCHANGED <<clock, lastCleanup>>
  PROVE  IInv'
BY DEF IInv, Put

\* create_task, clean-up included, keeps the table good.
LEMMA CreateGood ==
  ASSUME IInv, NEW i \in TaskIds, NEW ty \in CallTypes,
         NEW reuse \in BOOLEAN, NEW preserve \in BOOLEAN,
         CreateTask(i, ty, reuse, preserve)
  PROVE  IInv'
<1>1. PICK gone \in SUBSET TerminalIds(tasks) : AfterCleanup = Without(tasks, gone)
  BY CleanupDropsTerminal
<1>2. /\ DOMAIN AfterCleanup \subseteq TaskIds
      /\ \A j \in DOMAIN AfterCleanup : AfterCleanup[j] \in GoodTask
  BY <1>1 DEF IInv, Without
<1>3. ty \in TaskTypes
  BY ManagerAssumption DEF ManagerAssumption
<1>4. NewTask(ty, clock) \in GoodTask
  BY <1>3, NewTaskGood DEF IInv
<1>5. i \in DOMAIN AfterCleanup => Reused(AfterCleanup[i], ty, preserve) \in GoodTask
  BY <1>2, <1>3, ReusedGood
<1>6. /\ DOMAIN tasks' \subseteq TaskIds
      /\ tasks' \in [DOMAIN tasks' -> GoodTask]
  BY <1>2, <1>4, <1>5 DEF CreateTask
<1>7. clock' \in Nat /\ lastCleanup' \in Nat
  BY DEF CreateTask, IInv
<1> QED BY <1>6, <1>7 DEF IInv

\* IInv holds initially and every step keeps it.
THEOREM Inductive == Spec => []IInv
<1>1. Init => IInv
  BY DEF Init, IInv
<1>2. IInv /\ [Next]_vars => IInv'
  <2> SUFFICES ASSUME IInv, [Next]_vars PROVE IInv'
    OBVIOUS
  <2>1. CASE Tick
    BY <2>1 DEF Tick, IInv
  <2>2. CASE ClearTasks
    BY <2>2 DEF ClearTasks, IInv
  <2>3. CASE \E i \in TaskIds, ty \in CallTypes, reuse, preserve \in BOOLEAN :
               CreateTask(i, ty, reuse, preserve)
    BY <2>3, CreateGood
  <2>4. ASSUME NEW i \in TaskIds, StartTask(i) PROVE IInv'
    BY <2>4, StartedGood, PutGood DEF StartTask, IInv
  <2>5. ASSUME NEW i \in TaskIds, NEW r \in Results, CompleteTask(i, r) PROVE IInv'
    BY <2>5, CompletedGood, PutGood DEF CompleteTask, IInv
  <2>6. ASSUME NEW i \in TaskIds, NEW e \in Errors, FailTask(i, e) PROVE IInv'
    BY <2>6, FailedGood, PutGood DEF FailTask, IInv
  <2>7. ASSUME NEW i \in TaskIds, CancelTask(i) PROVE IInv'
    BY <2>7, CancelledGood, PutGood DEF CancelTask, IInv
  <2>8. ASSUME NEW i \in TaskIds, NEW n \in Nodes, DelegateTask(i, n) PROVE IInv'
    BY <2>8, DelegatedGood, PutGood DEF DelegateTask, IInv
  <2>9. ASSUME NEW i \in TaskIds, NEW p \in CallPhases, UpdatePhase(i, p) PROVE IInv'
    <3>1. p \in Phases
      BY ManagerAssumption DEF ManagerAssumption
    <3> QED BY <2>9, <3>1, SettersGood, PutGood DEF UpdatePhase, IInv
  <2>10. ASSUME NEW i \in TaskIds, AddStep(i) PROVE IInv'
    BY <2>10, SettersGood, PutGood DEF AddStep, IInv, Phases
  <2>11. CASE UNCHANGED vars
    BY <2>11 DEF vars, IInv
  <2> QED
    BY <2>1, <2>2, <2>3, <2>4, <2>5, <2>6, <2>7, <2>8, <2>9, <2>10, <2>11 DEF Next
<1> QED BY <1>1, <1>2, PTL DEF Spec

-----------------------------------------------------------------------------
(* The invariants the runs check.                                            *)

\* The table always has its type.
THEOREM TypeCorrect == Spec => []TypeOK
<1>1. IInv => TypeOK
  BY DEF IInv, TypeOK, GoodTask
<1> QED BY <1>1, Inductive, PTL

\* Results are stored exactly in completed tasks, errors exactly in failed ones, and
\* the recorded times and the delegation target agree with the status.
THEOREM RecordsMatch == Spec => []RecordMatchesStatus
<1>1. IInv => RecordMatchesStatus
  BY DEF IInv, RecordMatchesStatus, GoodTask, Consistent
<1> QED BY <1>1, Inductive, PTL

-----------------------------------------------------------------------------
(* Action properties.                                                        *)

\* What one step may do to a task, clean-up aside: nothing, one of the record
\* functions under its guard, or a new submission.
TaskStep(t, u) ==
  \/ u = t
  \/ u.status = "pending" /\ u.result = None /\ u.error = None
       /\ (u.steps = 0 \/ u.steps = t.steps)
  \/ Startable(t.status) /\ u = Started(t)
  \/ Finishable(t.status) /\ \E r \in Results : u = Completed(t, r)
  \/ Finishable(t.status) /\ \E e \in Errors : u = Failed(t, e)
  \/ Cancellable(t.status) /\ u = Cancelled(t)
  \/ Delegable(t.status) /\ \E n \in Nodes : u = Delegated(t, n)
  \/ \E p \in Phases : u = WithPhase(t, p)
  \/ u = WithStep(t)

\* Every step of the manager is, for each task that stays, a TaskStep.
LEMMA EachTaskSteps ==
  ASSUME IInv, [Next]_vars, NEW i \in DOMAIN tasks, i \in DOMAIN tasks'
  PROVE  TaskStep(tasks[i], tasks'[i])
<1> USE DEF TaskStep
<1>1. CASE Tick
  BY <1>1 DEF Tick
<1>2. CASE ClearTasks
  BY <1>2 DEF ClearTasks
<1>3. ASSUME NEW k \in TaskIds, NEW ty \in CallTypes, NEW reuse \in BOOLEAN,
             NEW preserve \in BOOLEAN, CreateTask(k, ty, reuse, preserve)
      PROVE  TaskStep(tasks[i], tasks'[i])
  <2>1. PICK gone \in SUBSET TerminalIds(tasks) : AfterCleanup = Without(tasks, gone)
    BY CleanupDropsTerminal
  <2>2. i \in DOMAIN AfterCleanup => AfterCleanup[i] = tasks[i]
    BY <2>1 DEF Without
  <2>3. CASE i # k
    BY <1>3, <2>2, <2>3 DEF CreateTask
  <2>4. CASE i = k
    <3>1. CASE reuse /\ i \in DOMAIN AfterCleanup
      <4>1. tasks'[i] = Reused(tasks[i], ty, preserve)
        BY <1>3, <2>2, <2>4, <3>1 DEF CreateTask
      <4> QED BY <4>1 DEF Reused, NewTask
    <3>2. CASE ~(reuse /\ i \in DOMAIN AfterCleanup)
      <4>1. tasks'[i] = NewTask(ty, clock)
        BY <1>3, <2>4, <3>2 DEF CreateTask
      <4> QED BY <4>1 DEF NewTask
    <3> QED BY <3>1, <3>2
  <2> QED BY <2>3, <2>4
<1>4. ASSUME NEW k \in TaskIds, StartTask(k) PROVE TaskStep(tasks[i], tasks'[i])
  BY <1>4 DEF StartTask, Put
<1>5. ASSUME NEW k \in TaskIds, NEW r \in Results, CompleteTask(k, r)
      PROVE  TaskStep(tasks[i], tasks'[i])
  BY <1>5 DEF CompleteTask, Put
<1>6. ASSUME NEW k \in TaskIds, NEW e \in Errors, FailTask(k, e)
      PROVE  TaskStep(tasks[i], tasks'[i])
  BY <1>6 DEF FailTask, Put
<1>7. ASSUME NEW k \in TaskIds, CancelTask(k) PROVE TaskStep(tasks[i], tasks'[i])
  BY <1>7 DEF CancelTask, Put
<1>8. ASSUME NEW k \in TaskIds, NEW n \in Nodes, DelegateTask(k, n)
      PROVE  TaskStep(tasks[i], tasks'[i])
  BY <1>8 DEF DelegateTask, Put
<1>9. ASSUME NEW k \in TaskIds, NEW p \in CallPhases, UpdatePhase(k, p)
      PROVE  TaskStep(tasks[i], tasks'[i])
  <2>1. p \in Phases
    BY ManagerAssumption DEF ManagerAssumption
  <2> QED BY <1>9, <2>1 DEF UpdatePhase, Put
<1>10. ASSUME NEW k \in TaskIds, AddStep(k) PROVE TaskStep(tasks[i], tasks'[i])
  BY <1>10 DEF AddStep, Put
<1>11. CASE UNCHANGED vars
  BY <1>11 DEF vars
<1> HIDE DEF TaskStep
<1> QED
  BY <1>1, <1>2, <1>3, <1>4, <1>5, <1>6, <1>7, <1>8, <1>9, <1>10, <1>11 DEF Next

\* A settled task keeps its outcome until it is submitted again.
THEOREM OutcomesStick == Spec => OutcomeSticky
<1>1. ASSUME IInv, [Next]_vars, NEW i \in DOMAIN tasks, i \in DOMAIN tasks',
             tasks[i].status \in Settled, tasks'[i].status # "pending"
      PROVE  /\ tasks'[i].status = tasks[i].status
             /\ tasks'[i].result = tasks[i].result
             /\ tasks'[i].error = tasks[i].error
  <2>1. tasks[i] \in Task
    BY <1>1 DEF IInv, GoodTask
  <2>2. TaskStep(tasks[i], tasks'[i])
    BY <1>1, EachTaskSteps
  <2> QED BY <1>1, <2>1, <2>2
     DEF TaskStep, Startable, Finishable, Cancellable, Delegable, Settled, Terminal,
         WithPhase, WithStep, Task
<1>2. IInv /\ [Next]_vars =>
        [\A i \in DOMAIN tasks \cap DOMAIN tasks' :
           tasks[i].status \in Settled =>
             \/ tasks'[i].status = "pending"
             \/ /\ tasks'[i].status = tasks[i].status
                /\ tasks'[i].result = tasks[i].result
                /\ tasks'[i].error = tasks[i].error]_vars
  BY <1>1
<1> QED BY <1>2, Inductive, PTL DEF Spec, OutcomeSticky

\* A task step keeps every recorded step, or submits the task again.
LEMMA TaskStepSteps ==
  ASSUME NEW t \in Task, NEW u, TaskStep(t, u), u.steps < t.steps
  PROVE  u.steps = 0 /\ u.status = "pending"
<1>1. t.steps \in Nat
  BY DEF Task
<1>2. CASE u.status = "pending" /\ (u.steps = 0 \/ u.steps = t.steps)
  BY <1>1, <1>2
<1>3. Started(t).steps = t.steps
  BY DEF Started, Task
<1>4. \A r : Completed(t, r).steps = t.steps
  BY DEF Completed, Task
<1>5. \A e : Failed(t, e).steps = t.steps
  BY DEF Failed, Task
<1>6. Cancelled(t).steps = t.steps
  BY DEF Cancelled, Task
<1>7. \A n : Delegated(t, n).steps = t.steps
  BY DEF Delegated, Task
<1>8. \A p : WithPhase(t, p).steps = t.steps
  BY DEF WithPhase, Task
<1>9. WithStep(t).steps = t.steps + 1
  BY DEF WithStep, Task
<1> QED BY <1>1, <1>2, <1>3, <1>4, <1>5, <1>6, <1>7, <1>8, <1>9 DEF TaskStep

\* Recorded steps are lost all together or not at all, and never by a
\* resubmission that asks to keep them.
THEOREM StepsKept == Spec => StepsAreNotLost
<1>1. ASSUME IInv, [Next]_vars, NEW i \in DOMAIN tasks, i \in DOMAIN tasks',
             tasks'[i].steps < tasks[i].steps
      PROVE  /\ tasks'[i].steps = 0
             /\ tasks'[i].status = "pending"
             /\ \A ty \in CallTypes :
                  CreateTask(i, ty, TRUE, TRUE) => i \notin DOMAIN AfterCleanup
  <2>1. tasks[i] \in Task
    BY <1>1 DEF IInv, GoodTask
  <2>2. TaskStep(tasks[i], tasks'[i])
    BY <1>1, EachTaskSteps
  <2>3. tasks'[i].steps = 0 /\ tasks'[i].status = "pending"
    BY <1>1, <2>1, <2>2, TaskStepSteps
  <2>4. ASSUME NEW ty \in CallTypes, CreateTask(i, ty, TRUE, TRUE), i \in DOMAIN AfterCleanup
        PROVE  FALSE
    <3>1. PICK gone \in SUBSET TerminalIds(tasks) : AfterCleanup = Without(tasks, gone)
      BY <1>1, CleanupDropsTerminal
    <3>2. AfterCleanup[i] = tasks[i]
      BY <2>4, <3>1 DEF Without
    <3>3. tasks'[i] = Reused(tasks[i], ty, TRUE)
      BY <2>4, <3>2 DEF CreateTask
    <3>4. tasks'[i].steps = tasks[i].steps
      BY <3>3 DEF Reused, NewTask
    <3>5. tasks[i].steps \in Nat
      BY <2>1 DEF Task
    <3> QED BY <1>1, <3>4, <3>5
  <2> QED BY <2>3, <2>4
<1>2. IInv /\ [Next]_vars =>
        [\A i \in DOMAIN tasks \cap DOMAIN tasks' :
           tasks'[i].steps < tasks[i].steps =>
             /\ tasks'[i].steps = 0
             /\ tasks'[i].status = "pending"
             /\ \A ty \in CallTypes :
                  CreateTask(i, ty, TRUE, TRUE) => i \notin DOMAIN AfterCleanup]_vars
  BY <1>1
<1> QED BY <1>2, Inductive, PTL DEF Spec, StepsAreNotLost

-----------------------------------------------------------------------------
(* Refinement of TaskOutcome.                                                *)

\* The outcomes of a table in which only i changed differ only at i.
LEMMA OutcomeOfPut ==
  ASSUME IInv, NEW i \in DOMAIN tasks, NEW t, tasks' = Put(i, t)
  PROVE  outcomeBar' = [outcomeBar EXCEPT ![i] = OutcomeOf(t)]
BY DEF IInv, Put, outcomeBar

\* The abstract value of a task follows its status.
LEMMA OutcomeByStatus ==
  ASSUME NEW t \in Task
  PROVE  /\ t.status = "completed" => OutcomeOf(t) = <<"ok", t.result>>
         /\ t.status = "failed" => OutcomeOf(t) = <<"error", t.error>>
         /\ t.status = "cancelled" => OutcomeOf(t) = <<"cancelled">>
         /\ t.status \notin Terminal => OutcomeOf(t) = <<"open">>
BY DEF OutcomeOf, Terminal

\* A task that can be settled shows as open or cancelled.
LEMMA FinishableOpen ==
  ASSUME NEW t \in Task, Finishable(t.status)
  PROVE  OutcomeOf(t) \in {<<"open">>, <<"cancelled">>}
BY OutcomeByStatus DEF Finishable, Settled, Terminal, Task, Status

\* create_task is a submission, with the cleaned-up records dropped.
LEMMA CreateSubmits ==
  ASSUME IInv, NEW i \in TaskIds, NEW ty \in CallTypes,
         NEW reuse \in BOOLEAN, NEW preserve \in BOOLEAN,
         CreateTask(i, ty, reuse, preserve)
  PROVE  Promise!Submit(i)
<1>1. PICK gone \in SUBSET TerminalIds(tasks) : AfterCleanup = Without(tasks, gone)
  BY CleanupDropsTerminal
<1>2. gone \in SUBSET TaskIds
  BY DEF TerminalIds, IInv
<1>3. \A d \in gone : outcomeBar[d] \in {Promise!Cancel} \cup Promise!Outcomes
  <2> SUFFICES ASSUME NEW d \in gone
               PROVE  outcomeBar[d] \in {Promise!Cancel} \cup Promise!Outcomes
    OBVIOUS
  <2>1. tasks[d] \in GoodTask /\ d \in DOMAIN tasks /\ tasks[d].status \in Terminal
    BY DEF TerminalIds, IInv
  <2>2. outcomeBar[d] = OutcomeOf(tasks[d])
    BY <1>2, <2>1 DEF outcomeBar
  <2>3. tasks[d] \in Task /\ Consistent(tasks[d])
    BY <2>1 DEF GoodTask
  <2>4. CASE tasks[d].status = "completed"
    BY <2>2, <2>3, <2>4, OutcomeByStatus DEF Consistent, Promise!Outcomes, Promise!Ok, Task
  <2>5. CASE tasks[d].status = "failed"
    BY <2>2, <2>3, <2>5, OutcomeByStatus DEF Consistent, Promise!Outcomes, Promise!Err, Task
  <2>6. CASE tasks[d].status = "cancelled"
    BY <2>2, <2>3, <2>6, OutcomeByStatus DEF Promise!Cancel
  <2> QED BY <2>1, <2>4, <2>5, <2>6 DEF Terminal
<1>4. tasks' = [j \in DOMAIN AfterCleanup \cup {i} |->
                  IF j # i THEN AfterCleanup[j]
                  ELSE IF reuse /\ i \in DOMAIN AfterCleanup
                       THEN Reused(AfterCleanup[i], ty, preserve)
                       ELSE NewTask(ty, clock)]
  BY DEF CreateTask
<1>5. OutcomeOf(tasks'[i]) = Promise!Open
  <2>1. tasks'[i].status = "pending"
    BY <1>4 DEF Reused, NewTask
  <2> QED BY <2>1 DEF OutcomeOf, Promise!Open
<1>6. \A j \in TaskIds \ {i} :
        outcomeBar'[j] = IF j \in gone THEN Promise!NoTask ELSE outcomeBar[j]
  BY <1>1, <1>2, <1>4 DEF outcomeBar, Without, Promise!NoTask
<1>7. outcomeBar'[i] = Promise!Open
  BY <1>4, <1>5 DEF outcomeBar
<1>8. outcomeBar' = [j \in TaskIds |-> IF j = i THEN Promise!Open
                                     ELSE IF j \in gone THEN Promise!NoTask
                                     ELSE outcomeBar[j]]
  BY <1>6, <1>7 DEF outcomeBar
<1> QED BY <1>2, <1>3, <1>8 DEF Promise!Submit

\* Every behaviour of the manager is a behaviour of the abstract outcome table.
THEOREM Refinement == Spec => ImplementsOutcome
<1>1. Init => Promise!OInit
  BY DEF Init, Promise!OInit, outcomeBar, Promise!NoTask
<1>2. IInv /\ [Next]_vars => [Promise!ONext]_outcomeBar
  <2> SUFFICES ASSUME IInv, [Next]_vars PROVE [Promise!ONext]_outcomeBar
    OBVIOUS
  <2>0. \A i \in DOMAIN tasks : tasks[i] \in Task /\ i \in TaskIds
                                 /\ outcomeBar[i] = OutcomeOf(tasks[i])
    BY DEF IInv, GoodTask, outcomeBar
  <2>1. CASE Tick
    BY <2>1 DEF Tick, outcomeBar
  <2>2. CASE ClearTasks
    <3>1. outcomeBar' = [i \in TaskIds |-> Promise!NoTask]
      BY <2>2 DEF ClearTasks, outcomeBar, Promise!NoTask
    <3> QED BY <3>1 DEF Promise!ONext, Promise!Clear
  <2>3. ASSUME NEW i \in TaskIds, NEW ty \in CallTypes, NEW reuse \in BOOLEAN,
               NEW preserve \in BOOLEAN, CreateTask(i, ty, reuse, preserve)
        PROVE  Promise!ONext
    BY <2>3, CreateSubmits DEF Promise!ONext
  <2>4. ASSUME NEW i \in TaskIds, StartTask(i) PROVE [Promise!ONext]_outcomeBar
    <3>1. /\ i \in DOMAIN tasks
          /\ Startable(tasks[i].status)
          /\ outcomeBar' = [outcomeBar EXCEPT ![i] = OutcomeOf(Started(tasks[i]))]
      BY <2>4, OutcomeOfPut DEF StartTask
    <3>2. OutcomeOf(Started(tasks[i])) = <<"open">>
      BY <2>0, <3>1 DEF Started, Task, OutcomeOf
    <3>3. CASE tasks[i].status = "cancelled"
      BY <2>0, <3>1, <3>2, <3>3, OutcomeByStatus
         DEF Promise!ONext, Promise!Resume, Promise!Cancel, Promise!Open
    <3>4. CASE tasks[i].status # "cancelled"
      <4>1. outcomeBar[i] = <<"open">>
        BY <2>0, <3>1, <3>4, OutcomeByStatus DEF Startable, Terminal, Task, Status
      <4> QED BY <3>1, <3>2, <4>1 DEF outcomeBar
    <3> QED BY <3>3, <3>4
  <2>5. ASSUME NEW i \in TaskIds, NEW r \in Results, CompleteTask(i, r)
        PROVE  Promise!ONext
    <3>1. /\ i \in DOMAIN tasks
          /\ Finishable(tasks[i].status)
          /\ outcomeBar' = [outcomeBar EXCEPT ![i] = OutcomeOf(Completed(tasks[i], r))]
      BY <2>5, OutcomeOfPut DEF CompleteTask
    <3>2. OutcomeOf(Completed(tasks[i], r)) = Promise!Ok(r)
      BY <2>0, <3>1 DEF Completed, Task, OutcomeOf, Promise!Ok
    <3>3. Promise!Settle(i)
      BY <2>0, <3>1, <3>2, FinishableOpen
         DEF Promise!Settle, Promise!Outcomes, Promise!Open, Promise!Cancel
    <3> QED BY <3>3 DEF Promise!ONext
  <2>6. ASSUME NEW i \in TaskIds, NEW e \in Errors, FailTask(i, e)
        PROVE  Promise!ONext
    <3>1. /\ i \in DOMAIN tasks
          /\ Finishable(tasks[i].status)
          /\ outcomeBar' = [outcomeBar EXCEPT ![i] = OutcomeOf(Failed(tasks[i], e))]
      BY <2>6, OutcomeOfPut DEF FailTask
    <3>2. OutcomeOf(Failed(tasks[i], e)) = Promise!Err(e)
      BY <2>0, <3>1 DEF Failed, Task, OutcomeOf, Promise!Err
    <3>3. Promise!Settle(i)
      BY <2>0, <3>1, <3>2, FinishableOpen
         DEF Promise!Settle, Promise!Outcomes, Promise!Open, Promise!Cancel
    <3> QED BY <3>3 DEF Promise!ONext
  <2>7. ASSUME NEW i \in TaskIds, CancelTask(i) PROVE Promise!ONext
    <3>1. /\ i \in DOMAIN tasks
          /\ Cancellable(tasks[i].status)
          /\ outcomeBar' = [outcomeBar EXCEPT ![i] = OutcomeOf(Cancelled(tasks[i]))]
      BY <2>7, OutcomeOfPut DEF CancelTask
    <3>2. OutcomeOf(Cancelled(tasks[i])) = Promise!Cancel
      BY <2>0, <3>1 DEF Cancelled, Task, OutcomeOf, Promise!Cancel
    <3>3. outcomeBar[i] = Promise!Open
      BY <2>0, <3>1, OutcomeByStatus DEF Cancellable, Promise!Open
    <3> QED BY <3>1, <3>2, <3>3 DEF Promise!ONext, Promise!CancelTask
  <2>8. ASSUME NEW i \in TaskIds, NEW n \in Nodes, DelegateTask(i, n)
        PROVE  UNCHANGED outcomeBar
    <3>1. /\ i \in DOMAIN tasks
          /\ Delegable(tasks[i].status)
          /\ outcomeBar' = [outcomeBar EXCEPT ![i] = OutcomeOf(Delegated(tasks[i], n))]
      BY <2>8, OutcomeOfPut DEF DelegateTask
    <3>2. OutcomeOf(Delegated(tasks[i], n)) = <<"open">>
      BY <2>0, <3>1 DEF Delegated, Task, OutcomeOf
    <3>3. outcomeBar[i] = <<"open">>
      BY <2>0, <3>1, OutcomeByStatus DEF Delegable
    <3> QED BY <3>1, <3>2, <3>3 DEF outcomeBar
  <2>9. ASSUME NEW i \in TaskIds, NEW p \in CallPhases, UpdatePhase(i, p)
        PROVE  UNCHANGED outcomeBar
    <3>1. /\ i \in DOMAIN tasks
          /\ outcomeBar' = [outcomeBar EXCEPT ![i] = OutcomeOf(WithPhase(tasks[i], p))]
      BY <2>9, OutcomeOfPut DEF UpdatePhase
    <3>2. OutcomeOf(WithPhase(tasks[i], p)) = OutcomeOf(tasks[i])
      BY <2>0, <3>1 DEF WithPhase, Task, OutcomeOf
    <3> QED BY <2>0, <3>1, <3>2 DEF outcomeBar
  <2>10. ASSUME NEW i \in TaskIds, AddStep(i) PROVE UNCHANGED outcomeBar
    <3>1. /\ i \in DOMAIN tasks
          /\ outcomeBar' = [outcomeBar EXCEPT ![i] = OutcomeOf(WithStep(tasks[i]))]
      BY <2>10, OutcomeOfPut DEF AddStep
    <3>2. OutcomeOf(WithStep(tasks[i])) = OutcomeOf(tasks[i])
      BY <2>0, <3>1 DEF WithStep, Task, OutcomeOf
    <3> QED BY <2>0, <3>1, <3>2 DEF outcomeBar
  <2>11. CASE UNCHANGED vars
    BY <2>11 DEF vars, outcomeBar
  <2> QED
    BY <2>1, <2>2, <2>3, <2>4, <2>5, <2>6, <2>7, <2>8, <2>9, <2>10, <2>11 DEF Next
<1> QED BY <1>1, <1>2, Inductive, PTL DEF Spec, ImplementsOutcome, Promise!OSpec

-----------------------------------------------------------------------------
(* The order in which the clean-up drops records.                            *)

FiniteTable == IsFiniteSet(DOMAIN tasks)

\* The table stays finite: creating a task adds one identifier.
THEOREM TableFinite == Spec => []FiniteTable
<1>1. Init => FiniteTable
  BY FS_EmptySet DEF Init, FiniteTable
<1>2. IInv /\ FiniteTable /\ [Next]_vars => FiniteTable'
  <2> SUFFICES ASSUME IInv, FiniteTable, [Next]_vars PROVE FiniteTable'
    OBVIOUS
  <2>1. ASSUME NEW i \in TaskIds, NEW ty \in CallTypes, NEW reuse \in BOOLEAN,
               NEW preserve \in BOOLEAN, CreateTask(i, ty, reuse, preserve)
        PROVE  FiniteTable'
    <3>1. PICK gone \in SUBSET TerminalIds(tasks) : AfterCleanup = Without(tasks, gone)
      BY CleanupDropsTerminal
    <3>2. DOMAIN tasks' = (DOMAIN tasks \ gone) \cup {i}
      BY <2>1, <3>1 DEF CreateTask, Without
    <3>3. IsFiniteSet(DOMAIN tasks \ gone)
      BY FS_Subset DEF FiniteTable
    <3>4. IsFiniteSet(DOMAIN tasks')
      BY <3>2, <3>3, FS_AddElement
    <3> QED BY <3>4 DEF FiniteTable
  <2>2. CASE ClearTasks
    BY <2>2, FS_EmptySet DEF ClearTasks, FiniteTable
  <2>3. ASSUME DOMAIN tasks' = DOMAIN tasks PROVE FiniteTable'
    BY <2>3 DEF FiniteTable
  <2>4. ASSUME NEW i \in TaskIds,
               \/ StartTask(i)
               \/ \E r \in Results : CompleteTask(i, r)
               \/ \E e \in Errors : FailTask(i, e)
               \/ CancelTask(i)
               \/ \E n \in Nodes : DelegateTask(i, n)
               \/ \E p \in CallPhases : UpdatePhase(i, p)
               \/ AddStep(i)
        PROVE  DOMAIN tasks' = DOMAIN tasks
    BY <2>4 DEF StartTask, CompleteTask, FailTask, CancelTask, DelegateTask, UpdatePhase,
                AddStep, Put
  <2> QED BY <2>1, <2>2, <2>3, <2>4 DEF Next, Tick, vars
<1> QED BY <1>1, <1>2, Inductive, PTL DEF Spec

\* Of two finished tasks, the one with more finished tasks before it is younger.
LEMMA MoreOlderIsYounger ==
  ASSUME NEW ts, IsFiniteSet(DOMAIN ts), \A k \in DOMAIN ts : ts[k].createdAt \in Nat,
         NEW i \in DOMAIN ts, NEW j \in DOMAIN ts,
         Cardinality(Older(ts, i)) < Cardinality(Older(ts, j))
  PROVE  ts[i].createdAt < ts[j].createdAt
<1> SUFFICES ASSUME ts[j].createdAt <= ts[i].createdAt PROVE FALSE
  OBVIOUS
<1>1. Older(ts, j) \subseteq Older(ts, i)
  BY DEF Older, TerminalIds
<1>2. Older(ts, i) \subseteq DOMAIN ts
  BY DEF Older, TerminalIds
<1>3. IsFiniteSet(Older(ts, i))
  BY <1>2, FS_Subset
<1>4. /\ Cardinality(Older(ts, j)) <= Cardinality(Older(ts, i))
      /\ Cardinality(Older(ts, i)) \in Nat
      /\ Cardinality(Older(ts, j)) \in Nat
  BY <1>1, <1>3, FS_Subset, FS_CardinalityType
<1> QED BY <1>4

\* The clean-up drops finished tasks, and none while an older one stays.
LEMMA CleanupOrder ==
  ASSUME IInv, FiniteTable, NEW i \in DOMAIN tasks, i \notin DOMAIN AfterCleanup
  PROVE  /\ tasks[i].status \in Terminal
         /\ \A j \in DOMAIN AfterCleanup :
              tasks[j].status \in Terminal => tasks[i].createdAt < tasks[j].createdAt
<1>1. /\ CleanupDue
      /\ AfterCleanup = Without(AfterExpiry, Evicted(AfterExpiry))
  BY DEF AfterCleanup
<1>2. DOMAIN AfterExpiry = DOMAIN tasks \ Expired(tasks)
  BY DEF AfterExpiry, Without
<1>3. \A k \in DOMAIN AfterExpiry : AfterExpiry[k] = tasks[k]
  BY DEF AfterExpiry, Without
<1>4. DOMAIN AfterCleanup = DOMAIN AfterExpiry \ Evicted(AfterExpiry)
  BY <1>1 DEF Without
<1>5. \A k \in DOMAIN tasks : tasks[k].createdAt \in Nat
  BY DEF IInv, GoodTask, Task
<1>6. clock \in Nat /\ TaskExpiry \in Nat /\ MaxTasksInMemory \in Nat
  BY ManagerAssumption DEF ManagerAssumption, IInv
<1>7. CASE i \in Expired(tasks)
  BY <1>2, <1>4, <1>5, <1>6, <1>7 DEF Expired
<1>8. CASE i \in Evicted(AfterExpiry)
  <2>1. tasks[i].status \in Terminal /\ i \in DOMAIN AfterExpiry
    BY <1>3, <1>8 DEF Evicted, TerminalIds
  <2>2. ASSUME NEW j \in DOMAIN AfterCleanup, tasks[j].status \in Terminal
        PROVE  tasks[i].createdAt < tasks[j].createdAt
    <3>1. j \in DOMAIN AfterExpiry /\ j \notin Evicted(AfterExpiry)
      BY <1>4
    <3>2. j \in TerminalIds(AfterExpiry)
      BY <1>3, <2>2, <3>1 DEF TerminalIds
    <3>3. IsFiniteSet(DOMAIN AfterExpiry)
      BY <1>2, FS_Subset DEF FiniteTable
    <3>4. /\ Older(AfterExpiry, i) \subseteq DOMAIN AfterExpiry
          /\ Older(AfterExpiry, j) \subseteq DOMAIN AfterExpiry
      BY DEF Older, TerminalIds
    <3>5. /\ Cardinality(Older(AfterExpiry, i)) \in Nat
          /\ Cardinality(Older(AfterExpiry, j)) \in Nat
          /\ Cardinality(DOMAIN AfterExpiry) \in Nat
      BY <3>3, <3>4, FS_Subset, FS_CardinalityType
    <3>6. Cardinality(Older(AfterExpiry, i)) < Cardinality(Older(AfterExpiry, j))
      BY <1>6, <1>8, <3>1, <3>2, <3>5 DEF Evicted
    <3>7. \A k \in DOMAIN AfterExpiry : AfterExpiry[k].createdAt \in Nat
      BY <1>2, <1>3, <1>5
    <3>8. AfterExpiry[i].createdAt < AfterExpiry[j].createdAt
      BY <2>1, <3>1, <3>3, <3>6, <3>7, MoreOlderIsYounger
    <3> QED BY <1>3, <2>1, <3>1, <3>8
  <2> QED BY <2>1, <2>2
<1> QED BY <1>2, <1>4, <1>7, <1>8

\* clear_tasks apart, only finished tasks leave the table, oldest first.
THEOREM DropsOldestFirst == Spec => CleanupOldestFirst
<1>1. ASSUME IInv, FiniteTable, [Next]_vars, NEW i \in DOMAIN tasks, i \notin DOMAIN tasks',
             DOMAIN tasks' # {}
      PROVE  /\ tasks[i].status \in Terminal
             /\ \A j \in DOMAIN tasks \cap DOMAIN tasks' :
                  tasks[j].status \in Terminal /\ tasks'[j] = tasks[j] =>
                    tasks[i].createdAt < tasks[j].createdAt
  <2>1. PICK k \in TaskIds, ty \in CallTypes, reuse \in BOOLEAN, preserve \in BOOLEAN :
          CreateTask(k, ty, reuse, preserve)
    BY <1>1 DEF Next, Tick, ClearTasks, StartTask, CompleteTask, FailTask, CancelTask,
                DelegateTask, UpdatePhase, AddStep, Put, vars
  <2>2. DOMAIN tasks' = DOMAIN AfterCleanup \cup {k}
    BY <2>1 DEF CreateTask
  <2>3. i \notin DOMAIN AfterCleanup
    BY <1>1, <2>2
  <2>4. ASSUME NEW j \in DOMAIN tasks \cap DOMAIN tasks',
               tasks[j].status \in Terminal, tasks'[j] = tasks[j]
        PROVE  j \in DOMAIN AfterCleanup
    <3> SUFFICES ASSUME j \notin DOMAIN AfterCleanup PROVE FALSE
      OBVIOUS
    <3>1. tasks'[j] = NewTask(ty, clock)
      BY <2>1, <2>2, <2>4 DEF CreateTask
    <3>2. tasks'[j].status = "pending"
      BY <3>1 DEF NewTask
    <3> QED BY <2>4, <3>2 DEF Terminal
  <2> QED BY <1>1, <2>3, <2>4, CleanupOrder
<1>2. IInv /\ FiniteTable /\ [Next]_vars =>
        [\A i \in DOMAIN tasks \ DOMAIN tasks' :
           \/ DOMAIN tasks' = {}
           \/ /\ tasks[i].status \in Terminal
              /\ \A j \in DOMAIN tasks \cap DOMAIN tasks' :
                   tasks[j].status \in Terminal /\ tasks'[j] = tasks[j] =>
                     tasks[i].createdAt < tasks[j].createdAt]_vars
  BY <1>1
<1> QED BY <1>2, Inductive, TableFinite, PTL DEF Spec, CleanupOldestFirst

\* Together: what the task manager remembers goes only as it should.
THEOREM HistoryKept == Spec => HistoryIsKept
BY StepsKept, DropsOldestFirst DEF HistoryIsKept
=============================================================================
