------------------------------ MODULE TaskManager ------------------------------
(***************************************************************************)
(* TaskManager of src/teaming24/task/manager.py: the in-memory task table  *)
(* of one node.  Every operation runs under one lock, so it is one step;   *)
(* any caller (request handler, executor thread, cancel endpoint) may make *)
(* any call at any time, and a call the code refuses is a stuttering step. *)
(* create_task runs _maybe_cleanup first, so the clean-up belongs to the   *)
(* same action.  Two tasks never share a created_at, which is what the     *)
(* eviction sorts by, and the clock has advanced since the last creation.  *)
(***************************************************************************)
EXTENDS TaskRecord, FiniteSets

CONSTANTS TaskIds,
          CallTypes,        \* the task types callers ask for
          CallPhases,       \* the phases callers move a task to
          MaxTasksInMemory, \* max_tasks_in_memory
          TaskExpiry,       \* task_expiry_seconds
          CleanupInterval,  \* cleanup_interval_seconds
          MaxClock,         \* bound: time stops here
          MaxSteps          \* bound: none is recorded once a task has as many steps

ASSUME ManagerAssumption ==
  /\ CallTypes \subseteq TaskTypes
  /\ CallPhases \subseteq Phases
  /\ MaxTasksInMemory \in Nat
  /\ TaskExpiry \in Nat
  /\ CleanupInterval \in Nat
  /\ MaxClock \in Nat
  /\ MaxSteps \in Nat

VARIABLES tasks,        \* self._tasks: identifier -> Task
          clock,        \* time.time()
          lastCleanup   \* self._last_cleanup

vars == <<tasks, clock, lastCleanup>>

Init ==
  /\ tasks = [i \in {} |-> NewTask("local", 0)]
  /\ clock = 0
  /\ lastCleanup = 0

Put(i, t) == [tasks EXCEPT ![i] = t]

Tick == /\ clock < MaxClock
        /\ clock' = clock + 1
        /\ UNCHANGED <<tasks, lastCleanup>>

-----------------------------------------------------------------------------
(* _maybe_cleanup                                                            *)

CleanupDue == clock - lastCleanup >= CleanupInterval

Expired(ts) == {i \in DOMAIN ts : /\ ts[i].status \in Terminal
                                  /\ clock - ts[i].createdAt > TaskExpiry}

Without(ts, gone) == [i \in DOMAIN ts \ gone |-> ts[i]]

TerminalIds(ts) == {i \in DOMAIN ts : ts[i].status \in Terminal}

Older(ts, i) == {j \in TerminalIds(ts) : ts[j].createdAt < ts[i].createdAt}

\* Mutated form of Evicted: the sort keeps the oldest records.
EvictedNewestFirst(ts) ==
  {i \in TerminalIds(ts) :
     Cardinality({j \in TerminalIds(ts) : ts[j].createdAt > ts[i].createdAt})
       + MaxTasksInMemory < Cardinality(DOMAIN ts)}

\* completed[:to_remove] of the terminal tasks sorted by created_at, where
\* to_remove is the number of tasks above max_tasks_in_memory.
Evicted(ts) ==
  {i \in TerminalIds(ts) :
     Cardinality(Older(ts, i)) + MaxTasksInMemory < Cardinality(DOMAIN ts)}

AfterExpiry == Without(tasks, Expired(tasks))

AfterCleanup ==
  IF CleanupDue THEN Without(AfterExpiry, Evicted(AfterExpiry)) ELSE tasks

-----------------------------------------------------------------------------
(* create_task                                                               *)

CreateTask(i, ty, reuse, preserve) ==
  /\ \A j \in DOMAIN tasks : tasks[j].createdAt # clock
  /\ UNCHANGED clock
  /\ lastCleanup' = IF CleanupDue THEN clock ELSE lastCleanup
  /\ tasks' = [j \in DOMAIN AfterCleanup \cup {i} |->
                 IF j # i THEN AfterCleanup[j]
                 ELSE IF reuse /\ i \in DOMAIN AfterCleanup
                      THEN Reused(AfterCleanup[i], ty, preserve)
                      ELSE NewTask(ty, clock)]

\* Mutated forms: the early return forgotten.
CompleteTaskUnguarded(i, r) ==
  /\ i \in DOMAIN tasks
  /\ tasks' = Put(i, Completed(tasks[i], r))
  /\ UNCHANGED <<clock, lastCleanup>>

FailTaskUnguarded(i, e) ==
  /\ i \in DOMAIN tasks
  /\ tasks' = Put(i, Failed(tasks[i], e))
  /\ UNCHANGED <<clock, lastCleanup>>

StartTask(i) ==
  /\ i \in DOMAIN tasks
  /\ Startable(tasks[i].status)
  /\ tasks' = Put(i, Started(tasks[i]))
  /\ UNCHANGED <<clock, lastCleanup>>

CompleteTask(i, r) ==
  /\ i \in DOMAIN tasks
  /\ Finishable(tasks[i].status)
  /\ tasks' = Put(i, Completed(tasks[i], r))
  /\ UNCHANGED <<clock, lastCleanup>>

FailTask(i, e) ==
  /\ i \in DOMAIN tasks
  /\ Finishable(tasks[i].status)
  /\ tasks' = Put(i, Failed(tasks[i], e))
  /\ UNCHANGED <<clock, lastCleanup>>

CancelTask(i) ==
  /\ i \in DOMAIN tasks
  /\ Cancellable(tasks[i].status)
  /\ tasks' = Put(i, Cancelled(tasks[i]))
  /\ UNCHANGED <<clock, lastCleanup>>

DelegateTask(i, n) ==
  /\ i \in DOMAIN tasks
  /\ Delegable(tasks[i].status)
  /\ tasks' = Put(i, Delegated(tasks[i], n))
  /\ UNCHANGED <<clock, lastCleanup>>

\* update_phase, and update_progress called with a phase: no status guard.
UpdatePhase(i, p) ==
  /\ i \in DOMAIN tasks
  /\ tasks' = Put(i, WithPhase(tasks[i], p))
  /\ UNCHANGED <<clock, lastCleanup>>

AddStep(i) ==
  /\ i \in DOMAIN tasks
  /\ \A j \in DOMAIN tasks : tasks[j].steps < MaxSteps
  /\ tasks' = Put(i, WithStep(tasks[i]))
  /\ UNCHANGED <<clock, lastCleanup>>

ClearTasks ==
  /\ tasks' = [i \in {} |-> NewTask("local", 0)]
  /\ UNCHANGED <<clock, lastCleanup>>

Next ==
  \/ Tick
  \/ ClearTasks
  \/ \E i \in TaskIds :
       \/ \E ty \in CallTypes, reuse, preserve \in BOOLEAN : CreateTask(i, ty, reuse, preserve)
       \/ StartTask(i)
       \/ \E r \in Results : CompleteTask(i, r)
       \/ \E e \in Errors : FailTask(i, e)
       \/ CancelTask(i)
       \/ \E n \in Nodes : DelegateTask(i, n)
       \/ \E p \in CallPhases : UpdatePhase(i, p)
       \/ AddStep(i)

Spec == Init /\ [][Next]_vars

-----------------------------------------------------------------------------
(* Properties                                                                *)

\* The shape of the table: a partial map from identifiers to tasks, created
\* no later than now (manager.py, Task and TaskManager.__init__).
TypeOK ==
  /\ DOMAIN tasks \subseteq TaskIds
  /\ tasks \in [DOMAIN tasks -> Task]
  /\ clock \in Nat
  /\ lastCleanup \in Nat

\* A result is stored exactly in the completed tasks and an error exactly in
\* the failed ones, whatever the order in which executors, the cancel endpoint
\* and resubmissions reach complete_task, fail_task, cancel_task and
\* create_task: no task carries both, and no resubmitted task still shows the
\* outcome or the times of its previous run.  A task that ran has a start, a
\* settled one an end, and a delegated one says where it went.
RecordMatchesStatus ==
  \A i \in DOMAIN tasks :
    /\ tasks[i].result # None <=> tasks[i].status = "completed"
    /\ tasks[i].error # None <=> tasks[i].status = "failed"
    /\ tasks[i].status \in Terminal => tasks[i].ended
    /\ tasks[i].status = "pending" => ~tasks[i].started /\ ~tasks[i].ended
    /\ tasks[i].status = "running" => tasks[i].started
    /\ tasks[i].status = "delegated" => tasks[i].delegatedTo # None
    /\ tasks[i].delegatedTo # None => tasks[i].type = "remote"

\* complete_task and fail_task "prevent double-completion": once completed or
\* failed, a task keeps its outcome until create_task resubmits its identifier.
OutcomeSticky ==
  [][\A i \in DOMAIN tasks \cap DOMAIN tasks' :
        tasks[i].status \in Settled =>
          \/ tasks'[i].status = "pending"
          \/ /\ tasks'[i].status = tasks[i].status
             /\ tasks'[i].result = tasks[i].result
             /\ tasks'[i].error = tasks[i].error]_vars

\* Dropping records: apart from clear_tasks, only finished tasks leave the
\* table, and never a younger finished task while an older one stays.
CleanupOldestFirst ==
  [][\A i \in DOMAIN tasks \ DOMAIN tasks' :
        \/ DOMAIN tasks' = {}
        \/ /\ tasks[i].status \in Terminal
           /\ \A j \in DOMAIN tasks \cap DOMAIN tasks' :
                tasks[j].status \in Terminal /\ tasks'[j] = tasks[j] =>
                  tasks[i].createdAt < tasks[j].createdAt]_vars

\* The recorded steps of a task never shrink, except that they all go when the
\* identifier is created afresh or resubmitted without preserve_history: a
\* resubmission that finds its record and asks for the history keeps it.
StepsAreNotLost ==
  [][\A i \in DOMAIN tasks \cap DOMAIN tasks' :
        tasks'[i].steps < tasks[i].steps =>
          /\ tasks'[i].steps = 0
          /\ tasks'[i].status = "pending"
          /\ \A ty \in CallTypes :
               CreateTask(i, ty, TRUE, TRUE) => i \notin DOMAIN AfterCleanup]_vars

\* What is remembered is kept: records go oldest first and never while they are
\* open, and steps go only when a new run of the task is not to show them.
HistoryIsKept == CleanupOldestFirst /\ StepsAreNotLost

-----------------------------------------------------------------------------
(* The table implements the abstract promise of TaskOutcome.                 *)

OutcomeOf(t) ==
  CASE t.status = "completed" -> <<"ok", t.result>>
    [] t.status = "failed"    -> <<"error", t.error>>
    [] t.status = "cancelled" -> <<"cancelled">>
    [] OTHER                  -> <<"open">>

outcomeBar ==
  [i \in TaskIds |-> IF i \in DOMAIN tasks THEN OutcomeOf(tasks[i]) ELSE <<"absent">>]

Promise == INSTANCE TaskOutcome WITH outcome <- outcomeBar

\* Every behaviour of the task manager is, seen through the outcome of each
\* task, a behaviour of the abstract outcome table.
ImplementsOutcome == Promise!OSpec
=============================================================================
