------------------------------ MODULE TaskRecord ------------------------------
(***************************************************************************)
(* The Task entity of src/teaming24/task/manager.py and what each          *)
(* TaskManager operation does to one task.  Only the fields that a         *)
(* property tells apart are kept: status, type, phase, creation time, the  *)
(* two "is set" bits of started_at and completed_at, result, error,        *)
(* delegated_to and the number of recorded steps.  Labels, percentages,    *)
(* costs, metadata and rosters are left out.                               *)
(***************************************************************************)
EXTENDS TaskStatus, Naturals

CONSTANTS Nodes,    \* identifiers a task can be delegated to
          Results,  \* what an execution can return
          Errors,   \* error texts
          None      \* Python's None

ASSUME NoneAssumption == None \notin Nodes \cup Results \cup Errors

Phases == {"received", "routing", "dispatching", "executing", "aggregating", "completed"}

TaskTypes == {"local", "remote", "hybrid"}

Task ==
  [status      : Status,
   type        : TaskTypes,
   phase       : Phases,
   createdAt   : Nat,
   started     : BOOLEAN,        \* started_at is not None
   ended       : BOOLEAN,        \* completed_at is not None
   result      : Results \cup {None},
   error       : Errors \cup {None},
   delegatedTo : Nodes \cup {None},
   steps       : Nat]

-----------------------------------------------------------------------------
(* What the operations leave behind.                                         *)

NewTask(ty, now) ==
  [status |-> "pending", type |-> ty, phase |-> "received", createdAt |-> now,
   started |-> FALSE, ended |-> FALSE, result |-> None, error |-> None,
   delegatedTo |-> None, steps |-> 0]

\* (The mutated form of Reused: preserve_history read the wrong way round.)
ReusedForgetful(t, ty, preserve) ==
  [NewTask(ty, t.createdAt) EXCEPT !.steps = IF preserve THEN 0 ELSE t.steps]

\* _prepare_task_for_reuse: the identity and the creation time survive, the
\* recorded steps only when preserve_history is set.
Reused(t, ty, preserve) ==
  [NewTask(ty, t.createdAt) EXCEPT !.steps = IF preserve THEN t.steps ELSE 0]

Started(t) == [t EXCEPT !.status = "running", !.started = TRUE, !.phase = "received"]

Completed(t, r) ==
  [t EXCEPT !.status = "completed", !.ended = TRUE, !.result = r, !.phase = "completed"]

\* Mutated form of Failed: the error text stored as the result.
FailedIntoResult(t, e) ==
  [t EXCEPT !.status = "failed", !.ended = TRUE, !.result = e, !.phase = "completed"]

Failed(t, e) ==
  [t EXCEPT !.status = "failed", !.ended = TRUE, !.error = e, !.phase = "completed"]

Cancelled(t) ==
  [t EXCEPT !.status = "cancelled", !.ended = TRUE, !.phase = "completed"]

Delegated(t, n) ==
  [t EXCEPT !.status = "delegated", !.type = "remote", !.delegatedTo = n]

WithPhase(t, p) == [t EXCEPT !.phase = p]

WithStep(t) == [t EXCEPT !.steps = @ + 1]
=============================================================================
