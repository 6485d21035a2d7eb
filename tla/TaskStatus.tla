------------------------------ MODULE TaskStatus ------------------------------
(***************************************************************************)
(* The status of a task in src/teaming24/task/manager.py and the guards    *)
(* under which TaskManager changes it.  They are shared because every      *)
(* component that drives a task (execute endpoint, cancel endpoint,        *)
(* executor) relies on exactly these guards.                               *)
(***************************************************************************)

Status == {"pending", "running", "delegated", "completed", "failed", "cancelled"}

\* The three states the code calls terminal (manager.py:621, :504).
Terminal == {"completed", "failed", "cancelled"}

\* The two states complete_task and fail_task refuse to leave.
Settled == {"completed", "failed"}

-----------------------------------------------------------------------------
(* Guards: the early returns of start_task, complete_task / fail_task,       *)
(* cancel_task and delegate_task.                                            *)

Startable(s) == s \notin {"running", "completed", "failed"}

Finishable(s) == s \notin Settled

Cancellable(s) == s \notin Terminal

Delegable(s) == s \notin Terminal
=============================================================================
