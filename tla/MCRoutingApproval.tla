--------------------------- MODULE MCRoutingApproval ---------------------------
(* One chat task, which runs in a thread and may be submitted again to the   *)
(* execute endpoint, and one task that runs on the event loop.               *)
EXTENDS RoutingApproval, TLC

CONSTANTS chat, job

MCTasks == {chat, job}
MCOnLoop == {job}
MCBudgets == {1, 2}
MCCallerOptions == {"approve"}
MCMaxRuns == chat :> 2 @@ job :> 1
=============================================================================
