------------------------------- MODULE CrewTools -------------------------------
(***************************************************************************)
(* CrewAI crews that share their manager agent (CrewWrapper in                *)
(* src/teaming24/agent/crew_wrapper.py).  A hierarchical crew takes the tools    *)
(* of its manager away while it runs.  As several wrappers may run with one       *)
(* manager at once, in threads, a registry of the module counts them; the first   *)
(* takes the tools, the last gives them back.                                   *)
(*                                                                         *)
(* A wrapper is used for one execution: of a subtask of a task that somebody      *)
(* else settles, or of a task it settles itself.                                *)
(***************************************************************************)
EXTENDS Integers, FiniteSets, TaskStatus

CONSTANT Wrappers

CrewToolsAssumption == IsFiniteSet(Wrappers)

VARIABLES
  kind,      \* per wrapper: "hierarchical" or "sequential"
  subtask,   \* per wrapper: is it a subtask?
  at,        \* per wrapper: "idle", "build", "clear", "create", "kickoff", "fail", "restore",
             \* "complete", "over"
  succeeds,  \* per wrapper: did the crew succeed?
  holds,     \* per wrapper: _managed_agent_id is set
  manager,   \* the tools the manager has: "own" or "none"
  registry,  \* its entry in _agent_tool_registry: wrappers counted, and tools saved
  status     \* per wrapper: status of its task

crewToolsVars == <<kind, subtask, at, succeeds, holds, manager, registry, status>>

NoEntry == [count |-> 0, saved |-> "nothing"]

ToolsTypeOK ==
  /\ kind \in [Wrappers -> {"hierarchical", "sequential"}]
  /\ subtask \in [Wrappers -> BOOLEAN]
  /\ at \in [Wrappers -> {"idle", "build", "clear", "create", "kickoff", "fail",
                          "restore", "complete", "over"}]
  /\ succeeds \in [Wrappers -> BOOLEAN] /\ holds \in [Wrappers -> BOOLEAN]
  /\ manager \in {"own", "none"}
  /\ registry \in [count : 0 .. Cardinality(Wrappers), saved : {"nothing", "own", "none"}]
  /\ status \in [Wrappers -> Status]

ToolsInit ==
  /\ kind \in [Wrappers -> {"hierarchical", "sequential"}]
  /\ subtask \in [Wrappers -> BOOLEAN]
  /\ at = [w \in Wrappers |-> "idle"]
  /\ succeeds = [w \in Wrappers |-> FALSE] /\ holds = [w \in Wrappers |-> FALSE]
  /\ manager = "own" /\ registry = NoEntry
  /\ status \in [Wrappers -> Status]

Goes(w, place) == at' = [at EXCEPT ![w] = place]

\* A task that is under way or settled is not executed; another one is started.
Begin(w) ==
  /\ at[w] = "idle"
  /\ IF subtask[w]
     THEN Goes(w, "build") /\ UNCHANGED status
     ELSE IF Startable(status[w])
     THEN Goes(w, "build") /\ status' = [status EXCEPT ![w] = "running"]
     ELSE Goes(w, "over") /\ UNCHANGED status
  /\ UNCHANGED <<kind, subtask, succeeds, holds, manager, registry>>

\* _create_crew_tasks, which may raise.
CreateTasks(w, ok) ==
  /\ at[w] = "build"
  /\ Goes(w, IF ~ok THEN "fail" ELSE IF kind[w] = "hierarchical" THEN "clear" ELSE "create")
  /\ UNCHANGED <<kind, subtask, succeeds, holds, manager, registry, status>>

\* Mutated form: each wrapper saves what it finds.
ClearUncounted(w) ==
  /\ at[w] = "clear"
  /\ registry' = [count |-> registry.count + 1, saved |-> manager]
  /\ manager' = "none"
  /\ holds' = [holds EXCEPT ![w] = TRUE]
  /\ Goes(w, "create")
  /\ UNCHANGED <<kind, subtask, succeeds, status>>

\* Under the lock: save the tools unless they are saved, and count.
ClearTools(w) ==
  /\ at[w] = "clear"
  /\ IF registry = NoEntry
     THEN registry' = [count |-> 1, saved |-> manager] /\ manager' = "none"
     ELSE registry' = [registry EXCEPT !.count = @ + 1] /\ UNCHANGED manager
  /\ holds' = [holds EXCEPT ![w] = TRUE]
  /\ Goes(w, "create")
  /\ UNCHANGED <<kind, subtask, succeeds, status>>

\* The constructor of the crew, which is tried again without its options.
CreateCrew(w, ok) ==
  /\ at[w] = "create"
  /\ Goes(w, IF ok THEN "kickoff" ELSE "fail")
  /\ UNCHANGED <<kind, subtask, succeeds, holds, manager, registry, status>>

Kickoff(w, ok) ==
  /\ at[w] = "kickoff"
  /\ succeeds' = [succeeds EXCEPT ![w] = ok]
  /\ Goes(w, IF ok THEN "restore" ELSE "fail")
  /\ UNCHANGED <<kind, subtask, holds, manager, registry, status>>

\* Mutated form: a wrapper that failed before it took the tools counts down as well.
RestoreAnyway(w) ==
  /\ at[w] = "restore"
  /\ IF registry = NoEntry
     THEN UNCHANGED <<manager, registry>>
     ELSE IF registry.count = 1
     THEN manager' = registry.saved /\ registry' = NoEntry
     ELSE registry' = [registry EXCEPT !.count = @ - 1] /\ UNCHANGED manager
  /\ holds' = [holds EXCEPT ![w] = FALSE]
  /\ Goes(w, IF succeeds[w] THEN "complete" ELSE "over")
  /\ UNCHANGED <<kind, subtask, succeeds, status>>

\* _restore_manager_tools, after a success and after an exception.
RestoreTools(w) ==
  /\ at[w] = "restore"
  /\ IF ~holds[w] \/ registry = NoEntry
     THEN UNCHANGED <<manager, registry>>
     ELSE IF registry.count = 1
     THEN manager' = registry.saved /\ registry' = NoEntry
     ELSE registry' = [registry EXCEPT !.count = @ - 1] /\ UNCHANGED manager
  /\ holds' = [holds EXCEPT ![w] = FALSE]
  /\ Goes(w, IF succeeds[w] THEN "complete" ELSE "over")
  /\ UNCHANGED <<kind, subtask, succeeds, status>>

\* The task of a crew that raised fails before the tools are restored, that of one that
\* succeeded is completed after it.
FailTask(w) ==
  /\ at[w] = "fail"
  /\ status' = IF subtask[w] \/ ~Finishable(status[w]) THEN status
               ELSE [status EXCEPT ![w] = "failed"]
  /\ Goes(w, "restore")
  /\ UNCHANGED <<kind, subtask, succeeds, holds, manager, registry>>

CompleteTask(w) ==
  /\ at[w] = "complete"
  /\ status' = IF subtask[w] \/ ~Finishable(status[w]) THEN status
               ELSE [status EXCEPT ![w] = "completed"]
  /\ Goes(w, "over")
  /\ UNCHANGED <<kind, subtask, succeeds, holds, manager, registry>>

\* The user cancels the task.
CancelTask(w) ==
  /\ Cancellable(status[w]) /\ at[w] \notin {"idle", "over"}
  /\ status' = [status EXCEPT ![w] = "cancelled"]
  /\ UNCHANGED <<kind, subtask, at, succeeds, holds, manager, registry>>

ToolsNext ==
  \E w \in Wrappers :
    \/ Begin(w)
    \/ \E ok \in BOOLEAN : CreateTasks(w, ok) \/ CreateCrew(w, ok) \/ Kickoff(w, ok)
    \/ ClearTools(w)
    \/ RestoreTools(w)
    \/ FailTask(w)
    \/ CompleteTask(w)
    \/ CancelTask(w)

ToolsSpec == ToolsInit /\ [][ToolsNext]_crewToolsVars

-----------------------------------------------------------------------------

\* However crews overlap and fail, a manager has no tools while one of its crews runs,
\* and has its own again when none does: a wrapper that took the empty list of another
\* for the manager's tools would leave it without them for good.
ManagerKeepsTools ==
  IF \E w \in Wrappers : holds[w] THEN manager = "none" /\ registry.saved = "own"
                                  ELSE manager = "own" /\ registry = NoEntry
=============================================================================
