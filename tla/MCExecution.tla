----------------------------- MODULE MCExecution -----------------------------
(***************************************************************************)
(* What an execution on a node rests on: the pool of sandboxes for commands   *)
(* and code (SandboxPool), the OpenHands runtimes with the registry that      *)
(* shows them (SandboxRuntimes), the run of one agent (AgentLoop), the        *)
(* coordinator with its workers (CoordinatorRun), and crews that share a       *)
(* manager (CrewTools).  They share no state, so a behaviour has one of them.   *)
(*                                                                         *)
(* Pool: three calls in the threads of one task, one of which runs code; each   *)
(* thread has its own event loop, and so has the end of the task.             *)
(***************************************************************************)
EXTENDS SandboxPool, TLC

CONSTANTS c1, c2, c3, k1

MCCalls == {c1, c2, c3}
MCTasks == {k1}
MCTaskOf == c1 :> k1 @@ c2 :> k1 @@ c3 :> k1
MCLoopOf == c1 :> "one" @@ c2 :> "two" @@ c3 :> "three" @@ k1 :> "main"
MCIsCode == {c3}

CONSTANTS a1, t1, t2, y1, y2, Agents, Tools, Syncs, MaxRuntimes, MaxCommands
MCAgents == {a1}
MCTools == {t1, t2}
MCSyncs == {y1, y2}

\* AgentLoop: two tools or two calls of one overrun the window.
CONSTANTS MaxIterations, Threshold, MaxToolCalls, ReplySizes, SummarySize
MCReplySizes == {1, 3}

\* CoordinatorRun: two workers; a plan for both, one with a name nobody bears, one for
\* one of them, and one for nobody.
CONSTANTS Workers, MaxLocalRounds, Assignments
MCWorkers == <<"w1", "w2">>
MCAssignments == {{"w1", "w2"}, {"w2", "nobody"}, {"w2"}, {"nobody"}}

CONSTANTS x1, x2, Wrappers
MCWrappers == {x1, x2}

VARIABLES part,
          pool, made, connected, closing, counter, logs, stopped, tool, entry, events, sync,
          messages, iteration, phase, left, outcome,
          calledBy, backend, ml, pc, team, assigned, results, answers, stagnated, report,
          status,
          kind, subtask, place, succeeds, holds, manager, registry, crewStatus

runtimesVars ==
  <<pool, made, connected, closing, counter, logs, stopped, tool, entry, events, sync>>
loopVars == <<messages, iteration, phase, left, outcome>>
runVars ==
  <<calledBy, backend, ml, pc, team, assigned, results, answers, stagnated, report, status>>
crewVars == <<kind, subtask, place, succeeds, holds, manager, registry, crewStatus>>

Runtimes == INSTANCE SandboxRuntimes
Loop == INSTANCE AgentLoop
Run == INSTANCE CoordinatorRun WITH entry <- calledBy, Answers <- Assignments
Crews == INSTANCE CrewTools WITH at <- place, status <- crewStatus

ASSUME ExecutionAssumption ==
  /\ Runtimes!RuntimesAssumption /\ Loop!AgentLoopAssumption
  /\ Run!CoordinatorRunAssumption /\ Crews!CrewToolsAssumption

\* The parts that are not chosen begin in one way only.
Chosen ==
  /\ part # "run" => calledBy = "remote" /\ backend = "native" /\ ml
  /\ part # "crews" =>
       /\ kind \in [Wrappers -> {"sequential"}] /\ subtask \in [Wrappers -> {TRUE}]
       /\ crewStatus \in [Wrappers -> {"pending"}]

ExecutionInit ==
  /\ part \in {"pool", "runtimes", "loop", "run", "crews"}
  /\ PoolInit /\ Runtimes!Init /\ Loop!LoopInit /\ Run!RunInit /\ Crews!ToolsInit
  /\ Chosen

Others(p) ==
  /\ p # "pool" => UNCHANGED spVars
  /\ p # "runtimes" => UNCHANGED runtimesVars
  /\ p # "loop" => UNCHANGED loopVars
  /\ p # "run" => UNCHANGED runVars
  /\ p # "crews" => UNCHANGED crewVars

ExecutionNext ==
  /\ UNCHANGED part
  /\ \/ part = "pool" /\ PoolNext /\ Others("pool")
     \/ part = "runtimes" /\ Runtimes!Next /\ Others("runtimes")
     \/ part = "loop" /\ Loop!LoopNext /\ Others("loop")
     \/ part = "run" /\ Run!RunNext /\ Others("run")
     \/ part = "crews" /\ Crews!ToolsNext /\ Others("crews")

ExecutionSpec ==
  /\ ExecutionInit
  /\ [][ExecutionNext]_<<part, spVars, runtimesVars, loopVars, runVars, crewVars>>
  /\ \/ part = "pool" /\ PoolFairness
     \/ part = "runtimes" /\ Runtimes!Fairness
     \/ part \in {"loop", "run", "crews"}

\* The variables of all parts have their types.
ExecutionTypeOK ==
  PoolTypeOK /\ Runtimes!TypeOK /\ Loop!LoopTypeOK /\ Run!RunTypeOK /\ Crews!ToolsTypeOK

\* Commands are shown once and in order, and stops are seen (SandboxRuntimes).
CommandsAreShown == Runtimes!CommandsAreShown

\* In each request to the LLM every call of a tool has its reply (AgentLoop).
CallsAreAnswered == Loop!CallsAreAnswered

\* What the coordinator reports is what its last rounds came to (CoordinatorRun).
LocalOutcomeJustified == Run!LocalOutcomeJustified

\* What calls and crews share is there again after them: a sandbox is in the pool or in
\* a call, and the lock is passed on (SandboxPool); a manager has its tools when no crew of
\* it runs (CrewTools).
SharedIsReturned == PoolLosesNone /\ LockIsPassedOn /\ Crews!ManagerKeepsTools
=============================================================================
