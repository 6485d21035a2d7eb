--------------------------- MODULE MCConversations ---------------------------
(***************************************************************************)
(* What an execution tells the outside: the organizer that follows it on        *)
(* another node (TaskStream), the chat view (ChatTask), and whoever looks at its  *)
(* progress (StepProgress).  They share no state, so a behaviour has one of them.  *)
(*                                                                         *)
(* One subscriber with room for one update, next to one other listener; a     *)
(* chat view that leaves and comes back twice; a worker and a node whose steps    *)
(* overlap in each of two rounds.                                            *)
(***************************************************************************)

\* TaskStream and ChatTask.
CONSTANTS c1, o1, Subs, OtherListeners, QueueSize, MaxUpdates, MaxSteps, MaxReturns, MayTimeOut

MCSubs == {c1}
MCOthers == {o1}

\* StepProgress.
CONSTANTS m1, p1, Members, Peers, Reports, MaxWork, MaxReports, MaxTurns
MCMembers == {m1}
MCPeers == {p1}
MCReports == {[stage |-> "running", pct |-> 35], [stage |-> "completed", pct |-> 100]}

VARIABLES part,
          task, updates, note, listeners, server, queue, wire, client, late, answer, missed,
          chatTask, exec, recorded, approval, stepQueue, over, gen, buffer, back, view, returns,
          endpoint, plan, taskStatus, progress, copy, rows, made, told, shown, steps, step,
          org, turn, early

streamVars ==
  <<task, updates, note, listeners, server, queue, wire, client, late, answer, missed>>

chatVars ==
  <<chatTask, exec, recorded, approval, stepQueue, over, gen, buffer, back, view, returns>>

stepVars ==
  <<endpoint, plan, taskStatus, progress, copy, rows, made, told, shown, steps, step, org, turn,
    early>>

Stream == INSTANCE TaskStream WITH Others <- OtherListeners

Chat == INSTANCE ChatTask WITH task <- chatTask, queue <- stepQueue, client <- view

Steps == INSTANCE StepProgress WITH status <- taskStatus

ASSUME ConversationsAssumption ==
  Stream!StreamAssumption /\ Chat!ChatAssumption /\ Steps!StepProgressAssumption

ConversationsInit ==
  /\ part \in {"stream", "chat", "progress"}
  /\ Stream!Init /\ Chat!Init /\ Steps!StepInit
  /\ part # "progress" => endpoint = "chat" /\ plan

ConversationsNext ==
  /\ UNCHANGED part
  /\ \/ part = "stream" /\ Stream!Next /\ UNCHANGED <<chatVars, stepVars>>
     \/ part = "chat" /\ Chat!Next /\ UNCHANGED <<streamVars, stepVars>>
     \/ part = "progress" /\ Steps!StepNext /\ UNCHANGED <<streamVars, chatVars>>

ConversationsSpec ==
  /\ ConversationsInit /\ [][ConversationsNext]_<<part, streamVars, chatVars, stepVars>>
  /\ \/ part = "stream" /\ Stream!Fairness
     \/ part = "chat" /\ Chat!Fairness
     \/ part = "progress"

\* The variables of all parts have their types.
ConversationsTypeOK == Stream!TypeOK /\ Chat!TypeOK /\ Steps!StepTypeOK

\* The chat view shows steps once and in order (ChatTask).  The progress of a task is
\* that of its end at the end, and in the execute endpoint not before; reports of nodes
\* are shown, and the roster comes to rest (StepProgress).
ShownIsTrue ==
  /\ Chat!StepsInOrder
  /\ Steps!NotDoneEarly /\ Steps!EndIsShown
  /\ Steps!MilestonesShown /\ Steps!RosterSettled

\* The organizer (TaskStream) and a chat view that stays (ChatTask) learn how the task
\* really ended.
OutcomeIsLearnt == Stream!SubscriberLearnsOutcome /\ Chat!ClientCatchesUp
=============================================================================
