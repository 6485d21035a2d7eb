----------------------------- MODULE StepProgress -----------------------------
(***************************************************************************)
(* The progress that is shown of a task while it executes.  Several threads     *)
(* report steps: the organizer's, the crew's, in which the workers take turns,  *)
(* and one for each node that has a subtask.  Each step goes through          *)
(* StepCallback (agent/events.py) or emit_workflow_step, and through on_step of  *)
(* the endpoint (api/server.py); all of them read the progress of the task, and   *)
(* write it later, without a lock from the one to the other.  The execute         *)
(* endpoint works on the progress of the task itself, the chat keeps a copy of    *)
(* its own and overwrites that of the task with it.                          *)
(*                                                                         *)
(* Of the progress there are the phase and the percentage; counts of workers     *)
(* and labels are left out.                                                 *)
(***************************************************************************)
EXTENDS SequencesExt, TaskStatus, FiniteSets

CONSTANTS Members,      \* workers of the local crew
          Peers,        \* nodes with a subtask, a thread each
          Reports,      \* what a node reports: [stage, pct]
          MaxWork,      \* bound: steps of the crew, and what the organizer tells meanwhile
          MaxReports,   \* bound: reports of each node
          MaxTurns      \* bound: rounds of refinement

StepProgressAssumption ==
  /\ MaxWork \in Nat /\ MaxReports \in Nat /\ MaxTurns \in Nat \ {0}
  /\ Reports \subseteq [stage : {"running", "completed"}, pct : 0 .. 100]
  /\ IsFiniteSet(Peers) /\ {"organizer", "crew"} \cap Peers = {}

Threads == {"organizer", "crew"} \cup Peers

Early == {"received", "routing", "dispatching"}
Phases == Early \cup {"executing", "aggregating", "completed"}
Progress == [phase : Phases, pct : 0 .. 100]
Show(phase, pct) == [phase |-> phase, pct |-> pct]

VARIABLES
  endpoint,  \* "execute" or "chat"
  plan,      \* is there a router with a plan?
  status,    \* of the task
  progress,  \* of the task
  copy,      \* _task_progress of the chat
  rows,      \* the roster: status by worker
  made,      \* steps by worker, without the signs of life
  told,      \* last report by node, if any: _remote_progress_by_node
  shown,     \* history: milestones by node; the last one is in the tracker
  steps,     \* steps of the crew's callback, and of each node
  step,      \* what each thread is about
  org, turn, \* the organizer: where it is, and the round
  early      \* history: the task failed before its execution ended

stepVars ==
  <<endpoint, plan, status, progress, copy, rows, made, told, shown, steps, step, org, turn,
    early>>

\* A node that has not reported.
Silent == [stage |-> "none", pct |-> 0]

\* A thread is out of a step, or in one: what kind of step it is, whose, what it says,
\* and the progress that was read for it.
Idle == [at |-> "idle"]
In(at, kind, who, act, read) ==
  [at |-> at, kind |-> kind, who |-> who, act |-> act, read |-> read]

\* A thread goes on in its step.
Goes(t, at, read) ==
  step' = [step EXCEPT ![t] = In(at, step[t].kind, step[t].who, step[t].act, read)]

StepTypeOK ==
  /\ endpoint \in {"execute", "chat"} /\ plan \in BOOLEAN
  /\ status \in Status /\ early \in BOOLEAN
  /\ progress \in Progress /\ copy \in Progress
  /\ rows \in [Members -> {"pending", "running", "timeout", "completed", "skipped"}]
  /\ made \in [Members -> 0 .. MaxWork * MaxTurns]
  /\ told \in [Peers -> Reports \cup {Silent}]
  /\ DOMAIN step = Threads
  /\ \A t \in Threads : step[t].at \in {"idle", "smooth", "merge", "write"}
  /\ org \in {"start", "routed", "sent", "work", "judge", "settle", "over", "broken"}
  /\ turn \in 1 .. MaxTurns

StepInit ==
  /\ endpoint \in {"execute", "chat"} /\ plan \in BOOLEAN
  /\ status = "running" /\ early = FALSE
  /\ progress = Show("received", 5) /\ copy = Show("dispatching", 25)
  /\ rows = [m \in Members |-> "pending"] /\ made = [m \in Members |-> 0]
  /\ told = [p \in Peers |-> Silent] /\ shown = [p \in Peers |-> <<>>]
  /\ steps = [t \in Threads |-> 0] /\ step = [t \in Threads |-> Idle]
  /\ org = "start" /\ turn = 1

-----------------------------------------------------------------------------
(* TaskManager.                                                             *)

\* Mutated form: a task that is in the phase already keeps its percentage.
SetPhaseOnce(p, phase, pct) == IF p.phase = phase THEN p ELSE Show(phase, pct)

\* Task.set_phase with a percentage: whatever p is, in the phase or not.
SetPhase(p, phase, pct) == Show(phase, pct)

\* complete_task, fail_task and cancel_task set the last phase.
Ended(p) == SetPhase(p, "completed", 100)

-----------------------------------------------------------------------------
(* Steps are entered.                                                       *)

\* The crew has a thread of its own, or with nobody else at work that of the organizer.
CrewRuns == org = "work" /\ (plan \/ step["organizer"] = Idle)

\* A step of a worker: StepCallback is going to smooth the progress it reads.
WorkerStep(m, act) ==
  /\ CrewRuns /\ step["crew"] = Idle /\ steps["crew"] < MaxWork
  /\ act = "beat" => made[m] > 0
  /\ steps' = [steps EXCEPT !["crew"] = @ + 1]
  /\ step' = [step EXCEPT !["crew"] = In("smooth", "worker", m, act, progress)]
  /\ UNCHANGED <<endpoint, plan, status, progress, copy, rows, made, told, shown, org,
                 turn, early>>

\* The percentage follows the number of steps, and the step carries what is shown then.
Smooth ==
  /\ step["crew"].at = "smooth"
  /\ LET read == step["crew"].read
         pct == Min({80, 25 + 6 * steps["crew"]})
     IN progress' = IF read.phase \in Early \cup {"executing"} /\ read.pct < pct
                    THEN Show("executing", pct) ELSE progress
  /\ Goes("crew", "merge", progress')
  /\ UNCHANGED <<endpoint, plan, status, copy, rows, made, told, shown, steps, org, turn,
                 early>>

\* _emit_remote_status_event: a report of a node carries the progress on that node.
PeerStep(p, report) ==
  /\ plan /\ org = "work" /\ step[p] = Idle /\ steps[p] < MaxReports
  /\ steps' = [steps EXCEPT ![p] = @ + 1]
  /\ step' = [step EXCEPT ![p] = In("merge", "remote", p, report,
                Show(IF report.stage = "completed" THEN "completed" ELSE "executing",
                     report.pct))]
  /\ UNCHANGED <<endpoint, plan, status, progress, copy, rows, made, told, shown, org,
                 turn, early>>

\* emit_workflow_step: the phase is set, if the step has one, and the step carries what
\* is shown then.
Says(kind, act, p) ==
  /\ step["organizer"] = Idle
  /\ progress' = p
  /\ step' = [step EXCEPT !["organizer"] = In("merge", kind, "organizer", act, p)]
  /\ UNCHANGED <<endpoint, plan, status, copy, rows, made, told, shown, early>>

-----------------------------------------------------------------------------
(* on_step.                                                                 *)

RowAfter(act) == IF act = "late" THEN "timeout" ELSE "running"

\* Its first part takes note of the step.  The chat takes over what the step carries as
\* the progress of the task; the execute endpoint reads the progress again.
Merge(t) ==
  /\ step[t].at = "merge"
  /\ LET s == step[t]
         carried == IF endpoint = "chat" THEN s.read ELSE progress
     IN /\ progress' = carried
        /\ copy' = IF endpoint = "chat" THEN s.read ELSE copy
        /\ Goes(t, "write", carried)
        /\ rows' = IF s.kind = "worker" THEN [rows EXCEPT ![s.who] = RowAfter(s.act)] ELSE rows
        /\ made' = IF s.kind = "worker" /\ s.act # "beat" THEN [made EXCEPT ![s.who] = @ + 1]
                   ELSE made
        /\ told' = IF s.kind = "remote" THEN [told EXCEPT ![s.who] = s.act] ELSE told
  /\ UNCHANGED <<endpoint, plan, status, shown, steps, org, turn, early>>

\* The mean of what the nodes reached that have reported: their percentages, put side by
\* side and counted.
Reached ==
  LET heard == {p \in Peers : told[p] # Silent}
  IN Cardinality({c \in heard \X (1 .. 100) : c[2] <= told[c[1]].pct}) \div Cardinality(heard)

\* Mutated form: it is shown as it is.
BlendedWhole == Reached

\* It is shown in the range from 25 to 80.
Blended == Max({25, Min({80, 25 + (Reached * 55) \div 100})})

AtLeast(read, pct) == Max({read.pct, pct})

WorkerShows(s) ==
  Show("executing",
       IF s.act \in {"start", "beat"} THEN AtLeast(s.read, 40)
       ELSE Min({85, AtLeast(s.read, 40) + (IF made[s.who] <= 1 THEN 4 ELSE 2)}))

RemoteShows(s) ==
  Show(IF s.read.phase \in {"completed", "aggregating"} THEN s.read.phase ELSE "executing",
       AtLeast(s.read, Blended))

\* The organizer's own steps, and those it tells of the crew as their coordinator.
OrganizerShows(s) ==
  CASE s.act = "waiting" -> Show("executing", AtLeast(s.read, 55))
    [] s.kind = "organizer" /\ s.act # "waiting" ->
         IF s.read.phase \in Early THEN Show("routing", AtLeast(s.read, 10)) ELSE s.read
    [] s.kind = "coordinator" ->
         IF s.read.phase \in {"completed", "aggregating"} THEN s.read
         ELSE Show("executing", AtLeast(s.read, 25))

\* What the execute endpoint writes, from the progress it has read.
ExecuteShows(s) ==
  CASE s.kind = "worker" -> WorkerShows(s)
    [] s.kind = "remote" -> RemoteShows(s)
    [] OTHER             -> OrganizerShows(s)

\* The chat's percentage goes up by little to a limit, or down to it.
UpTo(read, by, most) == Min({read.pct + by, most})

ChatWorkerShows(s) ==
  Show("executing", IF made[s.who] <= 1 THEN UpTo(s.read, 5, 75) ELSE UpTo(s.read, 2, 85))

\* What the chat writes: from its copy as it was after the first part, but for the phase
\* in a step of the organizer and the percentage in a report of a node.
ChatShows(s) ==
  CASE s.kind = "worker"      -> ChatWorkerShows(s)
    [] s.kind = "remote"      -> Show("executing", Max({copy.pct, Blended}))
    [] s.kind = "organizer"   -> [copy EXCEPT !.pct = UpTo(s.read, 1, 25)]
    [] s.kind = "coordinator" -> Show("executing", UpTo(s.read, 2, 55))

\* extract_remote_milestone_signature.
Signature(report) == [report EXCEPT !.pct = (@ \div 10) * 10]

\* Mutated form: every report is shown.
EmitsEach(p, milestone) == milestone # <<>>

\* should_emit_remote_milestone.
Emits(p, milestone) == shown[p] = <<>> \/ Last(shown[p]) # milestone

\* The second part writes the progress, and the step is shown unless it is a report
\* that says the same as the one before.
Write(t) ==
  /\ step[t].at = "write"
  /\ LET s == step[t] IN
       /\ copy' = IF endpoint = "chat" THEN ChatShows(s) ELSE copy
       /\ progress' = IF endpoint = "chat" THEN copy' ELSE ExecuteShows(s)
       /\ shown' = IF s.kind = "remote" /\ Emits(t, Signature(s.act))
                   THEN [shown EXCEPT ![t] = Append(@, Signature(s.act))] ELSE shown
  /\ step' = [step EXCEPT ![t] = Idle]
  /\ UNCHANGED <<endpoint, plan, status, rows, made, told, steps, org, turn, early>>

-----------------------------------------------------------------------------
(* The organizer (_execute_sync_body).                                      *)

Route ==
  /\ plan /\ org = "start" /\ org' = "routed"
  /\ Says("organizer", "step", SetPhase(progress, "routing", 10))
  /\ UNCHANGED <<steps, turn>>

Dispatch ==
  /\ org = "routed" /\ org' = "sent"
  /\ Says("organizer", "step", SetPhase(progress, "dispatching", 20))
  /\ UNCHANGED <<steps, turn>>

\* There is no router.
LocalOnly ==
  /\ ~plan /\ org = "start" /\ org' = "sent"
  /\ Says("coordinator", "step", SetPhase(progress, "executing", 25))
  /\ UNCHANGED <<steps, turn>>

\* The threads are started.
Start ==
  /\ org = "sent" /\ step["organizer"] = Idle /\ org' = "work"
  /\ UNCHANGED <<endpoint, plan, status, progress, copy, rows, made, told, shown, steps,
                 step, turn,
                 early>>

\* Meanwhile the organizer tells that the crew begins or has ended, and that nodes have not.
Announce ==
  /\ org = "work" /\ (plan \/ step["crew"] = Idle)
  /\ steps["organizer"] < MaxWork
  /\ steps' = [steps EXCEPT !["organizer"] = @ + 1]
  /\ \/ Says("coordinator", "step", progress)
     \/ plan /\ Says("organizer", "waiting", progress)
  /\ UNCHANGED <<org, turn>>

AllIdle == \A t \in Threads : step[t] = Idle

\* The threads are joined before the results are put together.
Gather ==
  /\ org = "work" /\ AllIdle /\ org' = "judge"
  /\ Says("organizer", "step", SetPhase(progress, "aggregating", 85))
  /\ UNCHANGED <<steps, turn>>

Again ==
  /\ org = "judge" /\ turn < MaxTurns /\ org' = "sent"
  /\ Says("organizer", "step", SetPhase(progress, "dispatching", 20))
  /\ turn' = turn + 1 /\ steps' = [t \in Threads |-> 0]

Conclude ==
  /\ org = "judge" /\ org' = "settle"
  /\ Says("organizer", "step", SetPhase(progress, "completed", 100))
  /\ UNCHANGED <<steps, turn>>

\* Mutated form: workers that made no step are passed over.
AccountedSeen == [m \in Members |-> IF made[m] > 0 THEN "completed" ELSE rows[m]]

\* The chat tells at the end that the workers it saw have completed, whatever became of
\* them, and that the others were not needed.
Accounted == [m \in Members |-> IF made[m] > 0 THEN "completed" ELSE "skipped"]

Ends(s) ==
  /\ AllIdle
  /\ status' = IF Finishable(status) THEN s ELSE status
  /\ progress' = IF Finishable(status) THEN Ended(progress) ELSE progress
  /\ rows' = IF endpoint = "chat" THEN Accounted ELSE rows
  /\ UNCHANGED <<endpoint, plan, copy, made, told, shown, steps, step, turn, early>>

Settle == org = "settle" /\ org' = "over" /\ \E s \in Settled : Ends(s)

\* The user refuses the routing, or execute_sync catches an error.
Break == org \in {"routed", "sent", "work", "judge"} /\ org' = "broken" /\ Ends("failed")

\* Meanwhile the user cancels the task, or it times out or is failed by a crew.
Outside(s) ==
  /\ org \notin {"over", "broken"} /\ status = "running"
  /\ status' = s /\ progress' = Ended(progress) /\ early' = (s = "failed")
  /\ UNCHANGED <<endpoint, plan, copy, rows, made, told, shown, steps, step, org, turn>>

StepNext ==
  \/ \E m \in Members, act \in {"start", "beat", "call", "late"} : WorkerStep(m, act)
  \/ Smooth
  \/ \E p \in Peers, r \in Reports : PeerStep(p, r)
  \/ \E t \in Threads : Merge(t) \/ Write(t)
  \/ Route \/ Dispatch \/ LocalOnly \/ Start \/ Announce
  \/ Gather \/ Again \/ Conclude \/ Settle \/ Break
  \/ \E s \in {"cancelled", "failed"} : Outside(s)

StepSpec == StepInit /\ [][StepNext]_stepVars

-----------------------------------------------------------------------------

\* A running task of the execute endpoint is not shown as completed before its organizer
\* says so, whatever the nodes report.
NotDoneEarly ==
  endpoint = "execute" /\ status = "running" /\ org # "settle" =>
    progress.phase # "completed" /\ progress.pct < 100

\* When the execution is over the task is shown as completed, although its steps were
\* written from progress that was read before, some of them after it was cancelled.  Of a
\* task that failed before, the execute endpoint shows it if the execution came to its end.
EndIsShown ==
  \/ org = "over" /\ endpoint = "execute"
  \/ org \in {"over", "broken"} /\ ~early
  => progress = Show("completed", 100)

\* The last milestone shown of a node is what it reported last, and none is repeated.
MilestonesShown ==
  \A p \in Peers :
    /\ \A i \in 1 .. Len(shown[p]) - 1 : shown[p][i] # shown[p][i + 1]
    /\ told[p] # Silent /\ step[p] = Idle => Last(shown[p]) = Signature(told[p])

\* When the chat's execution has ended no worker of the roster is shown at work.
RosterSettled ==
  endpoint = "chat" /\ org \in {"over", "broken"} =>
    \A m \in Members : rows[m] \in {"completed", "skipped"}
=============================================================================
