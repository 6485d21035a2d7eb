---------------------------- MODULE RoutingApproval ----------------------------
(***************************************************************************)
(* Human approval of remote routing: api/services/approval.py, the approval *)
(* and cancel endpoints of api/server.py and the part of the organizer      *)
(* (agent/core.py, _execute_body and _execute_body_sync) that asks for the  *)
(* approval, dispatches and settles the task.                               *)
(*                                                                         *)
(* A chat task runs in a thread of its own (execute_sync).  A task in      *)
(* OnLoop was submitted to the execute endpoint, the gateway or the         *)
(* scheduler: it runs as a coroutine of the server's event loop, and since  *)
(* routing, the wait for the approval and the dispatch are blocking calls,  *)
(* it holds the loop from the first of them to the settlement.  So does     *)
(* every task that is submitted again, which only the execute endpoint      *)
(* does.  Endpoints are coroutines of the same loop.  Identifiers of        *)
(* approvals are numbered in creation order, the order in which the cancel  *)
(* endpoint scans them.                                                     *)
(***************************************************************************)
EXTENDS TaskStatus, Integers

CONSTANTS Tasks,
          OnLoop,         \* the tasks that run on the event loop from the start
          Budgets,        \* what a user may enter, 0 for no budget
          CallerOptions,  \* options of the approvals requested over REST
          MaxRemotes,     \* remote subtasks in a plan
          MaxRequested,   \* bound: approvals requested over REST
          MaxRounds,      \* refinement rounds of one run
          MaxRuns         \* bound: times each task is submitted

ASSUME ApprovalAssumption ==
  /\ OnLoop \subseteq Tasks
  /\ Budgets \subseteq Nat
  /\ CallerOptions \subseteq {"approve", "local_only", "deny"}
  /\ MaxRemotes \in Nat
  /\ MaxRequested \in Nat
  /\ MaxRounds \in Nat \ {0}
  /\ MaxRuns \in [Tasks -> Nat]

Decisions == {"approve", "local_only", "deny"}

NoDecision == "none"

Stages == {"idle", "submitted", "started", "routed", "waiting", "woken",
           "remote", "local", "denied", "done"}

VARIABLES status,     \* the task's status in the task manager
          stage,      \* how far the execution of the task is
          remotes,    \* remote subtasks left in its plan
          mine,       \* the approval its execution waits for, 0 if none
          taken,      \* what its execution made of the approval
          sent,       \* remote subtasks dispatched in this run
          round,      \* rounds dispatched in this run
          runs,       \* times submitted
          approvals,  \* state.approval_requests
          created,    \* approvals created so far
          requested,  \* those requested over REST
          budget,     \* state.task_budgets, all zero when unset
          loop,       \* what holds the event loop
          acked,      \* history: the last decision a client saw accepted
          autoSpent   \* history: auto-approved since the budget was set

run == <<remotes, mine, taken, sent, round>>
vars == <<status, stage, run, runs, approvals, created, requested, budget, loop, acked,
          autoSpent>>

Free == <<"free">>
Running(t) == <<"running", t>>
Cancelling(t) == <<"cancelling", t>>

Init ==
  /\ status = [t \in Tasks |-> "pending"]
  /\ stage = [t \in Tasks |-> "idle"]
  /\ remotes = [t \in Tasks |-> 0]
  /\ mine = [t \in Tasks |-> 0]
  /\ taken = [t \in Tasks |-> NoDecision]
  /\ sent = [t \in Tasks |-> 0]
  /\ round = [t \in Tasks |-> 0]
  /\ runs = [t \in Tasks |-> 0]
  /\ approvals = [a \in {} |-> [task |-> 0, decision |-> NoDecision, budget |-> 0,
                                heard |-> FALSE]]
  /\ created = 0
  /\ requested = 0
  /\ budget = [t \in Tasks |-> [limit |-> 0, spent |-> 0]]
  /\ loop = Free
  /\ acked = [a \in {} |-> NoDecision]
  /\ autoSpent = [t \in Tasks |-> 0]

-----------------------------------------------------------------------------
(* The approval service.                                                     *)

\* create_approval: the record, and the broadcast of the request scheduled on
\* the loop.
NewApproval(t, heard) ==
  /\ created' = created + 1
  /\ approvals' = [a \in DOMAIN approvals \cup {created'} |->
                     IF a = created'
                     THEN [task |-> t, decision |-> NoDecision, budget |-> 0, heard |-> heard]
                     ELSE approvals[a]]
  /\ acked' = [a \in 1 .. created' |-> IF a = created' THEN NoDecision ELSE acked[a]]

Pending(t) == {a \in DOMAIN approvals : approvals[a].task = t
                                        /\ approvals[a].decision = NoDecision}

\* The broadcast of the request, a coroutine of the event loop.
Announce(a) ==
  /\ loop = Free
  /\ a \in DOMAIN approvals
  /\ ~approvals[a].heard
  /\ approvals' = [approvals EXCEPT ![a].heard = TRUE]
  /\ UNCHANGED <<status, stage, run, runs, created, requested, budget, loop, acked, autoSpent>>

\* POST /api/agent/tasks/{id}/approval: an approval nobody waits for.  Its
\* broadcast is not followed, because nothing depends on it.
RequestApproval(t) ==
  /\ loop = Free
  /\ requested < MaxRequested
  /\ requested' = requested + 1
  /\ NewApproval(t, TRUE)
  /\ UNCHANGED <<status, stage, run, runs, budget, loop, autoSpent>>

\* Is it the approval of a routing decision?
Routing(a) == \E t \in Tasks : mine[t] = a

\* What it may be answered with: its options.
Options(a) == IF Routing(a) THEN Decisions ELSE CallerOptions

\* POST /api/agent/approvals/{id}/resolve; an answered approval can be
\* answered again until the waiting execution takes it out of the table.  The
\* budget is read only by that execution and only with "approve": it is not
\* kept with other answers, nor where no execution will read it.
ResolveApproval(a, d, b) ==
  /\ loop = Free
  /\ a \in DOMAIN approvals
  /\ d \in Options(a)
  /\ approvals' = [approvals EXCEPT ![a].decision = d,
                                    ![a].budget = IF Routing(a) /\ d = "approve" THEN b ELSE 0]
  /\ acked' = [acked EXCEPT ![a] = d]
  /\ UNCHANGED <<status, stage, run, runs, created, requested, budget, loop, autoSpent>>

\* Mutated form of CancelDeny: the approval is taken out of the table instead
\* of being denied.
CancelDenyDropping(t) ==
  /\ loop = Free
  /\ runs[t] > 0
  /\ loop' = Cancelling(t)
  /\ \/ /\ Pending(t) = {}
        /\ UNCHANGED approvals
     \/ \E a \in Pending(t) :
          /\ \A b \in Pending(t) : a <= b
          /\ approvals' = [b \in DOMAIN approvals \ {a} |-> approvals[b]]
  /\ UNCHANGED <<status, stage, run, runs, created, requested, budget, acked, autoSpent>>

\* The cancel endpoint, first half: under the approval lock, deny the first
\* undecided approval of the task and stop looking.
CancelDeny(t) ==
  /\ loop = Free
  /\ runs[t] > 0
  /\ loop' = Cancelling(t)
  /\ \/ /\ Pending(t) = {}
        /\ UNCHANGED <<approvals, acked>>
     \/ \E a \in Pending(t) :
          /\ \A b \in Pending(t) : a <= b
          /\ approvals' = [approvals EXCEPT ![a].decision = "deny"]
          /\ acked' = [acked EXCEPT ![a] = "deny"]
  /\ UNCHANGED <<status, stage, run, runs, created, requested, budget, autoSpent>>

\* Second half: cancel_task, then the answer {"status": "cancelled"}, whatever
\* cancel_task found.
CancelMark(t) ==
  /\ loop = Cancelling(t)
  /\ loop' = Free
  /\ status' = IF Cancellable(status[t]) THEN [status EXCEPT ![t] = "cancelled"] ELSE status
  /\ UNCHANGED <<stage, run, runs, approvals, created, requested, budget, acked, autoSpent>>

-----------------------------------------------------------------------------
(* Submission.                                                               *)

\* The chat endpoint creates a task under a fresh identifier; the execute
\* endpoint may be given the identifier of an earlier task, which is reset
\* unless it is running.  A task is submitted again only when its previous
\* execution is over.
Submit(t) ==
  /\ loop = Free
  /\ runs[t] < MaxRuns[t]
  /\ stage[t] = "idle" \/ (stage[t] = "done" /\ status[t] # "running")
  /\ runs' = [runs EXCEPT ![t] = @ + 1]
  /\ status' = [status EXCEPT ![t] = "pending"]
  /\ stage' = [stage EXCEPT ![t] = "submitted"]
  /\ remotes' = [remotes EXCEPT ![t] = 0]
  /\ mine' = [mine EXCEPT ![t] = 0]
  /\ taken' = [taken EXCEPT ![t] = NoDecision]
  /\ sent' = [sent EXCEPT ![t] = 0]
  /\ round' = [round EXCEPT ![t] = 0]
  /\ UNCHANGED <<approvals, created, requested, budget, loop, acked, autoSpent>>

\* Does the current run of t live on the event loop?
Hosted(t) == t \in OnLoop \/ runs[t] > 1

\* The execute endpoint marks the task as started and schedules the execution;
\* the chat endpoint starts a thread and leaves the task pending.
Start(t) ==
  /\ Hosted(t)
  /\ loop = Free
  /\ stage[t] = "submitted"
  /\ Startable(status[t])
  /\ status' = [status EXCEPT ![t] = "running"]
  /\ stage' = [stage EXCEPT ![t] = "started"]
  /\ UNCHANGED <<run, runs, approvals, created, requested, budget, loop, acked, autoSpent>>

\* execute refuses a task that is completed or failed (but not one that is
\* cancelled), execute_sync none; then the task is routed: n remote subtasks.
Execute(t, n) ==
  /\ IF Hosted(t)
     THEN /\ stage[t] = "started"
          /\ status[t] \notin Settled
          /\ loop = Free
          /\ loop' = Running(t)
     ELSE /\ stage[t] = "submitted"
          /\ UNCHANGED loop
  /\ stage' = [stage EXCEPT ![t] = "routed"]
  /\ remotes' = [remotes EXCEPT ![t] = n]
  /\ UNCHANGED <<status, mine, taken, sent, round, runs, approvals, created, requested, budget, acked, autoSpent>>

-----------------------------------------------------------------------------
(* _request_routing_approval.                                                *)

Estimate(t) == remotes[t]

\* Mutated form of WithinBudget: what was spent before is forgotten.
WithinBudgetFresh(t) ==
  /\ budget[t].limit >= Estimate(t)
  /\ budget[t].limit > 0

WithinBudget(t) ==
  /\ budget[t].limit - budget[t].spent >= Estimate(t)
  /\ budget[t].limit > 0

SkipApproval(t) ==
  /\ stage[t] = "routed"
  /\ remotes[t] = 0
  /\ stage' = [stage EXCEPT ![t] = "local"]
  /\ UNCHANGED <<status, run, runs, approvals, created, requested, budget, loop, acked,
                 autoSpent>>

AutoApprove(t) ==
  /\ stage[t] = "routed"
  /\ remotes[t] > 0
  /\ WithinBudget(t)
  /\ budget' = [budget EXCEPT ![t].spent = @ + Estimate(t)]
  /\ autoSpent' = [autoSpent EXCEPT ![t] = @ + Estimate(t)]
  /\ taken' = [taken EXCEPT ![t] = "auto"]
  /\ stage' = [stage EXCEPT ![t] = "remote"]
  /\ UNCHANGED <<status, remotes, mine, sent, round, runs, approvals, created, requested, loop, acked>>

AskUser(t) ==
  /\ stage[t] = "routed"
  /\ remotes[t] > 0
  /\ ~WithinBudget(t)
  /\ NewApproval(t, FALSE)
  /\ mine' = [mine EXCEPT ![t] = created']
  /\ stage' = [stage EXCEPT ![t] = "waiting"]
  /\ UNCHANGED <<status, remotes, taken, sent, round, runs, requested, budget, loop,
                 autoSpent>>

\* evt.wait returns because the event is set ...
Wake(t) ==
  /\ stage[t] = "waiting"
  /\ approvals[mine[t]].decision # NoDecision
  /\ stage' = [stage EXCEPT ![t] = "woken"]
  /\ UNCHANGED <<status, run, runs, approvals, created, requested, budget, loop, acked,
                 autoSpent>>

\* Mutated form of Expire: the wait ends only if the request reached the user.
ExpireIfHeard(t) ==
  /\ stage[t] = "waiting"
  /\ approvals[mine[t]].decision = NoDecision
  /\ approvals[mine[t]].heard
  /\ stage' = [stage EXCEPT ![t] = "woken"]
  /\ UNCHANGED <<status, run, runs, approvals, created, requested, budget, loop, acked, autoSpent>>

\* ... or because approval_timeout elapsed, which is minutes: a broadcast that
\* the loop can deliver has been delivered by then.
Expire(t) ==
  /\ stage[t] = "waiting"
  /\ approvals[mine[t]].decision = NoDecision
  /\ approvals[mine[t]].heard \/ \E u \in Tasks : loop = Running(u)
  /\ stage' = [stage EXCEPT ![t] = "woken"]
  /\ UNCHANGED <<status, run, runs, approvals, created, requested, budget, loop, acked,
                 autoSpent>>

\* Where each decision leads; a timeout dispatches like an approval.
NextStage(d) ==
  CASE d \in {"approve", "timeout"} -> "remote"
    [] d = "local_only"             -> "local"
    [] d = "deny"                   -> "denied"

\* Mutated form of TakeDecision: the record stays in the table after it was read.
TakeDecisionAndKeep(t) ==
  /\ stage[t] = "woken"
  /\ LET rec == approvals[mine[t]]
         d   == IF rec.decision = NoDecision THEN "timeout" ELSE rec.decision
     IN  /\ taken' = [taken EXCEPT ![t] = d]
         /\ stage' = [stage EXCEPT ![t] = NextStage(d)]
         /\ remotes' = [remotes EXCEPT ![t] = IF d = "local_only" THEN 0 ELSE @]
         /\ IF d = "approve" /\ rec.budget > 0
            THEN /\ budget' = [budget EXCEPT ![t] = [limit |-> rec.budget, spent |-> Estimate(t)]]
                 /\ autoSpent' = [autoSpent EXCEPT ![t] = 0]
            ELSE UNCHANGED <<budget, autoSpent>>
  /\ UNCHANGED <<status, mine, sent, round, runs, approvals, created, requested, loop, acked>>

\* block_until_approval, under the approval lock: read the decision as it is
\* now and take the record out of the table; then act on it.
TakeDecision(t) ==
  /\ stage[t] = "woken"
  /\ LET rec == approvals[mine[t]]
         d   == IF rec.decision = NoDecision THEN "timeout" ELSE rec.decision
     IN  /\ taken' = [taken EXCEPT ![t] = d]
         /\ stage' = [stage EXCEPT ![t] = NextStage(d)]
         /\ remotes' = [remotes EXCEPT ![t] = IF d = "local_only" THEN 0 ELSE @]
         /\ IF d = "approve" /\ rec.budget > 0
            THEN /\ budget' = [budget EXCEPT ![t] = [limit |-> rec.budget, spent |-> Estimate(t)]]
                 /\ autoSpent' = [autoSpent EXCEPT ![t] = 0]
            ELSE UNCHANGED <<budget, autoSpent>>
  /\ approvals' = [a \in DOMAIN approvals \ {mine[t]} |-> approvals[a]]
  /\ UNCHANGED <<status, mine, sent, round, runs, created, requested, loop, acked>>

-----------------------------------------------------------------------------
(* Dispatch and settlement.                                                  *)

\* One round: dispatch what the plan holds.  delegate_task is called for every
\* remote subtask (the nodes of the plan are still in the pool here).
DispatchRound(t) ==
  /\ stage[t] \in {"remote", "local"}
  /\ round[t] < MaxRounds
  /\ round' = [round EXCEPT ![t] = @ + 1]
  /\ sent' = [sent EXCEPT ![t] = @ + remotes[t]]
  /\ status' = IF remotes[t] > 0 /\ Delegable(status[t])
               THEN [status EXCEPT ![t] = "delegated"] ELSE status
  /\ UNCHANGED <<stage, remotes, mine, taken, runs, approvals, created, requested, budget, loop,
                 acked, autoSpent>>

Settle(t, s) ==
  /\ status' = IF Finishable(status[t]) THEN [status EXCEPT ![t] = s] ELSE status
  /\ stage' = [stage EXCEPT ![t] = "done"]
  /\ loop' = IF Hosted(t) THEN Free ELSE loop
  /\ UNCHANGED <<run, runs, approvals, created, requested, budget, acked, autoSpent>>

\* After a round the result is accepted or refined.  complete_task, or fail_task
\* when the quality gate never passes; an accepted result also fails the task if
\* its local part ended in an error.
Finish(t, s) ==
  /\ stage[t] \in {"remote", "local"}
  /\ round[t] > 0
  /\ Settle(t, s)

\* The plan is None: fail_task(task_id, "Cancelled by user").
FailDenied(t) ==
  /\ stage[t] = "denied"
  /\ Settle(t, "failed")

Endpoint ==
  \/ \E t \in Tasks : Submit(t) \/ RequestApproval(t) \/ CancelDeny(t) \/ CancelMark(t)
  \/ \E a \in DOMAIN approvals :
       Announce(a) \/ \E d \in Decisions, b \in Budgets : ResolveApproval(a, d, b)

Execution(t) ==
  \/ Start(t)
  \/ \E n \in 0 .. MaxRemotes : Execute(t, n)
  \/ SkipApproval(t) \/ AutoApprove(t) \/ AskUser(t)
  \/ Wake(t) \/ Expire(t) \/ TakeDecision(t)
  \/ DispatchRound(t)
  \/ \E s \in Settled : Finish(t, s)
  \/ FailDenied(t)

Next == Endpoint \/ \E t \in Tasks : Execution(t)

Spec == Init /\ [][Next]_vars

\* Threads run; the event loop serves every ready callback in turn, so a
\* coroutine that is ready again and again is eventually resumed.
Fairness ==
  /\ \A t \in Tasks : SF_vars(Execution(t)) /\ WF_vars(CancelMark(t))
  /\ SF_vars(\E a \in DOMAIN approvals : Announce(a))

FairSpec == Spec /\ Fairness

-----------------------------------------------------------------------------
(* Properties                                                                *)

\* The shape of the state, and that an execution that waits has its record.
TypeOK ==
  /\ status \in [Tasks -> Status]
  /\ stage \in [Tasks -> Stages]
  /\ remotes \in [Tasks -> 0 .. MaxRemotes]
  /\ mine \in [Tasks -> 0 .. created]
  /\ taken \in [Tasks -> Decisions \cup {NoDecision, "timeout", "auto"}]
  /\ sent \in [Tasks -> Nat]
  /\ round \in [Tasks -> 0 .. MaxRounds]
  /\ runs \in [Tasks -> Nat]
  /\ \A t \in Tasks : runs[t] <= MaxRuns[t]
  /\ created \in Nat
  /\ requested \in 0 .. MaxRequested
  /\ DOMAIN approvals \subseteq 1 .. created
  /\ approvals \in [DOMAIN approvals ->
                      [task : Tasks, decision : Decisions \cup {NoDecision},
                       budget : Budgets \cup {0}, heard : BOOLEAN]]
  /\ budget \in [Tasks -> [limit : Budgets \cup {0}, spent : Nat]]
  /\ loop \in {Free} \cup {Running(t) : t \in Tasks} \cup {Cancelling(t) : t \in Tasks}
  /\ acked \in [1 .. created -> Decisions \cup {NoDecision}]
  /\ autoSpent \in [Tasks -> Nat]
  /\ \A t \in Tasks : stage[t] \in {"waiting", "woken"} => mine[t] \in DOMAIN approvals

\* What an execution made of its approval is the last answer a client saw
\* accepted, and a timeout only if no answer was ever accepted: no answer is
\* accepted after the execution has looked (block_until_approval).
LastAnswerCounts ==
  \A t \in Tasks :
    taken[t] \in Decisions \cup {"timeout"} =>
      taken[t] = IF acked[mine[t]] = NoDecision THEN "timeout" ELSE acked[mine[t]]

\* Nothing is dispatched against the user's will: no remote subtask in a run whose
\* approval was refused, by the user or by a cancellation that reached it, in any
\* round; and what is dispatched without asking stays within the budget the user
\* entered last, over all runs of the task.
DispatchesAreAllowed ==
  \A t \in Tasks :
    /\ mine[t] # 0 /\ acked[mine[t]] \in {"deny", "local_only"}
         /\ stage[t] \notin {"waiting", "woken"} => sent[t] = 0
    /\ autoSpent[t] > 0 => budget[t].spent <= budget[t].limit

\* Every submitted task is settled, whatever users answer or do not answer.
EveryRunEnds ==
  \A t \in Tasks : stage[t] = "submitted" ~> stage[t] = "done"
=============================================================================
