------------------------------ MODULE Delegation ------------------------------
(***************************************************************************)
(* One organizer's task handed to remote Agentic Nodes, refined round after *)
(* round, and paid: dispatch and submission in agent/core.py               *)
(* (_execute_body, _dispatch_parallel, _dispatch_sequential,               *)
(* _execute_remote_subtasks, _submit_remote_task), the execute endpoint of  *)
(* api/server.py on every worker, and the two payment tables of            *)
(* data/database.py.                                                       *)
(*                                                                         *)
(* Every worker keeps the task under the organizer's task id               *)
(* (parent_task_id), so the submissions of all rounds meet in one record.  *)
(* A submission may get lost, or be handled after its client gave up.      *)
(* Payment is in mock mode, the configured default; local subtasks and the *)
(* content of results are left out, and waiting for a result is reduced to *)
(* what TaskStream says of it.                                             *)
(***************************************************************************)
EXTENDS TaskStatus, Integers, Sequences, FiniteSets

CONSTANTS Nodes,        \* remote Agentic Nodes
          Names,        \* display names
          NameOf,       \* the name of each node, which may repeat
          Plans,        \* plans the router may return
          TokenIsETH,   \* is payment.token_symbol "ETH"?
          MaxRounds,    \* max_rounds
          MaxCancels,   \* bound: cancellations by the user of a worker
          MaxRestarts   \* bound: restarts of each worker

\* A plan is a sequence of batches: a single one when the execution mode is
\* parallel, one per subtask when it is sequential.  The router merges the
\* subtasks of one node.
ASSUME DelegationAssumption ==
  /\ IsFiniteSet(Nodes)
  /\ NameOf \in [Nodes -> Names]
  /\ Plans \subseteq Seq(SUBSET Nodes \ {{}})
  /\ \A p \in Plans : /\ p # <<>>
                      /\ \A i, j \in 1 .. Len(p) : i # j => p[i] \cap p[j] = {}
  /\ TokenIsETH \in BOOLEAN
  /\ MaxRounds \in Nat \ {0}
  /\ MaxCancels \in Nat
  /\ MaxRestarts \in Nat

VARIABLES plan,      \* the routing plan, the same in all rounds
          round,     \* round_num
          step,      \* batch under way, 0 before the first
          call,      \* per node: where its submission of this round is
          expense,   \* per name: expenses in the organizer's wallet
          posts,     \* submissions on their way
          reply,     \* per node: the answer to the open submission
          status,    \* per worker: status of the task, "absent" if it has none
          admitted,  \* per worker: requests between create_task and start_task
          runs,      \* per worker: executions under way
          paid,      \* per worker: the row in payment_records
          income,    \* per worker: incomes in its wallet
          cancels,   \* per worker: cancellations
          restarts,  \* per worker: restarts
          fresh      \* history: completed since the open submission was sent

organizer == <<plan, round, step, call, expense>>
worker == <<status, admitted, runs, paid, income, cancels, restarts>>
vars == <<organizer, posts, reply, worker, fresh>>

Post == [to : Nodes, round : 1 .. MaxRounds]

Init ==
  /\ plan \in Plans
  /\ round = 1
  /\ step = 0
  /\ call = [n \in Nodes |-> "idle"]
  /\ expense = [m \in Names |-> 0]
  /\ posts = {}
  /\ reply = [n \in Nodes |-> "none"]
  /\ status = [n \in Nodes |-> "absent"]
  /\ admitted = [n \in Nodes |-> {}]
  /\ runs = [n \in Nodes |-> {}]
  /\ paid = [n \in Nodes |-> FALSE]
  /\ income = [n \in Nodes |-> 0]
  /\ cancels = [n \in Nodes |-> 0]
  /\ restarts = [n \in Nodes |-> 0]
  /\ fresh = [n \in Nodes |-> FALSE]

-----------------------------------------------------------------------------
(* The organizer.                                                            *)

Outcomes == {"success", "pending", "error"}

Batch == IF step = 0 THEN {} ELSE plan[step]

BatchOver == \A n \in Batch : call[n] \in Outcomes

Failure == \E n \in Batch : call[n] = "error"

\* The amount offered with a submission: refinement rounds are free.
Offers(p) == p.round = 1

\* The next batch is submitted to the nodes that are in the pool; for the
\* others the result is an error at once.  An error ends a sequential round.
Dispatch(known) ==
  LET next == plan[step + 1]
  IN  /\ BatchOver /\ ~Failure
      /\ step < Len(plan)
      /\ known \subseteq next
      /\ step' = step + 1
      /\ call' = [n \in Nodes |-> IF n \notin next THEN call[n]
                                  ELSE IF n \in known THEN "submitting" ELSE "error"]
      /\ posts' = posts \cup {[to |-> n, round |-> round] : n \in known}
      /\ fresh' = [n \in Nodes |-> fresh[n] /\ n \notin next]
      /\ UNCHANGED <<plan, round, expense, reply, worker>>

\* A reply with a task id: the payment counts as sent, and in the first round
\* it is booked unless the name has been charged for this task before.
Charge(n) ==
  expense' = IF round = 1 /\ expense[NameOf[n]] = 0
             THEN [expense EXCEPT ![NameOf[n]] = 1]
             ELSE expense

Accepted(n) ==
  /\ call[n] = "submitting"
  /\ reply[n] = "ok"
  /\ call' = [call EXCEPT ![n] = "waiting"]
  /\ reply' = [reply EXCEPT ![n] = "none"]
  /\ Charge(n)
  /\ UNCHANGED <<plan, round, step, posts, worker, fresh>>

\* A reply with another HTTP status, or none within remote_submit_timeout.
NotAccepted(n) ==
  /\ call[n] = "submitting"
  /\ reply[n] # "ok"
  /\ call' = [call EXCEPT ![n] = "error"]
  /\ reply' = [reply EXCEPT ![n] = "none"]
  /\ UNCHANGED <<plan, round, step, expense, posts, worker, fresh>>

\* A good reply that is lost: the client sees an error.
ReplyLost(n) ==
  /\ call[n] = "submitting"
  /\ reply[n] = "ok"
  /\ call' = [call EXCEPT ![n] = "error"]
  /\ reply' = [reply EXCEPT ![n] = "none"]
  /\ UNCHANGED <<plan, round, step, expense, posts, worker, fresh>>

\* Waiting starts when every submission of the batch is decided.  It ends with
\* a success only on a completed task; a stream may end with nothing decided,
\* and a failed, cancelled or missing task or a timeout makes an error.
Result(n, o) ==
  /\ call[n] = "waiting"
  /\ \A m \in Batch : call[m] # "submitting"
  /\ o = "success" => status[n] = "completed"
  /\ call' = [call EXCEPT ![n] = o]
  /\ UNCHANGED <<plan, round, step, expense, posts, reply, worker, fresh>>

\* The evaluation asks for another round of the same plan.
Refine ==
  /\ step > 0 /\ BatchOver
  /\ step = Len(plan) \/ Failure
  /\ round < MaxRounds
  /\ round' = round + 1
  /\ step' = 0
  /\ call' = [n \in Nodes |-> "idle"]
  /\ UNCHANGED <<plan, expense, posts, reply, worker, fresh>>

-----------------------------------------------------------------------------
(* A worker.                                                                 *)

\* Mutated form of Answer: whether the client gave up is not looked at.
AnswerAnyway(p, a) == reply' = [reply EXCEPT ![p.to] = a]

\* Its answer, if somebody still waits for it.
Answer(p, a) ==
  reply' = IF call[p.to] = "submitting" /\ p.round = round
           THEN [reply EXCEPT ![p.to] = a] ELSE reply

\* Does the endpoint find a price in the receipt?  Not if the row is there or
\* nothing was offered; nor in any amount like "0.001 USDC", for " ETH" is the
\* only symbol it takes off before it reads the number.  (The mutated form takes
\* the configured price all the time.)
ReceiptAtPrice(p) == p \in Post

Receipt(p) == ~paid[p.to] /\ Offers(p) /\ TokenIsETH

\* Mutated forms of Admit: the check for a running task is missing; and the
\* task that is there already is answered with, whatever its status.
AdmitAlways(p) ==
  /\ status' = [status EXCEPT ![p.to] = "pending"]
  /\ admitted' = [admitted EXCEPT ![p.to] = @ \cup {p}]
  /\ income' = IF Receipt(p) THEN [income EXCEPT ![p.to] = @ + 1] ELSE income
  /\ UNCHANGED reply

AdmitOnlyNew(p) ==
  IF status[p.to] # "absent"
  THEN Answer(p, "ok") /\ UNCHANGED <<status, admitted, income>>
  ELSE /\ status' = [status EXCEPT ![p.to] = "pending"]
       /\ admitted' = [admitted EXCEPT ![p.to] = @ \cup {p}]
       /\ income' = IF Receipt(p) THEN [income EXCEPT ![p.to] = @ + 1] ELSE income
       /\ UNCHANGED reply

\* A task that runs already is answered with; any other is created, or reset
\* and reused, and the income is booked.
Admit(p) ==
  IF status[p.to] = "running"
  THEN Answer(p, "ok") /\ UNCHANGED <<status, admitted, income>>
  ELSE /\ status' = [status EXCEPT ![p.to] = "pending"]
       /\ admitted' = [admitted EXCEPT ![p.to] = @ \cup {p}]
       /\ income' = IF Receipt(p) THEN [income EXCEPT ![p.to] = @ + 1] ELSE income
       /\ UNCHANGED reply

\* The endpoint up to its first suspension: the payment gate approves and the
\* row is written before the task is looked at.
Handle(p) ==
  /\ p \in posts
  /\ posts' = posts \ {p}
  /\ paid' = [paid EXCEPT ![p.to] = TRUE]
  /\ Admit(p)
  /\ UNCHANGED <<organizer, runs, cancels, restarts, fresh>>

\* start_task and what the endpoint makes of its answer; the execution goes on
\* in the background.
Begin(p) ==
  /\ p \in admitted[p.to]
  /\ admitted' = [admitted EXCEPT ![p.to] = @ \ {p}]
  /\ IF Startable(status[p.to])
     THEN /\ status' = [status EXCEPT ![p.to] = "running"]
          /\ runs' = [runs EXCEPT ![p.to] = @ \cup {p}]
          /\ Answer(p, "ok")
     ELSE /\ Answer(p, IF status[p.to] = "running" THEN "ok" ELSE "refused")
          /\ UNCHANGED <<status, runs>>
  /\ UNCHANGED <<organizer, posts, paid, income, cancels, restarts, fresh>>

\* Mutated form of Finish: an execution that fails leaves the task as it is.
FinishUnlessFailed(p, s) ==
  /\ p \in runs[p.to]
  /\ runs' = [runs EXCEPT ![p.to] = @ \ {p}]
  /\ status' = IF s = "completed" THEN [status EXCEPT ![p.to] = s] ELSE status
  /\ fresh' = [fresh EXCEPT ![p.to] = @ \/ s = "completed"]
  /\ UNCHANGED <<organizer, posts, reply, admitted, paid, income, cancels, restarts>>

\* execute_as_coordinator ends with complete_task or fail_task.
Finish(p, s) ==
  /\ p \in runs[p.to]
  /\ runs' = [runs EXCEPT ![p.to] = @ \ {p}]
  /\ status' = IF Finishable(status[p.to]) THEN [status EXCEPT ![p.to] = s] ELSE status
  /\ fresh' = [fresh EXCEPT ![p.to] = @ \/ s = "completed"]
  /\ UNCHANGED <<organizer, posts, reply, admitted, paid, income, cancels, restarts>>

\* The cancel endpoint of the worker; the execution is not told.
Cancel(n) ==
  /\ cancels[n] < MaxCancels
  /\ status[n] # "absent" /\ Cancellable(status[n])
  /\ status' = [status EXCEPT ![n] = "cancelled"]
  /\ cancels' = [cancels EXCEPT ![n] = @ + 1]
  /\ UNCHANGED <<organizer, posts, reply, admitted, runs, paid, income, restarts, fresh>>

\* Tasks, requests and executions live in memory; payment_records and the
\* wallet are in the database.
Restart(n) ==
  /\ restarts[n] < MaxRestarts
  /\ restarts' = [restarts EXCEPT ![n] = @ + 1]
  /\ status' = [status EXCEPT ![n] = "absent"]
  /\ admitted' = [admitted EXCEPT ![n] = {}]
  /\ runs' = [runs EXCEPT ![n] = {}]
  /\ UNCHANGED <<organizer, posts, reply, paid, income, cancels, fresh>>

\* The network loses a submission.
Lose(p) ==
  /\ p \in posts
  /\ posts' = posts \ {p}
  /\ UNCHANGED <<organizer, reply, worker, fresh>>

OrganizerStep ==
  \/ \E known \in SUBSET Nodes : Dispatch(known)
  \/ \E n \in Nodes : Accepted(n) \/ NotAccepted(n) \/ ReplyLost(n)
  \/ \E n \in Nodes, o \in Outcomes : Result(n, o)
  \/ Refine

WorkerStep ==
  \/ \E p \in posts : Handle(p) \/ Lose(p)
  \/ \E n \in Nodes : \/ \E p \in admitted[n] : Begin(p)
                      \/ \E p \in runs[n], s \in Settled : Finish(p, s)
                      \/ Cancel(n)
                      \/ Restart(n)

Next == OrganizerStep \/ WorkerStep

Spec == Init /\ [][Next]_vars

-----------------------------------------------------------------------------
(* Properties                                                                *)

\* The shape of the state; requests and executions belong to their worker.
TypeOK ==
  /\ plan \in Plans
  /\ round \in 1 .. MaxRounds
  /\ step \in 0 .. Len(plan)
  /\ call \in [Nodes -> {"idle", "submitting", "waiting"} \cup Outcomes]
  /\ expense \in [Names -> Nat]
  /\ posts \subseteq Post
  /\ reply \in [Nodes -> {"none", "ok", "refused"}]
  /\ \A n \in Nodes : reply[n] # "none" => call[n] = "submitting"
  /\ status \in [Nodes -> Status \cup {"absent"}]
  /\ \A n \in Nodes : /\ admitted[n] \subseteq [to : {n}, round : 1 .. round]
                      /\ runs[n] \subseteq [to : {n}, round : 1 .. round]
                      /\ status[n] = "absent" => admitted[n] \cup runs[n] = {}
  /\ paid \in [Nodes -> BOOLEAN]
  /\ income \in [Nodes -> Nat]
  /\ cancels \in [Nodes -> 0 .. MaxCancels]
  /\ restarts \in [Nodes -> 0 .. MaxRestarts]
  /\ fresh \in [Nodes -> BOOLEAN]

Payees(m) == {n \in Nodes : NameOf[n] = m /\ income[n] > 0}

\* The two books agree, whatever is lost, delayed, retried, cancelled or
\* restarted.  A worker takes in the price of a task at most once, and has done so
\* when it accepted the paid submission, whatever became of its task since
\* ("Record wallet transaction (remote tasks only -- income)"); and the
\* organizer's wallet shows no expense to a name that no worker of that name has
\* taken in.
PaymentsAgree ==
  /\ \A n \in Nodes : /\ income[n] <= 1
                      /\ round = 1 /\ call[n] \in {"waiting", "success"} => income[n] = 1
  /\ \A m \in Names : expense[m] <= Cardinality(Payees(m))

\* The executions of a task agree with its record.  They do not pile up on a worker,
\* there is one more than the task was cancelled, at most; and a task that is running
\* has one that will settle it: without, every later submission would be answered
\* with a task that nobody works on, and wait for nothing.
ExecutionsMatchStatus ==
  \A n \in Nodes : /\ Cardinality(runs[n]) <= 1 + cancels[n]
                   /\ status[n] = "running" => runs[n] # {}

\* A success reported for a submission comes from an execution that completed
\* after the submission was sent: the result of an earlier round, still in the
\* worker's record, is never taken for the answer.
ResultIsNew == \A n \in Nodes : call[n] = "success" => fresh[n]
=============================================================================
