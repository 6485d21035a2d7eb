--------------------------- MODULE RefinementRounds ---------------------------
(***************************************************************************)
(* The execution of one task by the organizer (LocalCrew.execute and       *)
(* execute_sync in src/teaming24/agent/core.py) from the binding of the    *)
(* pool to the settlement: plan, approval, and rounds of dispatch,         *)
(* aggregation and evaluation until a result is accepted, the rounds       *)
(* converge, or the last one is over.                                      *)
(*                                                                         *)
(* The pool is read twice, when it is bound and at each dispatch, and      *)
(* nodes come and go in between: each reading sees some of the records.    *)
(* What was said of the submission of one remote subtask and of payments   *)
(* is in Delegation, the approval itself in RoutingApproval; here a        *)
(* subtask has a result in the end, and the approval one of three answers. *)
(***************************************************************************)
EXTENDS PlanRouter, QualityGate, TaskStatus

CONSTANTS Connected,   \* raw records of connected nodes, in order
          Listed,      \* raw records from the marketplace
          Strategies, PlanAnswers,   \* routers, and answers of the LLM that plans
          Prompts, Texts             \* kinds of tasks, and of answers to them

Records == Range(Connected) \cup Range(Listed)

\* What the sources say of a node has the fields of a raw record.
RecordsAssumption ==
  /\ Connected \in Seq(Records) /\ Listed \in Seq(Records)
  /\ \A n \in Records :
       n \in RawNode({n.id, n.an_id, n.agent_id, n.wallet, n.endpoint, n.name})

\* An answer lists its items, and what is no number has been given one.
PlanAnswersAssumption ==
  \A answer \in PlanAnswers :
    /\ answer.items \in Seq(Range(answer.items))
    /\ \A item \in Range(answer.items) : item.order \in Int

PromptsAssumption == Prompts \subseteq Prompt
TextsAssumption == Texts \subseteq Text

VARIABLES
  pc,          \* "bind", "route", "approve", "dispatch", "await", "evaluate", "finish", "done"
  sync,        \* execute_sync (chat) or execute
  prompt,
  pool,        \* the snapshot taken when the pool was bound; <<>>: no router
  plan,
  round,
  waiting,     \* places in the plan of the subtasks under way or to come; side by side
               \* with others, or without a plan, the local team has place 0
  local,       \* result of the local subtask: its status, and whether it wrote anything
  remote,      \* results of remote subtasks, by target
  trace,       \* do the task's steps look like work?
  result,      \* what this round came to
  scores,      \* history: text, local status, score and verdict of each round
  best,        \* the best result so far and its score
  stagnation,  \* stagnation_count
  accepted,    \* quality_gate_passed
  status,      \* status of the task in the table
  stored       \* the result stored with it, and where it comes from

vars == <<pc, sync, prompt, pool, plan, round, waiting, local, remote, trace, result,
          scores, best, stagnation, accepted, status, stored>>

Outcome == [status: {"success", "error", "skipped"}, wrote: BOOLEAN]

Skipped == [status |-> "skipped", wrote |-> FALSE]

Failure == [status |-> "error", wrote |-> FALSE]

NoResult == [status |-> "none", text |-> EmptyText]

NoPlan == [steps |-> <<>>, mode |-> "none"]

\* The pool when the sources know of the records S.
PoolNow(S) == GetPool(Connected \o Listed, S)

Init ==
  /\ pc = "bind" /\ sync \in BOOLEAN /\ prompt \in Prompts
  /\ pool = <<>> /\ plan = NoPlan /\ round = 0
  /\ waiting = {} /\ local = Skipped /\ remote = <<>>
  /\ trace \in BOOLEAN   \* the first step quotes the prompt, and its words may pass for work
  /\ result = NoResult /\ scores = <<>> /\ best = [score |-> -100, result |-> NoResult]
  /\ stagnation = 0 /\ accepted = FALSE
  /\ status = "running" /\ stored = "nothing"

-----------------------------------------------------------------------------
(* Planning.                                                                 *)

\* bind_workforce_pool takes the snapshot the router will plan from; when it
\* raises, the task runs without a router.
Bind(S) ==
  /\ pc = "bind"
  /\ pool' = PoolNow(S)
  /\ pc' = "route"
  /\ UNCHANGED <<sync, prompt, plan, round, waiting, local, remote, trace, result, scores,
                 best, stagnation, accepted, status, stored>>

BindFails ==
  /\ pc = "bind"
  /\ pc' = "dispatch" /\ round' = 1
  /\ UNCHANGED <<sync, prompt, pool, plan, waiting, local, remote, trace, result, scores,
                 best, stagnation, accepted, status, stored>>

MakePlan(strategy, answer) ==
  /\ pc = "route"
  /\ plan' = Route(strategy, pool, answer)
  /\ pc' = "approve"
  /\ UNCHANGED <<sync, prompt, pool, round, waiting, local, remote, trace, result, scores,
                 best, stagnation, accepted, status, stored>>

HasRemote(p) == \E i \in DOMAIN p.steps : p.steps[i].remote
HasLocal(p)  == \E i \in DOMAIN p.steps : ~p.steps[i].remote

LocalPart(p) == [p EXCEPT !.steps = SelectSeq(@, LAMBDA s : ~s.remote)]

\* _request_routing_approval: the plan, its local part, or no execution.
Approve(answer) ==
  /\ pc = "approve"
  /\ answer # "allow" => HasRemote(plan)
  /\ plan' = IF answer = "local" THEN LocalPart(plan) ELSE plan
  /\ IF answer = "deny"
     THEN /\ pc' = "done" /\ status' = IF Finishable(status) THEN "failed" ELSE status
          /\ round' = round
     ELSE pc' = "dispatch" /\ round' = 1 /\ status' = status
  /\ UNCHANGED <<sync, prompt, pool, waiting, local, remote, trace, result, scores,
                 best, stagnation, accepted, stored>>

-----------------------------------------------------------------------------
(* Dispatch.                                                                 *)

RemotePlaces(p) == {i \in DOMAIN p.steps : p.steps[i].remote}

\* A target that is no longer in the pool has failed before it is asked.
Gone(p, now) ==
  {i \in RemotePlaces(p) : \A j \in DOMAIN now : now[j].id # p.steps[i].target}

\* (The mutated form of ResultsOf: a node that has gone leaves no result.)
ResultsForgotten(p, places) == <<>>

ResultsOf(p, places) == [t \in {p.steps[i].target : i \in places} |-> Failure]

\* delegate_task, once for each submission.
AfterDelegation(places) ==
  IF places # {} /\ Delegable(status) THEN "delegated" ELSE status

\* _dispatch_parallel, or the local team alone without a plan: everything at
\* once.  The local subtasks are one execution; a target is submitted to once.  The step that announces a remote subtask speaks of
\* HTTP, which the look for traces of work takes for one.
DispatchAll(S) ==
  LET gone == Gone(plan, PoolNow(S))
  IN  /\ pc = "dispatch" /\ plan.mode # "sequential"
      /\ waiting' = (RemotePlaces(plan) \ gone)
                    \cup (IF HasLocal(plan) \/ plan = NoPlan THEN {0} ELSE {})
      /\ local' = Skipped
      /\ remote' = ResultsOf(plan, gone)
      /\ status' = AfterDelegation(RemotePlaces(plan) \ gone)
      /\ trace' = (trace \/ HasRemote(plan))
      /\ pc' = "await"
      /\ UNCHANGED <<sync, prompt, pool, plan, round, result, scores, best, stagnation,
                     accepted, stored>>

\* _dispatch_sequential: the steps in their order.
DispatchChain ==
  /\ pc = "dispatch" /\ plan.mode = "sequential"
  /\ waiting' = DOMAIN plan.steps
  /\ local' = Skipped /\ remote' = <<>>
  /\ pc' = "await"
  /\ UNCHANGED <<sync, prompt, pool, plan, round, trace, result, scores, best, stagnation,
                 accepted, status, stored>>

\* What a subtask may come to.  A local error may carry what an earlier round of
\* the framework wrote.
LocalResults == [status: {"success", "error"}, wrote: BOOLEAN]

RemoteResults == [status: {"success"}, wrote: BOOLEAN] \cup {Failure}

ResultsAt(i) == IF i \in RemotePlaces(plan) THEN RemoteResults ELSE LocalResults

With(results, target, r) ==
  [t \in DOMAIN results \cup {target} |-> IF t = target THEN r ELSE results[t]]

\* One of the subtasks that run side by side has ended.  The work of the local
\* team may or may not leave steps that look like work.
OneEnds(i, r, works) ==
  /\ pc = "await" /\ plan.mode # "sequential" /\ i \in waiting /\ r \in ResultsAt(i)
  /\ waiting' = waiting \ {i}
  /\ IF i \in RemotePlaces(plan)
     THEN remote' = With(remote, plan.steps[i].target, r) /\ local' = local
     ELSE local' = r /\ remote' = remote
  /\ trace' = (trace \/ works)
  /\ UNCHANGED <<pc, sync, prompt, pool, plan, round, result, scores, best, stagnation,
                 accepted, status, stored>>

\* The next step of the chain is the one with the least order, and of equals the
\* first.
NextInChain(i) ==
  /\ i \in waiting
  /\ \A j \in waiting \ {i} :
       \/ plan.steps[i].order < plan.steps[j].order
       \/ plan.steps[i].order = plan.steps[j].order /\ i < j

\* A dispatch raises.  Beside a local subtask that costs the results of all nodes;
\* otherwise it ends the execution, and only execute_sync then fails the task.
DispatchRaises ==
  /\ pc = "await"
  /\ \/ plan.mode = "sequential" /\ \E i \in RemotePlaces(plan) : NextInChain(i)
     \/ plan.mode = "parallel" /\ waiting \cap RemotePlaces(plan) # {}
     \/ plan = NoPlan /\ waiting # {} /\ ~sync
  /\ IF plan.mode = "parallel" /\ HasLocal(plan)
     THEN /\ remote' = <<>> /\ waiting' = waiting \ RemotePlaces(plan)
          /\ UNCHANGED <<pc, status>>
     ELSE /\ pc' = "done" /\ waiting' = {} /\ remote' = remote
          /\ status' = IF sync /\ Finishable(status) THEN "failed" ELSE status
  /\ UNCHANGED <<sync, prompt, pool, plan, round, local, trace, result, scores, best,
                 stagnation, accepted, stored>>

\* A step of the chain ends; an error ends the chain.
ChainStep(i, r, S, works) ==
  LET asked == i \in RemotePlaces(plan)
      gone  == i \in Gone(plan, PoolNow(S))
      out   == IF gone THEN Failure ELSE r
  IN  /\ pc = "await" /\ plan.mode = "sequential" /\ NextInChain(i) /\ r \in ResultsAt(i)
      /\ waiting' = IF out.status = "error" THEN {} ELSE waiting \ {i}
      /\ IF asked
         THEN remote' = With(remote, plan.steps[i].target, out) /\ local' = local
         ELSE local' = out /\ remote' = remote
      /\ status' = IF asked /\ ~gone THEN AfterDelegation({i}) ELSE status
      /\ trace' = (trace \/ works \/ asked)
      /\ UNCHANGED <<pc, sync, prompt, pool, plan, round, result, scores, best, stagnation,
                     accepted, stored>>

-----------------------------------------------------------------------------
(* Aggregation and evaluation.                                               *)

Failed(rs) == \E t \in DOMAIN rs : rs[t].status = "error"

\* Is there anything to aggregate?  A failed node contributes its error.
Parts == DOMAIN remote \cup (IF local.wrote THEN {"local"} ELSE {})

\* The synthesis of an LLM, or the outputs themselves: a text of any kind, but
\* nothing comes of nothing, nor of the empty success of a single node.
Syntheses ==
  IF Parts = {} THEN {EmptyText}
  ELSE IF \E t \in DOMAIN remote : Parts = {t} /\ remote[t] = [status |-> "success", wrote |-> FALSE]
  THEN Texts \cup {EmptyText}
  ELSE Texts

OverallStatus ==
  IF local.status # "skipped" THEN local.status
  ELSE IF Failed(remote) THEN "partial" ELSE "success"

Improved(score) == score > best.score + 1

\* _aggregate_results and the bookkeeping of the round.  Texts of one kind may be
\* the same text.
Aggregate(t, same) ==
  LET score == Score(prompt, t, trace)
      now   == [status |-> OverallStatus, text |-> t]
  IN  /\ pc = "await" /\ waiting = {} /\ t \in Syntheses
      /\ same => round > 1 /\ scores[round - 1].text = t
      /\ result' = now
      /\ scores' = Append(scores, [text |-> t, local |-> local.status, score |-> score, ok |-> FALSE])
      /\ best' = IF Improved(score) THEN [score |-> score, result |-> now] ELSE best
      /\ stagnation' = IF round > 1 /\ (same \/ ~Improved(score)) THEN stagnation + 1 ELSE 0
      /\ pc' = "evaluate"
      /\ UNCHANGED <<sync, prompt, pool, plan, round, waiting, local, remote, trace, accepted,
                     status, stored>>

Converged == stagnation >= 1 /\ best.score >= 45

\* (The mutated form of MoreRounds: one round too many.)
OneRoundMore == round <= RoundsFor(prompt)

MoreRounds == round < RoundsFor(prompt)

\* (The mutated form of ConvergedResult: the latest, not the best.)
LatestResult == result

\* The result the rounds converge to.
ConvergedResult == best.result

\* _evaluate_result, and whether there is another round.
Evaluate(verdict) ==
  /\ pc = "evaluate" /\ verdict \in Verdicts(prompt, result.text, trace, round)
  /\ scores' = [scores EXCEPT ![round].ok = verdict]
  /\ IF verdict
     THEN accepted' = TRUE /\ pc' = "finish" /\ UNCHANGED <<result, round>>
     ELSE IF MoreRounds /\ Converged
     THEN accepted' = TRUE /\ pc' = "finish" /\ result' = ConvergedResult /\ round' = round
     ELSE IF MoreRounds
     THEN accepted' = FALSE /\ pc' = "dispatch" /\ round' = round + 1 /\ result' = result
     ELSE /\ accepted' = FALSE /\ pc' = "finish" /\ round' = round
          /\ result' = [result EXCEPT !.status = "error"]
  /\ UNCHANGED <<sync, prompt, pool, plan, waiting, local, remote, trace, best, stagnation,
                 status, stored>>

\* What execute puts in the place of a text that is too short: the last long step
\* of the task.  Steps of workers may be among them, and so may the organizer's
\* own summary of who took part, which is the last of all.
Fallbacks == {"answer"} \cup (IF ~sync /\ result.text.size # "long" THEN {"worker", "organizer"} ELSE {})

\* The end of the execution settles the task.
Finish(source) ==
  /\ pc = "finish" /\ source \in Fallbacks
  /\ pc' = "done"
  /\ IF ~Finishable(status) THEN UNCHANGED <<status, stored>>
     ELSE IF result.status = "error" THEN status' = "failed" /\ stored' = stored
     ELSE status' = "completed" /\ stored' = source
  /\ UNCHANGED <<sync, prompt, pool, plan, round, waiting, local, remote, trace, result,
                 scores, best, stagnation, accepted>>

-----------------------------------------------------------------------------
Next ==
  \/ \E S \in SUBSET Records : Bind(S) \/ DispatchAll(S)
  \/ BindFails \/ DispatchChain \/ DispatchRaises
  \/ \E s \in Strategies, a \in PlanAnswers : MakePlan(s, a)
  \/ \E a \in {"allow", "local", "deny"} : Approve(a)
  \/ \E i \in waiting, r \in LocalResults, w \in BOOLEAN :
       OneEnds(i, r, w) \/ \E S \in SUBSET Records : ChainStep(i, r, S, w)
  \/ \E t \in Texts \cup {EmptyText}, same \in BOOLEAN : Aggregate(t, same)
  \/ \E v \in BOOLEAN : Evaluate(v)
  \/ \E f \in {"answer", "worker", "organizer"} : Finish(f)

Spec == Init /\ [][Next]_vars

-----------------------------------------------------------------------------
TargetsOf(p) == {p.steps[i].target : i \in RemotePlaces(p)}

\* The state has its type: the table of results only knows nodes of the plan, and
\* the history has an entry for each round that was aggregated.
TypeOK ==
  /\ pc \in {"bind", "route", "approve", "dispatch", "await", "evaluate", "finish", "done"}
  /\ sync \in BOOLEAN /\ prompt \in Prompts /\ trace \in BOOLEAN /\ accepted \in BOOLEAN
  /\ round \in 0 .. RoundsFor(prompt) /\ stagnation \in 0 .. RoundsFor(prompt)
  /\ plan.mode \in {"none", "parallel", "sequential"}
  /\ waiting \subseteq {0} \cup DOMAIN plan.steps
  /\ local \in Outcome
  /\ DOMAIN remote \subseteq TargetsOf(plan) /\ \A t \in DOMAIN remote : remote[t] \in RemoteResults
  /\ result.text \in Texts \cup {EmptyText}
  /\ result.status \in {"none", "success", "error", "partial"}
  /\ Len(scores) \in {round - 1, round} \cup {0}
  /\ best.score = -100 \/ \E k \in DOMAIN scores : best.score = scores[k].score
  /\ status \in Status /\ stored \in {"nothing", "answer", "worker", "organizer"}

\* However the LLM answers, the plan is one the organizer can execute and a user
\* can approve: it has subtasks, as many as configured or as the pool has members;
\* it sends nodes of the snapshot something to do, none of them twice, and no two
\* of them under different names of one node.
PlanIsSound ==
  pc = "approve" =>
    /\ plan.steps # <<>>
    /\ RemoteEntries(pool) # {} => Len(plan.steps) >= Least(MinPoolMembers, Len(pool))
    /\ TargetsOf(plan) \subseteq {pool[i].id : i \in RemoteEntries(pool)}
    /\ Cardinality(TargetsOf(plan)) = Cardinality(RemotePlaces(plan))
    /\ \A i, j \in RemoteEntries(pool) :
         i # j /\ {pool[i].id, pool[j].id} \subseteq TargetsOf(plan)
           => pool[i].tokens \cap pool[j].tokens = {}

\* A round knows of every node it was to ask: one without a result was left out
\* because the chain broke before it, or because the dispatch beside a local
\* subtask raised.
EveryTargetAnswers ==
  pc = "evaluate" =>
    \/ DOMAIN remote = TargetsOf(plan)
    \/ plan.mode = "sequential" /\ (Failed(remote) \/ local.status = "error")
    \/ plan.mode = "parallel" /\ HasLocal(plan) /\ remote = <<>>

\* How the task ends agrees with what its rounds came to.  A task is completed
\* with a text that is not empty, of a round whose local subtask did not fail, and
\* that the gate accepted or no other round surpassed.  A task fails because it was
\* denied, the dispatch raised, a local subtask failed, or no round satisfied the gate.
OutcomeJustified ==
  /\ status = "completed" =>
       /\ GateEnabled => result.text.size # "empty"
       /\ \E k \in DOMAIN scores :
            /\ scores[k].text = result.text /\ scores[k].local # "error"
            /\ \/ scores[k].ok
               \/ \A j \in DOMAIN scores : scores[j].score <= scores[k].score + 1
  /\ status = "failed" =>
       \A k \in DOMAIN scores : scores[k].ok => scores[k].local = "error"
=============================================================================
