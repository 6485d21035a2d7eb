---------------------------- MODULE CoordinatorRun ----------------------------
(***************************************************************************)
(* The coordinator and its workers execute one task of another node, or one  *)
(* local subtask of the organizer (execute_as_coordinator and               *)
(* _run_local_subtask in src/teaming24/agent/core.py).  On the native         *)
(* backend a manager's plan is executed by the workers in parallel and put     *)
(* together (agent/framework/native/runner.py), and what comes of it is refined  *)
(* until it is acceptable, does not change any more, or the rounds are used     *)
(* up.  On the other backend a CrewAI crew does it in one call.                *)
(*                                                                         *)
(* A text is one of a few kinds.  The run of one agent is AgentLoop; here it     *)
(* ends with a text, which is "failure" when its LLM failed.                  *)
(***************************************************************************)
EXTENDS SequencesExt, FiniteSets, TaskStatus

CONSTANTS Workers,     \* roles of the workers, in order
          MaxLocalRounds,   \* local_coordinator_max_refinement_rounds
          Answers      \* assignments a router or manager may answer with: sets of roles

CoordinatorRunAssumption ==
  /\ IsInjective(Workers) /\ MaxLocalRounds \in Nat \ {0}

Texts == {"empty", "poor", "other", "good", "failure"}

\* _is_local_result_acceptable: long or concrete enough.  The message of a failed LLM
\* call is long enough.
Acceptable(text) == text \in {"good", "failure"}

\* The text that stands for no text after the last round.
NoSatisfactoryResult == "poor"

VARIABLES
  entry,      \* "remote" (execute_as_coordinator) or "subtask"
  backend,    \* "native", "broken" (native, but there is no adapter), "crewai"
  ml,         \* does the prompt speak of machine learning?
  pc,
  team,       \* workers on line when the execution began
  assigned,   \* labels of the plan under way; a label assigned twice keeps one text
  results,    \* text by label
  answers,    \* history: the texts of the rounds
  stagnated,  \* stagnated_rounds
  report,     \* status and text of the result
  status      \* status of the task

runVars ==
  <<entry, backend, ml, pc, team, assigned, results, answers, stagnated, report, status>>

NoReport == [status |-> "none", text |-> "empty"]
Report(s, t) == [status |-> s, text |-> t]

RunTypeOK ==
  /\ entry \in {"remote", "subtask"} /\ backend \in {"native", "broken", "crewai"}
  /\ ml \in BOOLEAN
  /\ pc \in {"receive", "crew", "plan", "work", "aggregate", "judge", "ml", "settle", "ended"}
  /\ team \subseteq Range(Workers)
  /\ DOMAIN results \subseteq assigned /\ Range(results) \subseteq Texts
  /\ answers \in Seq(Texts) /\ Len(answers) <= MaxLocalRounds
  /\ stagnated \in 0 .. 1
  /\ report.status \in {"none", "success", "error", "raised"}
  /\ status \in Status

RunInit ==
  /\ entry \in {"remote", "subtask"} /\ backend \in {"native", "broken", "crewai"}
  /\ ml \in BOOLEAN
  /\ pc = "receive" /\ team = {} /\ assigned = {} /\ results = <<>> /\ answers = <<>>
  /\ stagnated = 0 /\ report = NoReport /\ status = "running"

Ends(s, t) ==
  /\ pc' = IF entry = "remote" THEN "ml" ELSE "ended"
  /\ report' = Report(s, t)

\* _fail_and_return.
Fails ==
  /\ pc' = "ended" /\ report' = Report("error", "empty")
  /\ status' = IF entry = "remote" /\ Finishable(status) THEN "failed" ELSE status

-----------------------------------------------------------------------------

\* There is an adapter for the native backend only; CrewAI has the crews.
HasAdapter == backend = "native"

\* The team is bound.  Without a coordinator, or with the native backend configured and
\* no adapter, the execution fails; without native backend a CrewAI crew is used.
Receive(online) ==
  /\ pc = "receive"
  /\ team' = online
  /\ IF backend = "broken"
     THEN Fails
     ELSE /\ pc' = IF HasAdapter THEN "plan" ELSE "crew"
          /\ UNCHANGED <<report, status>>
  /\ UNCHANGED <<entry, backend, ml, assigned, results, answers, stagnated>>

NoCoordinator ==
  /\ pc = "receive" /\ entry = "remote"
  /\ Fails
  /\ UNCHANGED <<entry, backend, ml, team, assigned, results, answers, stagnated>>

\* CrewWrapper, which reports its errors; without CrewAI its constructor raises.
CrewEnds(s, t) ==
  /\ pc = "crew"
  /\ Ends(s, IF s = "success" THEN t ELSE "empty")
  /\ UNCHANGED <<entry, backend, ml, team, assigned, results, answers, stagnated, status>>

CrewMissing ==
  /\ pc = "crew"
  /\ pc' = "ended" /\ report' = Report("raised", "empty")
  /\ UNCHANGED <<entry, backend, ml, team, assigned, results, answers, stagnated, status>>

-----------------------------------------------------------------------------
(* HierarchicalRunner.run.                                                  *)

\* Without workers a spare executor takes their place: the manager never executes.
Executors == IF team = {} THEN {"TaskExecutor"} ELSE team

\* The first executor, in the order of the workers.
First ==
  IF team = {} THEN "TaskExecutor"
  ELSE Workers[CHOOSE i \in DOMAIN Workers :
                 /\ Workers[i] \in team
                 /\ \A j \in DOMAIN Workers : Workers[j] \in team => i <= j]

\* LocalAgentRouter.route: a call that fails and an answer that assigns nothing give
\* everything to the first worker, and nobody is asked when there is no worker.
Routed(answer) == IF team = {} THEN {} ELSE IF answer = {} THEN {First} ELSE answer

\* Without a router the manager is asked for a plan.
PlansFor(answer) == {Routed(answer), answer}

\* An empty plan assigns everything to the first executor.
Assigned(plan) == IF plan = {} THEN {First} ELSE plan

\* Labels nobody bears are passed over.
Plan(answer) ==
  /\ pc = "plan"
  /\ \E plan \in PlansFor(answer) : assigned' = Assigned(plan) \cap Executors
  /\ pc' = "work"
  /\ UNCHANGED <<entry, backend, ml, team, results, answers, stagnated, report, status>>

\* An answer that is no plan at all raises, in the round.
PlanRaises ==
  /\ pc = "plan"
  /\ Ends("error", IF answers = <<>> THEN "empty" ELSE Last(answers))
  /\ UNCHANGED <<entry, backend, ml, team, assigned, results, answers, stagnated, status>>

\* All workers have ended.
WorkersEnd(texts) ==
  /\ pc = "work"
  /\ results' = texts
  /\ pc' = "aggregate"
  /\ UNCHANGED <<entry, backend, ml, team, assigned, answers, stagnated, report, status>>

\* Mutated form: the count of equal rounds is not reset by a different one.
AggregateSticky(text) ==
  /\ pc = "aggregate"
  /\ CASE DOMAIN results = {}              -> text = "empty"
       [] Cardinality(DOMAIN results) = 1  -> text \in Range(results)
       [] OTHER                            -> TRUE
  /\ answers' = Append(answers, text)
  /\ stagnated' = IF answers # <<>> THEN 1 ELSE 0
  /\ pc' = "judge"
  /\ UNCHANGED <<entry, backend, ml, team, assigned, results, report, status>>

\* Several results are put together by a run of the manager, one is passed on as it is.
Aggregate(text) ==
  /\ pc = "aggregate"
  /\ CASE DOMAIN results = {}              -> text = "empty"
       [] Cardinality(DOMAIN results) = 1  -> text \in Range(results)
       [] OTHER                            -> TRUE
  /\ answers' = Append(answers, text)
  /\ stagnated' = IF answers # <<>> /\ text = Last(answers) THEN stagnated + 1 ELSE 0
  /\ pc' = "judge"
  /\ UNCHANGED <<entry, backend, ml, team, assigned, results, report, status>>

\* The end of a round of _run_via_adapter: the text is accepted, it has not changed, the
\* rounds are used up, or there is another one.
Judge ==
  /\ pc = "judge"
  /\ IF Acceptable(Last(answers)) \/ stagnated >= 1 \/ Len(answers) = MaxLocalRounds
     THEN Ends("success", IF Len(answers) = MaxLocalRounds /\ Last(answers) = "empty"
                          THEN NoSatisfactoryResult ELSE Last(answers))
     ELSE pc' = "plan" /\ UNCHANGED report
  /\ assigned' = {} /\ results' = <<>>
  /\ UNCHANGED <<entry, backend, ml, team, answers, stagnated, status>>

-----------------------------------------------------------------------------

\* _run_local_ml_experiment: with the library, else in pure Python, else it says that
\* both failed.  What it says is added to the text.
MlExperiment ==
  /\ pc = "ml"
  /\ pc' = "settle"
  /\ report' = IF ml /\ report.text = "empty" THEN [report EXCEPT !.text = "other"] ELSE report
  /\ UNCHANGED <<entry, backend, ml, team, assigned, results, answers, stagnated, status>>

\* Its directory cannot be made.
MlRaises ==
  /\ pc = "ml" /\ ml
  /\ pc' = "ended" /\ report' = Report("raised", "empty")
  /\ UNCHANGED <<entry, backend, ml, team, assigned, results, answers, stagnated, status>>

\* Mutated form: only an execution that reported no text has failed.
SettleByText ==
  /\ pc = "settle"
  /\ status' = IF ~Finishable(status) THEN status
               ELSE IF report.text = "empty" THEN "failed" ELSE "completed"
  /\ pc' = "ended"
  /\ UNCHANGED <<entry, backend, ml, team, assigned, results, answers, stagnated, report>>

\* A remote task is settled as the result says.
Settle ==
  /\ pc = "settle"
  /\ status' = IF ~Finishable(status) THEN status
               ELSE IF report.status = "error" THEN "failed" ELSE "completed"
  /\ pc' = "ended"
  /\ UNCHANGED <<entry, backend, ml, team, assigned, results, answers, stagnated, report>>

RunNext ==
  \/ \E online \in SUBSET Range(Workers) : Receive(online)
  \/ NoCoordinator
  \/ \E s \in {"success", "error"}, t \in Texts : CrewEnds(s, t)
  \/ CrewMissing
  \/ \E a \in Answers \cup {{}} : Plan(a)
  \/ PlanRaises
  \/ \E texts \in [assigned -> Texts] : WorkersEnd(texts)
  \/ \E t \in Texts : Aggregate(t)
  \/ Judge
  \/ MlExperiment
  \/ MlRaises
  \/ Settle

RunSpec == RunInit /\ [][RunNext]_runVars

-----------------------------------------------------------------------------

\* A success whose text is not acceptable is reported only when refinement has no more
\* to offer: the last two rounds came to the same, or there are no more rounds.  A task
\* of another node ends as its result says, and not before there is one.
LocalOutcomeJustified ==
  /\ report.status = "success" /\ backend = "native" /\ ~Acceptable(Last(answers)) =>
       \/ Len(answers) = MaxLocalRounds
       \/ Len(answers) > 1 /\ Last(answers) = answers[Len(answers) - 1]
  /\ entry = "remote" =>
       /\ status = "completed" => report.status = "success"
       /\ status = "failed" => report.status = "error"
       /\ pc = "ended" /\ report.status # "raised" => status # "running"
=============================================================================
