----------------------------- MODULE MCDelegation -----------------------------
(***************************************************************************)
(* How an organizer gets a task done: the rounds of one execution              *)
(* (RefinementRounds), and the submission of its subtasks to other nodes       *)
(* (Delegation), each at its own level of detail.  A behaviour exercises one.   *)
(***************************************************************************)
EXTENDS Delegation, TLC

\* Delegation: two workers, dispatched to in parallel or one after the other.
CONSTANTS n1, n2, a, b

MCNodes == {n1, n2}
MCNames == {a, b}
MCNameOf == n1 :> a @@ n2 :> b
MCPlans == {<<{n1, n2}>>, <<{n1}, {n2}>>}

\* RefinementRounds, with the constants of the modules it extends.
CONSTANTS none, Missing, MinPoolMembers, Alike, Profile, GateEnabled, Confidences,
          HasVerifier, Connected, Listed, Strategies, PlanAnswers, Prompts, Texts

VARIABLES part,
          pc, sync, prompt, pool, chosen, current, waiting, local, remote, trace, result,
          scores, best, stagnation, accepted, outcome, stored

executionVars == <<pc, sync, prompt, pool, chosen, current, waiting, local, remote, trace,
                   result, scores, best, stagnation, accepted, outcome, stored>>

Execution == INSTANCE RefinementRounds
               WITH plan <- chosen, round <- current, status <- outcome

ASSUME ExecutionAssumption ==
  /\ Execution!RecordsAssumption /\ Execution!PlanAnswersAssumption
  /\ Execution!MinPoolMembersAssumption /\ Execution!ProfileAssumption
  /\ Execution!ConfidencesAssumption
  /\ Execution!PromptsAssumption /\ Execution!TextsAssumption

\* RefinementRounds: two nodes, one of them known from two sources, and answers of
\* every kind.
Raw == [dict |-> FALSE, online |-> TRUE, id |-> none, an_id |-> none, agent_id |-> none,
        wallet |-> none, endpoint |-> none, name |-> none, cost |-> 0]

\* Alice is connected; the marketplace lists her under the id of her node, with
\* the same address, and Bob.
Alice  == [Raw EXCEPT !.id = "peer-a", !.endpoint = "ip-a", !.name = "alice", !.cost = 2]
Alice2 == [Raw EXCEPT !.dict = TRUE, !.an_id = "an-a", !.endpoint = "ip-a", !.name = "alice"]
Bob    == [Raw EXCEPT !.dict = TRUE, !.an_id = "an-b", !.endpoint = "ip-b", !.name = "alice",
                      !.cost = 1]

MCConnected == <<Alice>>
MCListed == <<Alice2, Bob>>

Item(to, order) == [to |-> to, order |-> order]

PlanAnswer(mode, items) == [usable |-> TRUE, mode |-> mode, items |-> items]

\* The call fails; the same node twice under two names, in a chain; the local team
\* and a name two nodes bear; an order turned round and a name nobody bears.
MCPlanAnswers ==
  {[usable |-> FALSE, mode |-> "", items |-> <<>>],
   PlanAnswer("sequential", <<Item("an-b", 2), Item("alice", 1), Item("ip-b", -1)>>),
   PlanAnswer("", <<Item("local-coordinator", 1), Item("ali", 1)>>),
   PlanAnswer("parallel", <<Item("alice", 1), Item("alice", 2), Item("no object", 3)>>),
   PlanAnswer("sequential", <<Item("carol", 3), Item("peer-a", 1)>>)}

MCAlike == {<<"ali", "alice">>}

Nothing == [size |-> "empty", plan |-> FALSE, givesUp |-> FALSE, unfinished |-> FALSE,
            concrete |-> FALSE, shows |-> {}]

Plain  == [Nothing EXCEPT !.size = "long"]
Full   == [Plain EXCEPT !.concrete = TRUE, !.shows = {"direct", "commands", "numbers"}]
Plan   == [Plain EXCEPT !.plan = TRUE]
Brief  == [Nothing EXCEPT !.size = "short"]
GaveUp == [Plain EXCEPT !.givesUp = TRUE]

MCTexts == {Plain, Full, Plan, Brief, GaveUp}

MCPrompts ==
  {[class |-> "coding", empirical |-> FALSE, wantsPlan |-> FALSE, wordy |-> TRUE],
   [class |-> "general", empirical |-> FALSE, wantsPlan |-> FALSE, wordy |-> FALSE]}

BothInit ==
  /\ part \in {"execution", "delegation"}
  /\ Init /\ Execution!Init
  /\ part = "execution" => plan = CHOOSE p \in Plans : TRUE
  /\ part = "delegation" => sync /\ trace /\ prompt = CHOOSE p \in Prompts : TRUE

BothNext ==
  /\ UNCHANGED part
  /\ \/ part = "execution" /\ Execution!Next /\ UNCHANGED vars
     \/ part = "delegation" /\ Next /\ UNCHANGED executionVars

BothSpec == BothInit /\ [][BothNext]_<<part, vars, executionVars>>

\* The variables of both have their types.
BothTypeOK == TypeOK /\ Execution!TypeOK

\* The properties of RefinementRounds: plans can be executed, rounds account for their
\* targets, and the task ends as its rounds justify.
PlanIsSound == Execution!PlanIsSound
OutcomeJustified == Execution!EveryTargetAnswers /\ Execution!OutcomeJustified
=============================================================================
