------------------------------ MODULE PlanRouter ------------------------------
(***************************************************************************)
(* The routers of src/teaming24/agent/an_router.py: from a task and a      *)
(* snapshot of the pool to a plan.  ANRouter asks an LLM; whatever comes   *)
(* back is resolved to members of the pool, repaired, and filled up to the *)
(* configured number of members.  ScoringANRouter ranks the members.       *)
(*                                                                         *)
(* An answer of the LLM is [usable, mode, items]: not usable when the call *)
(* fails or the text is not the JSON object that was asked for.  An item   *)
(* names a member ([to, order]) or is no object at all (to = NoObject).    *)
(***************************************************************************)
EXTENDS WorkforcePool, Integers, FiniteSets

CONSTANTS MinPoolMembers,  \* an_router.min_pool_members
          Alike            \* pairs <<text, name>>, one of them contained in the other

MinPoolMembersAssumption == MinPoolMembers \in Nat \ {0}

NoObject == "no object"
NoOrder  == -1            \* an order that is not a number

Subtask(e, order) == [remote |-> e.remote, target |-> e.id, order |-> order]

LocalAliases == {"local coordinator", "coordinator", "local team coordinator"}

RemoteEntries(pool) == {i \in DOMAIN pool : pool[i].remote}

\* _local_only_plan
LocalOnlyPlan == [steps |-> <<Subtask(LocalEntry, 0)>>, mode |-> "parallel"]

-----------------------------------------------------------------------------
(* The name under which the LLM sees a member: its own, or, where two bear   *)
(* it, one with the address in it.                                           *)

DisplayName(pool, i) ==
  IF \E j \in DOMAIN pool \ {i} : pool[j].name = pool[i].name
  THEN pool[i].endpoint ELSE pool[i].name

NamesOf(pool, i) ==
  {pool[i].name, DisplayName(pool, i)} \cup (IF pool[i].remote THEN {} ELSE LocalAliases)

FirstOf(S) == CHOOSE i \in S : \A j \in S : i <= j

\* Place of a member in the look-up by part of a name: names in the order of
\* their first bearer, bearers of one name in the order of the pool.
Place(pool, i) == FirstOf({j \in DOMAIN pool : pool[j].name = pool[i].name}) * Len(pool) + i

(* _resolve_by_an_id: the identifier decides; otherwise the first member not *)
(* yet assigned that bears the name, or part of it (for names only; aliases  *)
(* and addresses have to be given in full).  0: no member.                   *)
Resolve(pool, to, assigned) ==
  LET byId    == {i \in DOMAIN pool : pool[i].id = to}
      free    == {i \in DOMAIN pool : pool[i].id \notin assigned}
      byName  == {i \in free : to \in NamesOf(pool, i)}
      byPart  == {i \in free : <<to, pool[i].name>> \in Alike}
  IN  IF byId # {} THEN FirstOf(byId)
      ELSE IF byName # {} THEN FirstOf(byName)
      ELSE IF byPart # {} THEN CHOOSE i \in byPart : \A j \in byPart : Place(pool, i) <= Place(pool, j)
      ELSE 0

\* One item of the answer: acc is what has been built so far.
AssignItem(pool, acc, item) ==
  LET i     == Resolve(pool, item.to, acc.assigned)
      order == IF item.order = NoOrder THEN acc.idx + 1 ELSE item.order
      e     == IF i = 0 THEN LocalEntry ELSE pool[i]
  IN  IF item.to = NoObject \/ (i # 0 /\ e.id \in acc.assigned)
      THEN [acc EXCEPT !.idx = @ + 1]
      ELSE [steps    |-> Append(acc.steps, Subtask(e, order)),
            assigned |-> acc.assigned \cup (IF i = 0 THEN {} ELSE {e.id}),
            idx      |-> acc.idx + 1]

Nothing == [steps |-> <<>>, assigned |-> {}, idx |-> 0]

\* _parse_routing_response: the items one after the other.
ParseRoutingResponse(pool, answer) ==
  LET after[k \in 0 .. Len(answer.items)] ==
        IF k = 0 THEN Nothing ELSE AssignItem(pool, after[k - 1], answer.items[k])
      steps == after[Len(answer.items)].steps
  IN  IF ~answer.usable THEN LocalOnlyPlan
      ELSE [steps |-> IF steps = <<>> THEN LocalOnlyPlan.steps ELSE steps,
            mode  |-> IF answer.mode = "sequential" THEN "sequential" ELSE "parallel"]

-----------------------------------------------------------------------------
(* _enforce_min_pool_members: members the plan does not name are added, in   *)
(* the order of the pool, until it has enough subtasks.                      *)

Least(a, b) == IF a < b THEN a ELSE b

HighestOrder(steps) ==
  IF steps = <<>> THEN 0
  ELSE CHOOSE m \in {steps[i].order : i \in DOMAIN steps} :
         \A i \in DOMAIN steps : steps[i].order <= m

Selected(pool, plan) ==
  {plan.steps[i].target : i \in {j \in DOMAIN plan.steps : plan.steps[j].remote}}
  \cup (IF \E i \in DOMAIN plan.steps : ~plan.steps[i].remote THEN {LOCAL_COORDINATOR_ID} ELSE {})

EnforceMinPoolMembers(pool, plan) ==
  LET wanted   == Least(MinPoolMembers, Len(pool))
      selected == Selected(pool, plan)
      filled[k \in 0 .. Len(pool)] ==
        IF k = 0 THEN plan.steps
        ELSE IF Len(filled[k - 1]) < wanted /\ pool[k].id \notin selected
             THEN Append(filled[k - 1], Subtask(pool[k], HighestOrder(filled[k - 1]) + 1))
             ELSE filled[k - 1]
  IN  [plan EXCEPT !.steps = filled[Len(pool)]]

\* ANRouter.route
LlmRoute(pool, answer) ==
  IF RemoteEntries(pool) = {} THEN LocalOnlyPlan
  ELSE EnforceMinPoolMembers(pool, ParseRoutingResponse(pool, answer))

-----------------------------------------------------------------------------
(* ScoringANRouter.route: no capabilities are asked for, so the cost decides *)
(* and the order of the pool between equals.                                 *)

Better(pool, i, j) == pool[i].cost < pool[j].cost \/ (pool[i].cost = pool[j].cost /\ i < j)

\* The member with k - 1 better ones.
Ranked(pool, k) ==
  CHOOSE i \in DOMAIN pool : Cardinality({j \in DOMAIN pool : Better(pool, j, i)}) = k - 1

ScoringRoute(pool) ==
  IF RemoteEntries(pool) = {} THEN LocalOnlyPlan
  ELSE [steps |-> [k \in 1 .. Least(MinPoolMembers, Len(pool)) |->
                     Subtask(pool[Ranked(pool, k)], 0)],
        mode  |-> "parallel"]

Route(strategy, pool, answer) ==
  IF strategy = "scoring" THEN ScoringRoute(pool) ELSE LlmRoute(pool, answer)
=============================================================================
