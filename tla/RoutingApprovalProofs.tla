------------------------- MODULE RoutingApprovalProofs -------------------------
(***************************************************************************)
(* Proofs about RoutingApproval for any number of tasks, of which any run on *)
(* the event loop, any budgets, any size of plans and any number of rounds,   *)
(* runs and approvals requested over REST.                                  *)
(*                                                                         *)
(* That the answer acted on is the last one accepted rests on three facts:     *)
(* no two executions wait for one approval, an approval in the table holds    *)
(* the answer that was accepted last, and an execution has taken its approval   *)
(* out of the table by the time it acts on it.  What becomes of the answer      *)
(* is then a matter of the stage the execution is in.                         *)
(***************************************************************************)
EXTENDS RoutingApproval, TLAPS

-----------------------------------------------------------------------------
(* The inductive invariant.                                                  *)

Answers == Decisions \cup {NoDecision}

Approval == [task : Tasks, decision : Answers, budget : Budgets \cup {0}, heard : BOOLEAN]

\* An approval in the table holds the last answer that was accepted.
AnswersAgree == \A a \in DOMAIN approvals : approvals[a].decision = acked[a]

\* The table of approvals.
TableOK ==
  /\ created \in Nat
  /\ DOMAIN approvals \subseteq 1 .. created
  /\ approvals \in [DOMAIN approvals -> Approval]
  /\ acked \in [1 .. created -> Answers]
  /\ AnswersAgree

\* The executions and what is counted of them.
ExecutionsOK ==
  /\ status \in [Tasks -> Status]
  /\ stage \in [Tasks -> Stages]
  /\ remotes \in [Tasks -> 0 .. MaxRemotes]
  /\ mine \in [Tasks -> 0 .. created]
  /\ taken \in [Tasks -> Answers \cup {"timeout", "auto"}]
  /\ sent \in [Tasks -> Nat]
  /\ round \in [Tasks -> 0 .. MaxRounds]
  /\ runs \in [Tasks -> Nat]
  /\ \A t \in Tasks : runs[t] <= MaxRuns[t]

\* The rest of the server's state.
ServerOK ==
  /\ requested \in 0 .. MaxRequested
  /\ budget \in [Tasks -> [limit : Budgets \cup {0}, spent : Nat]]
  /\ loop \in {Free} \cup {Running(t) : t \in Tasks} \cup {Cancelling(t) : t \in Tasks}
  /\ autoSpent \in [Tasks -> Nat]

\* Executions wait for approvals of their own.
OneWaits ==
  \A t, u \in Tasks : mine[t] = mine[u] /\ mine[t] # 0 => t = u

\* Nothing was asked, answered or sent before the plan is made, and nothing is sent
\* while the execution waits, for an approval that is in the table.
NothingYet ==
  \A t \in Tasks :
    /\ stage[t] \in {"idle", "submitted", "started", "routed"} => mine[t] = 0
    /\ stage[t] \in {"waiting", "woken"} => mine[t] \in DOMAIN approvals
    /\ stage[t] \in {"idle", "submitted", "started", "routed", "waiting", "woken"} =>
         taken[t] = NoDecision /\ sent[t] = 0

\* An approval that was acted on is out of the table, and one that was asked for has
\* been acted on when the execution waits no more.
TakenIsGone ==
  \A t \in Tasks :
    /\ taken[t] \in Decisions \cup {"timeout"} => mine[t] \in (1 .. created) \ DOMAIN approvals
    /\ stage[t] \notin {"waiting", "woken"} /\ mine[t] # 0 =>
         taken[t] \in Decisions \cup {"timeout"}

\* The stage follows the decision; with a refusal nothing is sent.
StageFollows ==
  \A t \in Tasks :
    /\ stage[t] = "remote" => taken[t] \in {"approve", "timeout", "auto"}
    /\ stage[t] = "local" => remotes[t] = 0
    /\ taken[t] \in {"deny", "local_only"} => sent[t] = 0

\* What becomes of the answers.
Answering ==
  OneWaits /\ NothingYet /\ TakenIsGone /\ StageFollows /\ LastAnswerCounts

\* What was approved without asking is within the last budget.
WithinLastBudget ==
  \A t \in Tasks : autoSpent[t] > 0 => budget[t].spent <= budget[t].limit

IInv == TableOK /\ ExecutionsOK /\ ServerOK /\ Answering /\ WithinLastBudget

\* It gives the three invariants of the model.
LEMMA InvariantsFollow == IInv => TypeOK /\ LastAnswerCounts /\ DispatchesAreAllowed
<1> SUFFICES ASSUME IInv PROVE TypeOK /\ LastAnswerCounts /\ DispatchesAreAllowed
  OBVIOUS
<1>1. TypeOK
  BY DEF IInv, TableOK, ExecutionsOK, ServerOK, Answering, NothingYet, TypeOK, Answers,
         Approval
<1>2. LastAnswerCounts
  BY DEF IInv, Answering
<1>3. DispatchesAreAllowed
  BY DEF IInv, ExecutionsOK, Answering, TakenIsGone, StageFollows, LastAnswerCounts,
         WithinLastBudget, DispatchesAreAllowed, Answers, Decisions, NoDecision
<1> QED BY <1>1, <1>2, <1>3

-----------------------------------------------------------------------------
(* The table of approvals.                                                   *)

\* create_approval puts a record without an answer into the table.
LEMMA NewApprovalTable ==
  ASSUME TableOK, NEW t \in Tasks, NEW heard \in BOOLEAN, NewApproval(t, heard)
  PROVE  /\ TableOK'
         /\ DOMAIN approvals' = DOMAIN approvals \cup {created'}
         /\ created' \in Nat \ DOMAIN approvals /\ created < created' /\ created <= created'
         /\ \A a \in 1 .. created : acked'[a] = acked[a]
         /\ approvals'[created'].decision = NoDecision
<1>1. created' = created + 1 /\ created' \notin 1 .. created
  BY DEF NewApproval, TableOK
<1>2. DOMAIN approvals' = DOMAIN approvals \cup {created'}
  BY DEF NewApproval
<1>3. approvals'[created'] = [task |-> t, decision |-> NoDecision, budget |-> 0,
                                   heard |-> heard]
  BY DEF NewApproval
<1>4. approvals'[created'] \in Approval
  BY <1>3 DEF Approval, Answers
<1>5. \A a \in DOMAIN approvals : approvals'[a] = approvals[a]
  BY <1>1 DEF NewApproval, TableOK
<1>6. approvals' \in [DOMAIN approvals' -> Approval]
  BY <1>2, <1>4, <1>5 DEF NewApproval, TableOK
<1>7. acked' \in [1 .. created' -> Answers] /\ \A a \in 1 .. created : acked'[a] = acked[a]
  BY <1>1 DEF NewApproval, TableOK, Answers
<1>8. AnswersAgree'
  BY <1>1, <1>2, <1>3, <1>5, <1>7 DEF NewApproval, TableOK, AnswersAgree
<1> QED BY <1>1, <1>2, <1>3, <1>6, <1>7, <1>8 DEF TableOK

\* An answer is accepted and kept in one step.
LEMMA AnswerTable ==
  ASSUME TableOK, NEW a \in DOMAIN approvals, NEW d \in Decisions,
         NEW r, r \in Approval, r.decision = d,
         approvals' = [approvals EXCEPT ![a] = r], acked' = [acked EXCEPT ![a] = d],
         UNCHANGED created
  PROVE  /\ TableOK'
         /\ DOMAIN approvals' = DOMAIN approvals
         /\ \A b \in (1 .. created) \ DOMAIN approvals : acked'[b] = acked[b]
BY DEF TableOK, AnswersAgree, Answers, Approval

-----------------------------------------------------------------------------
(* The theorems.                                                             *)

\* IInv holds initially and every step keeps it.
THEOREM Inductive == Spec => []IInv
<1> USE ApprovalAssumption DEF ApprovalAssumption
<1>1. Init => IInv
  BY DEF Init, IInv, TableOK, ExecutionsOK, ServerOK, Answering, OneWaits, AnswersAgree,
         NothingYet, TakenIsGone, StageFollows, LastAnswerCounts, WithinLastBudget, Status,
         Stages, Answers, Decisions, NoDecision, Free
<1>2. IInv /\ [Next]_vars => IInv'
  <2> SUFFICES ASSUME IInv, [Next]_vars PROVE IInv'
    OBVIOUS
  <2> USE DEF IInv
  \* An approval requested over REST is nobody's: no execution waits for it.
  <2>1. ASSUME NEW t \in Tasks, RequestApproval(t) PROVE IInv'
    <3> USE <2>1 DEF RequestApproval, run
    <3>1. /\ TableOK'
          /\ DOMAIN approvals' = DOMAIN approvals \cup {created'}
          /\ created' \in Nat \ DOMAIN approvals /\ created < created' /\ created <= created'
          /\ \A a \in 1 .. created : acked'[a] = acked[a]
          /\ approvals'[created'].decision = NoDecision
      BY NewApprovalTable
    <3>2. ExecutionsOK'
      <4>1. mine' \in [Tasks -> 0 .. created'] /\ created \in Nat
        BY <3>1 DEF ExecutionsOK, TableOK
      <4> QED BY <4>1 DEF ExecutionsOK
    <3>3. ServerOK'
      BY DEF ServerOK, ExecutionsOK, TableOK
    <3>4. Answering'
      <4>1. (OneWaits /\ NothingYet /\ StageFollows)'
        BY <3>1 DEF Answering, OneWaits, NothingYet, StageFollows
      <4>2. TakenIsGone'
        BY <3>1 DEF Answering, TakenIsGone, TableOK
      <4>3. LastAnswerCounts'
        BY <3>1 DEF Answering, TakenIsGone, LastAnswerCounts, TableOK
      <4> QED BY <4>1, <4>2, <4>3 DEF Answering
    <3>5. WithinLastBudget'
      BY DEF WithinLastBudget, ServerOK, ExecutionsOK
    <3> QED BY <3>1, <3>2, <3>3, <3>4, <3>5
  <2>2. ASSUME NEW a \in DOMAIN approvals, Announce(a) PROVE IInv'
    <3> USE <2>2 DEF Announce, run
    <3>1. TableOK' /\ DOMAIN approvals' = DOMAIN approvals
      BY DEF TableOK, AnswersAgree, Answers, Approval
    <3>2. ExecutionsOK'
      BY <3>1 DEF ExecutionsOK, TableOK
    <3>3. ServerOK'
      BY DEF ServerOK, ExecutionsOK, TableOK
    <3>4. Answering'
      BY <3>1 DEF Answering, OneWaits, NothingYet, TakenIsGone, StageFollows,
                  LastAnswerCounts, Answers, Decisions, NoDecision, ExecutionsOK, TableOK,
                  AnswersAgree
    <3>5. WithinLastBudget'
      BY DEF WithinLastBudget, ServerOK, ExecutionsOK
    <3> QED BY <3>1, <3>2, <3>3, <3>4, <3>5
  \* The endpoints answer approvals in the table, which no execution has acted on.
  <2>3. ASSUME NEW a \in DOMAIN approvals, NEW d \in Decisions,
               NEW b \in Budgets, ResolveApproval(a, d, b) PROVE IInv'
    <3> USE <2>3 DEF ResolveApproval, run
    <3> DEFINE r == [approvals[a] EXCEPT !.decision = d,
                          !.budget = IF Routing(a) /\ d = "approve" THEN b ELSE 0]
    <3>r. r \in Approval /\ r.decision = d
      BY DEF TableOK, Approval, Answers
    <3>e. approvals' = [approvals EXCEPT ![a] = r]
      BY DEF TableOK
    <3>1. /\ TableOK'
          /\ DOMAIN approvals' = DOMAIN approvals
          /\ \A c \in (1 .. created) \ DOMAIN approvals : acked'[c] = acked[c]
      <4> HIDE DEF r
      <4> QED BY <3>r, <3>e, AnswerTable
    <3>2. ExecutionsOK'
      BY <3>1 DEF ExecutionsOK, TableOK
    <3>3. ServerOK'
      BY DEF ServerOK, ExecutionsOK, TableOK
    <3>4. Answering'
      BY <3>1 DEF Answering, OneWaits, NothingYet, TakenIsGone, StageFollows,
                  LastAnswerCounts, Answers, Decisions, NoDecision, ExecutionsOK, TableOK,
                  AnswersAgree
    <3>5. WithinLastBudget'
      BY DEF WithinLastBudget, ServerOK, ExecutionsOK
    <3> QED BY <3>1, <3>2, <3>3, <3>4, <3>5
  <2>4. ASSUME NEW t \in Tasks, CancelDeny(t) PROVE IInv'
    <3> USE <2>4 DEF CancelDeny, run
    <3>1. /\ TableOK'
          /\ DOMAIN approvals' = DOMAIN approvals
          /\ \A c \in (1 .. created) \ DOMAIN approvals : acked'[c] = acked[c]
      <4>1. CASE Pending(t) = {} /\ UNCHANGED <<approvals, acked>>
        BY <4>1 DEF TableOK, AnswersAgree
      <4>2. CASE \E a \in Pending(t) :
                   /\ approvals' = [approvals EXCEPT ![a].decision = "deny"]
                   /\ acked' = [acked EXCEPT ![a] = "deny"]
        <5> PICK a \in DOMAIN approvals :
                   /\ approvals' = [approvals EXCEPT ![a].decision = "deny"]
                   /\ acked' = [acked EXCEPT ![a] = "deny"]
          BY <4>2 DEF Pending
        <5> DEFINE r == [approvals[a] EXCEPT !.decision = "deny"]
        <5>0. approvals[a] \in Approval
          BY DEF TableOK
        <5>1. r \in Approval /\ r.decision = "deny"
          BY <5>0 DEF Approval, Answers, Decisions
        <5>2. approvals' = [approvals EXCEPT ![a] = r]
          BY DEF TableOK
        <5> HIDE DEF r
        <5> QED BY <5>1, <5>2, AnswerTable DEF Decisions
      <4> QED BY <4>1, <4>2
    <3>2. ExecutionsOK'
      BY <3>1 DEF ExecutionsOK, TableOK
    <3>3. ServerOK'
      BY DEF ServerOK, ExecutionsOK, TableOK, Cancelling
    <3>4. Answering'
      BY <3>1 DEF Answering, OneWaits, NothingYet, TakenIsGone, StageFollows,
                  LastAnswerCounts, Answers, Decisions, NoDecision, ExecutionsOK, TableOK,
                  AnswersAgree
    <3>5. WithinLastBudget'
      BY DEF WithinLastBudget, ServerOK, ExecutionsOK
    <3> QED BY <3>1, <3>2, <3>3, <3>4, <3>5
  <2>5. ASSUME NEW t \in Tasks, CancelMark(t) PROVE IInv'
    <3> USE <2>5 DEF CancelMark, run
    <3>1. TableOK'
      BY DEF TableOK, AnswersAgree
    <3>2. ExecutionsOK'
      BY DEF ExecutionsOK, TableOK, Status
    <3>3. ServerOK'
      BY DEF ServerOK, ExecutionsOK, TableOK, Free
    <3>4. Answering'
      BY DEF Answering, OneWaits, NothingYet, TakenIsGone, StageFollows, LastAnswerCounts,
             Answers, Decisions, NoDecision, ExecutionsOK, TableOK, AnswersAgree
    <3>5. WithinLastBudget'
      BY DEF WithinLastBudget, ServerOK, ExecutionsOK
    <3> QED BY <3>1, <3>2, <3>3, <3>4, <3>5
  \* A new run starts with nothing asked, answered or sent.
  <2>6. ASSUME NEW t \in Tasks, Submit(t) PROVE IInv'
    <3> USE <2>6 DEF Submit, run
    <3>1. TableOK'
      BY DEF TableOK, AnswersAgree
    <3>2. ExecutionsOK'
      <4>1. runs' \in [Tasks -> Nat] /\ \A u \in Tasks : runs'[u] <= MaxRuns[u]
        <5>1. runs \in [Tasks -> Nat] /\ runs[t] \in Nat /\ MaxRuns[t] \in Nat
          BY DEF ExecutionsOK
        <5>2. runs' = [runs EXCEPT ![t] = runs[t] + 1] /\ runs[t] + 1 <= MaxRuns[t]
          BY <5>1
        <5>3. \A u \in Tasks : runs[u] <= MaxRuns[u]
          BY DEF ExecutionsOK
        <5> QED BY ONLY <5>1, <5>2, <5>3
      <4>2. /\ status' \in [Tasks -> Status] /\ stage' \in [Tasks -> Stages]
            /\ taken' \in [Tasks -> Answers \cup {"timeout", "auto"}]
        BY DEF ExecutionsOK, Status, Stages, Answers
      <4>3. /\ remotes' \in [Tasks -> 0 .. MaxRemotes] /\ mine' \in [Tasks -> 0 .. created']
            /\ sent' \in [Tasks -> Nat] /\ round' \in [Tasks -> 0 .. MaxRounds]
        BY DEF ExecutionsOK, TableOK
      <4> QED BY <4>1, <4>2, <4>3 DEF ExecutionsOK
    <3>3. ServerOK'
      BY DEF ServerOK, ExecutionsOK, TableOK
    <3>4. Answering'
      BY DEF Answering, OneWaits, NothingYet, TakenIsGone, StageFollows, LastAnswerCounts,
             Answers, Decisions, NoDecision, ExecutionsOK, TableOK, AnswersAgree
    <3>5. WithinLastBudget'
      BY DEF WithinLastBudget, ServerOK, ExecutionsOK
    <3> QED BY <3>1, <3>2, <3>3, <3>4, <3>5
  <2>7. ASSUME NEW t \in Tasks, Start(t) PROVE IInv'
    <3> USE <2>7 DEF Start, run
    <3>1. TableOK'
      BY DEF TableOK, AnswersAgree
    <3>2. ExecutionsOK'
      BY DEF ExecutionsOK, TableOK, Status, Stages
    <3>3. ServerOK'
      BY DEF ServerOK, ExecutionsOK, TableOK
    <3>4. Answering'
      BY DEF Answering, OneWaits, NothingYet, TakenIsGone, StageFollows, LastAnswerCounts,
             Answers, Decisions, NoDecision, ExecutionsOK, TableOK, AnswersAgree
    <3>5. WithinLastBudget'
      BY DEF WithinLastBudget, ServerOK, ExecutionsOK
    <3> QED BY <3>1, <3>2, <3>3, <3>4, <3>5
  <2>8. ASSUME NEW t \in Tasks, NEW n \in 0 .. MaxRemotes, Execute(t, n) PROVE IInv'
    <3> USE <2>8 DEF Execute, run
    <3>1. TableOK'
      BY DEF TableOK, AnswersAgree
    <3>2. ExecutionsOK'
      BY DEF ExecutionsOK, TableOK, Stages
    <3>3. ServerOK'
      BY DEF ServerOK, ExecutionsOK, TableOK, Running
    <3>4. Answering'
      BY DEF Answering, OneWaits, NothingYet, TakenIsGone, StageFollows, LastAnswerCounts,
             Answers, Decisions, NoDecision, ExecutionsOK, TableOK, AnswersAgree
    <3>5. WithinLastBudget'
      BY DEF WithinLastBudget, ServerOK, ExecutionsOK
    <3> QED BY <3>1, <3>2, <3>3, <3>4, <3>5
  <2>9. ASSUME NEW t \in Tasks, SkipApproval(t) PROVE IInv'
    <3> USE <2>9 DEF SkipApproval, run
    <3>1. TableOK'
      BY DEF TableOK, AnswersAgree
    <3>2. ExecutionsOK'
      BY DEF ExecutionsOK, TableOK, Stages
    <3>3. ServerOK'
      BY DEF ServerOK, ExecutionsOK, TableOK
    <3>4. Answering'
      BY DEF Answering, OneWaits, NothingYet, TakenIsGone, StageFollows, LastAnswerCounts,
             Answers, Decisions, NoDecision, ExecutionsOK, TableOK, AnswersAgree
    <3>5. WithinLastBudget'
      BY DEF WithinLastBudget, ServerOK, ExecutionsOK
    <3> QED BY <3>1, <3>2, <3>3, <3>4, <3>5
  \* The budget still covers what is spent.
  <2>10. ASSUME NEW t \in Tasks, AutoApprove(t) PROVE IInv'
    <3> USE <2>10 DEF AutoApprove, run
    <3>1. TableOK'
      BY DEF TableOK, AnswersAgree
    <3>2. ExecutionsOK'
      BY DEF ExecutionsOK, TableOK, Stages
    <3>3. ServerOK'
      <4>1. budget[t] \in [limit : Budgets \cup {0}, spent : Nat] /\ remotes[t] \in Nat
        BY DEF ServerOK, ExecutionsOK
      <4>2. [budget[t] EXCEPT !.spent = @ + remotes[t]] \in [limit : Budgets \cup {0},
      spent : Nat]
        BY <4>1
      <4>3. budget' \in [Tasks -> [limit : Budgets \cup {0}, spent : Nat]]
        BY <4>1, <4>2 DEF ServerOK, Estimate
      <4>4. autoSpent' \in [Tasks -> Nat]
        BY <4>1 DEF ServerOK, Estimate
      <4> QED BY <4>3, <4>4 DEF ServerOK
    <3>4. Answering'
      BY DEF Answering, OneWaits, NothingYet, TakenIsGone, StageFollows, LastAnswerCounts,
             Answers, Decisions, NoDecision, ExecutionsOK, TableOK, AnswersAgree
    <3>5. WithinLastBudget'
      BY DEF WithinLastBudget, ServerOK, ExecutionsOK, WithinBudget, Estimate
    <3> QED BY <3>1, <3>2, <3>3, <3>4, <3>5
  \* The approval of the execution is a new one.
  <2>11. ASSUME NEW t \in Tasks, AskUser(t) PROVE IInv'
    <3> USE <2>11 DEF AskUser, run
    <3>1. /\ TableOK'
          /\ DOMAIN approvals' = DOMAIN approvals \cup {created'}
          /\ created' \in Nat \ DOMAIN approvals /\ created < created' /\ created <= created'
          /\ \A a \in 1 .. created : acked'[a] = acked[a]
          /\ approvals'[created'].decision = NoDecision
      BY NewApprovalTable
    <3>2. ExecutionsOK'
      BY <3>1 DEF ExecutionsOK, TableOK, Stages
    <3>3. ServerOK'
      BY DEF ServerOK, ExecutionsOK, TableOK
    <3>4. Answering'
      <4>1. OneWaits'
        <5>1. \A u \in Tasks : mine[u] # created'
          BY <3>1 DEF ExecutionsOK, TableOK
        <5>2. mine' = [mine EXCEPT ![t] = created'] /\ mine \in [Tasks -> 0 .. created]
          BY DEF ExecutionsOK
        <5> QED BY <5>1, <5>2 DEF Answering, OneWaits
      <4>2. (NothingYet /\ TakenIsGone)'
        BY <3>1 DEF Answering, NothingYet, TakenIsGone, ExecutionsOK, TableOK, NoDecision,
                    Decisions
      <4>3. StageFollows'
        BY DEF Answering, StageFollows, ExecutionsOK
      <4>4. LastAnswerCounts'
        <5>1. ASSUME NEW u \in Tasks, u # t, taken[u] \in Decisions \cup {"timeout"}
              PROVE  acked'[mine'[u]] = acked[mine[u]]
          BY <3>1, <5>1 DEF Answering, TakenIsGone, ExecutionsOK
        <5>2. taken[t] = NoDecision
          BY DEF Answering, NothingYet
        <5> QED BY <5>1, <5>2 DEF Answering, LastAnswerCounts, ExecutionsOK, NoDecision,
                                  Decisions
      <4> QED BY <4>1, <4>2, <4>3, <4>4 DEF Answering
    <3>5. WithinLastBudget'
      BY DEF WithinLastBudget, ServerOK, ExecutionsOK
    <3> QED BY <3>1, <3>2, <3>3, <3>4, <3>5
  <2>12. ASSUME NEW t \in Tasks, Wake(t) PROVE IInv'
    <3> USE <2>12 DEF Wake, run
    <3>1. TableOK'
      BY DEF TableOK, AnswersAgree
    <3>2. ExecutionsOK'
      BY DEF ExecutionsOK, TableOK, Stages
    <3>3. ServerOK'
      BY DEF ServerOK, ExecutionsOK, TableOK
    <3>4. Answering'
      BY DEF Answering, OneWaits, NothingYet, TakenIsGone, StageFollows, LastAnswerCounts,
             Answers, Decisions, NoDecision, ExecutionsOK, TableOK, AnswersAgree
    <3>5. WithinLastBudget'
      BY DEF WithinLastBudget, ServerOK, ExecutionsOK
    <3> QED BY <3>1, <3>2, <3>3, <3>4, <3>5
  <2>13. ASSUME NEW t \in Tasks, Expire(t) PROVE IInv'
    <3> USE <2>13 DEF Expire, run
    <3>1. TableOK'
      BY DEF TableOK, AnswersAgree
    <3>2. ExecutionsOK'
      BY DEF ExecutionsOK, TableOK, Stages
    <3>3. ServerOK'
      BY DEF ServerOK, ExecutionsOK, TableOK
    <3>4. Answering'
      BY DEF Answering, OneWaits, NothingYet, TakenIsGone, StageFollows, LastAnswerCounts,
             Answers, Decisions, NoDecision, ExecutionsOK, TableOK, AnswersAgree
    <3>5. WithinLastBudget'
      BY DEF WithinLastBudget, ServerOK, ExecutionsOK
    <3> QED BY <3>1, <3>2, <3>3, <3>4, <3>5
  \* The execution acts on what the approval holds, and takes it out of the table.
  <2>14. ASSUME NEW t \in Tasks, TakeDecision(t) PROVE IInv'
    <3> USE <2>14 DEF TakeDecision, run
    <3>0. mine[t] \in DOMAIN approvals
      BY DEF Answering, NothingYet
    <3>1. /\ TableOK'
          /\ DOMAIN approvals' = DOMAIN approvals \ {mine[t]}
          /\ UNCHANGED <<acked, created>>
      BY DEF TableOK, AnswersAgree
    <3>2. ExecutionsOK'
      <4>1. /\ taken' \in [Tasks -> Answers \cup {"timeout", "auto"}]
            /\ stage' \in [Tasks -> Stages]
        <5> DEFINE d == IF approvals[mine[t]].decision = NoDecision THEN "timeout"
                        ELSE approvals[mine[t]].decision
        <5>1. d \in {"approve", "local_only", "deny", "timeout"}
          BY <3>0 DEF TableOK, Approval, Answers, Decisions
        <5>2. NextStage(d) \in Stages
          BY <5>1 DEF NextStage, Stages
        <5>3. taken' = [taken EXCEPT ![t] = d] /\ stage' = [stage EXCEPT ![t] = NextStage(d)]
          OBVIOUS
        <5> HIDE DEF d, TakeDecision
        <5> QED BY <5>1, <5>2, <5>3 DEF ExecutionsOK, Answers, Decisions
      <4>2. remotes' \in [Tasks -> 0 .. MaxRemotes]
        BY DEF ExecutionsOK
      <4> QED BY <4>1, <4>2 DEF ExecutionsOK, TableOK
    <3>3. ServerOK'
      <4>1. /\ approvals[mine[t]].budget \in Budgets \cup {0} /\ remotes[t] \in Nat
            /\ budget \in [Tasks -> [limit : Budgets \cup {0}, spent : Nat]]
            /\ autoSpent \in [Tasks -> Nat]
        <5>1. approvals[mine[t]] \in Approval
          BY <3>0 DEF TableOK
        <5>2. approvals[mine[t]].budget \in Budgets \cup {0}
          BY <5>1 DEF Approval
        <5> QED BY <5>2 DEF ExecutionsOK, ServerOK
      <4>2. /\ budget' \in [Tasks -> [limit : Budgets \cup {0}, spent : Nat]]
            /\ autoSpent' \in [Tasks -> Nat]
        BY <4>1 DEF Estimate
      <4> QED BY <4>2 DEF ServerOK
    <3>4. Answering'
      <4> DEFINE d == IF approvals[mine[t]].decision = NoDecision THEN "timeout"
                      ELSE approvals[mine[t]].decision
      <4>1. /\ taken'[t] = d /\ stage'[t] = NextStage(d) /\ UNCHANGED mine /\ sent' = sent
            /\ \A u \in Tasks \ {t} : taken'[u] = taken[u] /\ stage'[u] = stage[u]
        BY DEF ExecutionsOK
      <4>2. d \in {"approve", "local_only", "deny", "timeout"}
        BY <3>0 DEF TableOK, Approval, Answers, Decisions
      <4>3. OneWaits'
        BY <4>1 DEF Answering, OneWaits
      <4>4. (NothingYet /\ TakenIsGone)'
        BY <3>0, <3>1, <4>1, <4>2 DEF Answering, NothingYet, TakenIsGone, OneWaits, NextStage,
                                      ExecutionsOK, TableOK, Decisions
      <4>5. StageFollows'
        <5>1. sent[t] = 0 /\ (stage'[t] = "local" => remotes'[t] = 0)
          BY <4>1, <4>2 DEF Answering, NothingYet, NextStage, ExecutionsOK
        <5>2. stage'[t] = "remote" => d \in {"approve", "timeout"}
          BY <4>1, <4>2 DEF NextStage
        <5>3. \A u \in Tasks \ {t} : remotes'[u] = remotes[u]
          BY DEF ExecutionsOK
        <5> QED BY <4>1, <5>1, <5>2, <5>3 DEF Answering, StageFollows
      <4>6. LastAnswerCounts'
        <5>1. acked[mine[t]] = approvals[mine[t]].decision
          BY <3>0 DEF TableOK, AnswersAgree
        <5> QED BY <3>1, <4>1, <5>1 DEF Answering, LastAnswerCounts
      <4> QED BY <4>3, <4>4, <4>5, <4>6 DEF Answering
    <3>5. WithinLastBudget'
      BY DEF WithinLastBudget, ServerOK, ExecutionsOK, Estimate
    <3> QED BY <3>1, <3>2, <3>3, <3>4, <3>5
  \* Nothing is sent after local_only, and no round is dispatched after a refusal.
  <2>15. ASSUME NEW t \in Tasks, DispatchRound(t) PROVE IInv'
    <3> USE <2>15 DEF DispatchRound, run
    <3>1. TableOK'
      BY DEF TableOK, AnswersAgree
    <3>2. ExecutionsOK'
      <4>1. status' \in [Tasks -> Status]
        BY DEF ExecutionsOK, Status
      <4>2. round' \in [Tasks -> 0 .. MaxRounds] /\ sent' \in [Tasks -> Nat]
        BY DEF ExecutionsOK
      <4> QED BY <4>1, <4>2 DEF ExecutionsOK
    <3>3. ServerOK'
      BY DEF ServerOK, ExecutionsOK, TableOK
    <3>4. Answering'
      BY DEF Answering, OneWaits, NothingYet, TakenIsGone, StageFollows, LastAnswerCounts,
             Answers, Decisions, NoDecision, ExecutionsOK, TableOK, AnswersAgree
    <3>5. WithinLastBudget'
      BY DEF WithinLastBudget, ServerOK, ExecutionsOK
    <3> QED BY <3>1, <3>2, <3>3, <3>4, <3>5
  <2>16. ASSUME NEW t \in Tasks, NEW s \in Settled, Settle(t, s), stage[t] \in {"remote",
  "local", "denied"} PROVE IInv'
    <3> USE <2>16 DEF Settle, run
    <3>1. TableOK'
      BY DEF TableOK, AnswersAgree
    <3>2. ExecutionsOK'
      BY DEF ExecutionsOK, TableOK, Status, Stages, Settled
    <3>3. ServerOK'
      BY DEF ServerOK, ExecutionsOK, TableOK, Free, Hosted
    <3>4. Answering'
      BY DEF Answering, OneWaits, NothingYet, TakenIsGone, StageFollows, LastAnswerCounts,
             Answers, Decisions, NoDecision, ExecutionsOK, TableOK, AnswersAgree
    <3>5. WithinLastBudget'
      BY DEF WithinLastBudget, ServerOK, ExecutionsOK
    <3> QED BY <3>1, <3>2, <3>3, <3>4, <3>5
  <2>17. CASE Endpoint
    <3> HIDE DEF IInv
    <3> QED BY <2>17, <2>1, <2>2, <2>3, <2>4, <2>5, <2>6 DEF Endpoint
  <2>18. ASSUME NEW t \in Tasks, Execution(t) PROVE IInv'
    <3> HIDE DEF IInv
    <3>1. CASE \E s \in Settled : Finish(t, s)
      BY <3>1, <2>16 DEF Finish
    <3>2. CASE FailDenied(t)
      BY <3>2, <2>16 DEF FailDenied, Settled
    <3> QED BY <2>18, <3>1, <3>2, <2>7, <2>8, <2>9, <2>10, <2>11, <2>12, <2>13, <2>14, <2>15
               DEF Execution
  <2>19. CASE UNCHANGED vars
    BY <2>19 DEF vars, run, TableOK, AnswersAgree, ExecutionsOK, ServerOK, Answering,
                 OneWaits, NothingYet, TakenIsGone, StageFollows, LastAnswerCounts,
                 WithinLastBudget
  <2> HIDE DEF IInv
  <2> QED BY <2>17, <2>18, <2>19 DEF Next
<1> QED BY <1>1, <1>2, PTL DEF Spec

\* The approvals, the budgets and the executions always have their types, and an
\* execution that waits finds its approval in the table (block_until_approval).
THEOREM TypeCorrect == Spec => []TypeOK
BY Inductive, InvariantsFollow, PTL

\* The execution acts on the answer a client saw accepted last, and takes it for a
\* timeout only if none ever was (block_until_approval, resolve and cancel endpoints).
THEOREM LastAnswer == Spec => []LastAnswerCounts
BY Inductive, InvariantsFollow, PTL

\* A refusal stops all remote dispatches of its run, and what goes without asking is
\* within the budget entered last (_request_routing_approval, delegate_task).
THEOREM DispatchesAllowed == Spec => []DispatchesAreAllowed
BY Inductive, InvariantsFollow, PTL
=============================================================================
