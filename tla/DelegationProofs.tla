--------------------------- MODULE DelegationProofs ---------------------------
(***************************************************************************)
(* Proofs about MCDelegation: first of Delegation for any finite set of     *)
(* nodes, any names, any plans whose batches are disjoint, and any number   *)
(* of rounds, cancellations and restarts; then of RefinementRounds for any  *)
(* records, prompts, texts, policies and plans of the router.               *)
(*                                                                         *)
(* Of Delegation three arguments over one inductive invariant.  A worker    *)
(* whose task does not run has used one execution less than it may, so it   *)
(* can begin one.  A row in payment_records outlives everything, so an      *)
(* income is booked once; and in the first round every task a worker has    *)
(* came with a payment.  An answer "ok" is given while the task runs, so a  *)
(* completed task behind it was completed after the submission was sent.    *)
(*                                                                         *)
(* Of RefinementRounds one more.  Each round adds one entry, and the best   *)
(* result is that of a round.  Until the rounds end none of their results   *)
(* was accepted.  Within a round every target of the plan has answered or   *)
(* is still asked, unless a chain broke off or the dispatch raised.         *)
(*                                                                         *)
(* Of the plans the last one.  No two entries of a pool share a key.  A     *)
(* list of subtasks names members of the pool, each remote one once; every  *)
(* item of the planner that is taken over and every member that is filled   *)
(* in keeps this, and the ranking is a permutation.  The loops are          *)
(* recursive functions, about which facts are proved from the least number  *)
(* for which they would fail.                                              *)
(***************************************************************************)
EXTENDS MCDelegation, FiniteSetTheorems, SequenceTheorems, TLAPS

-----------------------------------------------------------------------------
(* The inductive invariant.                                                  *)

\* Only nodes of the batch under way are submitted to or waited for, and
\* submissions and executions are of this round or an earlier one.
Orderly ==
  /\ \A n \in Nodes : call[n] \in {"submitting", "waiting"} => step > 0 /\ n \in plan[step]
  /\ \A p \in posts : p.round <= round
  /\ admitted \in [Nodes -> SUBSET Post] /\ runs \in [Nodes -> SUBSET Post]
  /\ \A n \in Nodes : IsFiniteSet(runs[n])

\* A worker may begin an execution when its task does not run.
MayBegin ==
  \A n \in Nodes :
    /\ status[n] = "running" => runs[n] # {} /\ Cardinality(runs[n]) <= 1 + cancels[n]
    /\ status[n] # "running" => Cardinality(runs[n]) <= cancels[n]

\* A completed task behind an answer "ok" was completed since.
CompletedSince ==
  \A n \in Nodes :
    /\ reply[n] = "ok" \/ call[n] = "waiting" => (status[n] = "completed" => fresh[n])
    /\ call[n] = "success" => fresh[n]

\* The income is booked once, with the row.
BookedOnce == \A n \in Nodes : income[n] <= 1 /\ (income[n] = 1 => paid[n])

\* In the first round a task came with a payment, and with its income.
FirstIsPaid ==
  round = 1 => \A n \in Nodes : /\ paid[n] => income[n] = 1
                                /\ status[n] # "absent" => paid[n]
                                /\ reply[n] = "ok" => paid[n]
                                /\ call[n] \in {"waiting", "success"} => paid[n]

\* An expense has a payee.
ExpenseHasPayee ==
  \A m \in Names : /\ expense[m] \in {0, 1}
                   /\ expense[m] = 1 => \E n \in Nodes : NameOf[n] = m /\ income[n] = 1

\* The price is read only where the symbol is "ETH".
Booked == BookedOnce /\ (TokenIsETH => FirstIsPaid /\ ExpenseHasPayee)

IInv == TypeOK /\ Orderly /\ MayBegin /\ CompletedSince /\ Booked

-----------------------------------------------------------------------------
(* The theorems.                                                             *)

\* IInv holds initially and every step keeps it.
THEOREM Inductive == Spec => []IInv
<1> USE DelegationAssumption DEF DelegationAssumption
<1>1. Init => IInv
  <2> SUFFICES ASSUME Init PROVE IInv
    OBVIOUS
  <2>1. TypeOK
    BY DEF Init, TypeOK, Status, Outcomes
  <2>2. Orderly /\ MayBegin
    BY FS_EmptySet DEF Init, Orderly, MayBegin, Post
  <2>3. CompletedSince
    BY DEF Init, CompletedSince
  <2>4. Booked
    BY DEF Init, Booked, BookedOnce, FirstIsPaid, ExpenseHasPayee
  <2> QED BY <2>1, <2>2, <2>3, <2>4 DEF IInv
<1>2. IInv /\ [Next]_vars => IInv'
  <2> SUFFICES ASSUME IInv, [Next]_vars PROVE IInv'
    OBVIOUS
  <2> USE DEF IInv, organizer, worker
  <2>1. ASSUME NEW known \in SUBSET Nodes, Dispatch(known) PROVE IInv'
    <3> USE <2>1 DEF Dispatch
    <3>a. /\ step + 1 \in 1 .. Len(plan) /\ plan[step + 1] \in SUBSET Nodes
          /\ plan \in Seq(SUBSET Nodes \ {{}})
      <4>1. plan \in Seq(SUBSET Nodes \ {{}}) /\ step \in 0 .. Len(plan) /\ step < Len(plan)
        BY DEF TypeOK
      <4>2. Len(plan) \in Nat /\ plan \in [1 .. Len(plan) -> SUBSET Nodes \ {{}}]
        BY <4>1, LenProperties
      <4>3. step + 1 \in 1 .. Len(plan)
        BY <4>1, <4>2
      <4> QED BY <4>1, <4>2, <4>3
    <3>b. \A n \in Nodes : reply[n] = "none" /\ call[n] \in {"idle"} \cup Outcomes
      BY DEF TypeOK, Orderly, BatchOver, Batch, Outcomes
    <3>1. TypeOK'
      <4>1. /\ plan' \in Plans /\ round' \in 1 .. MaxRounds /\ step' \in 0 .. Len(plan')
            /\ expense' \in [Names -> Nat]
        BY <3>a DEF TypeOK
      <4>2. call' \in [Nodes -> {"idle", "submitting", "waiting"} \cup Outcomes]
        BY DEF TypeOK, Outcomes
      <4>3. posts' \subseteq Post
        BY <3>a DEF TypeOK, Post
      <4>4. reply' = reply
        OBVIOUS
      <4>5. fresh' \in [Nodes -> BOOLEAN]
        BY DEF TypeOK
      <4> QED BY <3>b, <4>1, <4>2, <4>3, <4>4, <4>5 DEF TypeOK
    <3>2. Orderly'
      <4>1. \A n \in Nodes : call'[n] \in {"submitting", "waiting"} => n \in plan[step + 1]
        BY <3>b DEF TypeOK, Outcomes
      <4>2. \A q \in posts' : q.round <= round
        BY DEF Orderly, TypeOK
      <4> QED BY <4>1, <4>2 DEF Orderly, TypeOK
    <3>3. MayBegin'
      BY DEF MayBegin
    <3>4. CompletedSince'
      <4> SUFFICES ASSUME NEW n \in Nodes
                   PROVE  /\ reply'[n] = "none" /\ call'[n] # "waiting"
                          /\ call'[n] = "success" => fresh'[n]
        BY DEF CompletedSince
      <4>1. CASE n \in plan[step + 1]
        BY <3>b, <4>1 DEF TypeOK, CompletedSince
      <4>2. CASE n \notin plan[step + 1]
        BY <3>b, <4>2 DEF TypeOK, CompletedSince, Outcomes
      <4> QED BY <4>1, <4>2
    <3>5. Booked'
      BY DEF TypeOK, Booked, BookedOnce, FirstIsPaid, ExpenseHasPayee, Outcomes
    <3> QED BY <3>1, <3>2, <3>3, <3>4, <3>5
  <2>2. ASSUME NEW n \in Nodes, Accepted(n) PROVE IInv'
    <3> USE <2>2 DEF Charge, Accepted
    <3>1. TypeOK'
      BY DEF TypeOK, Outcomes
    <3>2. Orderly'
      BY DEF TypeOK, Orderly, Outcomes
    <3>3. MayBegin'
      BY DEF MayBegin
    <3>4. CompletedSince'
      BY DEF TypeOK, CompletedSince, Outcomes
    <3>5. Booked'
      BY DEF TypeOK, Booked, BookedOnce, FirstIsPaid, ExpenseHasPayee
    <3> QED BY <3>1, <3>2, <3>3, <3>4, <3>5
  <2>3. ASSUME NEW n \in Nodes, NotAccepted(n) \/ ReplyLost(n) PROVE IInv'
    <3>a. /\ call' = [call EXCEPT ![n] = "error"] /\ reply' = [reply EXCEPT ![n] = "none"]
          /\ UNCHANGED <<plan, round, step, expense, posts, worker, fresh>>
      BY <2>3 DEF NotAccepted, ReplyLost
    <3> USE <3>a
    <3>1. TypeOK'
      BY DEF TypeOK, Outcomes
    <3>2. Orderly'
      BY DEF TypeOK, Orderly, Outcomes
    <3>3. MayBegin'
      BY DEF MayBegin
    <3>4. CompletedSince'
      BY DEF TypeOK, CompletedSince, Outcomes
    <3>5. Booked'
      BY DEF TypeOK, Booked, BookedOnce, FirstIsPaid, ExpenseHasPayee
    <3> QED BY <3>1, <3>2, <3>3, <3>4, <3>5
  <2>4. ASSUME NEW n \in Nodes, NEW o \in Outcomes, Result(n, o) PROVE IInv'
    <3> USE <2>4 DEF Result
    <3>1. TypeOK'
      BY DEF TypeOK, Outcomes
    <3>2. Orderly'
      BY DEF TypeOK, Orderly, Outcomes
    <3>3. MayBegin'
      BY DEF MayBegin
    <3>4. CompletedSince'
      BY DEF TypeOK, CompletedSince, Outcomes
    <3>5. Booked'
      BY DEF TypeOK, Orderly, Booked, BookedOnce, FirstIsPaid, ExpenseHasPayee, Outcomes
    <3> QED BY <3>1, <3>2, <3>3, <3>4, <3>5
  <2>5. ASSUME Refine PROVE IInv'
    <3> USE <2>5 DEF Refine
    <3>1. TypeOK'
      <4>1. \A n \in Nodes : reply[n] = "none"
        <5> SUFFICES ASSUME NEW n \in Nodes, reply[n] # "none" PROVE FALSE
          OBVIOUS
        <5>1. call[n] = "submitting" /\ n \in plan[step] /\ step # 0
          BY DEF TypeOK, Orderly
        <5>2. call[n] \in Outcomes
          BY <5>1 DEF BatchOver, Batch
        <5> QED BY <5>1, <5>2 DEF Outcomes
      <4>2. round' \in 1 .. MaxRounds /\ 1 .. round \subseteq 1 .. round'
        BY DEF TypeOK
      <4>3. \A n \in Nodes : /\ admitted[n] \subseteq [to : {n}, round : 1 .. round']
                             /\ runs[n] \subseteq [to : {n}, round : 1 .. round']
        BY <4>2 DEF TypeOK
      <4>4. step' \in 0 .. Len(plan)
        BY DEF TypeOK
      <4>5. call' \in [Nodes -> {"idle", "submitting", "waiting"} \cup Outcomes]
        OBVIOUS
      <4> QED BY <4>1, <4>2, <4>3, <4>4, <4>5 DEF TypeOK
    <3>2. Orderly'
      BY DEF TypeOK, Orderly, Post
    <3>3. MayBegin'
      BY DEF MayBegin
    <3>4. CompletedSince'
      BY DEF TypeOK, CompletedSince
    <3>5. Booked'
      BY DEF TypeOK, Booked, BookedOnce, FirstIsPaid, ExpenseHasPayee
    <3> QED BY <3>1, <3>2, <3>3, <3>4, <3>5
  <2>6. ASSUME NEW p \in posts, Handle(p) PROVE IInv'
    <3> USE <2>6 DEF Admit, Answer, Receipt, Offers, Handle
    <3>a. p.to \in Nodes /\ p \in [to : {p.to}, round : 1 .. round]
      BY DEF TypeOK, Post, Orderly
    <3>1. TypeOK'
      <4>1. posts' \subseteq Post /\ paid' \in [Nodes -> BOOLEAN]
        BY DEF TypeOK
      <4>5. income' \in [Nodes -> Nat]
        <5>1. income \in [Nodes -> Nat] /\ income[p.to] + 1 \in Nat
          BY <3>a DEF TypeOK
        <5> QED BY <5>1
      <4>2. /\ status' \in [Nodes -> Status \cup {"absent"}]
            /\ \A n \in Nodes : status'[n] = "absent" => status[n] = "absent" /\ n # p.to
        BY <3>a DEF TypeOK, Status
      <4>3. /\ reply' \in [Nodes -> {"none", "ok", "refused"}]
            /\ \A n \in Nodes : reply'[n] # "none" => call[n] = "submitting"
        BY DEF TypeOK
      <4>4. \A n \in Nodes : /\ admitted'[n] \subseteq [to : {n}, round : 1 .. round]
                             /\ n # p.to => admitted'[n] = admitted[n]
        BY <3>a DEF TypeOK, Orderly
      <4> HIDE <2>6
      <4>6. UNCHANGED <<plan, round, step, call, expense, runs, cancels, restarts, fresh>>
        BY <2>6
      <4> QED BY <3>a, <4>1, <4>2, <4>3, <4>4, <4>5, <4>6 DEF TypeOK
    <3>2. Orderly'
      <4>1. admitted' \in [Nodes -> SUBSET Post]
        <5>1. admitted \in [Nodes -> SUBSET Post] /\ p \in Post
          BY DEF Orderly, TypeOK
        <5> QED BY <3>a, <5>1
      <4>2. UNCHANGED <<call, step, plan, round, runs>> /\ posts' \subseteq posts
        OBVIOUS
      <4> QED BY <4>1, <4>2 DEF Orderly
    <3>3. MayBegin'
      BY <3>a DEF TypeOK, MayBegin
    <3>4. CompletedSince'
      BY DEF TypeOK, CompletedSince
    <3>5. Booked'
      <4>1. BookedOnce' /\ \A n \in Nodes : income[n] = 1 => income'[n] = 1
        BY <3>a DEF TypeOK, Booked, BookedOnce
      <4>2. ASSUME TokenIsETH PROVE FirstIsPaid'
        BY <3>a, <4>1, <4>2 DEF TypeOK, Booked, BookedOnce, FirstIsPaid
      <4>3. ASSUME TokenIsETH PROVE ExpenseHasPayee'
        <5>1. ExpenseHasPayee /\ expense' = expense
          BY <4>3 DEF Booked
        <5> QED BY ONLY <4>1, <5>1 DEF ExpenseHasPayee
      <4> QED BY <4>1, <4>2, <4>3 DEF Booked
    <3> QED BY <3>1, <3>2, <3>3, <3>4, <3>5
  <2>7. ASSUME NEW w \in Nodes, NEW p \in admitted[w], Begin(p) PROVE IInv'
    <3> USE <2>7 DEF Answer, Startable, Begin
    <3>a. p.to = w /\ p \in [to : {w}, round : 1 .. round]
      BY DEF TypeOK
    <3>1. TypeOK'
      <4>1. /\ status' \in [Nodes -> Status \cup {"absent"}]
            /\ \A n \in Nodes : status'[n] = "absent" <=> status[n] = "absent"
        BY <3>a DEF TypeOK, Status
      <4>2. /\ reply' \in [Nodes -> {"none", "ok", "refused"}]
            /\ \A n \in Nodes : reply'[n] # "none" => call[n] = "submitting"
        BY DEF TypeOK
      <4>3. \A n \in Nodes : /\ admitted'[n] \subseteq [to : {n}, round : 1 .. round]
                             /\ runs'[n] \subseteq [to : {n}, round : 1 .. round]
                             /\ n # w => admitted'[n] = admitted[n] /\ runs'[n] = runs[n]
        <5>1. /\ admitted' = [admitted EXCEPT ![w] = @ \ {p}]
              /\ runs' = runs \/ runs' = [runs EXCEPT ![w] = @ \cup {p}]
          BY <3>a
        <5>0. admitted \in [Nodes -> SUBSET Post] /\ runs \in [Nodes -> SUBSET Post]
          BY DEF Orderly
        <5>2. \A n \in Nodes : /\ admitted[n] \subseteq [to : {n}, round : 1 .. round]
                               /\ runs[n] \subseteq [to : {n}, round : 1 .. round]
          BY DEF TypeOK
        <5>3. ASSUME NEW n \in Nodes, n # w
              PROVE admitted'[n] = admitted[n] /\ runs'[n] = runs[n]
          BY <5>0, <5>1, <5>3
        <5>4. admitted'[w] \subseteq admitted[w] /\ runs'[w] \subseteq runs[w] \cup {p}
          BY <5>0, <5>1
        <5> QED BY ONLY <3>a, <5>2, <5>3, <5>4
      <4> QED BY <4>1, <4>2, <4>3 DEF TypeOK
    <3>b. /\ IsFiniteSet(runs[w]) /\ IsFiniteSet(runs[w] \cup {p})
          /\ Cardinality(runs[w] \cup {p}) <= 1 + Cardinality(runs[w])
          /\ Cardinality(runs[w]) \in Nat /\ Cardinality(runs[w] \cup {p}) \in Nat
      <4>1. IsFiniteSet(runs[w])
        BY DEF Orderly
      <4>2. /\ IsFiniteSet(runs[w] \cup {p})
            /\ Cardinality(runs[w] \cup {p}) = IF p \in runs[w] THEN Cardinality(runs[w])
                                             ELSE Cardinality(runs[w]) + 1
        BY <4>1, FS_AddElement
      <4>3. Cardinality(runs[w]) \in Nat /\ Cardinality(runs[w] \cup {p}) \in Nat
        BY <4>1, <4>2, FS_CardinalityType
      <4> QED BY <4>1, <4>2, <4>3
    <3>2. Orderly'
      <4>1. \A n \in Nodes : IsFiniteSet(runs'[n])
        BY <3>a, <3>b DEF Orderly
      <4>2. p \in Post
        BY DEF Orderly
      <4>3. admitted' \in [Nodes -> SUBSET Post] /\ runs' \in [Nodes -> SUBSET Post]
        BY <3>a, <4>2 DEF Orderly
      <4> QED BY <4>1, <4>3 DEF Orderly
    <3>3. MayBegin'
      <4>1. CASE Startable(status[w])
        <5>1. /\ status' = [status EXCEPT ![w] = "running"]
              /\ runs' = [runs EXCEPT ![w] = @ \cup {p}] /\ cancels' = cancels
          BY <3>a, <4>1
        <5>2. /\ status'[w] = "running" /\ runs'[w] = runs[w] \cup {p}
              /\ \A n \in Nodes \ {w} : status'[n] = status[n] /\ runs'[n] = runs[n]
          BY <5>1 DEF TypeOK, Orderly
        <5>3. Cardinality(runs[w]) <= cancels[w] /\ cancels[w] \in Nat
          BY <3>a, <4>1 DEF TypeOK, MayBegin
        <5>4. runs'[w] # {} /\ Cardinality(runs'[w]) <= 1 + cancels'[w]
          <6>1. runs'[w] # {}
            BY ONLY <5>2
          <6>2. Cardinality(runs[w] \cup {p}) <= 1 + cancels[w]
            BY ONLY <3>b, <5>3
          <6> QED BY ONLY <5>1, <5>2, <6>1, <6>2
        <5> QED BY ONLY <5>1, <5>2, <5>4, MayBegin DEF MayBegin
      <4>2. CASE ~Startable(status[w])
        BY <3>a, <4>2 DEF TypeOK, Orderly, MayBegin
      <4> QED BY <4>1, <4>2
    <3>4. CompletedSince'
      <4>1. /\ UNCHANGED <<call, fresh>>
            /\ \A n \in Nodes \ {w} : reply'[n] = reply[n] /\ status'[n] = status[n]
        BY <3>a DEF TypeOK
      <4>2. status'[w] = "running" \/ (status'[w] = status[w] /\ reply'[w] # "ok")
            \/ (status'[w] = status[w] /\ reply'[w] = reply[w])
        BY <3>a DEF TypeOK
      <4> QED BY ONLY <4>1, <4>2, CompletedSince DEF CompletedSince
    <3>5. Booked'
      <4>1. status[w] # "absent"
        BY DEF TypeOK
      <4> QED BY <3>a, <4>1 DEF TypeOK, Booked, BookedOnce, FirstIsPaid, ExpenseHasPayee
    <3> QED BY <3>1, <3>2, <3>3, <3>4, <3>5
  <2>8. ASSUME NEW w \in Nodes, NEW p \in runs[w], NEW s \in Settled, Finish(p, s)
        PROVE IInv'
    <3> USE <2>8 DEF Finishable, Finish
    <3>1. TypeOK'
      BY DEF TypeOK, Orderly, Status, Settled
    <3>a. p.to = w
      BY DEF TypeOK
    <3>b. /\ IsFiniteSet(runs[w] \ {p}) /\ Cardinality(runs[w]) \in Nat
          /\ Cardinality(runs[w] \ {p}) = Cardinality(runs[w]) - 1
      BY <3>a, FS_RemoveElement, FS_CardinalityType DEF Orderly
    <3>2. Orderly'
      BY <3>a, <3>b DEF Orderly, TypeOK
    <3>3. MayBegin'
      <4>1. /\ runs'[w] = runs[w] \ {p} /\ status'[w] # "running" /\ cancels' = cancels
            /\ \A n \in Nodes \ {w} : runs'[n] = runs[n] /\ status'[n] = status[n]
        BY <3>a DEF TypeOK, Orderly, Settled
      <4>2. Cardinality(runs'[w]) <= cancels[w]
        <5>1. cancels[w] \in Nat
          BY DEF TypeOK
        <5>2. Cardinality(runs[w]) <= cancels[w] \/ Cardinality(runs[w]) <= 1 + cancels[w]
          BY ONLY MayBegin, w \in Nodes DEF MayBegin
        <5> QED BY ONLY <3>b, <4>1, <5>1, <5>2
      <4> QED BY ONLY <4>1, <4>2, MayBegin DEF MayBegin
    <3>4. CompletedSince'
      BY DEF TypeOK, CompletedSince
    <3>5. Booked'
      BY DEF TypeOK, Booked, BookedOnce, FirstIsPaid, ExpenseHasPayee
    <3> QED BY <3>1, <3>2, <3>3, <3>4, <3>5
  <2>9. ASSUME NEW n \in Nodes, Cancel(n) PROVE IInv'
    <3> USE <2>9 DEF Cancellable, Cancel
    <3>1. TypeOK'
      <4>1. cancels' \in [Nodes -> 0 .. MaxCancels]
        <5>1. cancels \in [Nodes -> 0 .. MaxCancels] /\ cancels[n] + 1 \in 0 .. MaxCancels
          BY DEF TypeOK
        <5> QED BY <5>1
      <4>2. /\ status' \in [Nodes -> Status \cup {"absent"}]
            /\ \A m \in Nodes : status'[m] = "absent" => status[m] = "absent"
        BY DEF TypeOK, Status
      <4> QED BY <4>1, <4>2 DEF TypeOK
    <3>2. Orderly'
      BY DEF TypeOK, Orderly, Outcomes
    <3>3. MayBegin'
      <4>1. /\ cancels'[n] = cancels[n] + 1 /\ status'[n] = "cancelled" /\ runs' = runs
            /\ \A m \in Nodes \ {n} : cancels'[m] = cancels[m] /\ status'[m] = status[m]
        BY DEF TypeOK
      <4>2. cancels[n] \in Nat /\ Cardinality(runs[n]) \in Nat
        BY FS_CardinalityType DEF TypeOK, Orderly
      <4>3. Cardinality(runs'[n]) <= cancels'[n]
        BY <4>1, <4>2 DEF MayBegin
      <4> QED BY ONLY <4>1, <4>3, MayBegin DEF MayBegin
    <3>4. CompletedSince'
      BY DEF TypeOK, CompletedSince
    <3>5. Booked'
      BY DEF TypeOK, Booked, BookedOnce, FirstIsPaid, ExpenseHasPayee
    <3> QED BY <3>1, <3>2, <3>3, <3>4, <3>5
  <2>10. ASSUME NEW n \in Nodes, Restart(n) PROVE IInv'
    <3> USE <2>10 DEF Restart
    <3>1. TypeOK'
      <4>1. /\ status' \in [Nodes -> Status \cup {"absent"}]
            /\ restarts' \in [Nodes -> 0 .. MaxRestarts]
        BY DEF TypeOK
      <4>2. \A m \in Nodes : /\ admitted'[m] \subseteq [to : {m}, round : 1 .. round]
                             /\ runs'[m] \subseteq [to : {m}, round : 1 .. round]
                             /\ status'[m] = "absent" => admitted'[m] \cup runs'[m] = {}
        BY DEF TypeOK, Orderly
      <4> QED BY <4>1, <4>2 DEF TypeOK
    <3>2. Orderly'
      BY FS_EmptySet DEF TypeOK, Orderly
    <3>3. MayBegin'
      BY FS_EmptySet DEF TypeOK, Orderly, MayBegin
    <3>4. CompletedSince'
      BY DEF TypeOK, CompletedSince
    <3>5. Booked'
      BY DEF TypeOK, Booked, BookedOnce, FirstIsPaid, ExpenseHasPayee
    <3> QED BY <3>1, <3>2, <3>3, <3>4, <3>5
  <2>11. ASSUME NEW p \in posts, Lose(p) PROVE IInv'
    <3> USE <2>11 DEF Lose
    <3>1. TypeOK'
      BY DEF TypeOK, Outcomes
    <3>2. Orderly'
      BY DEF TypeOK, Orderly, Outcomes
    <3>3. MayBegin'
      BY DEF MayBegin
    <3>4. CompletedSince'
      BY DEF TypeOK, CompletedSince
    <3>5. Booked'
      BY DEF TypeOK, Booked, BookedOnce, FirstIsPaid, ExpenseHasPayee
    <3> QED BY <3>1, <3>2, <3>3, <3>4, <3>5
  <2>12. CASE UNCHANGED vars
    BY <2>12 DEF vars, TypeOK, Orderly, MayBegin, CompletedSince, Booked, BookedOnce,
                 FirstIsPaid, ExpenseHasPayee
  <2> HIDE DEF IInv
  <2>13. CASE OrganizerStep
    BY <2>13, <2>1, <2>2, <2>3, <2>4, <2>5 DEF OrganizerStep
  <2>14. CASE WorkerStep
    BY <2>14, <2>6, <2>7, <2>8, <2>9, <2>10, <2>11 DEF WorkerStep
  <2> QED BY <2>12, <2>13, <2>14 DEF Next
<1> QED BY <1>1, <1>2, PTL DEF Spec

\* The state keeps its shape: an execution is of this worker and of a round that
\* began, no answer is kept for a submission that is not open, no task without a
\* record is admitted or executed.
THEOREM TypeCorrect == Spec => []TypeOK
<1>1. IInv => TypeOK
  BY DEF IInv
<1> QED BY <1>1, Inductive, PTL

\* The executions of a task agree with its record on any worker, whatever the user,
\* the network and restarts do: they do not pile up, and a task that is running has
\* one that will settle it (start_task and complete_task of api/server.py's endpoint).
THEOREM ExecutionsMatch == Spec => []ExecutionsMatchStatus
<1>1. IInv => ExecutionsMatchStatus
  <2> SUFFICES ASSUME IInv, NEW n \in Nodes
               PROVE  /\ Cardinality(runs[n]) <= 1 + cancels[n]
                      /\ status[n] = "running" => runs[n] # {}
    BY DEF ExecutionsMatchStatus
  <2>1. cancels[n] \in Nat /\ IsFiniteSet(runs[n])
    BY DelegationAssumption DEF DelegationAssumption, IInv, TypeOK, Orderly
  <2>2. Cardinality(runs[n]) \in Nat
    BY <2>1, FS_CardinalityType
  <2> QED BY <2>1, <2>2 DEF IInv, MayBegin
<1> QED BY <1>1, Inductive, PTL

\* The organizer never takes the result of an earlier round, still in the worker's
\* record, for the answer to a submission (wait of _execute_remote_subtasks).
THEOREM ResultsAreNew == Spec => []ResultIsNew
<1>1. IInv => ResultIsNew
  BY DEF IInv, CompletedSince, ResultIsNew
<1> QED BY <1>1, Inductive, PTL

\* Where the price can be read from the receipt, the two books agree for any number
\* of nodes, names shared by nodes, rounds and restarts: the income of a worker is
\* booked once, with the first submission, and every expense has a payee.
THEOREM PaymentsAlwaysAgree == TokenIsETH => (Spec => []PaymentsAgree)
<1>1. TokenIsETH /\ IInv => PaymentsAgree
  <2> SUFFICES ASSUME TokenIsETH, IInv PROVE PaymentsAgree
    OBVIOUS
  <2>1. FirstIsPaid /\ ExpenseHasPayee /\ BookedOnce
    BY DEF IInv, Booked
  <2>2. ASSUME NEW n \in Nodes
        PROVE /\ income[n] <= 1
              /\ round = 1 /\ call[n] \in {"waiting", "success"} => income[n] = 1
    BY <2>1 DEF FirstIsPaid, BookedOnce
  <2>3. ASSUME NEW m \in Names PROVE expense[m] <= Cardinality(Payees(m))
    <3>1. IsFiniteSet(Payees(m))
      BY FS_Subset, DelegationAssumption DEF DelegationAssumption, Payees
    <3>2. Cardinality(Payees(m)) \in Nat
      BY <3>1, FS_CardinalityType
    <3>3. expense[m] = 1 => Payees(m) # {}
      BY <2>1 DEF ExpenseHasPayee, Payees
    <3>4. Payees(m) # {} => Cardinality(Payees(m)) # 0
      BY <3>1, FS_EmptySet
    <3> QED BY <2>1, <3>2, <3>3, <3>4 DEF ExpenseHasPayee
  <2> QED BY <2>2, <2>3 DEF PaymentsAgree
<1>2. CASE TokenIsETH
  <2>1. IInv => PaymentsAgree
    BY <1>1, <1>2
  <2>2. Spec => []PaymentsAgree
    BY <2>1, Inductive, PTL
  <2> QED BY <2>2
<1>3. CASE ~TokenIsETH
  BY <1>3
<1> QED BY <1>2, <1>3
-----------------------------------------------------------------------------
(* RefinementRounds: what is known of the rounds of one execution.           *)

TextKinds == Texts \cup {Execution!EmptyText}

ResultType == [status : {"none", "success", "error", "partial"}, text : TextKinds]

RoundType == [text : TextKinds, local : {"success", "error", "skipped"}, score : 0 .. 100,
              ok : BOOLEAN]

\* The places of remote subtasks that are under way or to come.
Asked == waiting \cap Execution!RemotePlaces(chosen)

TargetsAt(S) == {chosen.steps[i].target : i \in S}

\* The records behind the type of the state.
Shaped ==
  /\ Execution!TypeOK
  /\ chosen = [steps |-> chosen.steps, mode |-> chosen.mode]
  /\ result \in ResultType /\ scores \in Seq(RoundType)
  /\ best \in [score : {-100} \cup 0 .. 100, result : ResultType]

\* Each round adds one entry to the history.
Paced ==
  /\ pc \in {"bind", "route", "approve"} => current = 0 /\ scores = <<>>
  /\ pc \in {"dispatch", "await"} => current > 0 /\ Len(scores) = current - 1
  /\ pc \in {"evaluate", "finish"} => current > 0 /\ Len(scores) = current
  /\ stagnation <= Len(scores)

\* Until the execution is over nothing is settled, and until the rounds are over no
\* round is accepted.
Open ==
  /\ pc # "done" => outcome \in {"running", "delegated"}
  /\ pc \notin {"finish", "done"} => \A k \in DOMAIN scores : ~scores[k].ok

\* The best result is that of a round, and no other is better by more than one.
BestOfRounds ==
  /\ scores = <<>> => best.score = -100
  /\ scores # <<>> => \E k \in DOMAIN scores :
                        /\ scores[k].score = best.score
                        /\ scores[k].text = best.result.text
                        /\ scores[k].local = "error" => best.result.status = "error"
  /\ \A k \in DOMAIN scores : /\ scores[k].score <= best.score + 1
                              /\ scores[k].text.size = "empty" => scores[k].score = 0

\* The entry of the round that is evaluated says what its result is.
EntryOfRound ==
  pc = "evaluate" => /\ scores[current].text = result.text
                     /\ scores[current].local = local.status
                     /\ result.status = "error" <=> local.status = "error"

\* What the execution ends with: a result that may complete the task, or reasons why
\* it fails.
MayComplete ==
  /\ GateEnabled => result.text.size # "empty"
  /\ \E k \in DOMAIN scores :
       /\ scores[k].text = result.text /\ scores[k].local # "error"
       /\ \/ scores[k].ok
          \/ \A j \in DOMAIN scores : scores[j].score <= scores[k].score + 1

MayFail == \A k \in DOMAIN scores : scores[k].ok => scores[k].local = "error"

Ended ==
  /\ pc = "finish" => IF result.status = "error" THEN MayFail ELSE MayComplete
  /\ Execution!OutcomeJustified

\* Every target has answered or is still asked; or the chain broke, or the dispatch
\* beside a local subtask raised.
Accounted ==
  /\ pc = "await" =>
       \/ DOMAIN remote \cup TargetsAt(Asked) = Execution!TargetsOf(chosen)
       \/ /\ chosen.mode = "sequential" /\ waiting = {}
          /\ Execution!Failed(remote) \/ local.status = "error"
       \/ /\ chosen.mode = "parallel" /\ Execution!HasLocal(chosen)
          /\ remote = <<>> /\ Asked = {}
  /\ pc \in {"bind", "route", "approve"} => remote = <<>> /\ waiting = {}
  /\ Execution!EveryTargetAnswers

ExecutionInv ==
  Shaped /\ Paced /\ Open /\ BestOfRounds /\ EntryOfRound /\ Ended /\ Accounted
\* Every class of prompts has a round, and at most eight.
LEMMA RoundsBounded ==
  ASSUME NEW p \in Execution!Prompt
  PROVE  Execution!RoundsFor(p) \in 1 .. 8
<1>1. Execution!Policy(p.class).rounds \in Int
  <2>1. p.class \in {"empirical", "coding", "analysis", "general"}
    BY DEF Execution!Prompt, Execution!Classes
  <2> QED BY <2>1 DEF Execution!Policy, Execution!Profiled, Execution!Baseline, Execution!Between
<1> QED BY <1>1 DEF Execution!RoundsFor, Execution!Between

\* A score is a percentage, and nothing is worth nothing.
LEMMA ScoreBounded ==
  ASSUME NEW p, NEW t \in TextKinds, NEW w
  PROVE  /\ Execution!Score(p, t, w) \in 0 .. 100
         /\ t.size = "empty" => Execution!Score(p, t, w) = 0
<1> DEFINE x == 10 + (IF t.plan THEN 0 ELSE 25) + Execution!LengthShare(t)
                  + Execution!Between(0, 5 * Execution!EvidenceScore(t), 30)
                  + (IF w THEN 10 ELSE 0)
                  - (IF p.empirical /\ "sources" \notin t.shows THEN 15 ELSE 0)
<1>1. Execution!EvidenceScore(t) \in Nat
  <2>1. t.shows \subseteq Execution!Evidence
    BY ExecutionAssumption
       DEF ExecutionAssumption, Execution!TextsAssumption, TextKinds, Execution!Text,
           Execution!EmptyText
  <2>2. IsFiniteSet(Execution!Evidence)
    <3>1. IsFiniteSet({"direct"} \cup {"sources"}) /\ IsFiniteSet({"metrics"} \cup {"artifacts"})
          /\ IsFiniteSet({"commands"} \cup {"numbers"})
      BY FS_Singleton, FS_Union
    <3>2. IsFiniteSet(({"direct"} \cup {"sources"}) \cup ({"metrics"} \cup {"artifacts"}))
      BY <3>1, FS_Union
    <3>3. Execution!Evidence = (({"direct"} \cup {"sources"}) \cup ({"metrics"} \cup {"artifacts"}))
                               \cup ({"commands"} \cup {"numbers"})
      BY DEF Execution!Evidence
    <3> QED BY <3>1, <3>2, <3>3, FS_Union
  <2>3. IsFiniteSet(t.shows)
    BY <2>1, <2>2, FS_Subset
  <2>4. Cardinality(t.shows) \in Nat
    BY <2>3, FS_CardinalityType
  <2>5. Execution!Cardinality(t.shows) = Cardinality(t.shows)
    BY DEF Cardinality, Execution!Cardinality
  <2> QED BY <2>4, <2>5 DEF Execution!EvidenceScore
<1>2. Execution!Between(0, 5 * Execution!EvidenceScore(t), 30) \in Int
  BY <1>1 DEF Execution!Between
<1>3. Execution!LengthShare(t) \in Int
  BY DEF Execution!LengthShare
<1>4. x \in Int
  BY <1>2, <1>3
<1> HIDE DEF x
<1>5. Execution!Between(0, x, 100) \in 0 .. 100
  BY <1>4 DEF Execution!Between
<1>6. Execution!Score(p, t, w) = IF t.size = "empty" THEN 0 ELSE Execution!Between(0, x, 100)
  BY DEF Execution!Score, x
<1> QED BY <1>5, <1>6

\* Whoever routes, the plan is a list of steps and a mode.
LEMMA RouteMakes ==
  ASSUME NEW s, NEW pl, NEW answer
  PROVE  LET r == Execution!Route(s, pl, answer)
         IN  r = [steps |-> r.steps, mode |-> r.mode] /\ r.mode \in {"parallel", "sequential"}
<1> DEFINE Made(r) == /\ r = [steps |-> r.steps, mode |-> r.mode]
                      /\ r.mode \in {"parallel", "sequential"}
<1>1. Made(Execution!LocalOnlyPlan)
  BY DEF Execution!LocalOnlyPlan
<1>2. Made(Execution!ScoringRoute(pl))
  BY <1>1 DEF Execution!ScoringRoute
<1>3. Made(Execution!ParseRoutingResponse(pl, answer))
  BY <1>1 DEF Execution!ParseRoutingResponse
<1>4. ASSUME NEW q, Made(q) PROVE Made(Execution!EnforceMinPoolMembers(pl, q))
  BY <1>4 DEF Execution!EnforceMinPoolMembers
<1> QED BY <1>1, <1>2, <1>3, <1>4 DEF Execution!Route, Execution!LlmRoute
\* Every step of an execution keeps what is known of it.
LEMMA ExecutionStep == ExecutionInv /\ Execution!Next => ExecutionInv'
<1> SUFFICES ASSUME ExecutionInv, Execution!Next PROVE ExecutionInv'
  OBVIOUS
<1> USE DEF ExecutionInv
<1>0. Execution!RoundsFor(prompt) \in 1 .. 8
  BY RoundsBounded, ExecutionAssumption
     DEF ExecutionAssumption, Execution!PromptsAssumption, Shaped, Execution!TypeOK
<1>1. ASSUME NEW S, Execution!Bind(S) PROVE ExecutionInv'
  <2> USE <1>1 DEF Execution!Bind
  <2>1. Shaped'
    BY DEF Shaped, Execution!TypeOK, Execution!TargetsOf, Execution!RemotePlaces
  <2>2. Paced' /\ Open' /\ EntryOfRound'
    BY DEF Paced, Open, EntryOfRound
  <2>3. BestOfRounds'
    BY DEF BestOfRounds
  <2>4. Ended'
    BY DEF Ended, Execution!OutcomeJustified
  <2>5. Accounted'
    BY DEF Accounted, Execution!EveryTargetAnswers
  <2> QED BY <2>1, <2>2, <2>3, <2>4, <2>5
<1>2. ASSUME Execution!BindFails PROVE ExecutionInv'
  <2> USE <1>2 DEF Execution!BindFails
  <2>1. Shaped'
    BY <1>0 DEF Paced, Shaped, Execution!TypeOK, Execution!TargetsOf, Execution!RemotePlaces
  <2>2. Paced' /\ Open' /\ EntryOfRound'
    BY DEF Paced, Open, EntryOfRound
  <2>3. BestOfRounds'
    BY DEF BestOfRounds
  <2>4. Ended'
    BY DEF Ended, Execution!OutcomeJustified
  <2>5. Accounted'
    BY DEF Accounted, Execution!EveryTargetAnswers
  <2> QED BY <2>1, <2>2, <2>3, <2>4, <2>5
<1>3. ASSUME NEW s, NEW r, Execution!MakePlan(s, r) PROVE ExecutionInv'
  <2> USE <1>3 DEF Execution!MakePlan
  <2>1. Shaped'
    <3>1. /\ chosen' = [steps |-> chosen'.steps, mode |-> chosen'.mode]
          /\ chosen'.mode \in {"parallel", "sequential"}
      BY RouteMakes
    <3>2. remote' = <<>> /\ DOMAIN remote' = {} /\ waiting' = {}
      BY DEF Accounted
    <3> QED BY <3>1, <3>2 DEF Shaped, Execution!TypeOK
  <2>2. Paced' /\ Open' /\ EntryOfRound'
    BY DEF Paced, Open, EntryOfRound
  <2>3. BestOfRounds'
    BY DEF BestOfRounds
  <2>4. Ended'
    BY DEF Ended, Execution!OutcomeJustified
  <2>5. Accounted'
    BY DEF Accounted, Execution!EveryTargetAnswers
  <2> QED BY <2>1, <2>2, <2>3, <2>4, <2>5
<1>4. ASSUME NEW r, Execution!Approve(r) PROVE ExecutionInv'
  <2> USE <1>4 DEF Execution!Approve
  <2>1. Shaped'
    <3>1. /\ chosen' = [steps |-> chosen'.steps, mode |-> chosen'.mode]
          /\ chosen'.mode = chosen.mode
      BY DEF Execution!LocalPart, Shaped
    <3>2. remote' = <<>> /\ DOMAIN remote' = {} /\ waiting' = {}
      BY DEF Accounted
    <3>3. current' \in 0 .. Execution!RoundsFor(prompt') /\ Len(scores') \in {current' - 1, current'} \cup {0}
      BY <1>0 DEF Shaped, Paced, Execution!TypeOK
    <3>4. outcome' \in Execution!Status
      BY DEF Shaped, Execution!TypeOK, Execution!Status
    <3> QED BY <3>1, <3>2, <3>3, <3>4 DEF Shaped, Execution!TypeOK
  <2>2. Paced' /\ Open' /\ EntryOfRound'
    BY DEF Paced, Open, EntryOfRound
  <2>3. BestOfRounds'
    BY DEF BestOfRounds
  <2>4. Ended'
    BY DEF Ended, Paced, Open, Execution!OutcomeJustified, MayFail
  <2>5. Accounted'
    BY DEF Accounted, Execution!EveryTargetAnswers
  <2> QED BY <2>1, <2>2, <2>3, <2>4, <2>5
<1>5. ASSUME NEW S, Execution!DispatchAll(S) PROVE ExecutionInv'
  <2> DEFINE gone == Execution!Gone(chosen, Execution!PoolNow(S))
  <2>a. /\ remote' = Execution!ResultsOf(chosen, gone)
        /\ waiting' = (Execution!RemotePlaces(chosen) \ gone)
                      \cup (IF Execution!HasLocal(chosen) \/ chosen = Execution!NoPlan
                            THEN {0} ELSE {})
        /\ outcome' \in {outcome, "delegated"} /\ local' = Execution!Skipped
        /\ trace' = (trace \/ Execution!HasRemote(chosen))
        /\ pc = "dispatch" /\ pc' = "await"
        /\ UNCHANGED <<sync, prompt, pool, chosen, current, result, scores, best, stagnation,
                       accepted, stored>>
    BY <1>5 DEF Execution!DispatchAll, Execution!AfterDelegation
  <2>b. gone \subseteq Execution!RemotePlaces(chosen)
    BY DEF Execution!Gone
  <2> HIDE DEF gone
  <2>c. /\ DOMAIN remote' = TargetsAt(gone)
        /\ \A t \in DOMAIN remote' : remote'[t] = Execution!Failure
    BY <2>a DEF Execution!ResultsOf, TargetsAt
  <2>1. Shaped'
    <3>1. DOMAIN remote' \subseteq Execution!TargetsOf(chosen)
      BY <2>b, <2>c DEF TargetsAt, Execution!TargetsOf
    <3>2. \A t \in DOMAIN remote' : remote'[t] \in Execution!RemoteResults
      BY <2>c DEF Execution!RemoteResults
    <3>3. waiting' \subseteq {0} \cup DOMAIN chosen.steps
      BY <2>a DEF Execution!RemotePlaces
    <3>4. outcome' \in Execution!Status /\ local' \in Execution!Outcome
      BY <2>a DEF Shaped, Execution!TypeOK, Execution!Status, Execution!Skipped, Execution!Outcome
    <3>5. trace' \in BOOLEAN
      BY <2>a
    <3> QED BY <2>a, <3>1, <3>2, <3>3, <3>4, <3>5 DEF Shaped, Execution!TypeOK
  <2>2. Paced' /\ Open' /\ EntryOfRound'
    BY <2>a DEF Paced, Open, EntryOfRound
  <2>3. BestOfRounds'
    BY <2>a DEF BestOfRounds
  <2>4. Ended'
    BY <2>a DEF Ended, Open, Execution!OutcomeJustified
  <2>5. Accounted'
    <3>1. Asked' \cup gone = Execution!RemotePlaces(chosen)
      BY <2>a, <2>b DEF Asked, Execution!RemotePlaces
    <3>2. DOMAIN remote' \cup TargetsAt(Asked') = Execution!TargetsOf(chosen)
      BY <2>c, <3>1 DEF TargetsAt, Execution!TargetsOf
    <3> QED BY <2>a, <3>2 DEF Accounted, TargetsAt, Asked, Execution!EveryTargetAnswers
  <2> QED BY <2>1, <2>2, <2>3, <2>4, <2>5
<1>6. ASSUME Execution!DispatchChain PROVE ExecutionInv'
  <2> USE <1>6 DEF Execution!DispatchChain
  <2>1. Shaped'
    <3>1. DOMAIN remote' = {} /\ local' \in Execution!Outcome
      BY DEF Execution!Skipped, Execution!Outcome
    <3> QED BY <3>1 DEF Shaped, Execution!TypeOK
  <2>2. Paced' /\ Open' /\ EntryOfRound'
    BY DEF Paced, Open, EntryOfRound
  <2>3. BestOfRounds'
    BY DEF BestOfRounds
  <2>4. Ended'
    BY DEF Ended, Execution!OutcomeJustified
  <2>5. Accounted'
    <3>1. Asked' = Execution!RemotePlaces(chosen)
      BY DEF Asked, Execution!RemotePlaces
    <3>2. DOMAIN remote' \cup TargetsAt(Asked') = Execution!TargetsOf(chosen)
      BY <3>1 DEF TargetsAt, Execution!TargetsOf
    <3> QED BY <3>2 DEF Accounted, TargetsAt, Execution!EveryTargetAnswers
  <2> QED BY <2>1, <2>2, <2>3, <2>4, <2>5
<1>7. ASSUME NEW i \in waiting, NEW r \in Execution!LocalResults, NEW w \in BOOLEAN,
             Execution!OneEnds(i, r, w)
      PROVE  ExecutionInv'
  <2> USE <1>7 DEF Execution!OneEnds
  <2>1. Shaped'
    <3>1. CASE i \in Execution!RemotePlaces(chosen)
      <4> DEFINE t == chosen.steps[i].target
      <4>1. remote' = Execution!With(remote, t, r) /\ r \in Execution!RemoteResults
        BY <3>1 DEF Execution!ResultsAt
      <4>2. t \in Execution!TargetsOf(chosen)
        BY <3>1 DEF Execution!TargetsOf
      <4>3. /\ DOMAIN remote' \subseteq Execution!TargetsOf(chosen)
            /\ \A u \in DOMAIN remote' : remote'[u] \in Execution!RemoteResults
        BY <4>1, <4>2 DEF Execution!With, Shaped, Execution!TypeOK
      <4>4. trace' \in BOOLEAN /\ local' = local
        BY <3>1
      <4> QED BY <4>3, <4>4 DEF Shaped, Execution!TypeOK
    <3>2. CASE i \notin Execution!RemotePlaces(chosen)
      <4>1. remote' = remote /\ local' \in Execution!Outcome /\ trace' \in BOOLEAN
        BY <3>2 DEF Execution!LocalResults, Execution!Outcome
      <4> QED BY <4>1 DEF Shaped, Execution!TypeOK
    <3> QED BY <3>1, <3>2
  <2>2. Paced' /\ Open' /\ EntryOfRound'
    BY DEF Paced, Open, EntryOfRound
  <2>3. BestOfRounds'
    BY DEF BestOfRounds
  <2>4. Ended'
    BY DEF Ended, Execution!OutcomeJustified
  <2>5. Accounted'
    <3>1. CASE i \in Execution!RemotePlaces(chosen)
      <4> DEFINE t == chosen.steps[i].target
      <4>1. DOMAIN remote' = DOMAIN remote \cup {t}
        BY <3>1 DEF Execution!With
      <4>2. Asked' = Asked \ {i} /\ i \in Asked
        BY <3>1 DEF Asked
      <4>3. DOMAIN remote' \cup TargetsAt(Asked') = DOMAIN remote \cup TargetsAt(Asked)
        BY <4>1, <4>2 DEF TargetsAt
      <4> QED BY <4>2, <4>3 DEF Accounted, TargetsAt, Execution!EveryTargetAnswers
    <3>2. CASE i \notin Execution!RemotePlaces(chosen)
      <4>1. remote' = remote /\ Asked' = Asked
        BY <3>2 DEF Asked
      <4> QED BY <4>1 DEF Accounted, TargetsAt, Execution!EveryTargetAnswers
    <3> QED BY <3>1, <3>2
  <2> QED BY <2>1, <2>2, <2>3, <2>4, <2>5
<1>8. ASSUME Execution!DispatchRaises PROVE ExecutionInv'
  <2> USE <1>8 DEF Execution!DispatchRaises
  <2>1. Shaped'
    <3>1. outcome' \in Execution!Status
      BY DEF Shaped, Execution!TypeOK, Execution!Status
    <3>2. /\ DOMAIN remote' \subseteq Execution!TargetsOf(chosen)
          /\ \A t \in DOMAIN remote' : remote'[t] \in Execution!RemoteResults
      BY DEF Shaped, Execution!TypeOK
    <3>3. waiting' \subseteq waiting /\ pc' \in {"await", "done"}
      OBVIOUS
    <3> QED BY <3>1, <3>2, <3>3 DEF Shaped, Execution!TypeOK
  <2>2. Paced' /\ Open' /\ EntryOfRound'
    BY DEF Paced, Open, EntryOfRound
  <2>3. BestOfRounds'
    BY DEF BestOfRounds
  <2>4. Ended'
    BY DEF Ended, Open, Execution!OutcomeJustified
  <2>5. Accounted'
    BY DEF Accounted, Asked, TargetsAt, Execution!EveryTargetAnswers
  <2> QED BY <2>1, <2>2, <2>3, <2>4, <2>5
<1>9. ASSUME NEW i \in waiting, NEW r \in Execution!LocalResults, NEW S, NEW w \in BOOLEAN,
             Execution!ChainStep(i, r, S, w)
      PROVE  ExecutionInv'
  <2> DEFINE gone == i \in Execution!Gone(chosen, Execution!PoolNow(S))
             out == IF gone THEN Execution!Failure ELSE r
             t == chosen.steps[i].target
  <2>a. /\ pc = "await" /\ chosen.mode = "sequential"
        /\ waiting' = IF out.status = "error" THEN {} ELSE waiting \ {i}
        /\ IF i \in Execution!RemotePlaces(chosen)
           THEN remote' = Execution!With(remote, t, out) /\ local' = local
           ELSE local' = out /\ remote' = remote
        /\ outcome' \in {outcome, "delegated"} /\ trace' \in BOOLEAN
        /\ UNCHANGED <<pc, sync, prompt, pool, chosen, current, result, scores, best,
                       stagnation, accepted, stored>>
    BY <1>9 DEF Execution!ChainStep, Execution!AfterDelegation
  <2>b. out \in Execution!Outcome
        /\ (i \in Execution!RemotePlaces(chosen) => out \in Execution!RemoteResults)
    BY <1>9 DEF Execution!ChainStep, Execution!ResultsAt, Execution!RemoteResults,
                Execution!LocalResults, Execution!Outcome, Execution!Failure
  <2> HIDE DEF out, gone
  <2>1. Shaped'
    <3>0. outcome' \in Execution!Status /\ waiting' \subseteq waiting
      BY <2>a DEF Shaped, Execution!TypeOK, Execution!Status
    <3>1. CASE i \in Execution!RemotePlaces(chosen)
      <4>1. t \in Execution!TargetsOf(chosen)
        BY <3>1 DEF Execution!TargetsOf
      <4>2. /\ DOMAIN remote' \subseteq Execution!TargetsOf(chosen)
            /\ \A u \in DOMAIN remote' : remote'[u] \in Execution!RemoteResults
        BY <2>a, <2>b, <3>1, <4>1 DEF Execution!With, Shaped, Execution!TypeOK
      <4> QED BY <2>a, <3>0, <3>1, <4>2 DEF Shaped, Execution!TypeOK
    <3>2. CASE i \notin Execution!RemotePlaces(chosen)
      BY <2>a, <2>b, <3>0, <3>2 DEF Shaped, Execution!TypeOK
    <3> QED BY <3>1, <3>2
  <2>2. Paced' /\ Open' /\ EntryOfRound'
    BY <2>a DEF Paced, Open, EntryOfRound
  <2>3. BestOfRounds'
    BY <2>a DEF BestOfRounds
  <2>4. Ended'
    BY <2>a DEF Ended, Open, Execution!OutcomeJustified
  <2>5. Accounted'
    <3>1. CASE i \in Execution!RemotePlaces(chosen) /\ out.status = "error"
      <4>1. remote'[t] = out /\ t \in DOMAIN remote'
        BY <2>a, <3>1 DEF Execution!With
      <4>2. Execution!Failed(remote)'
        BY <3>1, <4>1 DEF Execution!Failed
      <4> QED BY <2>a, <3>1, <4>2 DEF Accounted, Execution!EveryTargetAnswers
    <3>2. CASE i \in Execution!RemotePlaces(chosen) /\ out.status # "error"
      <4>1. DOMAIN remote' = DOMAIN remote \cup {t}
        BY <2>a, <3>2 DEF Execution!With
      <4>2. Asked' = Asked \ {i} /\ i \in Asked /\ waiting # {}
        BY <2>a, <3>2 DEF Asked
      <4>3. DOMAIN remote' \cup TargetsAt(Asked') = DOMAIN remote \cup TargetsAt(Asked)
        BY <4>1, <4>2 DEF TargetsAt
      <4> QED BY <2>a, <4>2, <4>3 DEF Accounted, TargetsAt, Execution!EveryTargetAnswers
    <3>3. CASE i \notin Execution!RemotePlaces(chosen) /\ out.status = "error"
      BY <2>a, <3>3 DEF Accounted, Execution!EveryTargetAnswers
    <3>4. CASE i \notin Execution!RemotePlaces(chosen) /\ out.status # "error"
      <4>1. remote' = remote /\ Asked' = Asked /\ waiting # {}
        BY <2>a, <3>4 DEF Asked
      <4> QED BY <2>a, <4>1 DEF Accounted, TargetsAt, Execution!EveryTargetAnswers
    <3> QED BY <3>1, <3>2, <3>3, <3>4
  <2> QED BY <2>1, <2>2, <2>3, <2>4, <2>5
<1>10. ASSUME NEW t \in TextKinds, NEW same \in BOOLEAN, Execution!Aggregate(t, same)
       PROVE  ExecutionInv'
  <2> DEFINE score == Execution!Score(prompt, t, trace)
             now == [status |-> Execution!OverallStatus, text |-> t]
             entry == [text |-> t, local |-> local.status, score |-> score, ok |-> FALSE]
  <2>a. /\ pc = "await" /\ waiting = {} /\ pc' = "evaluate"
        /\ result' = now /\ scores' = Append(scores, entry)
        /\ best' = IF score > best.score + 1 THEN [score |-> score, result |-> now] ELSE best
        /\ stagnation' \in {0, stagnation + 1}
        /\ current = 1 => stagnation' = 0
        /\ UNCHANGED <<sync, prompt, pool, chosen, current, waiting, local, remote, trace,
                       accepted, outcome, stored>>
    BY <1>10 DEF Execution!Aggregate, Execution!Improved
  <2>b. score \in 0 .. 100 /\ (t.size = "empty" => score = 0)
    BY ScoreBounded
  <2>c. now \in ResultType /\ (now.status = "error" <=> local.status = "error")
    BY DEF ResultType, Execution!OverallStatus, Shaped, Execution!TypeOK, Execution!Outcome
  <2>d. entry \in RoundType
    BY <2>b DEF RoundType, Shaped, Execution!TypeOK, Execution!Outcome
  <2> HIDE DEF score
  <2>e. /\ scores' \in Seq(RoundType) /\ Len(scores') = Len(scores) + 1
        /\ DOMAIN scores' = 1 .. Len(scores) + 1 /\ DOMAIN scores = 1 .. Len(scores)
        /\ \A k \in DOMAIN scores : scores'[k] = scores[k]
        /\ scores'[Len(scores) + 1] = entry /\ Len(scores) \in Nat
    BY <2>a, <2>d DEF Shaped
  <2>f. Len(scores') = current /\ current \in Nat /\ current > 0
    BY <2>a, <2>e DEF Paced, Shaped, Execution!TypeOK
  <2>3. BestOfRounds'
    <3>1. best.score \in Int
      <4>1. best.score \in {-100} \cup 0 .. 100
        BY ONLY Shaped DEF Shaped
      <4> QED BY ONLY <4>1
    <3>2. CASE score > best.score + 1
      <4>1. best'.score = score /\ best'.result = now
        BY <2>a, <3>2
      <4>2. ASSUME NEW k \in DOMAIN scores
            PROVE  scores[k].score <= score + 1
        <5>1. scores[k].score <= best.score + 1
          BY DEF BestOfRounds
        <5>0. scores[k].score \in 0 .. 100
          <6>1. scores \in Seq(RoundType)
            BY DEF Shaped
          <6>2. scores[k] \in RoundType
            BY ONLY <6>1, k \in DOMAIN scores
          <6> QED BY ONLY <6>2 DEF RoundType
        <5> QED BY <2>b, <3>1, <3>2, <5>0, <5>1
      <4>3. /\ Len(scores) + 1 \in DOMAIN scores' /\ scores' # <<>>
            /\ scores'[Len(scores) + 1] = entry
        BY ONLY <2>e
      <4>4. ASSUME NEW k \in DOMAIN scores'
            PROVE  /\ scores'[k].score <= score + 1
                   /\ scores'[k].text.size = "empty" => scores'[k].score = 0
        <5>1. CASE k \in DOMAIN scores
          BY <2>e, <4>2, <5>1 DEF BestOfRounds
        <5>2. CASE k = Len(scores) + 1
          <6>1. scores'[k] = entry
            BY <4>3, <5>2
          <6>2. entry.score = score /\ entry.text = t
            OBVIOUS
          <6>3. score <= score + 1
            BY ONLY <2>b
          <6> HIDE DEF entry
          <6> QED BY ONLY <2>b, <6>1, <6>2, <6>3
        <5> QED BY <2>e, <5>1, <5>2
      <4> QED BY <2>c, <4>1, <4>3, <4>4 DEF BestOfRounds
    <3>3. CASE ~(score > best.score + 1)
      <4>1. best' = best /\ score <= best.score + 1
        BY <2>a, <2>b, <3>1, <3>3
      <4>2. scores # <<>>
        BY <2>b, <4>1 DEF BestOfRounds
      <4> QED BY <2>b, <2>e, <4>1, <4>2 DEF BestOfRounds
    <3> QED BY <3>2, <3>3
  <2>1. Shaped'
    <3>1. best' \in [score : {-100} \cup 0 .. 100, result : ResultType]
      BY <2>a, <2>b, <2>c DEF Shaped
    <3>2. stagnation' \in 0 .. Execution!RoundsFor(prompt)
      BY <1>0, <2>a, <2>e, <2>f DEF Shaped, Paced, Execution!TypeOK
    <3>3. best'.score = -100 \/ \E k \in DOMAIN scores' : best'.score = scores'[k].score
      BY <2>3 DEF BestOfRounds
    <3>4. result'.text \in Texts \cup {Execution!EmptyText}
          /\ result'.status \in {"none", "success", "error", "partial"}
      BY <2>a, <2>c DEF ResultType, TextKinds
    <3> QED BY <2>a, <2>c, <2>e, <2>f, <3>1, <3>2, <3>3, <3>4 DEF Shaped, Execution!TypeOK
  <2>2. Paced' /\ Open' /\ EntryOfRound'
    <3>1. stagnation' <= Len(scores')
      BY <2>a, <2>e, <2>f DEF Paced, Shaped, Execution!TypeOK
    <3>2. Open'
      BY <2>a, <2>e DEF Open
    <3>3. EntryOfRound'
      BY <2>a, <2>c, <2>e, <2>f DEF EntryOfRound
    <3> QED BY <2>a, <2>f, <3>1, <3>2, <3>3 DEF Paced
  <2>4. Ended'
    BY <2>a DEF Ended, Open, Execution!OutcomeJustified
  <2>5. Accounted'
    BY <2>a DEF Accounted, Asked, TargetsAt, Execution!EveryTargetAnswers
  <2> QED BY <2>1, <2>2, <2>3, <2>4, <2>5
<1>11. ASSUME NEW verdict \in BOOLEAN, Execution!Evaluate(verdict) PROVE ExecutionInv'
  <2>a. /\ pc = "evaluate" /\ pc' \in {"finish", "dispatch"}
        /\ scores' = [scores EXCEPT ![current].ok = verdict]
        /\ UNCHANGED <<sync, prompt, pool, chosen, waiting, local, remote, trace, best,
                       stagnation, outcome, stored>>
        /\ pc' = "finish" => current' = current
        /\ pc' = "dispatch" => /\ current' = current + 1 /\ current < Execution!RoundsFor(prompt)
                               /\ ~verdict /\ result' = result
        /\ accepted' \in BOOLEAN
    BY <1>11 DEF Execution!Evaluate, Execution!MoreRounds
  <2>b. \/ verdict /\ result' = result
        \/ ~verdict /\ result' = best.result /\ best.score >= 45
        \/ ~verdict /\ result' = [result EXCEPT !.status = "error"]
        \/ ~verdict /\ pc' = "dispatch"
    BY <1>11 DEF Execution!Evaluate, Execution!Converged, Execution!ConvergedResult
  <2>c. verdict /\ GateEnabled => result.text.size # "empty"
    <3>1. verdict \in Execution!Verdicts(prompt, result.text, trace, current)
      BY <1>11 DEF Execution!Evaluate
    <3>2. ASSUME GateEnabled, result.text.size = "empty"
          PROVE  Execution!Verdicts(prompt, result.text, trace, current) = {FALSE}
      BY <3>2 DEF Execution!Verdicts
    <3> QED BY <3>1, <3>2
  <2>d. /\ scores \in Seq(RoundType) /\ DOMAIN scores = 1 .. Len(scores)
        /\ Len(scores) = current /\ current \in DOMAIN scores /\ current \in Nat
        /\ \A k \in DOMAIN scores : scores[k] \in RoundType
    BY <2>a DEF Shaped, Paced, Execution!TypeOK
  <2>e. /\ scores' \in Seq(RoundType) /\ Len(scores') = Len(scores)
        /\ DOMAIN scores' = DOMAIN scores
        /\ \A k \in DOMAIN scores : /\ scores'[k].text = scores[k].text
                                    /\ scores'[k].local = scores[k].local
                                    /\ scores'[k].score = scores[k].score
                                    /\ k # current => scores'[k].ok = scores[k].ok
        /\ scores'[current].ok = verdict
    <3> DEFINE new == [scores[current] EXCEPT !.ok = verdict]
    <3>1. scores' = [scores EXCEPT ![current] = new]
      BY <2>a
    <3>2. /\ new \in RoundType /\ new.ok = verdict /\ new.text = scores[current].text
          /\ new.local = scores[current].local /\ new.score = scores[current].score
      BY <2>d DEF RoundType
    <3> HIDE DEF new
    <3> QED BY ONLY <2>d, <3>1, <3>2
  <2>f. \A k \in DOMAIN scores : ~scores[k].ok
    BY <2>a DEF Open
  <2>g. result' \in ResultType
    BY <2>a, <2>b DEF Shaped, ResultType
  <2>1. Shaped'
    <3>1. current' \in 0 .. Execution!RoundsFor(prompt) /\ Len(scores') \in {current' - 1, current'}
      BY <1>0, <2>a, <2>d, <2>e DEF Shaped, Execution!TypeOK
    <3>2. best.score = -100 \/ \E k \in DOMAIN scores' : best.score = scores'[k].score
      BY <2>e DEF Shaped, Execution!TypeOK
    <3>3. result'.text \in Texts \cup {Execution!EmptyText}
          /\ result'.status \in {"none", "success", "error", "partial"}
      BY <2>g DEF ResultType, TextKinds
    <3> QED BY <2>a, <2>e, <2>g, <3>1, <3>2, <3>3 DEF Shaped, Execution!TypeOK
  <2>2. Paced' /\ Open' /\ EntryOfRound'
    <3>1. Paced'
      BY <2>a, <2>d, <2>e DEF Paced
    <3>2. Open'
      BY <2>a, <2>e, <2>f DEF Open
    <3> QED BY <2>a, <3>1, <3>2 DEF EntryOfRound
  <2>3. BestOfRounds'
    <3>1. scores # <<>> /\ scores' # <<>>
      BY ONLY <2>d, <2>e
    <3> QED BY <2>a, <2>e, <3>1 DEF BestOfRounds
  <2>4. Ended'
    <3>1. ASSUME pc' = "finish"
          PROVE  IF result'.status = "error" THEN MayFail' ELSE MayComplete'
      <4>1. CASE verdict
        <5>1. /\ result' = result /\ scores'[current].text = result.text
              /\ scores'[current].local = local.status /\ scores'[current].ok
              /\ result.status = "error" <=> local.status = "error"
          BY <2>a, <2>b, <2>d, <2>e, <4>1 DEF EntryOfRound
        <5>2. \A k \in DOMAIN scores' : scores'[k].ok => k = current
          BY <2>d, <2>e, <2>f
        <5> QED BY <2>c, <2>d, <2>e, <4>1, <5>1, <5>2 DEF MayFail, MayComplete
      <4>2. CASE ~verdict
        <5>1. \A k \in DOMAIN scores' : ~scores'[k].ok
          BY <2>d, <2>e, <2>f, <4>2
        <5>2. MayFail'
          BY <5>1 DEF MayFail
        <5>3. ASSUME result'.status # "error" PROVE MayComplete'
          <6>1. result' = best.result /\ best.score >= 45
            BY <2>a, <2>b, <3>1, <4>2, <5>3 DEF Shaped, ResultType
          <6>2. scores # <<>>
            BY ONLY <2>d
          <6>3. PICK k \in DOMAIN scores : /\ scores[k].score = best.score
                                           /\ scores[k].text = best.result.text
                                           /\ scores[k].local = "error" => best.result.status = "error"
            BY <6>2 DEF BestOfRounds
          <6>4. \A j \in DOMAIN scores' : scores'[j].score <= scores'[k].score + 1
            BY <2>e, <6>3 DEF BestOfRounds
          <6>5. best.result.text.size # "empty"
            BY <6>1, <6>3 DEF BestOfRounds
          <6> QED BY <2>e, <5>3, <6>1, <6>3, <6>4, <6>5 DEF MayComplete
        <5> QED BY <5>2, <5>3
      <4> QED BY <4>1, <4>2
    <3>2. Execution!OutcomeJustified'
      BY <2>a DEF Open, Execution!OutcomeJustified
    <3> QED BY <3>1, <3>2 DEF Ended
  <2>5. Accounted'
    BY <2>a DEF Accounted, Asked, TargetsAt, Execution!EveryTargetAnswers
  <2> QED BY <2>1, <2>2, <2>3, <2>4, <2>5
<1>12. ASSUME NEW source, Execution!Finish(source) PROVE ExecutionInv'
  <2> USE <1>12 DEF Execution!Finish
  <2>1. Shaped'
    <3>1. outcome' \in Execution!Status
      BY DEF Shaped, Execution!TypeOK, Execution!Status
    <3>2. stored' \in {"nothing", "answer", "worker", "organizer"}
      BY DEF Execution!Fallbacks, Shaped, Execution!TypeOK
    <3> QED BY <3>1, <3>2 DEF Shaped, Execution!TypeOK
  <2>2. Paced' /\ Open' /\ EntryOfRound'
    BY DEF Paced, Open, EntryOfRound
  <2>3. BestOfRounds'
    BY DEF BestOfRounds
  <2>4. Ended'
    BY DEF Ended, Open, Execution!OutcomeJustified, MayFail, MayComplete
  <2>5. Accounted'
    BY DEF Accounted, Asked, TargetsAt, Execution!EveryTargetAnswers
  <2> QED BY <2>1, <2>2, <2>3, <2>4, <2>5
<1> QED BY <1>1, <1>2, <1>3, <1>4, <1>5, <1>6, <1>7, <1>8, <1>9, <1>10, <1>11, <1>12
        DEF Execution!Next, TextKinds

\* What is known of an execution holds at its start, and it changes nothing while the
\* other part of the composition goes on.
LEMMA ExecutionInvariant == BothSpec => []ExecutionInv
<1>1. BothInit => ExecutionInv
  <2> SUFFICES ASSUME Execution!Init PROVE ExecutionInv
    BY DEF BothInit
  <2> USE DEF Execution!Init
  <2>0. Execution!RoundsFor(prompt) \in 1 .. 8
    BY RoundsBounded, ExecutionAssumption DEF ExecutionAssumption, Execution!PromptsAssumption
  <2>1. Shaped
    <3>1. chosen = [steps |-> chosen.steps, mode |-> chosen.mode] /\ chosen.mode = "none"
      BY DEF Execution!NoPlan
    <3>2. result \in ResultType
      BY DEF Execution!NoResult, ResultType, TextKinds
    <3>3. best \in [score : {-100} \cup 0 .. 100, result : ResultType] /\ best.score = -100
      BY <3>2
    <3>4. scores \in Seq(RoundType) /\ Len(scores) = 0
      OBVIOUS
    <3>5. local \in Execution!Outcome /\ outcome \in Execution!Status /\ DOMAIN remote = {}
      BY DEF Execution!Skipped, Execution!Outcome, Execution!Status
    <3>6. /\ result.text \in Texts \cup {Execution!EmptyText}
          /\ result.status \in {"none", "success", "error", "partial"}
      BY DEF Execution!NoResult
    <3>7. /\ current \in 0 .. Execution!RoundsFor(prompt)
          /\ stagnation \in 0 .. Execution!RoundsFor(prompt)
          /\ Len(scores) \in {current - 1, current} \cup {0}
      BY <2>0, <3>4
    <3>8. /\ pc = "bind" /\ sync \in BOOLEAN /\ prompt \in Prompts /\ trace \in BOOLEAN
          /\ accepted \in BOOLEAN /\ waiting = {} /\ stored = "nothing"
      OBVIOUS
    <3>9. Execution!TypeOK
      BY ONLY <3>1, <3>3, <3>5, <3>6, <3>7, <3>8 DEF Execution!TypeOK
    <3> QED BY ONLY <3>1, <3>2, <3>3, <3>4, <3>9 DEF Shaped
  <2>2. Paced /\ Open /\ EntryOfRound /\ BestOfRounds
    BY DEF Paced, Open, EntryOfRound, BestOfRounds
  <2>3. Ended /\ Accounted
    BY DEF Ended, Execution!OutcomeJustified, Accounted, Execution!EveryTargetAnswers
  <2> QED BY <2>1, <2>2, <2>3 DEF ExecutionInv
<1>2. ExecutionInv /\ [BothNext]_<<part, vars, executionVars>> => ExecutionInv'
  <2>1. UNCHANGED executionVars /\ ExecutionInv => ExecutionInv'
    BY DEF executionVars, ExecutionInv, Shaped, Paced, Open, BestOfRounds, EntryOfRound, Ended,
           MayFail, MayComplete, Accounted, Asked, TargetsAt, Execution!TypeOK,
           Execution!OutcomeJustified, Execution!EveryTargetAnswers
  <2> QED BY <2>1, ExecutionStep DEF BothNext
<1> QED BY <1>1, <1>2, PTL DEF BothSpec

\* A task is completed only with a text that is not empty, of a round whose local subtask
\* did not fail, that was accepted or that no other round surpassed; it fails only if no
\* round that was accepted had a local success; and a round that is evaluated knows of
\* every node it was to ask.  For every pool, planner, kind of task and of text, profile
\* and judge.
THEOREM OutcomesAreJustified == BothSpec => []OutcomeJustified
<1>1. ExecutionInv => OutcomeJustified
  BY DEF ExecutionInv, Ended, Accounted, OutcomeJustified
<1> QED BY <1>1, ExecutionInvariant, PTL

\* The state of both parts has its type.
THEOREM BothTypesHold == BothSpec => []BothTypeOK
<1>1. ExecutionInv /\ TypeOK => BothTypeOK
  BY DEF ExecutionInv, Shaped, BothTypeOK
<1>2. BothInit => Init
  BY DEF BothInit
<1>3. [BothNext]_<<part, vars, executionVars>> => [Next]_vars
  BY DEF BothNext
<1>4. BothSpec => Spec
  BY <1>2, <1>3, PTL DEF BothSpec, Spec
<1> QED BY <1>1, <1>4, ExecutionInvariant, TypeCorrect, PTL

-----------------------------------------------------------------------------
(* The plans.  First, what is built step by step.                            *)

\* A set of natural numbers has a least element, if any.
LEMMA LeastNat ==
  ASSUME NEW T, T \subseteq Nat, T # {}
  PROVE  \E n \in T : \A m \in T : n <= m
<1> DEFINE R == {ss \in Nat \X Nat : ss[1] < ss[2]}
<1>1. IsWellFoundedOn(R, Nat)
  BY NatLessThanWellFounded DEF OpToRel
<1> HIDE DEF R
<1>2. PICK n \in T : \A y \in T : ~(<<y, n>> \in R)
  BY <1>1, WFMin
<1>3. \A m \in T : ~(m < n)
  BY <1>2 DEF R
<1> QED BY <1>3

\* What the first value of a list has, and every value has if the one before it has, all
\* values have.
LEMMA Kept ==
  ASSUME NEW N \in Nat, NEW f, NEW Good, <<0, f[0]>> \in Good,
         \A n \in 1 .. N : <<n - 1, f[n - 1]>> \in Good => <<n, f[n]>> \in Good
  PROVE  \A n \in 0 .. N : <<n, f[n]>> \in Good
<1> DEFINE T == {n \in 0 .. N : <<n, f[n]>> \notin Good}
<1> SUFFICES ASSUME T # {} PROVE FALSE
  OBVIOUS
<1>1. PICK n \in T : \A m \in T : n <= m
  <2>1. T \subseteq Nat
    OBVIOUS
  <2> HIDE DEF T
  <2> QED BY <2>1, LeastNat
<1>2. n \in 1 .. N /\ n - 1 \in 0 .. N /\ ~(n <= n - 1)
  OBVIOUS
<1>3. n - 1 \notin T
  <2> HIDE DEF T
  <2> QED BY <1>1, <1>2
<1> QED BY <1>2, <1>3

\* The steps that lead from each of the first N numbers to the next, among the values S.
Steps(N, S) == [(1 .. N) \X S -> S]

\* From base, the steps reach a value for each of the first N numbers.
Reachable(N, S, base, G) ==
  \E f \in [0 .. N -> S] : f[0] = base /\ \A n \in 1 .. N : f[n] = G[<<n, f[n - 1]>>]

\* A step from each number to the next can be repeated.
LEMMA Repeated ==
  ASSUME NEW N \in Nat, NEW S, NEW base \in S, NEW G \in Steps(N, S)
  PROVE  Reachable(N, S, base, G)
<1> DEFINE Extends(m, f) == /\ f \in [0 .. m -> S] /\ f[0] = base
                            /\ \A n \in 1 .. m : f[n] = G[<<n, f[n - 1]>>]
           Good == {p \in Nat \X {base} : \E f : Extends(p[1], f)}
           constant == [n \in 0 .. N |-> base]
<1>1. <<0, constant[0]>> \in Good
  <2> DEFINE g == [i \in 0 .. 0 |-> base]
  <2>1. Extends(0, g)
    OBVIOUS
  <2> HIDE DEF Extends, g
  <2> QED BY <2>1
<1>2. ASSUME NEW n \in 1 .. N, <<n - 1, constant[n - 1]>> \in Good
      PROVE  <<n, constant[n]>> \in Good
  <2>1. PICK f : Extends(n - 1, f)
    BY <1>2
  <2> DEFINE next == G[<<n, f[n - 1]>>]
             g == [i \in 0 .. n |-> IF i = n THEN next ELSE f[i]]
  <2>2. next \in S
    BY <2>1 DEF Steps
  <2>3. g \in [0 .. n -> S] /\ g[0] = base /\ g[n] = next /\ \A i \in 0 .. n - 1 : g[i] = f[i]
    <3> HIDE DEF next
    <3> QED BY <2>1, <2>2
  <2>4. ASSUME NEW m \in 1 .. n PROVE g[m] = G[<<m, g[m - 1]>>]
    <3>1. m - 1 \in 0 .. n - 1 /\ g[m - 1] = f[m - 1]
      BY <2>3
    <3>2. CASE m = n
      BY <2>3, <3>1, <3>2
    <3>3. CASE m # n
      <4>1. m \in 1 .. n - 1 /\ m \in 0 .. n - 1
        BY <3>3
      <4> QED BY <2>1, <2>3, <3>1, <4>1
    <3> QED BY <3>2, <3>3
  <2>5. Extends(n, g)
    <3> HIDE DEF g
    <3> QED BY <2>3, <2>4
  <2> HIDE DEF Extends, g
  <2> QED BY <2>5
<1>3. <<N, constant[N]>> \in Good
  <2> HIDE DEF Good, constant
  <2> QED BY <1>1, <1>2, Kept
<1>4. PICK f : Extends(N, f)
  BY <1>3
<1> QED BY <1>4 DEF Reachable

-----------------------------------------------------------------------------
(* The pool.                                                                 *)

\* What a pool may list.
Remote(n) == Execution!RemoteEntry(Execution!Coerced(n))

Entries ==
  {Execution!LocalEntry} \cup {Remote(n) : n \in {m \in Execution!Records : Execution!Eligible(m)}}

\* A pool lists the local team first, then other nodes, no two of them under one id or with
\* a key in common.
Distinct(p) ==
  /\ Len(p) > 0 /\ p[1] = Execution!LocalEntry
  /\ \A i \in 2 .. Len(p) : p[i].remote
  /\ \A i, j \in 1 .. Len(p) :
       i # j => p[i].id # p[j].id /\ p[i].tokens \cap p[j].tokens = {}

Pools == {p \in Seq(Entries) : Distinct(p)}

\* The local team has an id no other node has, and costs are numbers.
LEMMA EntryIs ==
  ASSUME NEW e \in Entries
  PROVE  /\ e.remote \in BOOLEAN /\ e.cost \in Nat
         /\ e.remote <=> e # Execution!LocalEntry
         /\ e.remote <=> e.id # Execution!LOCAL_COORDINATOR_ID
<1>1. CASE e = Execution!LocalEntry
  BY <1>1 DEF Execution!LocalEntry
<1>2. CASE e # Execution!LocalEntry
  <2>1. PICK n \in Execution!Records : Execution!Eligible(n) /\ e = Remote(n)
    BY <1>2 DEF Entries
  <2>2. n = [dict |-> n.dict, online |-> n.online, id |-> n.id, an_id |-> n.an_id,
             agent_id |-> n.agent_id, wallet |-> n.wallet, endpoint |-> n.endpoint,
             name |-> n.name, cost |-> n.cost] /\ n.cost \in Nat
    BY ExecutionAssumption
       DEF ExecutionAssumption, Execution!RecordsAssumption, Execution!RawNode
  <2>3. Execution!Coerced(n).cost = n.cost
    BY <2>2 DEF Execution!Coerced
  <2>4. e.remote /\ e.cost \in Nat /\ e.id = Execution!PickId(Execution!Coerced(n))
    BY <2>1, <2>2, <2>3 DEF Remote, Execution!RemoteEntry
  <2>5. e.id # Execution!LOCAL_COORDINATOR_ID
    BY <2>1, <2>4 DEF Execution!Eligible
  <2> QED BY <1>2, <2>4, <2>5
<1> QED BY <1>1, <1>2

\* One more record leaves a pool a pool.
LEMMA AddKeepsPools ==
  ASSUME NEW p \in Pools, NEW n \in Execution!Records
  PROVE  Execution!Add(p, n) \in Pools
<1> DEFINE e == Remote(n)
<1> SUFFICES ASSUME Execution!Eligible(n), ~Execution!Known(p, e) PROVE Append(p, e) \in Pools
  BY DEF Execution!Add, Remote
<1>1. e \in Entries /\ e # Execution!LocalEntry
  <2>1. e \in Entries
    BY DEF Entries
  <2>2. e.remote /\ ~Execution!LocalEntry.remote
    BY DEF Remote, Execution!RemoteEntry, Execution!LocalEntry
  <2> QED BY <2>1, <2>2
<1>2. e.remote /\ e.id # Execution!LocalEntry.id
  BY <1>1, EntryIs DEF Execution!LocalEntry
<1> HIDE DEF e
<1>3. p \in Seq(Entries) /\ Len(p) \in Nat /\ Len(p) > 0 /\ p[1] = Execution!LocalEntry
  BY DEF Pools, Distinct
<1> DEFINE q == Append(p, e)
<1>4. /\ q \in Seq(Entries) /\ Len(q) = Len(p) + 1 /\ q[Len(p) + 1] = e
      /\ \A i \in 1 .. Len(p) : q[i] = p[i]
  BY <1>1, <1>3
<1> HIDE DEF q
<1>5. \A i \in 2 .. Len(q) : q[i].remote
  BY <1>2, <1>3, <1>4 DEF Pools, Distinct
<1>6. ASSUME NEW i \in 1 .. Len(p)
      PROVE  p[i].id # e.id /\ p[i].tokens \cap e.tokens = {}
  <2>1. CASE i = 1
    <3>1. p[i] = Execution!LocalEntry /\ Execution!LocalEntry.tokens = {}
      BY <1>3, <2>1 DEF Execution!LocalEntry
    <3> QED BY <1>2, <3>1
  <2>2. CASE i # 1
    BY <1>3, <2>2 DEF Execution!Known, Pools, Distinct
  <2> QED BY <2>1, <2>2
<1>7. ASSUME NEW i \in 1 .. Len(q), NEW j \in 1 .. Len(q), i # j
      PROVE  q[i].id # q[j].id /\ q[i].tokens \cap q[j].tokens = {}
  <2>1. CASE i \in 1 .. Len(p) /\ j \in 1 .. Len(p)
    BY <1>4, <1>7, <2>1 DEF Pools, Distinct
  <2>2. CASE i \in 1 .. Len(p) /\ j = Len(p) + 1
    BY <1>4, <1>6, <2>2
  <2>3. CASE j \in 1 .. Len(p) /\ i = Len(p) + 1
    BY <1>4, <1>6, <2>3
  <2> QED BY <1>3, <1>4, <1>7, <2>1, <2>2, <2>3
<1>8. Len(q) > 0 /\ q[1] = Execution!LocalEntry
  BY <1>3, <1>4
<1>9. q \in Pools
  <2>1. Distinct(q)
    BY ONLY <1>5, <1>7, <1>8 DEF Distinct
  <2> QED BY ONLY <1>4, <2>1 DEF Pools
<1> QED BY <1>9 DEF q

\* The pools after the first nodes of a list.
PoolsAfter(f, nodes, seen) ==
  f = [k \in 0 .. Len(nodes) |->
         IF k = 0 THEN <<Execution!LocalEntry>>
         ELSE IF nodes[k] \in seen THEN Execution!Add(f[k - 1], nodes[k]) ELSE f[k - 1]]

\* Whatever the sources know, what is built from it is a pool.
LEMMA PoolsAreBuilt ==
  ASSUME NEW nodes \in Seq(Execution!Records), NEW seen
  PROVE  Execution!GetPool(nodes, seen) \in Pools
<1> DEFINE N == Len(nodes)
           Step(p, k) == IF nodes[k] \in seen THEN Execution!Add(p, nodes[k]) ELSE p
           G == [x \in (1 .. N) \X Pools |-> Step(x[2], x[1])]
           first == <<Execution!LocalEntry>>
<1>1. N \in Nat
  OBVIOUS
<1>2. first \in Pools
  <2>1. first \in Seq(Entries) /\ Len(first) = 1 /\ first[1] = Execution!LocalEntry
    BY DEF Entries
  <2> HIDE DEF first
  <2>2. (2 .. 1) = {} /\ \A i, j \in 1 .. 1 : i = j
    OBVIOUS
  <2>3. Distinct(first)
    BY <2>1, <2>2 DEF Distinct
  <2> QED BY ONLY <2>1, <2>3 DEF Pools
<1>3. ASSUME NEW p \in Pools, NEW k \in 1 .. N PROVE Step(p, k) \in Pools
  BY AddKeepsPools
<1>4. G \in Steps(N, Pools)
  <2> HIDE DEF Step
  <2> QED BY <1>3 DEF Steps
<1>5. Reachable(N, Pools, first, G)
  <2> HIDE DEF N, G, first
  <2> QED BY <1>1, <1>2, <1>4, Repeated
<1>6. PICK g \in [0 .. N -> Pools] : g[0] = first /\ \A n \in 1 .. N : g[n] = G[<<n, g[n - 1]>>]
  <2> HIDE DEF N, G, first
  <2> QED BY <1>5 DEF Reachable
<1>7. PoolsAfter(g, nodes, seen)
  <2>1. ASSUME NEW n \in 1 .. N PROVE g[n] = Step(g[n - 1], n)
    <3>1. n - 1 \in 0 .. N /\ g[n - 1] \in Pools /\ <<n, g[n - 1]>> \in (1 .. N) \X Pools
      BY <1>1, <1>6
    <3> HIDE DEF Step
    <3> QED BY <1>6, <3>1
  <2>2. g = [n \in 0 .. N |-> g[n]]
    BY <1>6
  <2>3. \A n \in 0 .. N : g[n] = IF n = 0 THEN first ELSE Step(g[n - 1], n)
    <3> HIDE DEF Step, first
    <3> QED BY <1>1, <1>6, <2>1
  <2>4. g = [n \in 0 .. N |-> IF n = 0 THEN first ELSE Step(g[n - 1], n)]
    <3> HIDE DEF Step, first, N
    <3> QED BY ONLY <2>2, <2>3
  <2> QED BY <2>4 DEF PoolsAfter
<1> DEFINE h == CHOOSE f : PoolsAfter(f, nodes, seen)
<1>8. PoolsAfter(h, nodes, seen)
  BY <1>7
<1>9. Execution!GetPool(nodes, seen) = h[N]
  BY DEF PoolsAfter, Execution!GetPool
<1> HIDE DEF h
<1>10. h[0] = first /\ \A n \in 1 .. N : h[n] = Step(h[n - 1], n)
  <2>1. h = [n \in 0 .. N |-> IF n = 0 THEN first ELSE Step(h[n - 1], n)]
    BY <1>8 DEF PoolsAfter
  <2> HIDE DEF Step, first, N
  <2>2. \A n \in 0 .. N : h[n] = IF n = 0 THEN first ELSE Step(h[n - 1], n)
    BY ONLY <2>1
  <2>3. 0 \in 0 .. N /\ \A n \in 1 .. N : n \in 0 .. N /\ n # 0
    BY <1>1
  <2> QED BY ONLY <2>2, <2>3
<1>11. \A n \in 0 .. N : <<n, h[n]>> \in Nat \X Pools
  <2>1. <<0, h[0]>> \in Nat \X Pools
    BY <1>2, <1>10
  <2>2. ASSUME NEW n \in 1 .. N, <<n - 1, h[n - 1]>> \in Nat \X Pools
        PROVE  <<n, h[n]>> \in Nat \X Pools
    <3>1. h[n - 1] \in Pools
      BY <2>2
    <3> HIDE DEF Step
    <3> QED BY <1>3, <1>10, <3>1
  <2> HIDE DEF N
  <2> QED BY <1>1, <2>1, <2>2, Kept
<1>12. h[N] \in Pools
  <2> HIDE DEF N
  <2>1. N \in 0 .. N
    BY <1>1
  <2>2. <<N, h[N]>> \in Nat \X Pools
    BY <1>11, <2>1
  <2> QED BY <2>2
<1> QED BY <1>9, <1>12

\* So is every reading of the pool.
LEMMA ReadingsArePools ==
  ASSUME NEW S
  PROVE  Execution!PoolNow(S) \in Pools
<1>1. Connected \o Listed \in Seq(Execution!Records)
  BY ExecutionAssumption DEF ExecutionAssumption, Execution!RecordsAssumption
<1> QED BY <1>1, PoolsAreBuilt DEF Execution!PoolNow

-----------------------------------------------------------------------------
(* The planner's answer.                                                     *)

Ids(p) == {p[i].id : i \in 1 .. Len(p)}

SubtasksOf(p) == [remote : BOOLEAN, target : Ids(p), order : Int]

\* Subtasks are remote unless they are the local team's, and no two go to the same node.
OncePerNode(s) ==
  /\ \A i \in 1 .. Len(s) : s[i].remote <=> s[i].target # Execution!LOCAL_COORDINATOR_ID
  /\ \A i, j \in 1 .. Len(s) :
       i # j /\ s[i].remote /\ s[j].remote => s[i].target # s[j].target

Lists(p) == {s \in Seq(SubtasksOf(p)) : OncePerNode(s)}

\* The members of a pool, by their places.
LEMMA MemberIs ==
  ASSUME NEW p \in Pools
  PROVE  /\ p \in Seq(Entries) /\ Len(p) \in Nat /\ 1 \in 1 .. Len(p) /\ DOMAIN p = 1 .. Len(p)
         /\ p[1] = Execution!LocalEntry
         /\ \A i \in 1 .. Len(p) :
              /\ p[i].remote \in BOOLEAN /\ p[i].cost \in Nat
              /\ p[i].remote <=> i # 1
              /\ p[i].remote <=> p[i].id # Execution!LOCAL_COORDINATOR_ID
         /\ \A i, j \in 1 .. Len(p) : p[i].id = p[j].id => i = j
<1>1. p \in Seq(Entries) /\ Distinct(p)
  BY DEF Pools
<1>2. Len(p) \in Nat /\ 1 \in 1 .. Len(p) /\ DOMAIN p = 1 .. Len(p)
  BY <1>1 DEF Distinct
<1>3. ASSUME NEW i \in 1 .. Len(p)
      PROVE  /\ p[i].remote \in BOOLEAN /\ p[i].cost \in Nat
             /\ p[i].remote <=> i # 1
             /\ p[i].remote <=> p[i].id # Execution!LOCAL_COORDINATOR_ID
  <2>1. p[i] \in Entries
    BY <1>1
  <2>2. p[1] = Execution!LocalEntry
    BY <1>1 DEF Distinct
  <2>3. i # 1 => i \in 2 .. Len(p)
    BY <1>2
  <2>4. i # 1 => p[i].remote
    BY <1>1, <2>3 DEF Distinct
  <2> QED BY <2>1, <2>2, <2>4, EntryIs
<1>4. p[1] = Execution!LocalEntry /\ \A i, j \in 1 .. Len(p) : p[i].id = p[j].id => i = j
  BY <1>1 DEF Distinct
<1> QED BY <1>1, <1>2, <1>3, <1>4

\* A subtask of a member has the member as its target.
LEMMA SubtaskIs ==
  ASSUME NEW p \in Pools, NEW i \in 1 .. Len(p), NEW order \in Int
  PROVE  LET t == Execution!Subtask(p[i], order)
         IN  /\ t \in SubtasksOf(p) /\ t.target = p[i].id /\ t.remote = p[i].remote
             /\ t.remote <=> t.target # Execution!LOCAL_COORDINATOR_ID
BY MemberIs DEF Execution!Subtask, SubtasksOf, Ids

\* A list may be extended by a member it sends nothing to, and by the local team.
LEMMA AppendKeepsLists ==
  ASSUME NEW p \in Pools, NEW s \in Lists(p), NEW i \in 1 .. Len(p), NEW order \in Int,
         i = 1 \/ \A j \in 1 .. Len(s) : s[j].target # p[i].id
  PROVE  Append(s, Execution!Subtask(p[i], order)) \in Lists(p)
<1> DEFINE t == Execution!Subtask(p[i], order)
           q == Append(s, t)
<1>1. /\ t \in SubtasksOf(p) /\ t.target = p[i].id /\ t.remote = p[i].remote
      /\ t.remote <=> t.target # Execution!LOCAL_COORDINATOR_ID
  BY SubtaskIs
<1>2. t.remote <=> i # 1
  BY <1>1, MemberIs
<1> HIDE DEF t
<1>3. s \in Seq(SubtasksOf(p)) /\ OncePerNode(s) /\ Len(s) \in Nat
  BY DEF Lists
<1>4. /\ q \in Seq(SubtasksOf(p)) /\ Len(q) = Len(s) + 1 /\ q[Len(s) + 1] = t
      /\ \A j \in 1 .. Len(s) : q[j] = s[j]
  BY <1>1, <1>3
<1> HIDE DEF q
<1>5. ASSUME NEW j \in 1 .. Len(q)
      PROVE  q[j].remote <=> q[j].target # Execution!LOCAL_COORDINATOR_ID
  BY <1>1, <1>3, <1>4 DEF OncePerNode
<1>6. ASSUME NEW j \in 1 .. Len(q), NEW k \in 1 .. Len(q), j # k, q[j].remote, q[k].remote
      PROVE  q[j].target # q[k].target
  <2>1. CASE j \in 1 .. Len(s) /\ k \in 1 .. Len(s)
    BY <1>3, <1>4, <1>6, <2>1 DEF OncePerNode
  <2>2. CASE j \in 1 .. Len(s) /\ k = Len(s) + 1
    BY <1>1, <1>2, <1>4, <1>6, <2>2
  <2>3. CASE k \in 1 .. Len(s) /\ j = Len(s) + 1
    BY <1>1, <1>2, <1>4, <1>6, <2>3
  <2> QED BY <1>3, <1>4, <1>6, <2>1, <2>2, <2>3
<1>7. OncePerNode(q)
  BY <1>5, <1>6 DEF OncePerNode
<1>8. q \in Lists(p)
  BY ONLY <1>4, <1>7 DEF Lists
<1> QED BY <1>8 DEF q, t

\* So the local team alone is a list of subtasks.
LEMMA LocalListIs ==
  ASSUME NEW p \in Pools
  PROVE  /\ <<>> \in Lists(p)
         /\ Execution!LocalOnlyPlan.steps \in Lists(p) /\ Len(Execution!LocalOnlyPlan.steps) = 1
<1>1. <<>> \in Lists(p)
  BY DEF Lists, OncePerNode
<1>2. Append(<<>>, Execution!Subtask(p[1], 0)) \in Lists(p)
  <2> DEFINE empty == <<>>
  <2> HIDE DEF empty
  <2>1. empty \in Lists(p) /\ 1 \in 1 .. Len(p) /\ 0 \in Int
    BY <1>1, MemberIs DEF empty
  <2>2. Append(empty, Execution!Subtask(p[1], 0)) \in Lists(p)
    BY <2>1, AppendKeepsLists
  <2> QED BY <2>2 DEF empty
<1>3. Execution!LocalOnlyPlan.steps = Append(<<>>, Execution!Subtask(p[1], 0))
  BY MemberIs DEF Execution!LocalOnlyPlan
<1> QED BY <1>1, <1>2, <1>3

\* The first of a set of places is one of them.
LEMMA FirstIs ==
  ASSUME NEW S, S \subseteq Nat, S # {}
  PROVE  Execution!FirstOf(S) \in S
BY LeastNat DEF Execution!FirstOf

\* A name is resolved to a place in the pool, or to none.
LEMMA ResolveIs ==
  ASSUME NEW p \in Pools, NEW to, NEW assigned
  PROVE  Execution!Resolve(p, to, assigned) \in 0 .. Len(p)
<1> DEFINE free   == {i \in DOMAIN p : p[i].id \notin assigned}
           byId   == {i \in DOMAIN p : p[i].id = to}
           byName == {i \in free : to \in Execution!NamesOf(p, i)}
           byPart == {i \in free : <<to, p[i].name>> \in Alike}
           nearest == CHOOSE i \in byPart :
                        \A j \in byPart : Execution!Place(p, i) <= Execution!Place(p, j)
<1>0. Len(p) \in Nat /\ DOMAIN p = 1 .. Len(p)
  BY MemberIs
<1>1. byId # {} => Execution!FirstOf(byId) \in 1 .. Len(p)
  <2>1. byId \subseteq 1 .. Len(p) /\ byId \subseteq Nat
    BY <1>0
  <2> HIDE DEF byId
  <2> QED BY <2>1, FirstIs
<1>2. byName # {} => Execution!FirstOf(byName) \in 1 .. Len(p)
  <2>1. byName \subseteq 1 .. Len(p) /\ byName \subseteq Nat
    BY <1>0
  <2> HIDE DEF byName
  <2> QED BY <2>1, FirstIs
<1>3. byPart # {} => nearest \in 1 .. Len(p)
  <2>1. ASSUME NEW i \in 1 .. Len(p) PROVE Execution!Place(p, i) \in Nat
    <3> DEFINE T == {j \in DOMAIN p : p[j].name = p[i].name}
    <3>1. T \subseteq Nat /\ T # {}
      BY <1>0
    <3> HIDE DEF T
    <3>2. Execution!FirstOf(T) \in Nat
      BY <3>1, FirstIs
    <3> QED BY <1>0, <3>2 DEF Execution!Place, T
  <2>2. byPart \subseteq 1 .. Len(p)
    BY <1>0
  <2> HIDE DEF byPart
  <2> DEFINE T == {Execution!Place(p, i) : i \in byPart}
  <2>3. ASSUME byPart # {} PROVE \E n \in T : \A m \in T : n <= m
    <3>1. T \subseteq Nat /\ T # {}
      BY <2>1, <2>2, <2>3
    <3> HIDE DEF T
    <3> QED BY <3>1, LeastNat
  <2>4. ASSUME byPart # {}
        PROVE  \E i \in byPart : \A j \in byPart : Execution!Place(p, i) <= Execution!Place(p, j)
    BY <2>3, <2>4
  <2> QED BY <2>2, <2>4
<1> HIDE DEF nearest
<1>4. Execution!Resolve(p, to, assigned) =
        IF byId # {} THEN Execution!FirstOf(byId)
        ELSE IF byName # {} THEN Execution!FirstOf(byName)
        ELSE IF byPart # {} THEN nearest ELSE 0
  BY DEF Execution!Resolve, nearest
<1> HIDE DEF byId, byName, byPart
<1> QED BY <1>0, <1>1, <1>2, <1>3, <1>4

\* What has been made of the items so far: the nodes of its subtasks are assigned.
Drafts(p) ==
  {acc \in [steps : Lists(p), assigned : SUBSET Ids(p), idx : Nat] :
     \A i \in 1 .. Len(acc.steps) : acc.steps[i].remote => acc.steps[i].target \in acc.assigned}

\* Each item leaves such a draft.
LEMMA AssignKeepsDrafts ==
  ASSUME NEW p \in Pools, NEW acc \in Drafts(p), NEW item, item.order \in Int
  PROVE  Execution!AssignItem(p, acc, item) \in Drafts(p)
<1> DEFINE i     == Execution!Resolve(p, item.to, acc.assigned)
           place == IF i = 0 THEN 1 ELSE i
           order == IF item.order = Execution!NoOrder THEN acc.idx + 1 ELSE item.order
           e     == IF i = 0 THEN Execution!LocalEntry ELSE p[i]
           steps == Append(acc.steps, Execution!Subtask(e, order))
           assigned == acc.assigned \cup (IF i = 0 THEN {} ELSE {e.id})
<1>1. /\ acc = [steps |-> acc.steps, assigned |-> acc.assigned, idx |-> acc.idx]
      /\ acc.steps \in Lists(p) /\ acc.assigned \subseteq Ids(p) /\ acc.idx \in Nat
      /\ \A j \in 1 .. Len(acc.steps) :
           acc.steps[j].remote => acc.steps[j].target \in acc.assigned
  BY DEF Drafts
<1>2. i \in 0 .. Len(p)
  BY ResolveIs
<1>3. order \in Int
  BY <1>1
<1> HIDE DEF i, order
<1>4. place \in 1 .. Len(p) /\ e = p[place] /\ (i # 0 => place = i)
  BY <1>2, MemberIs
<1> HIDE DEF place, e
<1>5. CASE item.to = Execution!NoObject \/ (i # 0 /\ e.id \in acc.assigned)
  <2>1. Execution!AssignItem(p, acc, item) = [acc EXCEPT !.idx = @ + 1]
    BY <1>5 DEF Execution!AssignItem, i, e
  <2>2. [acc EXCEPT !.idx = @ + 1]
          = [steps |-> acc.steps, assigned |-> acc.assigned, idx |-> acc.idx + 1]
    BY <1>1
  <2> QED BY <1>1, <2>1, <2>2 DEF Drafts
<1>6. CASE ~(item.to = Execution!NoObject \/ (i # 0 /\ e.id \in acc.assigned))
  <2>1. Execution!AssignItem(p, acc, item)
          = [steps |-> steps, assigned |-> assigned, idx |-> acc.idx + 1]
    BY <1>6 DEF Execution!AssignItem, i, e, order
  <2>2. ASSUME place # 1, NEW j \in 1 .. Len(acc.steps) PROVE acc.steps[j].target # e.id
    <3>1. i # 0 /\ e.id \notin acc.assigned
      BY <1>6, <2>2 DEF place
    <3>2. e.id # Execution!LOCAL_COORDINATOR_ID
      BY <1>4, <2>2, MemberIs
    <3>3. acc.steps[j].remote <=> acc.steps[j].target # Execution!LOCAL_COORDINATOR_ID
      BY <1>1 DEF Lists, OncePerNode
    <3> QED BY <1>1, <3>1, <3>2, <3>3
  <2>3. steps \in Lists(p)
    <3>1. Append(acc.steps, Execution!Subtask(p[place], order)) \in Lists(p)
      BY <1>1, <1>3, <1>4, <2>2, AppendKeepsLists
    <3> QED BY <1>4, <3>1
  <2>4. assigned \in SUBSET Ids(p)
    BY <1>1, <1>4 DEF Ids
  <2>5. ASSUME NEW j \in 1 .. Len(steps), steps[j].remote PROVE steps[j].target \in assigned
    <3> DEFINE t == Execution!Subtask(e, order)
    <3>1. t.target = e.id /\ (t.remote => place # 1)
      <4>1. place \in 1 .. Len(p) /\ (p[place].remote => place # 1)
        BY <1>4, MemberIs
      <4>2. t.target = p[place].id /\ t.remote = p[place].remote
        BY <1>4 DEF Execution!Subtask
      <4> QED BY <1>4, <4>1, <4>2
    <3>2. place # 1 => i # 0
      BY DEF place
    <3> HIDE DEF t
    <3>3. acc.steps \in Seq(SubtasksOf(p)) /\ Len(acc.steps) \in Nat
      BY <1>1 DEF Lists
    <3>4. Len(Append(acc.steps, t)) = Len(acc.steps) + 1
      BY <3>3
    <3>5. CASE j \in 1 .. Len(acc.steps)
      <4>1. Append(acc.steps, t)[j] = acc.steps[j]
        BY <3>3, <3>5
      <4> QED BY <1>1, <2>5, <3>5, <4>1 DEF t
    <3>6. CASE j = Len(acc.steps) + 1
      <4>1. Append(acc.steps, t)[j] = t
        BY <3>3, <3>6
      <4> QED BY <2>5, <3>1, <3>2, <4>1 DEF t
    <3> QED BY <3>3, <3>4, <3>5, <3>6 DEF t
  <2> HIDE DEF steps, assigned
  <2>6. acc.idx + 1 \in Nat
    BY <1>1
  <2> QED BY <2>1, <2>3, <2>4, <2>5, <2>6 DEF Drafts
<1> QED BY <1>5, <1>6

\* The drafts after the first items of an answer.
DraftsAfter(f, p, items) ==
  f = [k \in 0 .. Len(items) |->
         IF k = 0 THEN Execution!Nothing ELSE Execution!AssignItem(p, f[k - 1], items[k])]

\* Whatever the answer, it comes to subtasks for members of the pool.
LEMMA ParsedIs ==
  ASSUME NEW p \in Pools, NEW answer \in PlanAnswers
  PROVE  LET steps == Execution!ParseRoutingResponse(p, answer).steps
         IN  steps \in Lists(p) /\ Len(steps) > 0
<1> DEFINE items == answer.items
           N == Len(items)
           Step(acc, k) == Execution!AssignItem(p, acc, items[k])
           G == [x \in (1 .. N) \X Drafts(p) |-> Step(x[2], x[1])]
           first == Execution!Nothing
<1>1. N \in Nat /\ \A k \in 1 .. N : items[k].order \in Int
  <2>1. items \in Seq(Execution!Range(items)) /\ \A x \in Execution!Range(items) : x.order \in Int
    BY ExecutionAssumption DEF ExecutionAssumption, Execution!PlanAnswersAssumption
  <2> HIDE DEF items
  <2>2. ASSUME NEW k \in 1 .. Len(items) PROVE items[k] \in Execution!Range(items)
    BY <2>1
  <2> QED BY <2>1, <2>2
<1>2. first \in Drafts(p)
  <2>1. Execution!Nothing = [steps |-> <<>>, assigned |-> {}, idx |-> 0]
    BY DEF Execution!Nothing
  <2>2. (1 .. Len(<<>>)) = {}
    OBVIOUS
  <2> QED BY <2>1, <2>2, LocalListIs DEF Drafts
<1> HIDE DEF items, first
<1>3. ASSUME NEW acc \in Drafts(p), NEW k \in 1 .. N PROVE Step(acc, k) \in Drafts(p)
  BY <1>1, AssignKeepsDrafts
<1>4. G \in Steps(N, Drafts(p))
  <2> HIDE DEF Step
  <2> QED BY <1>3 DEF Steps
<1>5. Reachable(N, Drafts(p), first, G)
  <2> HIDE DEF N, G
  <2> QED BY <1>1, <1>2, <1>4, Repeated
<1>6. PICK g \in [0 .. N -> Drafts(p)] :
        g[0] = first /\ \A n \in 1 .. N : g[n] = G[<<n, g[n - 1]>>]
  <2> HIDE DEF N, G
  <2> QED BY <1>5 DEF Reachable
<1>7. DraftsAfter(g, p, items)
  <2>1. ASSUME NEW n \in 1 .. N PROVE g[n] = Step(g[n - 1], n)
    <3>1. n - 1 \in 0 .. N /\ g[n - 1] \in Drafts(p) /\ <<n, g[n - 1]>> \in (1 .. N) \X Drafts(p)
      BY <1>1, <1>6
    <3> HIDE DEF Step
    <3> QED BY <1>6, <3>1
  <2>2. g = [n \in 0 .. N |-> g[n]]
    BY <1>6
  <2>3. \A n \in 0 .. N : g[n] = IF n = 0 THEN first ELSE Step(g[n - 1], n)
    <3> HIDE DEF Step
    <3> QED BY <1>1, <1>6, <2>1
  <2>4. g = [n \in 0 .. N |-> IF n = 0 THEN first ELSE Step(g[n - 1], n)]
    <3> HIDE DEF Step, N
    <3> QED BY ONLY <2>2, <2>3
  <2> QED BY <2>4 DEF DraftsAfter, first
<1> DEFINE h == CHOOSE f : DraftsAfter(f, p, items)
<1>8. DraftsAfter(h, p, items)
  BY <1>7
<1>9. Execution!ParseRoutingResponse(p, answer).steps =
        IF ~answer.usable \/ h[N].steps = <<>> THEN Execution!LocalOnlyPlan.steps ELSE h[N].steps
  BY DEF DraftsAfter, Execution!ParseRoutingResponse, items
<1> HIDE DEF h
<1>10. h[0] = first /\ \A n \in 1 .. N : h[n] = Step(h[n - 1], n)
  <2>1. h = [n \in 0 .. N |-> IF n = 0 THEN first ELSE Step(h[n - 1], n)]
    BY <1>8 DEF DraftsAfter, first
  <2> HIDE DEF Step, N
  <2>2. \A n \in 0 .. N : h[n] = IF n = 0 THEN first ELSE Step(h[n - 1], n)
    BY ONLY <2>1
  <2>3. 0 \in 0 .. N /\ \A n \in 1 .. N : n \in 0 .. N /\ n # 0
    BY <1>1
  <2> QED BY ONLY <2>2, <2>3
<1>11. \A n \in 0 .. N : <<n, h[n]>> \in Nat \X Drafts(p)
  <2>1. <<0, h[0]>> \in Nat \X Drafts(p)
    BY <1>2, <1>10
  <2>2. ASSUME NEW n \in 1 .. N, <<n - 1, h[n - 1]>> \in Nat \X Drafts(p)
        PROVE  <<n, h[n]>> \in Nat \X Drafts(p)
    <3>1. h[n - 1] \in Drafts(p)
      BY <2>2
    <3> HIDE DEF Step
    <3> QED BY <1>3, <1>10, <3>1
  <2> HIDE DEF N
  <2> QED BY <1>1, <2>1, <2>2, Kept
<1>12. h[N] \in Drafts(p)
  <2> HIDE DEF N
  <2>1. N \in 0 .. N
    BY <1>1
  <2>2. <<N, h[N]>> \in Nat \X Drafts(p)
    BY <1>11, <2>1
  <2> QED BY <2>2
<1>13. h[N].steps \in Lists(p)
  BY <1>12 DEF Drafts
<1>14. h[N].steps # <<>> => Len(h[N].steps) > 0
  <2>1. h[N].steps \in Seq(SubtasksOf(p))
    BY <1>13 DEF Lists
  <2> HIDE DEF N
  <2> QED BY <2>1, EmptySeq
<1> QED BY <1>9, <1>13, <1>14, LocalListIs

-----------------------------------------------------------------------------
(* Filling up, and the ranking.                                              *)

\* The highest order of a list of subtasks is one of its orders.
LEMMA HighestIs ==
  ASSUME NEW p, NEW s \in Seq(SubtasksOf(p))
  PROVE  Execution!HighestOrder(s) \in Int
<1>1. Len(s) \in Nat /\ DOMAIN s = 1 .. Len(s) /\ \A i \in 1 .. Len(s) : s[i].order \in Int
  <2>1. ASSUME NEW i \in 1 .. Len(s) PROVE s[i].order \in Int
    <3>1. s[i] \in SubtasksOf(p)
      OBVIOUS
    <3> QED BY <3>1 DEF SubtasksOf
  <2> QED BY <2>1
<1> DEFINE Top(n, i) == i \in 1 .. n /\ \A j \in 1 .. n : s[j].order <= s[i].order
           Good == {x \in Nat \X {s} : x[1] > 0 => \E i \in 1 .. x[1] : Top(x[1], i)}
           constant == [n \in 0 .. Len(s) |-> s]
<1>2. ASSUME NEW n \in 1 .. Len(s), <<n - 1, constant[n - 1]>> \in Good
      PROVE  <<n, constant[n]>> \in Good
  <2>1. \E i \in 1 .. n : Top(n, i)
    <3>1. CASE n = 1
      <4>1. Top(1, 1)
        BY <1>1, <3>1
      <4> QED BY <3>1, <4>1
    <3>2. CASE n # 1
      <4> DEFINE m == n - 1
      <4>0. m \in 0 .. Len(s) /\ m > 0 /\ constant[m] = s
        BY <1>1, <3>2
      <4>1. PICK i \in 1 .. m : Top(m, i)
        <5>1. <<m, s>> \in Good
          BY <1>2, <4>0
        <5> HIDE DEF Top, m
        <5> QED BY <4>0, <5>1
      <4>2. CASE s[n].order <= s[i].order
        <5>1. Top(n, i)
          BY <4>1, <4>2
        <5> QED BY <5>1, <4>1
      <4>3. CASE ~(s[n].order <= s[i].order)
        <5>1. ASSUME NEW j \in 1 .. n PROVE s[j].order <= s[n].order
          <6>1. s[n].order \in Int /\ s[i].order \in Int /\ s[j].order \in Int
            BY <1>1
          <6>2. j = n \/ j \in 1 .. n - 1
            OBVIOUS
          <6> QED BY <4>1, <4>3, <6>1, <6>2
        <5>2. n \in 1 .. n
          OBVIOUS
        <5> QED BY <5>1, <5>2
      <4> QED BY <4>2, <4>3
    <3> QED BY <3>1, <3>2
  <2> HIDE DEF Top
  <2> QED BY <2>1
<1>3. <<0, constant[0]>> \in Good
  BY <1>1
<1>4. \A n \in 0 .. Len(s) : <<n, constant[n]>> \in Good
  <2> HIDE DEF Good, constant
  <2> QED BY <1>1, <1>2, <1>3, Kept
<1>5. Len(s) > 0 => \E i \in 1 .. Len(s) : Top(Len(s), i)
  <2>1. <<Len(s), constant[Len(s)]>> \in Good
    <3> HIDE DEF Good, constant
    <3> QED BY <1>1, <1>4
  <2> HIDE DEF Top
  <2> QED BY <2>1
<1> DEFINE Orders == {s[i].order : i \in DOMAIN s}
           IsHighest(m) == \A i \in DOMAIN s : s[i].order <= m
           highest == CHOOSE m \in Orders : IsHighest(m)
<1>6. CASE Len(s) > 0
  <2>1. \E m \in Orders : IsHighest(m)
    BY <1>1, <1>5, <1>6
  <2>2. highest \in Orders
    <3> HIDE DEF Orders, IsHighest
    <3> QED BY <2>1
  <2>3. highest \in Int
    <3> HIDE DEF highest
    <3> QED BY <1>1, <2>2
  <2>4. s # <<>>
    BY <1>6
  <2> QED BY <2>3, <2>4 DEF Execution!HighestOrder
<1>7. CASE ~(Len(s) > 0)
  <2>1. s = <<>>
    BY <1>1, <1>7, EmptySeq
  <2> QED BY <2>1 DEF Execution!HighestOrder
<1> QED BY <1>6, <1>7

\* What _enforce_min_pool_members has made of a list after the first members.
FilledAfter(f, p, steps, wanted, selected) ==
  f = [k \in 0 .. Len(p) |->
         IF k = 0 THEN steps
         ELSE IF Len(f[k - 1]) < wanted /\ p[k].id \notin selected
              THEN Append(f[k - 1],
                          Execution!Subtask(p[k], Execution!HighestOrder(f[k - 1]) + 1))
              ELSE f[k - 1]]

\* Has the list s something for the member i?
InList(s, p, i) == \E j \in 1 .. Len(s) : s[j].target = p[i].id

\* After the first k members: no two subtasks for one node, none for a later member unless
\* the answer had it, and one for each of the first k, or as many as are wanted.
FilledUp(p, wanted, selected) ==
  {x \in (0 .. Len(p)) \X Lists(p) :
     /\ Len(x[2]) > 0
     /\ \A i \in 1 .. Len(p) : p[i].id \in selected => InList(x[2], p, i)
     /\ \A i \in x[1] + 1 .. Len(p) : p[i].id \notin selected => ~InList(x[2], p, i)
     /\ Len(x[2]) >= wanted \/ \A i \in 1 .. x[1] : InList(x[2], p, i)}

\* A list that has something for every member is as long as the pool.
LEMMA NamesAll ==
  ASSUME NEW p \in Pools, NEW s \in Lists(p), \A i \in 1 .. Len(p) : InList(s, p, i)
  PROVE  Len(s) >= Len(p)
<1>1. Len(p) \in Nat /\ Len(s) \in Nat /\ \A i, j \in 1 .. Len(p) : p[i].id = p[j].id => i = j
  BY MemberIs DEF Lists
<1> DEFINE f == [i \in 1 .. Len(p) |-> CHOOSE j \in 1 .. Len(s) : s[j].target = p[i].id]
<1>2. ASSUME NEW i \in 1 .. Len(p) PROVE f[i] \in 1 .. Len(s) /\ s[f[i]].target = p[i].id
  BY DEF InList
<1>3. f \in [1 .. Len(p) -> 1 .. Len(s)]
  BY <1>2
<1> HIDE DEF f
<1>4. f \in Injection(1 .. Len(p), 1 .. Len(s))
  BY <1>1, <1>2, <1>3 DEF Injection, IsInjective
<1>5. /\ IsFiniteSet(1 .. Len(s)) /\ Cardinality(1 .. Len(s)) = Len(s)
      /\ Cardinality(1 .. Len(p)) = Len(p)
  <2>1. ASSUME NEW n \in Nat PROVE IsFiniteSet(1 .. n) /\ Cardinality(1 .. n) = n
    <3>1. 1 \in Int /\ n \in Int
      OBVIOUS
    <3>2. IsFiniteSet(1 .. n) /\ Cardinality(1 .. n) = IF 1 > n THEN 0 ELSE n - 1 + 1
      BY ONLY <3>1, FS_Interval
    <3> QED BY <3>2
  <2> QED BY <1>1, <2>1
<1> QED BY <1>1, <1>4, <1>5, FS_Injection

\* One more member leaves a list that is filled up so far.
LEMMA FillKeeps ==
  ASSUME NEW p \in Pools, NEW wanted \in Nat, NEW selected, NEW k \in 1 .. Len(p), NEW s,
         <<k - 1, s>> \in FilledUp(p, wanted, selected)
  PROVE  LET more == Append(s, Execution!Subtask(p[k], Execution!HighestOrder(s) + 1))
             next == IF Len(s) < wanted /\ p[k].id \notin selected THEN more ELSE s
         IN  <<k, next>> \in FilledUp(p, wanted, selected)
<1> DEFINE t == Execution!Subtask(p[k], Execution!HighestOrder(s) + 1)
           q == Append(s, t)
<1>1. /\ s \in Lists(p) /\ Len(s) > 0
      /\ \A i \in 1 .. Len(p) : p[i].id \in selected => InList(s, p, i)
      /\ \A i \in k .. Len(p) : p[i].id \notin selected => ~InList(s, p, i)
      /\ Len(s) >= wanted \/ \A i \in 1 .. k - 1 : InList(s, p, i)
  <2>1. k - 1 + 1 = k
    OBVIOUS
  <2> QED BY <2>1 DEF FilledUp
<1>2. Len(p) \in Nat /\ k \in 0 .. Len(p) /\ k \in k .. Len(p)
  BY MemberIs
<1>3. s \in Seq(SubtasksOf(p)) /\ Len(s) \in Nat
  BY <1>1 DEF Lists
<1>4. ASSUME Len(s) < wanted, p[k].id \notin selected
      PROVE  <<k, q>> \in FilledUp(p, wanted, selected)
  <2>1. t.target = p[k].id
    BY DEF Execution!Subtask
  <2>2. q \in Lists(p)
    <3>1. \A j \in 1 .. Len(s) : s[j].target # p[k].id
      BY <1>1, <1>2, <1>4 DEF InList
    <3>2. Execution!HighestOrder(s) + 1 \in Int
      BY <1>3, HighestIs
    <3> QED BY <1>1, <3>1, <3>2, AppendKeepsLists
  <2> HIDE DEF t
  <2>3. /\ Len(q) = Len(s) + 1 /\ q[Len(s) + 1] = t
        /\ \A j \in 1 .. Len(s) : q[j] = s[j]
    BY <1>3
  <2> HIDE DEF q
  <2>4. ASSUME NEW i \in 1 .. Len(p)
        PROVE  InList(q, p, i) <=> InList(s, p, i) \/ i = k
    <3>1. p[i].id = p[k].id <=> i = k
      BY MemberIs
    <3>2. ASSUME NEW j \in 1 .. Len(q)
          PROVE  q[j].target = p[i].id <=> \/ j \in 1 .. Len(s) /\ s[j].target = p[i].id
                                           \/ j = Len(s) + 1 /\ i = k
      <4>1. j \in 1 .. Len(s) \/ j = Len(s) + 1
        BY <1>3, <2>3
      <4> QED BY <1>3, <2>1, <2>3, <3>1, <4>1
    <3>3. \A j \in 1 .. Len(s) : j \in 1 .. Len(q)
      BY <1>3, <2>3
    <3>4. Len(s) + 1 \in 1 .. Len(q)
      BY <1>3, <2>3
    <3>5. ASSUME InList(q, p, i) PROVE InList(s, p, i) \/ i = k
      BY ONLY <3>2, <3>5 DEF InList
    <3>6. ASSUME InList(s, p, i) \/ i = k PROVE InList(q, p, i)
      BY ONLY <3>2, <3>3, <3>4, <3>6 DEF InList
    <3> QED BY <3>5, <3>6
  <2>5. \A i \in 1 .. Len(p) : p[i].id \in selected => InList(q, p, i)
    BY <1>1, <2>4
  <2>6. \A i \in k + 1 .. Len(p) : p[i].id \notin selected => ~InList(q, p, i)
    BY <1>1, <1>2, <2>4
  <2>7. \A i \in 1 .. k : InList(q, p, i)
    BY <1>1, <1>2, <1>3, <1>4, <2>4
  <2>8. Len(q) > 0
    BY <1>3, <2>3
  <2> QED BY <1>2, <2>2, <2>5, <2>6, <2>7, <2>8 DEF FilledUp
<1>5. ASSUME ~(Len(s) < wanted /\ p[k].id \notin selected)
      PROVE  <<k, s>> \in FilledUp(p, wanted, selected)
  <2>1. \A i \in k + 1 .. Len(p) : p[i].id \notin selected => ~InList(s, p, i)
    BY <1>1, <1>2
  <2>2. Len(s) >= wanted \/ \A i \in 1 .. k : InList(s, p, i)
    BY <1>1, <1>2, <1>3, <1>5
  <2> QED BY <1>1, <1>2, <2>1, <2>2 DEF FilledUp
<1> QED BY <1>4, <1>5

\* What is selected is what the list has something for.
LEMMA SelectedIs ==
  ASSUME NEW p \in Pools, NEW plan0, plan0.steps \in Lists(p), NEW i \in 1 .. Len(p)
  PROVE  p[i].id \in Execution!Selected(p, plan0) <=> InList(plan0.steps, p, i)
<1> DEFINE s == plan0.steps
<1>1. /\ DOMAIN s = 1 .. Len(s)
      /\ \A j \in 1 .. Len(s) : s[j].remote \/ s[j].target = Execution!LOCAL_COORDINATOR_ID
  BY DEF Lists, OncePerNode
<1>2. ASSUME InList(s, p, i) PROVE p[i].id \in Execution!Selected(p, plan0)
  BY <1>1, <1>2 DEF InList, Execution!Selected
<1>3. ASSUME p[i].id \in Execution!Selected(p, plan0) PROVE InList(s, p, i)
  BY <1>1, <1>3 DEF InList, Execution!Selected
<1> QED BY <1>2, <1>3

\* Filled up, a list has as many subtasks as are wanted, and is still a list.
LEMMA FilledIs ==
  ASSUME NEW p \in Pools, NEW plan0, plan0 = [steps |-> plan0.steps, mode |-> plan0.mode],
         plan0.steps \in Lists(p), Len(plan0.steps) > 0
  PROVE  LET steps == Execution!EnforceMinPoolMembers(p, plan0).steps
         IN  /\ steps \in Lists(p) /\ Len(steps) > 0
             /\ Len(steps) >= Execution!Least(MinPoolMembers, Len(p))
<1> DEFINE N == Len(p)
           wanted == Execution!Least(MinPoolMembers, Len(p))
           selected == Execution!Selected(p, plan0)
           More(s, k) == Append(s, Execution!Subtask(p[k], Execution!HighestOrder(s) + 1))
           Step(s, k) == IF Len(s) < wanted /\ p[k].id \notin selected THEN More(s, k) ELSE s
           Values == Seq(SubtasksOf(p))
           G == [x \in (1 .. N) \X Values |-> Step(x[2], x[1])]
           first == plan0.steps
<1>1. N \in Nat /\ wanted \in Nat /\ wanted <= N
  BY MemberIs, ExecutionAssumption
     DEF ExecutionAssumption, Execution!MinPoolMembersAssumption, Execution!Least
<1>2. first \in Values
  BY DEF Lists
<1>3. <<0, first>> \in FilledUp(p, wanted, selected)
  <2>1. \A i \in 1 .. N : p[i].id \in selected <=> InList(first, p, i)
    BY SelectedIs
  <2>2. 0 \in 0 .. N /\ (1 .. 0) = {} /\ 0 + 1 = 1
    BY <1>1
  <2> HIDE DEF wanted, selected, first
  <2>3. first \in Lists(p) /\ Len(first) > 0
    BY DEF first
  <2> QED BY <2>1, <2>2, <2>3 DEF FilledUp
<1> HIDE DEF wanted, selected, first
<1>4. ASSUME NEW k \in 1 .. N, NEW s \in Values PROVE Step(s, k) \in Values
  <2>1. Execution!HighestOrder(s) + 1 \in Int
    BY HighestIs
  <2>2. Execution!Subtask(p[k], Execution!HighestOrder(s) + 1) \in SubtasksOf(p)
    BY <2>1, SubtaskIs
  <2> HIDE DEF Values
  <2>3. More(s, k) \in Values
    BY <2>2 DEF Values
  <2> QED BY <2>3
<1>5. G \in Steps(N, Values)
  <2> HIDE DEF Step, Values
  <2> QED BY <1>4 DEF Steps
<1>6. Reachable(N, Values, first, G)
  <2> HIDE DEF N, G, Values
  <2> QED BY <1>1, <1>2, <1>5, Repeated
<1>7. PICK g \in [0 .. N -> Values] :
        g[0] = first /\ \A n \in 1 .. N : g[n] = G[<<n, g[n - 1]>>]
  <2> HIDE DEF N, G, Values
  <2> QED BY <1>6 DEF Reachable
<1>8. FilledAfter(g, p, first, wanted, selected)
  <2>1. ASSUME NEW n \in 1 .. N PROVE g[n] = Step(g[n - 1], n)
    <3>1. n - 1 \in 0 .. N
      BY <1>1
    <3>2. g[n - 1] \in Values /\ <<n, g[n - 1]>> \in (1 .. N) \X Values
      <4> HIDE DEF Values
      <4> QED BY <1>7, <3>1
    <3> HIDE DEF Step, Values
    <3> QED BY <1>7, <3>2
  <2> HIDE DEF Values
  <2>2. g = [n \in 0 .. N |-> g[n]]
    BY <1>7
  <2>3. \A n \in 0 .. N : g[n] = IF n = 0 THEN first ELSE Step(g[n - 1], n)
    <3> HIDE DEF Step
    <3> QED BY <1>1, <1>7, <2>1
  <2>4. g = [n \in 0 .. N |-> IF n = 0 THEN first ELSE Step(g[n - 1], n)]
    <3> HIDE DEF Step, N
    <3> QED BY ONLY <2>2, <2>3
  <2> QED BY <2>4 DEF FilledAfter
<1> DEFINE h == CHOOSE f : FilledAfter(f, p, first, wanted, selected)
<1>9. FilledAfter(h, p, first, wanted, selected)
  BY <1>8
<1>10. Execution!EnforceMinPoolMembers(p, plan0).steps = h[N]
  <2>1. Execution!EnforceMinPoolMembers(p, plan0) = [plan0 EXCEPT !.steps = h[N]]
    BY DEF FilledAfter, Execution!EnforceMinPoolMembers, first, wanted, selected
  <2> HIDE DEF h
  <2> QED BY <2>1
<1> HIDE DEF h
<1>11. h[0] = first /\ \A n \in 1 .. N : h[n] = Step(h[n - 1], n)
  <2>1. h = [n \in 0 .. N |-> IF n = 0 THEN first ELSE Step(h[n - 1], n)]
    BY <1>9 DEF FilledAfter
  <2> HIDE DEF Step, N
  <2>2. \A n \in 0 .. N : h[n] = IF n = 0 THEN first ELSE Step(h[n - 1], n)
    BY ONLY <2>1
  <2>3. 0 \in 0 .. N /\ \A n \in 1 .. N : n \in 0 .. N /\ n # 0
    BY <1>1
  <2> QED BY ONLY <2>2, <2>3
<1>12. \A n \in 0 .. N : <<n, h[n]>> \in FilledUp(p, wanted, selected)
  <2>1. <<0, h[0]>> \in FilledUp(p, wanted, selected)
    BY <1>3, <1>11
  <2>2. ASSUME NEW n \in 1 .. N, <<n - 1, h[n - 1]>> \in FilledUp(p, wanted, selected)
        PROVE  <<n, h[n]>> \in FilledUp(p, wanted, selected)
    <3>1. h[n] = Step(h[n - 1], n)
      BY <1>11
    <3>2. <<n, Step(h[n - 1], n)>> \in FilledUp(p, wanted, selected)
      BY <1>1, <2>2, FillKeeps
    <3> QED BY <3>1, <3>2
  <2> HIDE DEF N
  <2> QED BY <1>1, <2>1, <2>2, Kept
<1>13. <<N, h[N]>> \in FilledUp(p, wanted, selected)
  <2> HIDE DEF N
  <2>1. N \in 0 .. N
    BY <1>1
  <2> QED BY <1>12, <2>1
<1>14. /\ h[N] \in Lists(p) /\ Len(h[N]) > 0
       /\ Len(h[N]) >= wanted \/ \A i \in 1 .. N : InList(h[N], p, i)
  BY <1>13 DEF FilledUp
<1>15. Len(h[N]) >= wanted
  <2>1. Len(h[N]) \in Nat
    BY <1>14 DEF Lists
  <2>2. CASE \A i \in 1 .. N : InList(h[N], p, i)
    <3>1. Len(h[N]) >= N
      BY <1>14, <2>2, NamesAll
    <3> QED BY <1>1, <2>1, <3>1
  <2> QED BY <1>14, <2>2
<1> QED BY <1>10, <1>14, <1>15 DEF wanted

\* The members better than the one at i.
BetterThan(p, i) == {j \in DOMAIN p : Execution!Better(p, j, i)}

\* Ranked by cost and place, each place is taken once.
LEMMA RankedIs ==
  ASSUME NEW p \in Pools
  PROVE  /\ \A k \in 1 .. Len(p) : Execution!Ranked(p, k) \in 1 .. Len(p)
         /\ \A k, l \in 1 .. Len(p) :
              Execution!Ranked(p, k) = Execution!Ranked(p, l) => k = l
<1> DEFINE N == Len(p)
           D == 1 .. N
           f == [i \in D |-> Cardinality(BetterThan(p, i))]
<1>1. /\ N \in Nat /\ DOMAIN p = D
      /\ \A i \in D : p[i].cost \in Nat
  BY MemberIs
<1>2. IsFiniteSet(D) /\ Cardinality(D) = N /\ IsFiniteSet(0 .. N - 1) /\ Cardinality(0 .. N - 1) = N
  <2>1. IsFiniteSet(D) /\ Cardinality(D) = IF 1 > N THEN 0 ELSE N - 1 + 1
    BY <1>1, FS_Interval
  <2>2. 0 \in Int /\ N - 1 \in Int
    BY <1>1
  <2>3. IsFiniteSet(0 .. N - 1)
        /\ Cardinality(0 .. N - 1) = IF 0 > N - 1 THEN 0 ELSE N - 1 - 0 + 1
    BY ONLY <2>2, FS_Interval
  <2> QED BY <1>1, <2>1, <2>3
<1> HIDE DEF D
<1>3. ASSUME NEW i \in D
      PROVE  /\ BetterThan(p, i) \subseteq D \ {i} /\ IsFiniteSet(BetterThan(p, i))
             /\ Cardinality(BetterThan(p, i)) \in 0 .. N - 1
  <2>1. BetterThan(p, i) \subseteq D \ {i}
    BY <1>1 DEF BetterThan, Execution!Better
  <2>2. IsFiniteSet(D \ {i}) /\ Cardinality(D \ {i}) = N - 1
    BY <1>2, FS_RemoveElement
  <2>3. IsFiniteSet(BetterThan(p, i)) /\ Cardinality(BetterThan(p, i)) <= N - 1
    BY <2>1, <2>2, FS_Subset
  <2>4. Cardinality(BetterThan(p, i)) \in Nat
    BY <2>3, FS_CardinalityType
  <2> QED BY <1>1, <2>1, <2>3, <2>4
<1>4. ASSUME NEW i \in D, NEW j \in D, Execution!Better(p, i, j)
      PROVE  Cardinality(BetterThan(p, i)) # Cardinality(BetterThan(p, j))
  <2>1. BetterThan(p, i) \subseteq BetterThan(p, j)
    <3> SUFFICES ASSUME NEW k \in BetterThan(p, i) PROVE Execution!Better(p, k, j)
      BY DEF BetterThan
    <3>1. k \in D /\ Execution!Better(p, k, i)
      BY <1>1 DEF BetterThan
    <3>2. p[i].cost \in Nat /\ p[j].cost \in Nat /\ p[k].cost \in Nat
          /\ i \in Nat /\ j \in Nat /\ k \in Nat
      BY <1>1, <3>1 DEF D
    <3> QED BY <1>4, <3>1, <3>2 DEF Execution!Better
  <2>2. i \in BetterThan(p, j) /\ i \notin BetterThan(p, i)
    BY <1>1, <1>3, <1>4 DEF BetterThan
  <2> QED BY <1>3, <2>1, <2>2, FS_Subset
<1>5. ASSUME NEW i \in D, NEW j \in D, i # j
      PROVE  Execution!Better(p, i, j) \/ Execution!Better(p, j, i)
  BY <1>1, <1>5 DEF Execution!Better, D
<1>6. f \in [D -> 0 .. N - 1] /\ \A i \in D : f[i] = Cardinality(BetterThan(p, i))
  BY <1>3
<1> HIDE DEF f
<1>7. f \in Injection(D, 0 .. N - 1)
  BY <1>4, <1>5, <1>6 DEF Injection, IsInjective
<1>8. f \in Surjection(D, 0 .. N - 1)
  BY <1>2, <1>7, FS_Injection
<1>9. ASSUME NEW k \in D
      PROVE  /\ Execution!Ranked(p, k) \in D
             /\ Cardinality(BetterThan(p, Execution!Ranked(p, k))) = k - 1
  <2>1. k - 1 \in 0 .. N - 1
    BY <1>1 DEF D
  <2>2. \E i \in D : f[i] = k - 1
    BY <1>8, <2>1 DEF Surjection
  <2>3. \E i \in D : Cardinality(BetterThan(p, i)) = k - 1
    BY <1>6, <2>2
  <2>4. Execution!Ranked(p, k) = CHOOSE i \in D : Cardinality(BetterThan(p, i)) = k - 1
    BY <1>1 DEF Execution!Ranked, Execution!Cardinality, Cardinality, BetterThan
  <2> QED BY <2>3, <2>4
<1>10. ASSUME NEW k \in D, NEW l \in D, Execution!Ranked(p, k) = Execution!Ranked(p, l)
       PROVE  k = l
  <2>1. k - 1 = l - 1
    BY <1>9, <1>10
  <2> QED BY <1>1, <2>1 DEF D
<1> QED BY <1>9, <1>10 DEF D

\* A ranking sends as many members a subtask as are wanted.
LEMMA ScoringIs ==
  ASSUME NEW p \in Pools, Execution!RemoteEntries(p) # {}
  PROVE  LET steps == Execution!ScoringRoute(p).steps
         IN  /\ steps \in Lists(p) /\ Len(steps) > 0
             /\ Len(steps) >= Execution!Least(MinPoolMembers, Len(p))
<1> DEFINE L == Execution!Least(MinPoolMembers, Len(p))
           place == [k \in 1 .. L |-> Execution!Ranked(p, k)]
           steps == [k \in 1 .. L |-> Execution!Subtask(p[place[k]], 0)]
<1>1. L \in Nat /\ L > 0 /\ L <= Len(p) /\ Len(p) \in Nat
  BY MemberIs, ExecutionAssumption
     DEF ExecutionAssumption, Execution!MinPoolMembersAssumption, Execution!Least
<1> HIDE DEF L
<1>2. /\ \A k \in 1 .. L : place[k] \in 1 .. Len(p)
      /\ \A k, l \in 1 .. L : place[k] = place[l] => k = l
  <2>1. \A k \in 1 .. L : k \in 1 .. Len(p)
    BY <1>1
  <2> QED BY <2>1, RankedIs
<1>3. Execution!ScoringRoute(p).steps = steps
  BY DEF Execution!ScoringRoute, L
<1> HIDE DEF place
<1>4. ASSUME NEW k \in 1 .. L
      PROVE  /\ steps[k] \in SubtasksOf(p) /\ steps[k].target = p[place[k]].id
             /\ steps[k].remote <=> steps[k].target # Execution!LOCAL_COORDINATOR_ID
  <2>1. steps[k] = Execution!Subtask(p[place[k]], 0) /\ place[k] \in 1 .. Len(p) /\ 0 \in Int
    BY <1>2
  <2> HIDE DEF steps
  <2> QED BY <2>1, SubtaskIs
<1>5. steps \in Seq(SubtasksOf(p)) /\ Len(steps) = L
  <2>1. steps \in [1 .. L -> SubtasksOf(p)] /\ DOMAIN steps = 1 .. L
    <3>1. steps = [k \in 1 .. L |-> steps[k]]
      OBVIOUS
    <3> HIDE DEF steps
    <3> QED BY <1>4, <3>1
  <2> HIDE DEF steps
  <2> QED BY <1>1, <2>1, SeqDef
<1> HIDE DEF steps
<1>6. ASSUME NEW k \in 1 .. L, NEW l \in 1 .. L, k # l PROVE steps[k].target # steps[l].target
  <2>1. place[k] # place[l] /\ place[k] \in 1 .. Len(p) /\ place[l] \in 1 .. Len(p)
    BY <1>2, <1>6
  <2>2. p[place[k]].id # p[place[l]].id
    BY <2>1, MemberIs
  <2> QED BY <1>4, <2>2
<1>7. OncePerNode(steps)
  BY <1>4, <1>5, <1>6 DEF OncePerNode
<1>8. steps \in Lists(p)
  BY <1>5, <1>7 DEF Lists
<1> QED BY <1>1, <1>3, <1>5, <1>8 DEF L

-----------------------------------------------------------------------------
(* Plans are sound.                                                          *)

\* Whichever router plans, and whatever the planner answers.
LEMMA RoutedIs ==
  ASSUME NEW p \in Pools, NEW strategy, NEW answer \in PlanAnswers
  PROVE  LET steps == Execution!Route(strategy, p, answer).steps
         IN  /\ steps \in Lists(p) /\ Len(steps) > 0
             /\ Execution!RemoteEntries(p) # {}
                  => Len(steps) >= Execution!Least(MinPoolMembers, Len(p))
<1> DEFINE parsed == Execution!ParseRoutingResponse(p, answer)
<1>1. CASE Execution!RemoteEntries(p) = {}
  <2>1. Execution!Route(strategy, p, answer) = Execution!LocalOnlyPlan
    BY <1>1 DEF Execution!Route, Execution!ScoringRoute, Execution!LlmRoute
  <2> QED BY <1>1, <2>1, LocalListIs
<1>2. CASE Execution!RemoteEntries(p) # {} /\ strategy = "scoring"
  <2>1. Execution!Route(strategy, p, answer) = Execution!ScoringRoute(p)
    BY <1>2 DEF Execution!Route
  <2> QED BY <1>2, <2>1, ScoringIs
<1>3. CASE Execution!RemoteEntries(p) # {} /\ strategy # "scoring"
  <2>1. Execution!Route(strategy, p, answer) = Execution!EnforceMinPoolMembers(p, parsed)
    BY <1>3 DEF Execution!Route, Execution!LlmRoute
  <2>2. parsed.steps \in Lists(p) /\ Len(parsed.steps) > 0
    BY ParsedIs
  <2>3. parsed = [steps |-> parsed.steps, mode |-> parsed.mode]
    BY DEF Execution!ParseRoutingResponse, Execution!LocalOnlyPlan
  <2> HIDE DEF parsed
  <2> QED BY <2>1, <2>2, <2>3, FilledIs
<1> QED BY <1>1, <1>2, <1>3

\* Of a list of subtasks for members of the pool, as PlanIsSound has it.
LEMMA ListIsSound ==
  ASSUME NEW p \in Pools, NEW plan0, plan0.steps \in Lists(p)
  PROVE  /\ Execution!TargetsOf(plan0) \subseteq {p[i].id : i \in Execution!RemoteEntries(p)}
         /\ Execution!Cardinality(Execution!TargetsOf(plan0))
              = Execution!Cardinality(Execution!RemotePlaces(plan0))
<1> DEFINE s == plan0.steps
           places == Execution!RemotePlaces(plan0)
           targets == Execution!TargetsOf(plan0)
           f == [i \in places |-> s[i].target]
<1>1. s \in Seq(SubtasksOf(p)) /\ OncePerNode(s) /\ Len(s) \in Nat /\ DOMAIN s = 1 .. Len(s)
  BY DEF Lists
<1>2. places = {i \in 1 .. Len(s) : s[i].remote} /\ targets = {s[i].target : i \in places}
  BY <1>1 DEF Execution!RemotePlaces, Execution!TargetsOf
<1> HIDE DEF places, targets
<1>3. IsFiniteSet(places)
  <2>1. IsFiniteSet(1 .. Len(s))
    BY <1>1, FS_Interval
  <2>2. places \in SUBSET (1 .. Len(s))
    BY <1>2
  <2> QED BY <2>1, <2>2, FS_Subset
<1>4. ASSUME NEW i \in places PROVE s[i].target \in {p[j].id : j \in Execution!RemoteEntries(p)}
  <2>1. i \in 1 .. Len(s) /\ s[i].remote /\ s[i] \in SubtasksOf(p)
    BY <1>1, <1>2
  <2>2. s[i].target # Execution!LOCAL_COORDINATOR_ID
    BY <1>1, <2>1 DEF OncePerNode
  <2>3. PICK j \in 1 .. Len(p) : s[i].target = p[j].id
    BY <2>1 DEF SubtasksOf, Ids
  <2>4. j \in Execution!RemoteEntries(p)
    BY <2>2, <2>3, MemberIs DEF Execution!RemoteEntries
  <2> QED BY <2>3, <2>4
<1>5. f \in Bijection(places, targets)
  <2>1. f \in [places -> targets] /\ \A i \in places : f[i] = s[i].target
    BY <1>2
  <2> HIDE DEF f
  <2>2. \A i, j \in places : f[i] = f[j] => i = j
    BY <1>1, <1>2, <2>1 DEF OncePerNode
  <2>3. \A t \in targets : \E i \in places : f[i] = t
    BY <1>2, <2>1
  <2> QED BY <2>1, <2>2, <2>3 DEF Bijection, Injection, Surjection, IsInjective
<1>6. Cardinality(targets) = Cardinality(places)
  <2> HIDE DEF f
  <2>1. ExistsBijection(places, targets)
    BY <1>5 DEF ExistsBijection
  <2> QED BY <1>3, <2>1, FS_Bijection
<1>7. Execution!Cardinality(targets) = Execution!Cardinality(places)
  BY <1>6 DEF Cardinality, Execution!Cardinality
<1> QED BY <1>2, <1>4, <1>7 DEF places, targets

\* From the binding to the approval the snapshot is a pool, and what is to be approved is
\* a list of subtasks for it.
PlanInv ==
  /\ pc \in {"route", "approve"} => pool \in Pools
  /\ pc = "approve" => /\ chosen.steps \in Lists(pool) /\ Len(chosen.steps) > 0
                       /\ Execution!RemoteEntries(pool) # {}
                            => Len(chosen.steps) >= Execution!Least(MinPoolMembers, Len(pool))

\* A plan that is put before the user is sound: it has subtasks, and as many as wanted, for
\* nodes of the snapshot only, one for each of them, and no two of them are the same node
\* under different names.  For every set of nodes and of records of them, however they come
\* and go, every strategy and every answer of the planner.
THEOREM PlansAreSound == BothSpec => []PlanIsSound
<1>1. BothInit => PlanInv
  BY DEF BothInit, Execution!Init, PlanInv
<1>2. PlanInv /\ [BothNext]_<<part, vars, executionVars>> => PlanInv'
  <2> SUFFICES ASSUME PlanInv, [BothNext]_<<part, vars, executionVars>> PROVE PlanInv'
    OBVIOUS
  <2>1. CASE UNCHANGED executionVars
    BY <2>1 DEF PlanInv, executionVars
  <2>2. ASSUME NEW S, Execution!Bind(S) PROVE PlanInv'
    BY <2>2, ReadingsArePools DEF Execution!Bind, PlanInv
  <2>3. ASSUME NEW s, NEW answer \in PlanAnswers, Execution!MakePlan(s, answer) PROVE PlanInv'
    <3>1. pool \in Pools /\ pool' = pool /\ chosen' = Execution!Route(s, pool, answer)
      BY <2>3 DEF Execution!MakePlan, PlanInv
    <3> QED BY <3>1, RoutedIs DEF PlanInv
  <2>4. ASSUME Execution!BindFails \/ Execution!DispatchChain \/ Execution!DispatchRaises
        PROVE  PlanInv'
    BY <2>4 DEF Execution!BindFails, Execution!DispatchChain, Execution!DispatchRaises, PlanInv
  <2>5. ASSUME NEW a1, Execution!Approve(a1) PROVE PlanInv'
    BY <2>5 DEF Execution!Approve, PlanInv
  <2>6. ASSUME NEW S, Execution!DispatchAll(S) PROVE PlanInv'
    BY <2>6 DEF Execution!DispatchAll, PlanInv
  <2>7. ASSUME NEW i, NEW r, NEW w, Execution!OneEnds(i, r, w) PROVE PlanInv'
    BY <2>7 DEF Execution!OneEnds, PlanInv
  <2>8. ASSUME NEW i, NEW r, NEW S, NEW w, Execution!ChainStep(i, r, S, w) PROVE PlanInv'
    BY <2>8 DEF Execution!ChainStep, PlanInv
  <2>9. ASSUME NEW t, NEW same, Execution!Aggregate(t, same) PROVE PlanInv'
    BY <2>9 DEF Execution!Aggregate, PlanInv
  <2>10. ASSUME NEW v, Execution!Evaluate(v) PROVE PlanInv'
    BY <2>10 DEF Execution!Evaluate, PlanInv
  <2>11. ASSUME NEW source, Execution!Finish(source) PROVE PlanInv'
    BY <2>11 DEF Execution!Finish, PlanInv
  <2> QED BY <2>1, <2>2, <2>3, <2>4, <2>5, <2>6, <2>7, <2>8, <2>9, <2>10, <2>11
          DEF BothNext, Execution!Next
<1>3. PlanInv => PlanIsSound
  <2> SUFFICES ASSUME PlanInv, pc = "approve" PROVE Execution!PlanIsSound
    BY DEF PlanIsSound, Execution!PlanIsSound
  <2>1. /\ pool \in Pools /\ chosen.steps \in Lists(pool) /\ Len(chosen.steps) > 0
        /\ Execution!RemoteEntries(pool) # {}
             => Len(chosen.steps) >= Execution!Least(MinPoolMembers, Len(pool))
    BY DEF PlanInv
  <2>2. chosen.steps # <<>>
    BY <2>1
  <2>3. \A i, j \in Execution!RemoteEntries(pool) :
          i # j => pool[i].tokens \cap pool[j].tokens = {}
    <3>1. Execution!RemoteEntries(pool) \subseteq 1 .. Len(pool)
      BY <2>1, MemberIs DEF Execution!RemoteEntries
    <3> QED BY <2>1, <3>1 DEF Pools, Distinct
  <2> QED BY <2>1, <2>2, <2>3, ListIsSound DEF Execution!PlanIsSound
<1> QED BY <1>1, <1>2, <1>3, PTL DEF BothSpec
=============================================================================
