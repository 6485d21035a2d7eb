------------------------------ MODULE TaskOutcome ------------------------------
(***************************************************************************)
(* What the task manager promises about outcomes, and nothing else: a task *)
(* is absent, open, cancelled or settled with one outcome.  A settled task *)
(* keeps its outcome until somebody submits the same identifier again or   *)
(* the record is dropped, and only a finished record is ever dropped while *)
(* others stay.  A cancelled task is not settled: it can still be resumed  *)
(* or settled by the execution that was running when it was cancelled.     *)
(***************************************************************************)
CONSTANTS TaskIds, Results, Errors

VARIABLE outcome

NoTask    == <<"absent">>
Open      == <<"open">>
Cancel    == <<"cancelled">>
Ok(r)     == <<"ok", r>>
Err(e)    == <<"error", e>>

Outcomes == {Ok(r) : r \in Results} \cup {Err(e) : e \in Errors}

Values == {NoTask, Open, Cancel} \cup Outcomes

OInit == outcome = [i \in TaskIds |-> NoTask]

\* i is submitted (again); finished records of other tasks may be dropped.
Submit(i) ==
  /\ outcome'[i] = Open
  /\ \A j \in TaskIds \ {i} :
       \/ outcome'[j] = outcome[j]
       \/ outcome[j] \in {Cancel} \cup Outcomes /\ outcome'[j] = NoTask
  /\ outcome' = [j \in TaskIds |-> outcome'[j]]

Settle(i) ==
  /\ outcome[i] \in {Open, Cancel}
  /\ \E o \in Outcomes : outcome' = [outcome EXCEPT ![i] = o]

CancelTask(i) ==
  /\ outcome[i] = Open
  /\ outcome' = [outcome EXCEPT ![i] = Cancel]

Resume(i) ==
  /\ outcome[i] = Cancel
  /\ outcome' = [outcome EXCEPT ![i] = Open]

Clear == outcome' = [i \in TaskIds |-> NoTask]

ONext == (\E i \in TaskIds : Submit(i) \/ Settle(i) \/ CancelTask(i) \/ Resume(i)) \/ Clear

OSpec == OInit /\ [][ONext]_outcome
=============================================================================
