------------------------------- MODULE TaskEntry -------------------------------
(***************************************************************************)
(* The entries to the execution of a task that run on the event loop: a      *)
(* message of a chat channel (channels/manager.py), a call of the gateway     *)
(* (gateway/gateway.py), and the execute endpoint of api/server.py, which     *)
(* answers at once and executes in the background or waits.  Each leads a     *)
(* task to its end, tells the dashboard how it ended, and keeps a record: the *)
(* session's transcript, or the task's sandbox and row.                       *)
(*                                                                         *)
(* A call stops at its awaits; there, other calls, cancellations, resets and  *)
(* deletions come in between.  The execution itself is one step with the      *)
(* outcomes of RefinementRounds; what admits a task at the execute endpoint   *)
(* is in Delegation.                                                          *)
(***************************************************************************)
EXTENDS TaskStatus, SequencesExt

CONSTANTS Calls,
          Messages,    \* what may come in: channel, account, kind and id of the peer
          Bindings,    \* the bindings of agents, each with its criteria; "" is none
          Scope,       \* dm_scope: "main", "per-peer" or "per-channel-peer"
          MaxHistory   \* max_history, here a limit (0 is none)

TaskEntryAssumption == MaxHistory \in Nat \ {0}

VARIABLES
  entryCall,    \* what each call is doing, and what it has learned
  entryTask,    \* the status of its task
  told,         \* the event the dashboard got about the end of the task
  box,          \* the state of the sandbox registered for the task
  row,          \* the status in the tasks table
  transcript,   \* the transcript of the current session of a key
  unused        \* calls that created a task which they do not use

entryVars == <<entryCall, entryTask, told, box, row, transcript, unused>>

-----------------------------------------------------------------------------
(* Routing of messages (channels/router.py) and sessions (session/manager.py).*)

Criteria == {"channel", "account", "kind", "peer"}

Weight == [channel |-> 1, account |-> 2, kind |-> 4, peer |-> 8]

\* Score: 0 when a criterion is not met, and also when there is none.
Score(binding, m) ==
  LET asked == {c \in Criteria : binding.match[c] # ""}
  IN IF \A c \in asked : binding.match[c] = m[c]
     THEN FoldSet(LAMBDA c, sum : sum + Weight[c], 0, asked) ELSE 0

\* Route: the agent of the first binding with the highest score.
Route(m) ==
  LET best == {i \in DOMAIN Bindings :
                 /\ Score(Bindings[i], m) > 0
                 /\ \A j \in DOMAIN Bindings : Score(Bindings[j], m) <= Score(Bindings[i], m)}
  IN IF best = {} THEN "main" ELSE Bindings[Min(best)].agent

\* Key: of the session.
Key(m) ==
  CASE m.kind = "group" -> <<Route(m), m.channel, "group", m.peer>>
    [] m.kind # "group" /\ Scope = "main" -> <<Route(m)>>
    [] m.kind # "group" /\ Scope = "per-peer" -> <<Route(m), m.peer>>
    [] OTHER -> <<Route(m), m.channel, "dm", m.peer>>

Keys == {Key(m) : m \in Messages}

\* Recorded: record_message, which trims the transcript to its newest messages.
Recorded(list, c, role) ==
  LET all == Append(list, <<c, role>>)
  IN SubSeq(all, IF Len(all) > MaxHistory THEN Len(all) - MaxHistory + 1 ELSE 1, Len(all))

\* Opened: get_or_create; the transcript of a session that has expired is cleared.
Opened(list) == {list, <<>>}

-----------------------------------------------------------------------------
(* Calls.                                                                    *)

NoKey == <<>>
New == [at |-> "new", kind |-> "none", key |-> NoKey, result |-> "none"]

EntryInit ==
  /\ entryCall = [c \in Calls |-> New]
  /\ entryTask = [c \in Calls |-> "none"]
  /\ told = [c \in Calls |-> "none"] /\ box = [c \in Calls |-> "none"]
  /\ row = [c \in Calls |-> "none"]
  /\ transcript = [k \in Keys |-> <<>>] /\ unused = {}

\* The call goes on to a place (Moved), having learned the result (Ended), or comes in
\* as a kind of call, for a session (Entered).
Moved(c, at) == entryCall' = [entryCall EXCEPT ![c].at = at]
Ended(c, at, result) == entryCall' = [entryCall EXCEPT ![c].at = at, ![c].result = result]
Entered(c, at, kind, key) ==
  entryCall' = [entryCall EXCEPT ![c].at = at, ![c].kind = kind, ![c].key = key]

\* Reply: the answer joins the transcript, unless it is empty or the session it
\* belongs to was deleted.
Reply(c, has) ==
  LET k == entryCall[c].key
  IN transcript' = IF has /\ k # NoKey
                   THEN [transcript EXCEPT ![k] = Recorded(@, c, "assistant")] ELSE transcript

\* Inbound: a message of a channel; one that resets the session goes no further.
Inbound(c) ==
  /\ entryCall[c].at = "new"
  /\ \E m \in Messages : \E list \in Opened(transcript[Key(m)]) :
       \/ /\ transcript' = [transcript EXCEPT ![Key(m)] = <<>>]
          /\ Entered(c, "over", "reset", NoKey)
          /\ UNCHANGED entryTask
       \/ /\ transcript' = [transcript EXCEPT ![Key(m)] = Recorded(list, c, "user")]
          /\ Entered(c, "payment", "channel", Key(m))
          /\ entryTask' = [entryTask EXCEPT ![c] = "pending"]
  /\ UNCHANGED <<told, box, row, unused>>

\* Execute: a call of the gateway, for a peer.  It creates a task, also when it is
\* given one.
Execute(c) ==
  /\ entryCall[c].at = "new"
  /\ \E m \in Messages, given \in BOOLEAN : \E list \in Opened(transcript[Key(m)]) :
       /\ m.kind = "direct"
       /\ transcript' = [transcript EXCEPT ![Key(m)] = Recorded(list, c, "user")]
       /\ Entered(c, "payment", "gateway", Key(m))
       /\ unused' = IF given THEN unused \cup {c} ELSE unused
  /\ entryTask' = [entryTask EXCEPT ![c] = "pending"]
  /\ UNCHANGED <<told, box, row>>

\* CheckPayment: without a wallet address the task fails and nobody is told; a call
\* that was given its task does not check.
CheckPayment(c) ==
  /\ entryCall[c].at = "payment"
  /\ \/ /\ Moved(c, "ready")
        /\ entryTask' = [entryTask EXCEPT ![c] = IF Startable(@) THEN "running" ELSE @]
        /\ UNCHANGED transcript
     \/ /\ c \notin unused
        /\ Ended(c, "over", "unpaid")
        /\ entryTask' = [entryTask EXCEPT ![c] = "failed"]
        /\ Reply(c, entryCall[c].kind = "channel")
  /\ UNCHANGED <<told, box, row, unused>>

\* Start: the execute endpoint has started the task and registers a sandbox.
Start(c) ==
  /\ entryCall[c].at = "new"
  /\ \E kind \in {"async", "sync"} : Entered(c, "ready", kind, NoKey)
  /\ entryTask' = [entryTask EXCEPT ![c] = "running"]
  /\ box' = [box EXCEPT ![c] = "running"]
  /\ UNCHANGED <<told, row, transcript, unused>>

\* The outcomes of an execution, and the status in which it leaves the task: an
\* organizer whose plan is denied fails the task and returns "cancelled".
Left(outcome, s) ==
  CASE outcome = "raised" -> s
    [] ~Finishable(s) -> s
    [] outcome = "success" -> "completed"
    [] OTHER -> "failed"

\* RunGateway: the execution raises at once, because the function that it imports for
\* the crew is not in agent/core.py; the answer is the error.  A call of the gateway
\* records it now, a channel when all is over.
RunGateway(c) ==
  /\ entryCall[c].at = "ready" /\ entryCall[c].kind \in {"channel", "gateway"}
  /\ entryTask' = [entryTask EXCEPT ![c] = IF Finishable(@) THEN "failed" ELSE @]
  /\ Ended(c, "telling", "raised")
  /\ Reply(c, entryCall[c].kind = "gateway")
  /\ UNCHANGED <<told, box, row, unused>>

TellGateway(c) ==
  /\ entryCall[c].at = "telling" /\ entryCall[c].kind \in {"channel", "gateway"}
  /\ told' = [told EXCEPT ![c] = "failed"]
  /\ Moved(c, "over")
  /\ Reply(c, entryCall[c].kind = "channel")
  /\ UNCHANGED <<entryTask, box, row, unused>>

\* Success: what the endpoint takes for one.  Waiting, it does not look at the status.
Success(kind, outcome) ==
  outcome \in {"success", "denied"} \/ (kind = "sync" /\ outcome = "error")

\* RunEndpoint: the execution, of an organizer or of a coordinator, and the state of
\* the sandbox if it is still registered.
RunEndpoint(c) ==
  /\ entryCall[c].at = "ready" /\ entryCall[c].kind \in {"async", "sync"}
  /\ \E outcome \in {"success", "error", "denied", "raised"} :
       /\ entryTask' = [entryTask EXCEPT ![c] = Left(outcome, @)]
       /\ box' = [box EXCEPT ![c] =
            IF @ = "none" THEN @
            ELSE IF Success(entryCall[c].kind, outcome) THEN "completed" ELSE "error"]
       /\ Ended(c, "telling", outcome)
  /\ UNCHANGED <<told, row, transcript, unused>>

\* TellEndpoint, mutated form: a task whose execution raised is not settled.
TellUnsettled(c) ==
  /\ entryCall[c].at = "telling" /\ entryCall[c].kind \in {"async", "sync"}
  /\ told' = [told EXCEPT ![c] =
       IF Success(entryCall[c].kind, entryCall[c].result) THEN "completed" ELSE "failed"]
  /\ Moved(c, IF entryCall[c].kind = "async" THEN "saving" ELSE "over")
  /\ UNCHANGED <<entryTask, box, row, transcript, unused>>

\* TellEndpoint: a task whose execution raised is settled here.
TellEndpoint(c) ==
  /\ entryCall[c].at = "telling" /\ entryCall[c].kind \in {"async", "sync"}
  /\ entryTask' = [entryTask EXCEPT ![c] =
       IF entryCall[c].result = "raised" /\ Finishable(@) THEN "failed" ELSE @]
  /\ told' = [told EXCEPT ![c] =
       IF Success(entryCall[c].kind, entryCall[c].result) THEN "completed" ELSE "failed"]
  /\ Moved(c, IF entryCall[c].kind = "async" THEN "saving" ELSE "over")
  /\ UNCHANGED <<box, row, transcript, unused>>

\* SaveRow: or the database refuses, which is only logged.
SaveRow(c) ==
  /\ entryCall[c].at = "saving"
  /\ row' \in {[row EXCEPT ![c] = told[c]], row}
  /\ Moved(c, "over")
  /\ UNCHANGED <<entryTask, told, box, transcript, unused>>

-----------------------------------------------------------------------------
(* What comes in between.                                                    *)

Cancel(c) ==
  /\ entryTask[c] # "none" /\ Cancellable(entryTask[c])
  /\ entryTask' = [entryTask EXCEPT ![c] = "cancelled"]
  /\ UNCHANGED <<entryCall, told, box, row, transcript, unused>>

\* DeleteBox: the sandbox is deleted from the dashboard.
DeleteBox(c) ==
  /\ box[c] # "none"
  /\ box' = [box EXCEPT ![c] = "none"]
  /\ UNCHANGED <<entryCall, entryTask, told, row, transcript, unused>>

\* ClearSessions: all sessions are deleted; answers under way have none any more.
ClearSessions ==
  /\ \E k \in Keys : transcript[k] # <<>>
  /\ transcript' = [k \in Keys |-> <<>>]
  /\ entryCall' = [c \in Calls |-> [entryCall[c] EXCEPT !.key = NoKey]]
  /\ UNCHANGED <<entryTask, told, box, row, unused>>

EntryNext ==
  \/ \E c \in Calls :
       \/ Inbound(c) \/ Execute(c) \/ CheckPayment(c) \/ RunGateway(c) \/ TellGateway(c)
       \/ Start(c) \/ RunEndpoint(c) \/ TellEndpoint(c) \/ SaveRow(c)
       \/ Cancel(c) \/ DeleteBox(c)
  \/ ClearSessions

-----------------------------------------------------------------------------
(* Properties.                                                               *)

EntryTypeOK ==
  /\ \A c \in Calls :
       /\ entryCall[c].at \in {"new", "payment", "ready", "telling", "saving", "over"}
       /\ entryCall[c].kind \in {"none", "reset", "channel", "gateway", "async", "sync"}
       /\ entryCall[c].key \in Keys \cup {NoKey}
       /\ entryTask[c] \in Status \cup {"none"}
       /\ told[c] \in {"none", "completed", "failed"}
       /\ row[c] \in {"none", "completed", "failed"}
       /\ box[c] \in {"none", "running", "completed", "error"}
  /\ unused \subseteq Calls
  /\ \A k \in Keys : /\ Len(transcript[k]) <= MaxHistory
                     /\ IsInjective(transcript[k])

\* A call that is over has settled its task, whoever cancelled it meanwhile and
\* however the execution ended, and the dashboard, the sandbox and the row agree with
\* each other and with the task.  The endpoint makes two exceptions: a task that was
\* denied is told as completed, and so is one that failed while the endpoint waited for
\* it (server.py:6068).
ToldAsSettled ==
  \A c \in Calls :
    LET call == entryCall[c]
    IN call.at = "over" /\ call.kind # "reset" =>
         /\ entryTask[c] \in Settled
         /\ told[c] = "none" <=> call.result = "unpaid"
         /\ told[c] \notin {"none", entryTask[c]} =>
              call.result = "denied" \/ (call.kind = "sync" /\ call.result = "error")
         /\ row[c] \in {"none", told[c]}
         /\ box[c] # "none" => (box[c] = "completed" <=> told[c] = "completed")
=============================================================================
