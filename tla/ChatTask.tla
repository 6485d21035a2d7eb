------------------------------- MODULE ChatTask -------------------------------
(***************************************************************************)
(* A task of the chat (generate_agent_response and chat_task_reconnect of   *)
(* api/server.py, and ChatView.tsx): a thread executes it and puts its      *)
(* steps in a queue; the generator of the response reads the queue, sends   *)
(* what it reads to the client and keeps it in a buffer; a client that left *)
(* and comes back is served from the buffer by a stream of its own.         *)
(*                                                                         *)
(* The steps that are put in the queue are numbered.  Some of them the task *)
(* has recorded, too, before they are put and, as several threads make      *)
(* steps, in another order; others are recorded but not put.  Heartbeats    *)
(* and keep-alives only tell the client and the clock of the idle time-out that *)
(* something goes on, and are left out; so are the rows and broadcasts for  *)
(* the dashboard (see EventFeed).  What is sent arrives at once, or not at  *)
(* all when the client has left, which the server may notice later.         *)
(***************************************************************************)
EXTENDS TaskStatus, Naturals, Sequences

CONSTANTS MaxSteps,    \* bound: steps put, or recorded, before the last two
          MaxReturns,  \* bound: how often the client comes back
          MayTimeOut   \* is the idle time-out shorter than the keep-alive interval?

ChatAssumption == MaxSteps \in Nat \ {0} /\ MaxReturns \in Nat /\ MayTimeOut \in BOOLEAN

VARIABLES
  task,      \* its status
  exec,      \* the thread: where it is, the steps it put and what execute_sync returned
  recorded,  \* task.steps: their numbers in the queue, 0 for one that is not put
  approval,  \* the request for approval: "none", "open", "allow", "deny"
  queue,     \* step_queue
  over,      \* execution_complete is set
  gen,       \* the generator
  buffer,    \* _chat_event_buffer[task_id], Gone when it has none
  back,      \* the stream of the client that came back: is it there, and last_idx
  client,    \* the chat view
  returns    \* bound: returns so far

vars == <<task, exec, recorded, approval, queue, over, gen, buffer, back, client, returns>>

Gone == <<[type |-> "gone", n |-> 0]>>

\* A step: its number and what the generator makes of it.
Kinds == {"work", "ask", "answer"}
Step(kind) == [kind |-> kind, n |-> exec.made + 1]

\* What is sent to the client.
Event(type, n) == [type |-> type, n |-> n]

\* The view: its connection, the steps it showed since it connected, was it told
\* the end, the approval card, and activeTaskId.
NewClient == [conn |-> "idle", seen |-> <<>>, ended |-> FALSE, card |-> FALSE, active |-> FALSE]

Init ==
  /\ task = "pending" /\ approval = "none" /\ queue = <<>> /\ over = FALSE
  /\ exec = [at |-> "new", made |-> 0, result |-> "none"] /\ recorded = <<>>
  /\ gen = "none" /\ buffer = Gone /\ back = [on |-> FALSE, next |-> 0]
  /\ client = NewClient /\ returns = 0

-----------------------------------------------------------------------------
(* The client (consumeSSEStream): what it makes of an event.                 *)

Received(c, e) ==
  CASE e.type = "started"           -> [c EXCEPT !.active = TRUE]
    [] e.type = "step"              -> [c EXCEPT !.seen = Append(@, e.n)]
    [] e.type = "approval_request"  -> [c EXCEPT !.card = TRUE, !.seen = Append(@, e.n)]
    [] e.type = "approval_resolved" -> [c EXCEPT !.card = FALSE]
    [] e.type = "result"            -> [c EXCEPT !.ended = TRUE]
    [] OTHER                        -> [c EXCEPT !.ended = TRUE, !.card = FALSE]

AfterEvents(c, events) ==
  LET after[n \in 0 .. Len(events)] ==
        IF n = 0 THEN c ELSE Received(after[n - 1], events[n])
  IN  after[Len(events)]

\* Finalized: a stream that ended after the task did closes the card and forgets
\* the task.
Finalized(c) ==
  IF c.ended THEN [c EXCEPT !.conn = "idle", !.active = FALSE, !.card = FALSE]
  ELSE [c EXCEPT !.conn = "idle"]

\* What the generator yields is kept in the buffer and goes to the client that is
\* still there.
Buffered == IF buffer = Gone THEN <<>> ELSE buffer
Yield(events) ==
  /\ buffer' = Buffered \o events
  /\ client' = IF client.conn = "live" THEN AfterEvents(client, events) ELSE client

-----------------------------------------------------------------------------
(* The execution (run_crew, and on_step in its thread).                      *)

\* Put: on_step, or run_crew itself, puts a step in the queue.
Put(kind) ==
  /\ exec.made < MaxSteps
  /\ queue' = Append(queue, Step(kind))

\* Record: add_step keeps a step with the task.
Record(n) == recorded' = Append(recorded, n)

\* ExecRecord: a step is recorded, and put by the same thread when others may have put
\* theirs, or not at all: on_step suppresses some remote ones, and the one that
\* dispatches subtasks, with which the task is delegated, is for the record only.
ExecRecord ==
  /\ exec.at = "working" /\ Len(recorded) < MaxSteps /\ Record(0)
  /\ \E s \in {task, "delegated"} : (s # task => Delegable(task)) /\ task' = s
  /\ UNCHANGED <<exec, approval, queue, over, gen, buffer, back, client, returns>>

\* ExecWork: a step that was recorded is put, or one of run_crew and of the crew's
\* announcements, which is not recorded.
ExecWork ==
  /\ exec.at = "working" /\ Put("work")
  /\ \/ UNCHANGED recorded
     \/ \E i \in DOMAIN recorded :
          recorded[i] = 0 /\ recorded' = [recorded EXCEPT ![i] = exec.made + 1]
  /\ exec' = [exec EXCEPT !.made = @ + 1]
  /\ UNCHANGED <<task, approval, over, gen, buffer, back, client, returns>>

\* ExecAsk: an approval is created, then its step recorded and put, and the thread waits.
ExecAsk ==
  /\ exec.at = "working" /\ approval = "none" /\ Put("ask") /\ Record(exec.made + 1)
  /\ approval' = "open"
  /\ exec' = [exec EXCEPT !.at = "asking", !.made = @ + 1]
  /\ UNCHANGED <<task, over, gen, buffer, back, client, returns>>

\* Answer: the user, here or elsewhere, or the time-out of the wait.
Answer ==
  /\ approval = "open" /\ approval' \in {"allow", "deny"}
  /\ UNCHANGED <<task, exec, recorded, queue, over, gen, buffer, back, client, returns>>

\* Returned: what execute_sync returns, unless an error was noted before.
Returned(r) == IF exec.result = "raised" THEN "raised" ELSE r

\* ExecAnswered: the thread goes on, or fails the task and returns.
ExecAnswered ==
  /\ exec.at = "asking" /\ approval # "open"
  /\ queue' = Append(queue, Step("answer")) /\ Record(exec.made + 1)
  /\ IF approval = "deny"
     THEN /\ exec' = [at |-> "settled", made |-> exec.made + 1, result |-> Returned("cancelled")]
          /\ task' = IF Finishable(task) THEN "failed" ELSE task
     ELSE exec' = [exec EXCEPT !.at = "working", !.made = @ + 1] /\ UNCHANGED task
  /\ UNCHANGED <<approval, over, gen, buffer, back, client, returns>>

\* ExecSettle: the end of execute_sync: a result, or an error.
ExecSettle ==
  /\ exec.at = "working"
  /\ \E r \in {"success", "error"} :
       /\ exec' = [exec EXCEPT !.at = "settled", !.result = Returned(r)]
       /\ task' = IF Finishable(task) THEN (IF r = "success" THEN "completed" ELSE "failed")
                  ELSE task
  /\ UNCHANGED <<recorded, approval, queue, over, gen, buffer, back, client, returns>>

\* ExecRaise: what precedes execute_sync fails; nobody has settled the task.
ExecRaise ==
  /\ exec.at = "working" /\ approval = "none" /\ task # "delegated"
  /\ exec' = [exec EXCEPT !.at = "done", !.result = "raised"]
  /\ over' = TRUE
  /\ UNCHANGED <<task, recorded, approval, queue, gen, buffer, back, client, returns>>

\* ExecFinish: a summary follows the result, whatever it is, then the signal.
ExecFinish ==
  /\ exec.at = "settled"
  /\ queue' = Append(queue, Step("work"))
  /\ exec' = [exec EXCEPT !.at = "done", !.made = @ + 1]
  /\ over' = TRUE
  /\ UNCHANGED <<task, recorded, approval, gen, buffer, back, client, returns>>

-----------------------------------------------------------------------------
(* The response (generate_agent_response).                                   *)

\* Send: the client posts its message: a task is created and its response begins.
Send ==
  /\ gen = "none" /\ client.conn = "idle"
  /\ gen' = "new" /\ client' = [client EXCEPT !.conn = "live"]
  /\ UNCHANGED <<task, exec, recorded, approval, queue, over, buffer, back, returns>>

\* GenStart: a task that runs or is settled is refused; otherwise the thread starts.
GenStart ==
  /\ gen = "new"
  /\ IF Startable(task)
     THEN /\ gen' = "streaming" /\ exec' = [exec EXCEPT !.at = "working"]
          /\ Yield(<<Event("started", 0)>>)
     ELSE /\ gen' = "closed" /\ UNCHANGED <<exec, buffer>>
          /\ client' = Finalized(Received(client, Event("error", 0)))
  /\ UNCHANGED <<task, recorded, approval, queue, over, back, returns>>

\* Sent, mutated form: an answer is a step like any other.
SentPlainly(step) ==
  IF step.kind = "ask" /\ approval = "open" THEN <<Event("approval_request", step.n)>>
  ELSE <<Event("step", step.n)>>

\* Sent: a request for approval that is open becomes a card, an answer takes the
\* card away.
Sent(step) ==
  CASE step.kind = "ask" /\ approval = "open" -> <<Event("approval_request", step.n)>>
    [] step.kind = "answer" -> <<Event("approval_resolved", 0), Event("step", step.n)>>
    [] OTHER -> <<Event("step", step.n)>>

\* GenRead: a step from the queue.
GenRead ==
  /\ gen = "streaming" /\ ~over /\ queue # <<>>
  /\ queue' = Tail(queue) /\ Yield(Sent(Head(queue)))
  /\ UNCHANGED <<task, exec, recorded, approval, over, gen, back, returns>>

\* GenCancelled, mutated form: the status is only looked at when the execution is over.
GenCancelledAtEnd ==
  /\ gen = "streaming" /\ over /\ queue = <<>> /\ task = "cancelled"
  /\ gen' = "ending" /\ Yield(<<Event("cancelled", 0)>>)
  /\ UNCHANGED <<task, exec, recorded, approval, queue, over, back, returns>>

\* GenCancelled: nothing in the queue, and the task was cancelled: the response ends
\* and leaves the thread alone.
GenCancelled ==
  /\ gen = "streaming" /\ ~over /\ queue = <<>> /\ task = "cancelled"
  /\ gen' = "ending" /\ Yield(<<Event("cancelled", 0)>>)
  /\ UNCHANGED <<task, exec, recorded, approval, queue, over, back, returns>>

\* GenTimeout: no step for too long.
GenTimeout ==
  /\ MayTimeOut /\ gen = "streaming" /\ ~over /\ queue = <<>> /\ task # "cancelled"
  /\ over' = TRUE /\ exec' = [exec EXCEPT !.result = "raised"]
  /\ UNCHANGED <<task, recorded, approval, queue, gen, buffer, back, client, returns>>

\* GenDrain: what is left in the queue when the execution is over, as plain steps.
GenDrain ==
  /\ gen = "streaming" /\ over /\ queue # <<>>
  /\ queue' = Tail(queue) /\ Yield(<<Event("step", Head(queue).n)>>)
  /\ UNCHANGED <<task, exec, recorded, approval, over, gen, back, returns>>

\* Outcome: what the client is told at the end; any result that is not a denial is
\* sent as one, an error too.
Outcome ==
  CASE exec.result = "raised"    -> Event("error", 0)
    [] exec.result = "cancelled" -> Event("cancelled", 0)
    [] OTHER                     -> Event("result", 0)

\* GenOutcome: the outcome; a failure is settled here, too.
Failure == exec.result \in {"raised", "cancelled"}

GenOutcome ==
  /\ gen = "streaming" /\ over /\ queue = <<>>
  /\ gen' = "ending"
  /\ task' = IF Failure /\ Finishable(task) THEN "failed" ELSE task
  /\ Yield(<<Outcome>>)
  /\ UNCHANGED <<exec, recorded, approval, queue, over, back, returns>>

\* GenClose: the response is over, and the client's view of it final.
GenClose ==
  /\ gen = "ending" /\ gen' = "closed"
  /\ client' = IF client.conn = "live" THEN Finalized(client) ELSE client
  /\ UNCHANGED <<task, exec, recorded, approval, queue, over, buffer, back, returns>>

\* GenNotice: the server notices that the client has left: the generator ends in the
\* middle, and nobody reads the queue any more.
GenNotice ==
  /\ gen \in {"new", "streaming", "ending"} /\ client.conn # "live"
  /\ gen' = "gone"
  /\ UNCHANGED <<task, exec, recorded, approval, queue, over, buffer, back, client, returns>>

\* Cleanup: some time after the response, the buffer is dropped.
Cleanup ==
  /\ gen = "closed" /\ buffer # Gone /\ buffer' = Gone
  /\ UNCHANGED <<task, exec, recorded, approval, queue, over, gen, back, client, returns>>

-----------------------------------------------------------------------------
(* Leaving, coming back (chat_task_reconnect) and cancelling.                *)

\* Leave: the page is left or reloaded, or the network fails.
Leave ==
  /\ client.conn # "idle"
  /\ client' = [client EXCEPT !.conn = "idle"] /\ back' = [on |-> FALSE, next |-> 0]
  /\ UNCHANGED <<task, exec, recorded, approval, queue, over, gen, buffer, returns>>

\* RebuiltEnd: the events of a task that has failed or is complete.
RebuiltEnd ==
  CASE task = "failed" -> <<Event("error", 0)>>
    [] task = "completed" -> <<Event("result", 0)>>
    [] OTHER -> <<>>

\* Rebuilt, mutated form: from all that was put in the queue.
RebuiltFromPut ==
  <<Event("started", 0)>> \o [i \in 1 .. exec.made |-> Event("step", i)] \o RebuiltEnd

\* Rebuilt: without a buffer, the events are made from what the task has recorded, which
\* is not what was put in the queue.
Rebuilt ==
  <<Event("started", 0)>> \o [i \in 1 .. Len(recorded) |-> Event("step", recorded[i])]
    \o RebuiltEnd

\* Return: the view asks for open approvals, then for the stream, which begins with
\* everything the buffer has.
Return ==
  /\ client.conn = "idle" /\ client.active /\ ~back.on /\ returns < MaxReturns
  /\ LET c == [client EXCEPT !.conn = "back", !.seen = <<>>, !.ended = FALSE,
                             !.card = @ \/ approval = "open"]
     IN client' = AfterEvents(c, IF Buffered # <<>> THEN buffer ELSE Rebuilt)
  /\ back' = [on |-> TRUE, next |-> Len(Buffered)] /\ returns' = returns + 1
  /\ UNCHANGED <<task, exec, recorded, approval, queue, over, gen, buffer>>

\* Fresh, mutated form: the position is one too far.
FreshButOne == SubSeq(Buffered, back.next + 2, Len(Buffered))

\* Fresh: what the buffer got since the stream looked last.
Fresh == SubSeq(Buffered, back.next + 1, Len(Buffered))

\* BackPoll: sends it; when the task has ended, that is the last.
BackPoll ==
  /\ back.on
  /\ IF task \in Terminal
     THEN /\ client' = Finalized(AfterEvents(client, Append(Fresh, Event("reconnect_done", 0))))
          /\ back' = [on |-> FALSE, next |-> 0]
     ELSE /\ Fresh # <<>> /\ client' = AfterEvents(client, Fresh)
          /\ back' = [back EXCEPT !.next = Len(Buffered)]
  /\ UNCHANGED <<task, exec, recorded, approval, queue, over, gen, buffer, returns>>

\* Cancelled: the cancel endpoint denies an open approval, then marks the task.
Cancelled ==
  /\ approval' = IF approval = "open" THEN "deny" ELSE approval
  /\ task' = IF Cancellable(task) THEN "cancelled" ELSE task

\* Cancel: from elsewhere, while the client listens on.
Cancel ==
  /\ gen # "none" /\ Cancelled
  /\ UNCHANGED <<exec, recorded, queue, over, gen, buffer, back, client, returns>>

\* Stop, mutated form: the stream is not aborted.
StopWithoutAbort ==
  /\ client.conn # "idle" /\ Cancelled
  /\ client' = [client EXCEPT !.conn = "idle", !.active = FALSE]
  /\ UNCHANGED <<exec, recorded, queue, over, gen, buffer, back, returns>>

\* Stop: the client aborts its stream, cancels the task and forgets it.
Stop ==
  /\ client.conn # "idle" /\ Cancelled
  /\ client' = [client EXCEPT !.conn = "idle", !.active = FALSE]
  /\ back' = [on |-> FALSE, next |-> 0]
  /\ UNCHANGED <<exec, recorded, queue, over, gen, buffer, returns>>

-----------------------------------------------------------------------------
Execution ==
  ExecWork \/ ExecRecord \/ ExecAsk \/ ExecAnswered \/ ExecSettle \/ ExecRaise \/ ExecFinish
Response ==
  GenStart \/ GenRead \/ GenCancelled \/ GenTimeout \/ GenDrain \/ GenOutcome \/ GenClose
Next ==
  \/ Execution \/ Response \/ GenNotice \/ Cleanup
  \/ Send \/ Answer \/ Leave \/ Return \/ BackPoll \/ Cancel \/ Stop

\* The loop serves the response and the stream, and the thread, which may work for
\* ever, goes on when it need not wait.
Fairness ==
  /\ WF_vars(GenStart \/ GenRead \/ GenCancelled \/ GenDrain \/ GenOutcome \/ GenClose)
  /\ WF_vars(BackPoll)
  /\ WF_vars(ExecAnswered) /\ WF_vars(ExecFinish)

Spec == Init /\ [][Next]_vars /\ Fairness

-----------------------------------------------------------------------------
(* Properties.                                                               *)

EventTypes == {"started", "step", "approval_request", "approval_resolved", "result", "error",
               "cancelled"}

\* The variables have their types.
TypeOK ==
  /\ task \in Status /\ approval \in {"none", "open", "allow", "deny"}
  /\ exec.at \in {"new", "working", "asking", "settled", "done"}
  /\ exec.made \in 0 .. MaxSteps + 2 /\ recorded \in Seq(0 .. exec.made)
  /\ exec.result \in {"none", "success", "error", "cancelled", "raised"}
  /\ queue \in Seq([kind : Kinds, n : 1 .. exec.made]) /\ over \in BOOLEAN
  /\ gen \in {"none", "new", "streaming", "ending", "closed", "gone"}
  /\ buffer = Gone \/ buffer \in Seq([type : EventTypes, n : 0 .. exec.made])
  /\ back \in [on : BOOLEAN, next : Nat]
  /\ client.conn \in {"idle", "live", "back"} /\ client.seen \in Seq(0 .. exec.made)
  /\ {client.ended, client.card, client.active} \subseteq BOOLEAN
  /\ back.on <=> client.conn = "back"

\* Whatever the connection, it shows no step twice.  The live stream, and one that was
\* taken up in the middle while there was a buffer, have shown the first steps put in
\* the queue in their order, and left none out (api/server.py: "the user can navigate
\* away and come back").  One that came after the buffer was dropped has shown what the
\* task had recorded by then, in the order of the record, and so not the steps of
\* run_crew.
FromRecord == client.conn = "back" /\ back.next = 0

StepsInOrder ==
  client.conn # "idle" =>
    IF FromRecord
    THEN /\ Len(client.seen) <= Len(recorded)
         /\ \A i \in DOMAIN client.seen : client.seen[i] \in {0, recorded[i]}
         /\ \A i, j \in DOMAIN client.seen :
              i # j /\ client.seen[i] = client.seen[j] => client.seen[i] = 0
    ELSE client.seen = [i \in 1 .. Len(client.seen) |-> i]

\* A client that stays connected catches up with what others do.  When its task has
\* ended or is cancelled, it is told the end, although the execution may hang and its
\* thread be left alone; and a card on its screen goes when its approval is answered,
\* wherever that happened, or when its wait timed out.
ClientCatchesUp ==
  /\ (client.conn # "idle" /\ task \in Terminal) ~> (client.ended \/ client.conn = "idle")
  /\ (client.conn = "live" /\ client.card /\ approval # "open")
       ~> (~client.card \/ client.conn # "live")
=============================================================================
