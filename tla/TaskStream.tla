------------------------------ MODULE TaskStream ------------------------------
(***************************************************************************)
(* How an organizer learns the outcome of a task it delegated: the SSE      *)
(* stream of one task on the worker (subscribe_to_task in api/server.py,    *)
(* the listeners of task/manager.py) and its reader on the organizer        *)
(* (_subscribe_remote_task with its fall-back _poll_remote_task in          *)
(* agent/core.py).                                                         *)
(*                                                                         *)
(* The worker's execution, its progress callbacks and the cancel endpoint   *)
(* run in different threads; each walks over the live list of listeners    *)
(* without a lock.  A listener reads the status of the task as it is when   *)
(* it is called.  An update that crosses threads is enqueued at once here:  *)
(* the loop delivers such updates in order.  Results and errors are left    *)
(* out, only the status travels.                                           *)
(***************************************************************************)
EXTENDS TaskStatus, Integers, Sequences

CONSTANTS Subs,        \* subscribers of the task
          Others,      \* other listeners of the task manager, which come and go
          QueueSize,   \* update_queue_size
          MaxUpdates   \* bound: progress updates of the task

StreamAssumption ==
  /\ Subs \cap Others = {}
  /\ QueueSize \in Nat \ {0}
  /\ MaxUpdates \in Nat

\* Who may be walking over the listeners.
Notifiers == {"progress", "execution", "cancel"}

VARIABLES task,       \* status of the task on the worker
          updates,    \* progress updates so far
          note,       \* position of each notifier in the listeners, 0 when idle
          listeners,  \* self._listeners
          server,     \* per subscriber: how far the endpoint is
          queue,      \* per subscriber: update_queue
          wire,       \* per subscriber: lines on their way to the client
          client,     \* per subscriber: what the organizer is doing
          late,       \* per subscriber: the monitoring time is over
          answer,     \* per subscriber: the status the organizer ends with
          missed      \* history: the final update never got into the queue

vars == <<task, updates, note, listeners, server, queue, wire, client, late, answer,
          missed>>

\* One line of the stream: the snapshot, an update, a ping or the end of the
\* stream; state is meaningful for the first two.
Line(kind, final) == [kind |-> kind, state |-> task, final |-> final]

Update == Line("update", task \in Terminal)

Ping == [kind |-> "ping", state |-> "running", final |-> FALSE]

Lines ==
  [kind : {"task", "update", "ping", "eof"}, state : Status, final : BOOLEAN]

Init ==
  /\ task = "running"
  /\ updates = 0
  /\ note = [n \in Notifiers |-> 0]
  /\ listeners = <<>>
  /\ server = [c \in Subs |-> "none"]
  /\ queue = [c \in Subs |-> <<>>]
  /\ wire = [c \in Subs |-> <<>>]
  /\ client = [c \in Subs |-> "idle"]
  /\ late = [c \in Subs |-> FALSE]
  /\ answer = [c \in Subs |-> "none"]
  /\ missed = [c \in Subs |-> FALSE]

-----------------------------------------------------------------------------
(* The worker: TaskManager and its callers.                                  *)

\* add_step, update_progress, update_phase: notify the listeners.
Progress ==
  /\ updates < MaxUpdates
  /\ note["progress"] = 0
  /\ updates' = updates + 1
  /\ note' = [note EXCEPT !["progress"] = 1]
  /\ UNCHANGED <<task, listeners, server, queue, wire, client, late, answer, missed>>

\* complete_task or fail_task: the status is written, then the listeners are
\* notified.
Finish(s) ==
  /\ Finishable(task)
  /\ task' = s
  /\ note' = [note EXCEPT !["execution"] = 1]
  /\ UNCHANGED <<updates, listeners, server, queue, wire, client, late, answer, missed>>

Cancel ==
  /\ Cancellable(task)
  /\ task' = "cancelled"
  /\ note' = [note EXCEPT !["cancel"] = 1]
  /\ UNCHANGED <<updates, listeners, server, queue, wire, client, late, answer, missed>>

\* update_queue.put_nowait: on QueueFull the update is dropped.
Offered(c) == IF Len(queue[c]) < QueueSize THEN Append(queue[c], Update) ELSE queue[c]

\* One iteration of _notify.
NotifyNext(n) ==
  /\ note[n] > 0
  /\ IF note[n] <= Len(listeners)
     THEN LET c == listeners[note[n]]
          IN  /\ note' = [note EXCEPT ![n] = @ + 1]
              /\ IF c \in Others THEN UNCHANGED <<queue, missed>>
                 ELSE /\ queue' = [queue EXCEPT ![c] = Offered(c)]
                      /\ missed' = [missed EXCEPT ![c] = @ \/ (/\ task \in Terminal
                                                               /\ Len(queue[c]) >= QueueSize)]
     ELSE /\ note' = [note EXCEPT ![n] = 0]
          /\ UNCHANGED <<queue, missed>>
  /\ UNCHANGED <<task, updates, listeners, server, wire, client, late, answer>>

\* A line reaches the client as long as it reads.
Sent(c, line) == IF client[c] = "reading" THEN Append(wire[c], line) ELSE <<>>

-----------------------------------------------------------------------------
(* The subscribe endpoint.                                                   *)

\* The task is looked up; if it is over, its state and a final update are the
\* whole stream.
Subscribe(c) ==
  /\ client[c] = "idle"
  /\ client' = [client EXCEPT ![c] = "reading"]
  /\ IF task \in Terminal
     THEN /\ wire' = [wire EXCEPT ![c] = <<Line("task", FALSE), Line("update", TRUE)>>]
          /\ server' = [server EXCEPT ![c] = "closed"]
     ELSE /\ server' = [server EXCEPT ![c] = "checked"]
          /\ UNCHANGED wire
  /\ UNCHANGED <<task, updates, note, listeners, queue, late, answer, missed>>

AddListener(c) ==
  /\ server[c] = "checked"
  /\ server' = [server EXCEPT ![c] = "listening"]
  /\ listeners' = Append(listeners, c)
  /\ UNCHANGED <<task, updates, note, queue, wire, client, late, answer, missed>>

\* Mutated form of Recheck: the race window stays open.
RecheckOmitted(c) ==
  /\ server[c] = "listening"
  /\ server' = [server EXCEPT ![c] = "rechecked"]
  /\ UNCHANGED <<task, updates, note, listeners, queue, wire, client, late, answer,
                 missed>>

\* The listener is called once more if the task ended in the meantime.
Recheck(c) ==
  /\ server[c] = "listening"
  /\ server' = [server EXCEPT ![c] = "rechecked"]
  /\ IF task \in Terminal
     THEN /\ queue' = [queue EXCEPT ![c] = Offered(c)]
          /\ missed' = [missed EXCEPT ![c] = @ \/ Len(queue[c]) >= QueueSize]
     ELSE UNCHANGED <<queue, missed>>
  /\ UNCHANGED <<task, updates, note, listeners, wire, client, late, answer>>

\* The stream starts with the state of the task, read afresh.
Snapshot(c) ==
  /\ server[c] = "rechecked"
  /\ server' = [server EXCEPT ![c] = "streaming"]
  /\ wire' = [wire EXCEPT ![c] = Sent(c, Line("task", FALSE))]
  /\ UNCHANGED <<task, updates, note, listeners, queue, client, late, answer, missed>>

\* Mutated form of RemoveListener: the clean-up of the stream is forgotten.
RemoveListenerForgotten(c) ==
  /\ c \in Subs \cup Others
  /\ UNCHANGED <<listeners, missed>>

\* remove_listener: those behind move up, and a notifier that is past the
\* removed one skips the listener it would have called next.
RemoveListener(c) ==
  LET p == CHOOSE i \in 1 .. Len(listeners) : listeners[i] = c
      skipped == {listeners[note[n]] : n \in {m \in Notifiers : /\ note[m] > p
                                                                /\ note[m] <= Len(listeners)}}
  IN  /\ listeners' = SubSeq(listeners, 1, p - 1) \o SubSeq(listeners, p + 1, Len(listeners))
      /\ missed' = [d \in Subs |-> missed[d] \/ (d \in skipped /\ task \in Terminal)]

\* Another listener registers, or unregisters.
OtherJoins(o) ==
  /\ \A i \in 1 .. Len(listeners) : listeners[i] # o
  /\ listeners' = Append(listeners, o)
  /\ UNCHANGED <<task, updates, note, server, queue, wire, client, late, answer, missed>>

OtherLeaves(o) ==
  /\ \E i \in 1 .. Len(listeners) : listeners[i] = o
  /\ RemoveListener(o)
  /\ UNCHANGED <<task, updates, note, server, queue, wire, client, late, answer>>

\* The next update goes out; a final one ends the stream.
Forward(c) ==
  /\ server[c] = "streaming"
  /\ queue[c] # <<>>
  /\ queue' = [queue EXCEPT ![c] = Tail(@)]
  /\ wire' = [wire EXCEPT ![c] = Sent(c, Head(queue[c]))]
  /\ IF Head(queue[c]).final
     THEN /\ server' = [server EXCEPT ![c] = "closed"]
          /\ RemoveListener(c)
     ELSE UNCHANGED <<server, listeners, missed>>
  /\ UNCHANGED <<task, updates, note, client, late, answer>>

\* Nothing for update_queue_timeout seconds.
SendPing(c) ==
  /\ server[c] = "streaming"
  /\ queue[c] = <<>>
  /\ client[c] = "reading" /\ wire[c] = <<>>
  /\ wire' = [wire EXCEPT ![c] = <<Ping>>]
  /\ UNCHANGED <<task, updates, note, listeners, server, queue, client, late, answer,
                 missed>>

\* The worker shuts the stream down, or notices that its client is gone.
Hangup(c) ==
  /\ server[c] = "streaming"
  /\ server' = [server EXCEPT ![c] = "closed"]
  /\ RemoveListener(c)
  /\ wire' = [wire EXCEPT ![c] = Sent(c, [Ping EXCEPT !.kind = "eof"])]
  /\ UNCHANGED <<task, updates, note, queue, client, late, answer>>

-----------------------------------------------------------------------------
(* The organizer.                                                            *)

\* The connection is closed and what was under way is lost.
Leave(c, next) ==
  /\ client' = [client EXCEPT ![c] = next]
  /\ wire' = [wire EXCEPT ![c] = <<>>]

Answer(c, s) ==
  /\ answer' = [answer EXCEPT ![c] = s]
  /\ Leave(c, "done")

\* Mutated form of Verdict: any final update counts as a success.
VerdictAnyFinal(line) ==
  CASE line.kind = "task"   -> IF line.state = "completed" THEN "success"
                               ELSE IF line.state = "failed" THEN "error" ELSE "none"
    [] line.kind = "update" -> IF line.final THEN "success" ELSE "none"
    [] line.kind = "ping"   -> "none"
    [] line.kind = "eof"    -> "pending"

\* What a line decides: the status returned, or "none" to read on.  A snapshot
\* that says cancelled decides nothing.
Verdict(line) ==
  CASE line.kind = "task"   -> IF line.state = "completed" THEN "success"
                               ELSE IF line.state = "failed" THEN "error" ELSE "none"
    [] line.kind = "update" -> IF ~line.final THEN "none"
                               ELSE IF line.state = "completed" THEN "success" ELSE "error"
    [] line.kind = "ping"   -> "none"
    [] line.kind = "eof"    -> "pending"

\* The monitoring time (remote_sse_timeout) is looked at after every line but a
\* ping, which is skipped before.
Read(c) ==
  /\ client[c] = "reading"
  /\ wire[c] # <<>>
  /\ LET line == Head(wire[c])
     IN  IF Verdict(line) # "none" THEN Answer(c, Verdict(line))
         ELSE IF line.kind # "ping" /\ late[c] THEN Answer(c, "error")
         ELSE /\ wire' = [wire EXCEPT ![c] = Tail(@)]
              /\ UNCHANGED <<client, answer>>
  /\ UNCHANGED <<task, updates, note, listeners, server, queue, late, missed>>

Deadline(c) ==
  /\ client[c] = "reading"
  /\ ~late[c]
  /\ late' = [late EXCEPT ![c] = TRUE]
  /\ UNCHANGED <<task, updates, note, listeners, server, queue, wire, client, answer,
                 missed>>

\* The connection breaks: the organizer turns to polling.
Disconnect(c) ==
  /\ client[c] = "reading"
  /\ Leave(c, "polling")
  /\ UNCHANGED <<task, updates, note, listeners, server, queue, late, answer, missed>>

\* A poll that finds the task completed or failed ends the polling; cancelled
\* is not a final state for it.
Poll(c) ==
  /\ client[c] = "polling"
  /\ task \in Settled
  /\ Answer(c, IF task = "completed" THEN "success" ELSE "error")
  /\ UNCHANGED <<task, updates, note, listeners, server, queue, late, missed>>

PollTimeout(c) ==
  /\ client[c] = "polling"
  /\ Answer(c, "error")
  /\ UNCHANGED <<task, updates, note, listeners, server, queue, late, missed>>

Worker ==
  \/ Progress \/ Cancel
  \/ \E s \in Settled : Finish(s)
  \/ \E n \in Notifiers : NotifyNext(n)
  \/ \E o \in Others : OtherJoins(o) \/ OtherLeaves(o)

Endpoint(c) ==
  \/ AddListener(c) \/ Recheck(c) \/ Snapshot(c) \/ Forward(c) \/ SendPing(c)

Organizer(c) ==
  \/ Subscribe(c) \/ Read(c) \/ Deadline(c) \/ Disconnect(c) \/ Poll(c) \/ PollTimeout(c)

Next ==
  \/ Worker
  \/ \E c \in Subs : Endpoint(c) \/ Organizer(c) \/ Hangup(c)

Spec == Init /\ [][Next]_vars

\* Threads and coroutines that can go on do, clocks advance, and nothing else
\* is sure: the task may run forever, connections may or may not break.
Fairness ==
  /\ \A n \in Notifiers : WF_vars(NotifyNext(n))
  /\ \A c \in Subs : /\ WF_vars(Endpoint(c))
                     /\ WF_vars(Read(c))
                     /\ WF_vars(Deadline(c))
                     /\ WF_vars(Poll(c) \/ PollTimeout(c))

FairSpec == Spec /\ Fairness

-----------------------------------------------------------------------------
(* Properties                                                                *)

\* The shape of the state; a listener is registered exactly while its endpoint
\* is between add_listener and remove_listener, and once.
TypeOK ==
  /\ task \in {"running"} \cup Terminal
  /\ updates \in 0 .. MaxUpdates
  /\ note \in [Notifiers -> Nat]
  /\ \A c \in Subs :
       /\ server[c] \in {"none", "checked", "listening", "rechecked", "streaming", "closed"}
       /\ queue[c] \in Seq(Lines) /\ Len(queue[c]) <= QueueSize
       /\ wire[c] \in Seq(Lines)
       /\ client[c] \in {"idle", "reading", "polling", "done"}
       /\ answer[c] \in {"none", "success", "error", "pending"}
       /\ {i \in 1 .. Len(listeners) : listeners[i] = c} # {}
            <=> server[c] \in {"listening", "rechecked", "streaming"}
  /\ \A i, j \in 1 .. Len(listeners) : listeners[i] = listeners[j] => i = j
  /\ late \in [Subs -> BOOLEAN]
  /\ missed \in [Subs -> BOOLEAN]

\* An organizer that reports success has a task that is completed on the
\* worker, through whatever mix of snapshots, updates, drops and polling.
SuccessIsReal ==
  \A c \in Subs : answer[c] = "success" => task = "completed"

\* No lost wake-up: a client that is still reading when the task is over is
\* released, unless its final update was dropped by a full queue or skipped by
\* a notifier.  The endpoint's second look at the task is what makes this true.
OutcomeArrives ==
  \A c \in Subs :
    client[c] = "reading" /\ task \in Terminal ~> client[c] # "reading" \/ missed[c]

\* Both: what a subscriber learns of the end is true, and it learns it.
SubscriberLearnsOutcome == []SuccessIsReal /\ OutcomeArrives
=============================================================================
