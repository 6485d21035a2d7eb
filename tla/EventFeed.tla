------------------------------ MODULE EventFeed ------------------------------
(***************************************************************************)
(* How a dashboard follows a task: the replay buffer and the bounded queues *)
(* of the event stream (api/event_buffer.py, communication/subscription.py, *)
(* agent_events_stream and state_snapshot of api/server.py), and on the     *)
(* side of the browser the event bridge, the merge of snapshots and the     *)
(* periodic exchange with the tasks table, which both sides write.          *)
(*                                                                         *)
(* One task: it is created, started, makes steps and completes.  The events *)
(* are numbered, and their numbers are the sequence numbers of the buffer.  *)
(* A client gets each of them twice: at once from the task manager, without *)
(* a number, and through its queue.                                         *)
(***************************************************************************)
EXTENDS Naturals, Sequences, FiniteSets, Functions

CONSTANTS Clients,
          Capacity,   \* event_buffer_capacity
          QueueSize,  \* subscription_queue_size
          Steps,      \* bound: steps of the task
          MaxBreaks   \* bound: broken connections of each client

ASSUME FeedAssumption == /\ {Capacity, QueueSize} \subseteq Nat \ {0}
                         /\ {Steps, MaxBreaks} \subseteq Nat

VARIABLES stage,   \* the last event of the task in the task manager
          seq,     \* the last event broadcast and stored in the buffer
          saved,   \* has the server written its row of the finished task?
          row,     \* the row of the tasks table
          conn,    \* the stream of each client
          listed,  \* is its queue among the subscribers?
          feed,    \* what is left to be replayed or sent first
          queue,   \* subscription_queue
          direct,  \* event_queue
          lastId,  \* Last-Event-ID
          breaks,  \* number of broken connections
          view,    \* the task in the client's store
          told,    \* history: what the events of the stream alone add up to
          timer,   \* is the client about to persist its task?
          snap,    \* the snapshot the client has asked for, and what it shows
          lost,    \* history: did the client's queue miss an event?
          unlisted \* history: did it never get the list of tasks, when that alone
                   \* could still tell it of the task?

server == <<stage, seq, saved>>
stream == <<conn, listed, feed, queue, direct, lastId, breaks, lost, unlisted>>
store == <<view, told, timer>>
vars == <<server, row, stream, store, snap>>

Over == Steps + 3
NoSnapshot == [state |-> "none", of |-> 0]
NoTask == [status |-> "none", steps |-> {}]

\* The task after n events.
After(n) ==
  [status |-> IF n = 0 THEN "none" ELSE IF n = 1 THEN "pending"
              ELSE IF n < Over THEN "running" ELSE "over",
   steps |-> {k \in 3 .. Over - 1 : k <= n}]

Init ==
  /\ stage = 0 /\ seq = 0 /\ saved = FALSE /\ row = NoTask
  /\ conn = [c \in Clients |-> "down"]
  /\ listed = [c \in Clients |-> FALSE]
  /\ feed = [c \in Clients |-> <<>>]
  /\ queue = [c \in Clients |-> <<>>]
  /\ direct = [c \in Clients |-> <<>>]
  /\ lastId = [c \in Clients |-> 0]
  /\ breaks = [c \in Clients |-> 0]
  /\ view = [c \in Clients |-> NoTask]
  /\ told = [c \in Clients |-> NoTask]
  /\ timer = [c \in Clients |-> FALSE]
  /\ snap = [c \in Clients |-> NoSnapshot]
  /\ lost = [c \in Clients |-> FALSE]
  /\ unlisted = [c \in Clients |-> FALSE]

-----------------------------------------------------------------------------
(* The server.                                                               *)

\* The task manager notifies its listeners at once.  With a step, the server
\* writes the row of the running task.
TaskEvent ==
  /\ stage < Over
  /\ stage' = stage + 1
  /\ direct' = [c \in Clients |-> IF conn[c] = "up" THEN Append(direct[c], stage + 1)
                                  ELSE direct[c]]
  /\ row' = IF stage + 1 \in 3 .. Over - 1 THEN After(stage + 1) ELSE row
  /\ UNCHANGED <<seq, saved, conn, listed, feed, queue, lastId, breaks, lost, unlisted>>
  /\ UNCHANGED <<store, snap>>

\* (The mutated form is a queue without a bound.)
NeverFull(c) == FALSE

Full(c) == Len(queue[c]) = QueueSize

\* A subscriber with a full queue is dropped from the list; its stream goes on.
Broadcast ==
  /\ seq < stage
  /\ seq' = seq + 1
  /\ queue' = [c \in Clients |-> IF listed[c] /\ ~Full(c) THEN Append(queue[c], seq + 1)
                                 ELSE queue[c]]
  /\ listed' = [c \in Clients |-> listed[c] /\ ~Full(c)]
  /\ lost' = [c \in Clients |-> \/ lost[c] \/ conn[c] \in {"agents", "replay"}
                              \/ (listed[c] /\ Full(c))]
  /\ UNCHANGED <<stage, saved, row, conn, feed, direct, lastId, breaks, unlisted, store, snap>>

\* The row is written after the last broadcast.
SaveRow ==
  /\ seq = Over /\ ~saved
  /\ saved' = TRUE
  /\ row' = After(Over)
  /\ UNCHANGED <<stage, seq, stream, store, snap>>

-----------------------------------------------------------------------------
(* The stream.                                                               *)

\* What the buffer holds after number n.  (The mutated form is off by one.)
GetLater(n) ==
  LET first == IF n + Capacity < seq THEN seq - Capacity + 1 ELSE n + 2
  IN  [i \in 1 .. seq - first + 1 |-> first + i - 1]

GetSince(n) ==
  LET first == IF n + Capacity < seq THEN seq - Capacity + 1 ELSE n + 1
  IN  [i \in 1 .. seq - first + 1 |-> first + i - 1]

\* A client without a last number gets two lists (event 0, of the stage they show).
\* The first is that of the agents: it has nothing to say of the task, but carries the
\* number of the last event.  Any other client gets what it has missed, and asks for a
\* snapshot, too, when it comes back.
Connect(c) ==
  /\ conn[c] = "down"
  /\ conn' = [conn EXCEPT ![c] = IF lastId[c] = 0 THEN "agents" ELSE "replay"]
  /\ feed' = [feed EXCEPT ![c] =
                IF lastId[c] = 0 THEN <<[id |-> seq, event |-> 0, of |-> 0]>>
                ELSE [i \in DOMAIN GetSince(lastId[c]) |->
                        LET k == GetSince(lastId[c])[i] IN [id |-> k, event |-> k, of |-> k]]]
  /\ lost' = [lost EXCEPT ![c] = lastId[c] # 0 /\ (@ \/ lastId[c] + Capacity < seq)]
  /\ snap' = [snap EXCEPT ![c] = IF breaks[c] > 0 THEN [state |-> "asked", of |-> 0] ELSE @]
  /\ UNCHANGED <<server, row, listed, queue, direct, lastId, breaks, unlisted, store>>

\* The second is the list of tasks as they are by then, with the same number.
SendTasks(c) ==
  /\ conn[c] = "agents" /\ feed[c] = <<>>
  /\ conn' = [conn EXCEPT ![c] = "replay"]
  /\ feed' = [feed EXCEPT ![c] = <<[id |-> lastId[c], event |-> 0, of |-> stage]>>]
  /\ UNCHANGED <<server, row, listed, queue, direct, lastId, breaks, lost, unlisted>>
  /\ UNCHANGED <<store, snap>>

\* Only now the queues of the connection are made known.
Subscribe(c) ==
  /\ conn[c] = "replay" /\ feed[c] = <<>>
  /\ conn' = [conn EXCEPT ![c] = "up"]
  /\ listed' = [listed EXCEPT ![c] = TRUE]
  /\ UNCHANGED <<server, row, feed, queue, direct, lastId, breaks, lost, unlisted>>
  /\ UNCHANGED <<store, snap>>

StartsWithList(c) == feed[c] # <<>> /\ Head(feed[c]).event = 0
Unlisted(c) == conn[c] = "agents" \/ StartsWithList(c)

\* If the list of tasks was still to come, the client that has the number does not get
\* it any more: what it learns of the task are the events from there on, and an end
\* alone is ignored (see Ended).
Break(c) ==
  /\ conn[c] # "down" /\ breaks[c] < MaxBreaks
  /\ conn' = [conn EXCEPT ![c] = "down"]
  /\ breaks' = [breaks EXCEPT ![c] = @ + 1]
  /\ listed' = [listed EXCEPT ![c] = FALSE]
  /\ feed' = [feed EXCEPT ![c] = <<>>]
  /\ queue' = [queue EXCEPT ![c] = <<>>]
  /\ direct' = [direct EXCEPT ![c] = <<>>]
  /\ unlisted' = [unlisted EXCEPT ![c] = @ \/ (Unlisted(c) /\ lastId[c] + 1 >= Over)]
  /\ UNCHANGED <<server, row, lastId, lost, store, snap>>

-----------------------------------------------------------------------------
(* The client.                                                               *)

\* What each event makes of the task t in the store.  The list of the server's
\* tasks, taken at stage n, has no say in the steps of a task without steps.
Restored(t, n) ==
  IF n = 0 THEN t
  ELSE [status |-> After(n).status,
        steps |-> IF After(n).steps = {} THEN t.steps ELSE After(n).steps]

Created(t) == IF t.status = "none" THEN After(1) ELSE t

Started(t) == [t EXCEPT !.status = "running"]

Stepped(t, k) == [status |-> IF t.status = "none" THEN "running" ELSE t.status,
                  steps |-> t.steps \cup {k}]

\* The completion of a task that is not known is ignored.
Ended(t) == IF t.status = "none" THEN t ELSE [t EXCEPT !.status = "over"]

Shown(t, k, n) ==
  CASE k = 0 -> Restored(t, n)
    [] k = 1 -> Created(t)
    [] k = 2 -> Started(t)
    [] k \in 3 .. Over - 1 -> Stepped(t, k)
    [] OTHER -> Ended(t)

\* The client takes what has come: what it shows of the task, and what it was told.
Take(c, nowShown, nowTold) ==
  /\ view' = [view EXCEPT ![c] = nowShown]
  /\ told' = [told EXCEPT ![c] = nowTold]
  /\ timer' = [timer EXCEPT ![c] = @ \/ view'[c] # NoTask]

TakeFeed(c) ==
  /\ feed[c] # <<>>
  /\ LET e == Head(feed[c])
     IN Take(c, Shown(view[c], e.event, e.of), Shown(told[c], e.event, e.of))
  /\ lastId' = [lastId EXCEPT ![c] = Head(feed[c]).id]
  /\ feed' = [feed EXCEPT ![c] = Tail(@)]
  /\ UNCHANGED <<server, row, conn, listed, queue, direct, breaks, lost, unlisted, snap>>

FirstShown(t, q) == IF q = <<>> THEN t ELSE Shown(t, Head(q), 0)

BothShown(c, t) == FirstShown(FirstShown(t, direct[c]), queue[c])

\* One turn of the stream's loop takes at most one event of each queue, that of the
\* task manager first.
TakeTurn(c) ==
  /\ direct[c] # <<>> \/ queue[c] # <<>>
  /\ Take(c, BothShown(c, view[c]), BothShown(c, told[c]))
  /\ lastId' = [lastId EXCEPT ![c] = IF queue[c] = <<>> THEN @ ELSE Head(queue[c])]
  /\ direct' = [direct EXCEPT ![c] = IF @ = <<>> THEN @ ELSE Tail(@)]
  /\ queue' = [queue EXCEPT ![c] = IF @ = <<>> THEN @ ELSE Tail(@)]
  /\ UNCHANGED <<server, row, conn, listed, feed, breaks, lost, unlisted, snap>>

\* The server answers with what its task manager has now, or not at all.
SnapshotTaken(c) ==
  /\ snap[c].state = "asked"
  /\ \/ snap' = [snap EXCEPT ![c] = [state |-> "taken", of |-> stage]]
     \/ snap' = [snap EXCEPT ![c] = NoSnapshot]
  /\ UNCHANGED <<server, row, stream, store>>

\* The store merges it: the side that has more steps wins as a whole, the client's
\* own in case of a tie.
Merged(mine, theirs) ==
  CASE theirs.status = "none" -> mine
    [] mine.status = "none" -> theirs
    [] OTHER -> IF Cardinality(mine.steps) >= Cardinality(theirs.steps) THEN mine ELSE theirs

ApplySnapshot(c) ==
  /\ snap[c].state = "taken"
  /\ view' = [view EXCEPT ![c] = Merged(@, After(snap[c].of))]
  /\ snap' = [snap EXCEPT ![c] = NoSnapshot]
  /\ UNCHANGED <<server, row, stream, told, timer>>

-----------------------------------------------------------------------------
(* The tasks table.                                                          *)

\* 400 ms after the last change the client writes what it shows by then.
Persist(c) ==
  /\ timer[c]
  /\ timer' = [timer EXCEPT ![c] = FALSE]
  /\ row' = view[c]
  /\ UNCHANGED <<server, stream, view, told, snap>>

\* Every 15 s it reads the table: the status is the row's, the steps are those of
\* the side that has more.
LoadRow(c) ==
  /\ row.status # "none"
  /\ view' = [view EXCEPT ![c] = [status |-> row.status,
                                  steps |-> IF Cardinality(@.steps) >= Cardinality(row.steps)
                                            THEN @.steps ELSE row.steps]]
  /\ UNCHANGED <<server, row, stream, told, timer, snap>>

Deliver(c) == TakeFeed(c) \/ TakeTurn(c) \/ SendTasks(c) \/ Subscribe(c)

Next ==
  \/ TaskEvent \/ Broadcast \/ SaveRow
  \/ \E c \in Clients :
       \/ Connect(c) \/ Break(c) \/ Deliver(c)
       \/ SnapshotTaken(c) \/ ApplySnapshot(c) \/ Persist(c) \/ LoadRow(c)

\* The loop of the stream passes on what its queues hold.  Neither the task nor its
\* broadcasts nor the connection need ever make progress.
Fairness == \A c \in Clients : WF_vars(Deliver(c))

Spec == Init /\ [][Next]_vars /\ Fairness

-----------------------------------------------------------------------------
(* Properties.                                                               *)

Ids == 0 .. Over
Tasks == [status : {"none", "pending", "running", "over"}, steps : SUBSET (3 .. Over - 1)]

\* The variables have their types: a queue is never longer than its bound, and a
\* replay never holds more than the buffer.
TypeOK ==
  /\ stage \in Ids /\ seq \in 0 .. stage /\ saved \in BOOLEAN /\ row \in Tasks
  /\ conn \in [Clients -> {"down", "agents", "replay", "up"}]
  /\ {listed, timer, lost, unlisted} \subseteq [Clients -> BOOLEAN]
  /\ {view, told} \subseteq [Clients -> Tasks]
  /\ lastId \in [Clients -> Ids] /\ breaks \in [Clients -> 0 .. MaxBreaks]
  /\ \A c \in Clients :
       /\ Range(feed[c]) \subseteq [id : Ids, event : Ids, of : Ids] /\ Len(feed[c]) <= Capacity
       /\ Range(queue[c]) \cup Range(direct[c]) \subseteq Ids /\ Len(queue[c]) <= QueueSize
       /\ snap[c].state \in {"none", "asked", "taken"} /\ snap[c].of \in Ids

\* What a connection still has to deliver.
Pending(c) == [i \in DOMAIN feed[c] |-> feed[c][i].id] \o queue[c]

\* A client that has missed nothing for good is owed every event after the last it
\* has seen, each once and in order, whatever breaks and replays came between
\* (event_buffer.py: "Server replays all buffered events with seq > N").
NothingSkipped ==
  \A c \in Clients : (conn[c] # "down" /\ ~lost[c] /\ ~StartsWithList(c)) =>
    Pending(c) = [i \in 1 .. seq - lastId[c] |-> lastId[c] + i]

\* If a task has ended, and the stream of a client ends up connected and has missed
\* no event for good, then the stream by itself tells the client the end of the task,
\* unless a break kept the list of tasks from it when nothing but the end was to come.
FeedDelivers ==
  \A c \in Clients :
    <>[](seq = Over /\ conn[c] # "down" /\ ~lost[c] /\ ~unlisted[c])
      => <>[](told[c].status = "over")

\* Both: after every step the stream owes everything (at first there is none), and in
\* the end it pays.
FeedIsComplete == [][NothingSkipped']_vars /\ FeedDelivers
=============================================================================
