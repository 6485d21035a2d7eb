---------------------------- MODULE EventFeedProofs ----------------------------
(***************************************************************************)
(* Proofs about EventFeed for any number of clients, steps and breaks and   *)
(* any capacity of the buffer and of the queues.                            *)
(*                                                                         *)
(* NothingSkipped compares what is left to deliver with what was broadcast. *)
(* By itself it is not kept: that a stream which subscribes after its       *)
(* replay owes nothing more rests on the order of things in a connection    *)
(* (Connected), that a list stands for all that came before it on there     *)
(* being nothing behind it (ListIsFirst), and only the two queues taken     *)
(* apart (Owed) show that nothing is left out between them.                 *)
(***************************************************************************)
EXTENDS EventFeed, TLAPS

-----------------------------------------------------------------------------
(* The inductive invariant.                                                  *)

Entries == [id : Ids, event : Ids, of : Ids]

\* TypeOK in three parts; the queues are sequences.
ServerTyped ==
  stage \in Ids /\ seq \in Ids /\ seq <= stage /\ saved \in BOOLEAN /\ row \in Tasks

StoreTyped ==
  /\ view \in [Clients -> Tasks] /\ told \in [Clients -> Tasks]
  /\ timer \in [Clients -> BOOLEAN]
  /\ snap \in [Clients -> [state : {"none", "asked", "taken"}, of : Ids]]

StreamTyped ==
  /\ conn \in [Clients -> {"down", "agents", "replay", "up"}] /\ breaks \in [Clients -> 0 .. MaxBreaks]
  /\ listed \in [Clients -> BOOLEAN] /\ lost \in [Clients -> BOOLEAN]
  /\ unlisted \in [Clients -> BOOLEAN]
  /\ lastId \in [Clients -> Ids] /\ feed \in [Clients -> Seq(Entries)]
  /\ queue \in [Clients -> Seq(Ids)] /\ direct \in [Clients -> Seq(Ids)]

\* The queues keep to their bounds and hold events that were sent, and a client has
\* seen no others.
Bounded ==
  \A c \in Clients :
    /\ lastId[c] <= seq
    /\ Len(feed[c]) <= Capacity /\ Len(queue[c]) <= QueueSize
    /\ \A i \in 1 .. Len(feed[c]) : feed[c][i].id <= seq
    /\ \A i \in 1 .. Len(queue[c]) : queue[c][i] <= seq

\* A connection first sends its lists or replays, and is then listed, until it misses
\* something.
Connected ==
  \A c \in Clients :
    /\ conn[c] # "up" => ~listed[c] /\ queue[c] = <<>>
    /\ conn[c] \notin {"agents", "replay"} => feed[c] = <<>>
    /\ conn[c] = "up" /\ ~lost[c] => listed[c]

\* A list is all there is to replay, and has the last number unless something was missed.
ListIsFirst ==
  \A c \in Clients :
    /\ \A i \in 1 .. Len(feed[c]) : feed[c][i].event = 0 => Len(feed[c]) = 1
    /\ StartsWithList(c) /\ ~lost[c] => feed[c][1].id = seq

\* NothingSkipped for the replay, and for the queue.
Owed ==
  \A c \in Clients : ~lost[c] =>
    /\ conn[c] \in {"agents", "replay"} /\ ~StartsWithList(c) =>
         /\ Len(feed[c]) = seq - lastId[c]
         /\ \A i \in 1 .. Len(feed[c]) : feed[c][i].id = lastId[c] + i
    /\ conn[c] = "up" =>
         /\ Len(queue[c]) = seq - lastId[c]
         /\ \A i \in 1 .. Len(queue[c]) : queue[c][i] = lastId[c] + i

IInv ==
  /\ ServerTyped /\ StoreTyped /\ StreamTyped /\ Bounded
  /\ Connected /\ ListIsFirst /\ Owed

-----------------------------------------------------------------------------
(* What the client makes of an event.                                        *)

\* Whatever happens to a task, it stays one.
LEMMA StaysTask ==
  ASSUME NEW t \in Tasks, NEW k \in Ids, NEW n \in Ids
  PROVE  Shown(t, k, n) \in Tasks /\ After(n) \in Tasks
<1> USE FeedAssumption DEF FeedAssumption, Tasks, Ids, Over
<1>1. After(n) \in Tasks /\ After(1) \in Tasks
  BY DEF After
<1>2. Restored(t, n) \in Tasks
  BY <1>1 DEF Restored
<1>3. Created(t) \in Tasks
  BY <1>1 DEF Created
<1>4. Started(t) \in Tasks /\ Ended(t) \in Tasks
  BY DEF Started, Ended
<1>5. k \in 3 .. Over - 1 => Stepped(t, k) \in Tasks
  BY DEF Stepped
<1> QED BY <1>1, <1>2, <1>3, <1>4, <1>5 DEF Shown

\* An event is added at the end of a queue, and the first is taken from it.
LEMMA Ends ==
  ASSUME NEW S, NEW q \in Seq(S)
  PROVE  /\ Len(q) \in Nat /\ \A i \in 1 .. Len(q) : q[i] \in S
         /\ Len(q) = 0 => q = <<>>
         /\ \A e \in S : /\ Append(q, e) \in Seq(S) /\ Len(Append(q, e)) = Len(q) + 1
                         /\ \A i \in 1 .. Len(q) : Append(q, e)[i] = q[i]
                         /\ Append(q, e)[Len(q) + 1] = e
         /\ q # <<>> => /\ Len(q) \in Nat \ {0} /\ Head(q) = q[1] /\ q[1] \in S
                        /\ Tail(q) \in Seq(S) /\ Len(Tail(q)) = Len(q) - 1
                        /\ \A i \in 1 .. Len(q) - 1 : Tail(q)[i] = q[i + 1]
  OBVIOUS

\* What the buffer has later than n: at most its capacity, and all of it if that is
\* not more.
LEMMA Buffered ==
  ASSUME NEW n \in Nat, seq \in Nat, n <= seq
  PROVE  /\ GetSince(n) \in Seq((n + 1) .. seq) /\ Len(GetSince(n)) <= Capacity
         /\ ~(n + Capacity < seq) =>
              /\ Len(GetSince(n)) = seq - n
              /\ \A i \in 1 .. Len(GetSince(n)) : GetSince(n)[i] = n + i
<1> USE FeedAssumption DEF FeedAssumption
<1>1. CASE n + Capacity < seq
  <2> DEFINE s == [i \in 1 .. Capacity |-> seq - Capacity + i]
  <2>1. GetSince(n) = s
    BY <1>1 DEF GetSince
  <2>2. s \in Seq((n + 1) .. seq) /\ Len(s) = Capacity
    BY <1>1
  <2> QED BY <1>1, <2>1, <2>2
<1>2. CASE ~(n + Capacity < seq)
  <2> DEFINE s == [i \in 1 .. seq - n |-> n + i]
  <2>1. GetSince(n) = s
    BY <1>2 DEF GetSince
  <2>2. s \in Seq((n + 1) .. seq) /\ Len(s) = seq - n
    BY <1>2
  <2> QED BY <1>2, <2>1, <2>2
<1> QED BY <1>1, <1>2

-----------------------------------------------------------------------------
(* The theorems.                                                             *)

\* IInv holds initially and every step keeps it.
THEOREM Inductive == Spec => []IInv
<1>a. /\ Capacity \in Nat \ {0} /\ QueueSize \in Nat \ {0} /\ MaxBreaks \in Nat
      /\ Over \in Nat /\ Over >= 3
  BY FeedAssumption DEF FeedAssumption, Over
<1> USE <1>a
<1>1. Init => IInv
  <2> SUFFICES ASSUME Init PROVE IInv
    OBVIOUS
  <2>0. /\ NoTask \in Tasks /\ 0 \in Ids
        /\ NoSnapshot \in [state : {"none", "asked", "taken"}, of : Ids]
    BY DEF NoTask, NoSnapshot, Tasks, Ids
  <2>1. ServerTyped
    <3>1. stage = 0 /\ seq = 0 /\ saved = FALSE /\ row = NoTask
      BY DEF Init
    <3>2. seq <= stage
      BY ONLY <3>1
    <3>3. saved \in BOOLEAN
      BY ONLY <3>1
    <3> QED BY ONLY <2>0, <3>1, <3>2, <3>3 DEF ServerTyped
  <2>4. StoreTyped
    BY <2>0 DEF Init, StoreTyped
  <2>2. StreamTyped /\ Bounded
    BY DEF Init, StreamTyped, Bounded, Ids
  <2>3. Connected /\ ListIsFirst /\ Owed
    BY DEF Init, Connected, ListIsFirst, Owed, StartsWithList
  <2> QED BY <2>1, <2>2, <2>3, <2>4 DEF IInv
<1>2. IInv /\ [Next]_vars => IInv'
  <2> SUFFICES ASSUME IInv, [Next]_vars PROVE IInv'
    OBVIOUS
  <2> USE DEF IInv, server, stream, store
  <2>1. ASSUME TaskEvent PROVE IInv'
    <3> USE <2>1 DEF TaskEvent
    <3>0. stage + 1 \in Ids
      BY DEF ServerTyped, Ids
    <3>1. ServerTyped'
      BY <3>0, StaysTask DEF ServerTyped, Ids
    <3>2. StoreTyped'
      BY DEF StoreTyped
    <3>3. StreamTyped'
      BY <3>0, Ends DEF StreamTyped
    <3>4. Bounded'
      BY DEF ServerTyped, StreamTyped, Bounded
    <3>5. Connected'
      BY DEF StreamTyped, Connected
    <3>6. ListIsFirst'
      BY DEF StreamTyped, Connected, ListIsFirst, StartsWithList
    <3>7. Owed'
      BY DEF StreamTyped, Connected, ListIsFirst, StartsWithList, Owed
    <3> QED BY <3>1, <3>2, <3>3, <3>4, <3>5, <3>6, <3>7
  <2>2. ASSUME Broadcast PROVE IInv'
    <3> USE <2>2 DEF Broadcast, Full
    <3>0. seq + 1 \in Ids /\ seq \in Nat
      BY DEF ServerTyped, Ids
    <3>1. ServerTyped'
      BY <3>0 DEF ServerTyped, Ids
    <3>2. StoreTyped'
      BY DEF StoreTyped
    <3>a. \A c \in Clients :
            \/ queue'[c] = queue[c]
            \/ listed[c] /\ Len(queue[c]) # QueueSize /\ queue'[c] = Append(queue[c], seq + 1)
      OBVIOUS
    <3>3. StreamTyped'
      BY <3>0, Ends DEF StreamTyped
    <3>4. Bounded'
      <4> SUFFICES ASSUME NEW c \in Clients
                   PROVE  /\ lastId[c] <= seq + 1
                          /\ Len(feed[c]) <= Capacity /\ Len(queue'[c]) <= QueueSize
                          /\ \A i \in 1 .. Len(feed[c]) : feed[c][i].id <= seq + 1
                          /\ \A i \in 1 .. Len(queue'[c]) : queue'[c][i] <= seq + 1
        BY DEF Bounded
      <4>a. lastId[c] \in Ids /\ feed[c] \in Seq(Entries) /\ queue[c] \in Seq(Ids)
        BY DEF StreamTyped
      <4>0. \A i \in 1 .. Len(feed[c]) : feed[c][i] \in Entries
        BY ONLY <4>a, Ends
      <4>1. lastId[c] \in Nat /\ \A i \in 1 .. Len(feed[c]) : feed[c][i].id \in Nat
        <5>1. \A e \in Entries : e.id \in Nat
          BY ONLY <1>a DEF Entries, Ids
        <5>2. lastId[c] \in Nat
          BY ONLY <1>a, <4>a DEF Ids
        <5> QED BY ONLY <4>0, <5>1, <5>2
      <4>2. Len(queue[c]) \in Nat /\ \A i \in 1 .. Len(queue[c]) : queue[c][i] \in Nat
        BY <4>a, Ends DEF Ids
      <4>b. Len(queue[c]) <= QueueSize /\ \A i \in 1 .. Len(queue[c]) : queue[c][i] <= seq
        BY DEF Bounded
      <4>3. /\ Len(queue'[c]) <= QueueSize
            /\ \A i \in 1 .. Len(queue'[c]) : queue'[c][i] <= seq + 1
        <5>1. CASE queue'[c] = queue[c]
          BY ONLY <1>a, <3>0, <4>2, <4>b, <5>1
        <5>2. CASE Len(queue[c]) # QueueSize /\ queue'[c] = Append(queue[c], seq + 1)
          <6> DEFINE q == Append(queue[c], seq + 1)
          <6>1. Len(q) = Len(queue[c]) + 1 /\ q[Len(queue[c]) + 1] = seq + 1
            BY ONLY <3>0, <4>a, Ends
          <6>2. \A i \in 1 .. Len(queue[c]) : q[i] = queue[c][i]
            BY ONLY <3>0, <4>a, Ends
          <6> HIDE DEF q
          <6> QED BY ONLY <1>a, <3>0, <4>2, <4>b, <5>2, <6>1, <6>2 DEF q
        <5> QED BY <3>a, <5>1, <5>2
      <4> QED BY <3>0, <4>1, <4>3 DEF Bounded
    <3>5. Connected'
      BY DEF StreamTyped, Connected
    <3>6. ListIsFirst'
      BY DEF StreamTyped, Connected, ListIsFirst, StartsWithList
    <3>7. Owed'
      <4> SUFFICES ASSUME NEW c \in Clients, ~lost'[c]
                   PROVE  /\ conn'[c] \notin {"agents", "replay"}
                          /\ conn'[c] = "up" =>
                               /\ Len(queue'[c]) = seq' - lastId'[c]
                               /\ \A i \in 1 .. Len(queue'[c]) : queue'[c][i] = lastId'[c] + i
        BY DEF Owed
      <4>u. seq' = seq + 1 /\ lastId' = lastId /\ conn' = conn
        OBVIOUS
      <4>1. ~lost[c] /\ conn[c] \notin {"agents", "replay"} /\ ~(listed[c] /\ Full(c))
        OBVIOUS
      <4>2. ASSUME conn[c] = "up"
            PROVE  /\ Len(queue'[c]) = seq' - lastId'[c]
                   /\ \A i \in 1 .. Len(queue'[c]) : queue'[c][i] = lastId'[c] + i
        <5>1. queue'[c] = Append(queue[c], seq + 1)
          BY <4>1, <4>2 DEF Connected
        <5>2. /\ Len(queue[c]) = seq - lastId[c]
              /\ \A i \in 1 .. Len(queue[c]) : queue[c][i] = lastId[c] + i
          BY <4>1, <4>2 DEF Owed
        <5>3. queue[c] \in Seq(Ids) /\ lastId[c] \in Nat
          BY DEF StreamTyped, Ids
        <5> DEFINE q == Append(queue[c], seq + 1)
        <5>4. /\ Len(queue[c]) \in Nat /\ Len(q) = Len(queue[c]) + 1
              /\ q[Len(queue[c]) + 1] = seq + 1
          BY ONLY <3>0, <5>3, Ends
        <5>5. \A i \in 1 .. Len(queue[c]) : q[i] = queue[c][i]
          BY ONLY <3>0, <5>3, Ends
        <5>8. queue'[c] = q
          BY <5>1
        <5> HIDE DEF q
        <5>6. Len(q) = seq + 1 - lastId[c]
          BY ONLY <3>0, <5>2, <5>3, <5>4
        <5>7. ASSUME NEW i \in 1 .. Len(q) PROVE q[i] = lastId[c] + i
          <6>1. CASE i \in 1 .. Len(queue[c])
            BY ONLY <5>2, <5>5, <6>1
          <6>2. CASE i \notin 1 .. Len(queue[c])
            <7>1. i = Len(queue[c]) + 1
              BY ONLY <5>4, <6>2
            <7> QED BY ONLY <3>0, <5>2, <5>3, <5>4, <7>1
          <6> QED BY <6>1, <6>2
        <5>9. seq' = seq + 1 /\ lastId'[c] = lastId[c]
          BY ONLY <4>u
        <5>10. Len(queue'[c]) = seq' - lastId'[c]
          BY ONLY <3>0, <5>3, <5>6, <5>8, <5>9
        <5>11. \A i \in 1 .. Len(q) : q[i] = lastId'[c] + i
          BY ONLY <5>7, <5>9
        <5> QED BY ONLY <5>8, <5>10, <5>11
      <4> QED BY <4>1, <4>2
    <3> QED BY <3>1, <3>2, <3>3, <3>4, <3>5, <3>6, <3>7
  <2>3. ASSUME SaveRow PROVE IInv'
    <3> USE <2>3 DEF SaveRow
    <3>1. ServerTyped'
      BY StaysTask DEF ServerTyped, Ids
    <3>2. StoreTyped'
      BY DEF StoreTyped
    <3>3. StreamTyped'
      BY DEF StreamTyped
    <3>4. Bounded'
      BY DEF ServerTyped, StreamTyped, Bounded
    <3>5. Connected'
      BY DEF StreamTyped, Connected
    <3>6. ListIsFirst'
      BY DEF StreamTyped, Connected, ListIsFirst, StartsWithList
    <3>7. Owed'
      BY DEF StreamTyped, Connected, ListIsFirst, StartsWithList, Owed
    <3> QED BY <3>1, <3>2, <3>3, <3>4, <3>5, <3>6, <3>7
  <2>4. ASSUME NEW c \in Clients, Connect(c) PROVE IInv'
    <3> USE <2>4 DEF Connect
    <3>1. ServerTyped'
      BY DEF ServerTyped
    <3>0. seq \in Nat /\ stage \in Ids /\ lastId[c] \in Nat /\ lastId[c] <= seq
      BY DEF ServerTyped, StreamTyped, Bounded, Ids
    <3>2. StoreTyped'
      <4>1. [state |-> "asked", of |-> 0] \in [state : {"none", "asked", "taken"}, of : Ids]
        BY DEF Ids
      <4> QED BY <4>1 DEF StoreTyped
    <3>a. \A o \in Clients \ {c} :
            feed'[o] = feed[o] /\ lost'[o] = lost[o] /\ conn'[o] = conn[o]
      BY DEF StreamTyped
    <3>b. lastId[c] = 0 => feed'[c] = <<[id |-> seq, event |-> 0, of |-> 0]>>
      BY DEF StreamTyped
    <3> DEFINE later == GetSince(lastId[c])
    <3>c. lastId[c] # 0 =>
            feed'[c] = [i \in 1 .. Len(later) |->
                          [id |-> later[i], event |-> later[i], of |-> later[i]]]
      <4>1. DOMAIN later = 1 .. Len(later)
        BY <3>0, Buffered
      <4> QED BY <4>1 DEF StreamTyped
    <3>d. /\ later \in Seq((lastId[c] + 1) .. seq) /\ Len(later) <= Capacity
          /\ ~(lastId[c] + Capacity < seq) =>
               /\ Len(later) = seq - lastId[c]
               /\ \A i \in 1 .. Len(later) : later[i] = lastId[c] + i
      BY <3>0, Buffered
    <3>e. seq \in Ids /\ 0 \in Ids /\ (lastId[c] + 1) .. seq \subseteq Ids
      BY <3>0 DEF ServerTyped, Ids
    <3> HIDE DEF later
    <3>h. Len(later) \in Nat /\ \A i \in 1 .. Len(later) : later[i] # 0
      BY ONLY <3>0, <3>d, Ends
    <3>f. /\ feed'[c] \in Seq(Entries) /\ Len(feed'[c]) <= Capacity
          /\ \A i \in 1 .. Len(feed'[c]) : feed'[c][i].id <= seq
      <4>1. CASE lastId[c] = 0
        <5>1. [id |-> seq, event |-> 0, of |-> 0] \in Entries
          BY ONLY <3>0, <3>e DEF Entries
        <5>2. \A r \in Entries : /\ <<r>> \in Seq(Entries) /\ Len(<<r>>) = 1
                                /\ \A i \in 1 .. Len(<<r>>) : <<r>>[i] = r
          OBVIOUS
        <5> DEFINE r == [id |-> seq, event |-> 0, of |-> 0]
        <5>3. feed'[c] = <<r>> /\ r.id = seq
          BY ONLY <3>b, <4>1
        <5> HIDE DEF r
        <5>4. r \in Entries
          BY ONLY <5>1 DEF r
        <5> QED BY ONLY <1>a, <3>0, <5>2, <5>3, <5>4
      <4>2. CASE lastId[c] # 0
        <5>1. \A i \in 1 .. Len(later) : later[i] \in Ids /\ later[i] <= seq
          <6>1. \A i \in 1 .. Len(later) : later[i] \in (lastId[c] + 1) .. seq
            BY ONLY <3>d, Ends
          <6> QED BY ONLY <3>0, <3>e, <6>1
        <5>2. \A i \in 1 .. Len(later) :
                [id |-> later[i], event |-> later[i], of |-> later[i]] \in Entries
          BY ONLY <5>1 DEF Entries
        <5> QED BY ONLY <3>c, <3>d, <3>h, <4>2, <5>1, <5>2
      <4> QED BY <4>1, <4>2
    <3>g. /\ lost'[c] = (lastId[c] # 0 /\ (lost[c] \/ lastId[c] + Capacity < seq))
          /\ conn'[c] \in {"agents", "replay"}
      BY DEF StreamTyped
    <3>u. UNCHANGED <<seq, queue, lastId>>
      OBVIOUS
    <3>3. StreamTyped'
      BY <3>a, <3>f, <3>g DEF StreamTyped
    <3>4. Bounded'
      BY ONLY IInv, <3>a, <3>f, <3>u DEF Bounded
    <3>5. Connected'
      BY DEF StreamTyped, Connected
    <3>6. ListIsFirst'
      <4>1. lastId[c] # 0 => \A i \in 1 .. Len(feed'[c]) : feed'[c][i].event # 0
        BY ONLY <3>c, <3>h
      <4>2. lastId[c] # 0 => ~StartsWithList(c)'
        BY ONLY <3>f, <4>1, Ends DEF StartsWithList
      <4>3. lastId[c] = 0 => Len(feed'[c]) = 1 /\ feed'[c][1].id = seq
        BY ONLY <3>b
      <4> QED BY ONLY IInv, <3>a, <3>u, <4>1, <4>2, <4>3 DEF ListIsFirst, StartsWithList
    <3>7. Owed'
      <4>1. \A o \in Clients \ {c} : StartsWithList(o)' = StartsWithList(o)
        BY <3>a DEF StartsWithList
      <4>2. lastId[c] = 0 => StartsWithList(c)'
        BY <3>b DEF StartsWithList
      <4>3. lastId[c] # 0 /\ ~lost'[c] =>
              /\ Len(feed'[c]) = seq - lastId[c]
              /\ \A i \in 1 .. Len(feed'[c]) : feed'[c][i].id = lastId[c] + i
        <5>1. ASSUME lastId[c] # 0, ~lost'[c]
              PROVE  /\ Len(feed'[c]) = seq - lastId[c]
                     /\ \A i \in 1 .. Len(feed'[c]) : feed'[c][i].id = lastId[c] + i
          <6>1. /\ Len(later) = seq - lastId[c]
                /\ \A i \in 1 .. Len(later) : later[i] = lastId[c] + i
            BY ONLY <3>d, <3>g, <5>1
          <6>2. Len(feed'[c]) = Len(later) /\ DOMAIN feed'[c] = 1 .. Len(later)
            BY ONLY <3>c, <3>h, <5>1
          <6>3. \A i \in 1 .. Len(later) : feed'[c][i].id = later[i]
            BY ONLY <3>c, <5>1
          <6> QED BY ONLY <6>1, <6>2, <6>3
        <5> QED BY <5>1
      <4>4. UNCHANGED <<seq, queue, lastId>> /\ \A o \in Clients \ {c} : lost'[o] = lost[o]
        BY <3>a
      <4> QED BY ONLY IInv, <3>a, <3>g, <4>1, <4>2, <4>3, <4>4 DEF Owed
    <3> QED BY <3>1, <3>2, <3>3, <3>4, <3>5, <3>6, <3>7
  <2>5. ASSUME NEW c \in Clients, Break(c) PROVE IInv'
    <3> USE <2>5 DEF Break, Unlisted
    <3>1. ServerTyped'
      BY DEF ServerTyped
    <3>2. StoreTyped'
      BY DEF StoreTyped
    <3>3. StreamTyped'
      BY DEF StreamTyped
    <3>4. Bounded'
      BY DEF ServerTyped, StreamTyped, Bounded
    <3>5. Connected'
      BY DEF StreamTyped, Connected
    <3>6. ListIsFirst'
      BY DEF StreamTyped, Connected, ListIsFirst, StartsWithList
    <3>7. Owed'
      BY DEF StreamTyped, Connected, ListIsFirst, StartsWithList, Owed
    <3> QED BY <3>1, <3>2, <3>3, <3>4, <3>5, <3>6, <3>7
  <2>6. ASSUME NEW c \in Clients, TakeFeed(c) PROVE IInv'
    <3> USE <2>6 DEF TakeFeed
    <3>1. ServerTyped'
      BY DEF ServerTyped
    <3>0. /\ feed[c] \in Seq(Entries) /\ feed[c] # <<>> /\ Head(feed[c]) = feed[c][1]
          /\ feed[c][1] \in Entries /\ Len(feed[c]) \in Nat \ {0}
          /\ Tail(feed[c]) \in Seq(Entries) /\ Len(Tail(feed[c])) = Len(feed[c]) - 1
          /\ \A i \in 1 .. Len(feed[c]) - 1 : Tail(feed[c])[i] = feed[c][i + 1]
      BY Ends DEF StreamTyped
    <3>a. feed'[c] = Tail(feed[c]) /\ lastId'[c] = feed[c][1].id
      BY <3>0 DEF StreamTyped
    <3>b. \A o \in Clients \ {c} : feed'[o] = feed[o] /\ lastId'[o] = lastId[o]
      BY DEF StreamTyped
    <3>c. conn[c] \in {"agents", "replay"} /\ seq \in Nat /\ lastId[c] \in Nat
      BY DEF Connected, ServerTyped, StreamTyped, Ids
    <3>2. StoreTyped'
      <4>1. \A t \in Tasks : Shown(t, Head(feed[c]).event, Head(feed[c]).of) \in Tasks
        BY <3>0, StaysTask DEF Entries
      <4> QED BY <4>1 DEF StoreTyped, Take
    <3>3. StreamTyped'
      BY <3>0, <3>a, <3>b DEF StreamTyped, Entries
    <3>4. Bounded'
      BY <1>a, <3>0, <3>a, <3>b DEF Bounded
    <3>5. Connected'
      BY DEF StreamTyped, Connected
    <3>d. \A i \in 1 .. Len(feed'[c]) :
            feed'[c][i] = feed[c][i + 1] /\ i + 1 \in 1 .. Len(feed[c])
      BY ONLY <3>0, <3>a
    <3>e. /\ \A i \in 1 .. Len(feed'[c]) : feed'[c][i].event # 0
          /\ ~StartsWithList(c)'
      <4>1. \A i \in 1 .. Len(feed'[c]) : feed'[c][i].event # 0
        BY ONLY IInv, <3>0, <3>a, <3>d DEF ListIsFirst
      <4>2. feed'[c] \in Seq(Entries)
        BY ONLY <3>0, <3>a
      <4> QED BY ONLY <4>1, <4>2, Ends DEF StartsWithList
    <3>u. UNCHANGED <<seq, queue, conn, lost>>
      OBVIOUS
    <3>6. ListIsFirst'
      BY ONLY IInv, <3>b, <3>e, <3>u DEF ListIsFirst, StartsWithList
    <3>7. Owed'
      <4>1. ASSUME ~lost[c]
            PROVE  /\ Len(feed'[c]) = seq - lastId'[c]
                   /\ \A i \in 1 .. Len(feed'[c]) : feed'[c][i].id = lastId'[c] + i
        <5>1. CASE StartsWithList(c)
          <6>1. Len(feed[c]) = 1 /\ feed[c][1].id = seq
            BY ONLY IInv, <3>0, <4>1, <5>1 DEF ListIsFirst, StartsWithList
          <6>2. Len(feed'[c]) = 0 /\ lastId'[c] = seq
            BY ONLY <3>0, <3>a, <6>1
          <6> QED BY ONLY <3>c, <6>2
        <5>2. CASE ~StartsWithList(c)
          <6>1. /\ Len(feed[c]) = seq - lastId[c]
                /\ \A i \in 1 .. Len(feed[c]) : feed[c][i].id = lastId[c] + i
            BY ONLY IInv, <3>c, <4>1, <5>2 DEF Owed
          <6>2. /\ Len(feed[c]) \in Nat /\ 1 \in 1 .. Len(feed[c])
                /\ Len(feed'[c]) = Len(feed[c]) - 1
            BY ONLY <3>0, <3>a
          <6>3. lastId'[c] = lastId[c] + 1
            BY ONLY <3>a, <6>1, <6>2
          <6>4. ASSUME NEW i \in 1 .. Len(feed'[c]) PROVE feed'[c][i].id = lastId'[c] + i
            <7>1. feed'[c][i] = feed[c][i + 1] /\ i + 1 \in 1 .. Len(feed[c])
              BY ONLY <3>d
            <7>2. feed[c][i + 1].id = lastId[c] + (i + 1)
              BY ONLY <6>1, <7>1
            <7>3. i \in Nat /\ lastId[c] \in Nat
              BY ONLY <3>c, <6>2
            <7>4. lastId'[c] + i = lastId[c] + (i + 1)
              BY ONLY <6>3, <7>3
            <7> QED BY ONLY <7>1, <7>2, <7>4
          <6> QED BY ONLY <3>c, <6>1, <6>2, <6>3, <6>4
        <5> QED BY <5>1, <5>2
      <4>2. \A o \in Clients \ {c} : StartsWithList(o)' = StartsWithList(o)
        BY <3>b DEF StartsWithList
      <4> QED BY ONLY IInv, <3>b, <3>c, <3>u, <4>1, <4>2 DEF Owed
    <3> QED BY <3>1, <3>2, <3>3, <3>4, <3>5, <3>6, <3>7
  <2>7. ASSUME NEW c \in Clients, TakeTurn(c) PROVE IInv'
    <3> USE <2>7 DEF TakeTurn
    <3>1. ServerTyped'
      BY DEF ServerTyped
    <3>0. /\ queue[c] \in Seq(Ids) /\ direct[c] \in Seq(Ids) /\ 0 \in Ids
          /\ seq \in Nat /\ lastId[c] \in Nat /\ Len(queue[c]) \in Nat
      BY Ends DEF ServerTyped, StreamTyped, Ids
    <3>2. StoreTyped'
      <4>1. \A q \in Seq(Ids) : q # <<>> => Head(q) \in Ids
        OBVIOUS
      <4>2. \A t \in Tasks : \A q \in Seq(Ids) : FirstShown(t, q) \in Tasks
        BY <3>0, <4>1, StaysTask DEF FirstShown
      <4>3. \A t \in Tasks : BothShown(c, t) \in Tasks
        BY <3>0, <4>2 DEF BothShown
      <4> QED BY <4>3 DEF StoreTyped, Take
    <3>a. queue[c] = <<>> => queue'[c] = <<>> /\ lastId'[c] = lastId[c]
      BY DEF StreamTyped
    <3>b. \A o \in Clients \ {c} : queue'[o] = queue[o] /\ lastId'[o] = lastId[o]
      BY DEF StreamTyped
    <3>c. queue[c] # <<>> =>
            /\ Len(queue[c]) \in Nat \ {0} /\ lastId'[c] = queue[c][1]
            /\ queue'[c] \in Seq(Ids) /\ Len(queue'[c]) = Len(queue[c]) - 1
            /\ \A i \in 1 .. Len(queue[c]) - 1 : queue'[c][i] = queue[c][i + 1]
      <4>1. queue[c] # <<>> => queue'[c] = Tail(queue[c]) /\ lastId'[c] = Head(queue[c])
        BY DEF StreamTyped
      <4>2. queue[c] # <<>> =>
              /\ Len(queue[c]) \in Nat \ {0} /\ Head(queue[c]) = queue[c][1]
              /\ Tail(queue[c]) \in Seq(Ids) /\ Len(Tail(queue[c])) = Len(queue[c]) - 1
              /\ \A i \in 1 .. Len(queue[c]) - 1 : Tail(queue[c])[i] = queue[c][i + 1]
        BY <3>0, Ends
      <4> QED BY ONLY <4>1, <4>2
    <3>u. UNCHANGED <<seq, feed, conn, lost>>
      OBVIOUS
    <3>3. StreamTyped'
      BY DEF StreamTyped
    <3>4. Bounded'
      <4>1. /\ lastId'[c] <= seq /\ Len(queue'[c]) <= QueueSize
            /\ \A i \in 1 .. Len(queue'[c]) : queue'[c][i] <= seq
        <5>1. /\ lastId[c] <= seq /\ Len(queue[c]) <= QueueSize
              /\ \A i \in 1 .. Len(queue[c]) : queue[c][i] <= seq
          BY ONLY IInv DEF Bounded
        <5>2. CASE queue[c] = <<>>
          BY ONLY <1>a, <3>a, <5>1, <5>2
        <5>3. CASE queue[c] # <<>>
          <6>1. \A i \in 1 .. Len(queue[c]) - 1 : i + 1 \in 1 .. Len(queue[c])
            BY ONLY <3>0
          <6>2. 1 \in 1 .. Len(queue[c])
            BY ONLY <3>c, <5>3
          <6>3. lastId'[c] <= seq /\ Len(queue'[c]) <= QueueSize
            BY ONLY <1>a, <3>0, <3>c, <5>1, <5>3, <6>2
          <6>4. ASSUME NEW i \in 1 .. Len(queue'[c]) PROVE queue'[c][i] <= seq
            <7>1. i \in 1 .. Len(queue[c]) - 1 /\ i + 1 \in 1 .. Len(queue[c])
              BY ONLY <3>c, <5>3, <6>1
            <7> QED BY ONLY <3>c, <5>1, <5>3, <7>1
          <6> QED BY ONLY <6>3, <6>4
        <5> QED BY <5>2, <5>3
      <4> QED BY ONLY IInv, <3>b, <3>u, <4>1 DEF Bounded
    <3>5. Connected'
      BY DEF StreamTyped, Connected
    <3>6. ListIsFirst'
      BY DEF StreamTyped, Connected, ListIsFirst, StartsWithList
    <3>7. Owed'
      <4>1. ASSUME ~lost[c], conn[c] = "up"
            PROVE  /\ Len(queue'[c]) = seq - lastId'[c]
                   /\ \A i \in 1 .. Len(queue'[c]) : queue'[c][i] = lastId'[c] + i
        <5>1. /\ Len(queue[c]) = seq - lastId[c]
              /\ \A i \in 1 .. Len(queue[c]) : queue[c][i] = lastId[c] + i
          BY ONLY IInv, <4>1 DEF Owed
        <5>2. CASE queue[c] = <<>>
          BY ONLY <3>0, <3>a, <5>1, <5>2
        <5>3. CASE queue[c] # <<>>
          <6>1. \A i \in 1 .. Len(queue[c]) - 1 : i + 1 \in 1 .. Len(queue[c])
            BY ONLY <3>0
          <6>2. lastId'[c] = lastId[c] + 1
            BY ONLY <3>0, <3>c, <5>1, <5>3
          <6>3. Len(queue'[c]) = seq - lastId'[c]
            BY ONLY <3>0, <3>c, <5>1, <5>3, <6>2
          <6>4. ASSUME NEW i \in 1 .. Len(queue'[c]) PROVE queue'[c][i] = lastId'[c] + i
            <7>1. i \in 1 .. Len(queue[c]) - 1 /\ i + 1 \in 1 .. Len(queue[c])
              BY ONLY <3>c, <5>3, <6>1
            <7>2. queue'[c][i] = lastId[c] + (i + 1)
              BY ONLY <3>c, <5>1, <5>3, <7>1
            <7>3. i \in Nat /\ lastId[c] \in Nat
              BY ONLY <3>0, <7>1
            <7> QED BY ONLY <6>2, <7>2, <7>3
          <6> QED BY ONLY <6>3, <6>4
        <5> QED BY <5>2, <5>3
      <4>2. conn[c] \in {"agents", "replay"} => queue[c] = <<>>
        BY DEF Connected
      <4>3. \A o \in Clients : StartsWithList(o)' = StartsWithList(o)
        BY ONLY <3>u DEF StartsWithList
      <4> QED BY ONLY IInv, <3>a, <3>b, <3>u, <4>1, <4>2, <4>3 DEF Owed
    <3> QED BY <3>1, <3>2, <3>3, <3>4, <3>5, <3>6, <3>7
  <2>8. ASSUME NEW c \in Clients, Subscribe(c) PROVE IInv'
    <3> USE <2>8 DEF Subscribe
    <3>1. ServerTyped'
      BY DEF ServerTyped
    <3>2. StoreTyped'
      BY DEF StoreTyped
    <3>3. StreamTyped'
      BY DEF StreamTyped
    <3>4. Bounded'
      BY DEF ServerTyped, StreamTyped, Bounded
    <3>5. Connected'
      BY DEF StreamTyped, Connected
    <3>6. ListIsFirst'
      BY DEF StreamTyped, Connected, ListIsFirst, StartsWithList
    <3>7. Owed'
      BY DEF StreamTyped, Connected, ListIsFirst, StartsWithList, Owed
    <3> QED BY <3>1, <3>2, <3>3, <3>4, <3>5, <3>6, <3>7
  <2>9. ASSUME NEW c \in Clients, SnapshotTaken(c) PROVE IInv'
    <3> USE <2>9 DEF SnapshotTaken
    <3>1. ServerTyped'
      BY DEF ServerTyped
    <3>2. StoreTyped'
      <4>1. NoSnapshot \in [state : {"none", "asked", "taken"}, of : Ids]
        BY DEF NoSnapshot, Ids
      <4>2. [state |-> "taken", of |-> stage] \in [state : {"none", "asked", "taken"}, of : Ids]
        BY DEF ServerTyped
      <4> QED BY <4>1, <4>2 DEF StoreTyped
    <3>3. StreamTyped'
      BY DEF StreamTyped
    <3>4. Bounded'
      BY DEF ServerTyped, StreamTyped, Bounded
    <3>5. Connected'
      BY DEF StreamTyped, Connected
    <3>6. ListIsFirst'
      BY DEF StreamTyped, Connected, ListIsFirst, StartsWithList
    <3>7. Owed'
      BY DEF StreamTyped, Connected, ListIsFirst, StartsWithList, Owed
    <3> QED BY <3>1, <3>2, <3>3, <3>4, <3>5, <3>6, <3>7
  <2>10. ASSUME NEW c \in Clients, ApplySnapshot(c) PROVE IInv'
    <3> USE <2>10 DEF ApplySnapshot
    <3>1. ServerTyped'
      BY DEF ServerTyped
    <3>2. StoreTyped'
      <4>1. NoSnapshot \in [state : {"none", "asked", "taken"}, of : Ids]
        BY DEF NoSnapshot, Ids
      <4>2. view[c] \in Tasks /\ After(snap[c].of) \in Tasks
        BY StaysTask DEF StoreTyped
      <4>3. Merged(view[c], After(snap[c].of)) \in Tasks
        BY <4>2 DEF Merged
      <4> QED BY <4>1, <4>3 DEF StoreTyped
    <3>3. StreamTyped'
      BY DEF StreamTyped
    <3>4. Bounded'
      BY DEF ServerTyped, StreamTyped, Bounded
    <3>5. Connected'
      BY DEF StreamTyped, Connected
    <3>6. ListIsFirst'
      BY DEF StreamTyped, Connected, ListIsFirst, StartsWithList
    <3>7. Owed'
      BY DEF StreamTyped, Connected, ListIsFirst, StartsWithList, Owed
    <3> QED BY <3>1, <3>2, <3>3, <3>4, <3>5, <3>6, <3>7
  <2>11. ASSUME NEW c \in Clients, Persist(c) PROVE IInv'
    <3> USE <2>11 DEF Persist
    <3>1. ServerTyped'
      BY DEF ServerTyped, StoreTyped
    <3>2. StoreTyped'
      BY DEF StoreTyped
    <3>3. StreamTyped'
      BY DEF StreamTyped
    <3>4. Bounded'
      BY DEF ServerTyped, StreamTyped, Bounded
    <3>5. Connected'
      BY DEF StreamTyped, Connected
    <3>6. ListIsFirst'
      BY DEF StreamTyped, Connected, ListIsFirst, StartsWithList
    <3>7. Owed'
      BY DEF StreamTyped, Connected, ListIsFirst, StartsWithList, Owed
    <3> QED BY <3>1, <3>2, <3>3, <3>4, <3>5, <3>6, <3>7
  <2>12. ASSUME NEW c \in Clients, LoadRow(c) PROVE IInv'
    <3> USE <2>12 DEF LoadRow
    <3>1. ServerTyped'
      BY DEF ServerTyped
    <3>2. StoreTyped'
      <4>1. view'[c] \in Tasks
        BY DEF ServerTyped, StoreTyped, Tasks
      <4> QED BY <4>1 DEF StoreTyped
    <3>3. StreamTyped'
      BY DEF StreamTyped
    <3>4. Bounded'
      BY DEF ServerTyped, StreamTyped, Bounded
    <3>5. Connected'
      BY DEF StreamTyped, Connected
    <3>6. ListIsFirst'
      BY DEF StreamTyped, Connected, ListIsFirst, StartsWithList
    <3>7. Owed'
      BY DEF StreamTyped, Connected, ListIsFirst, StartsWithList, Owed
    <3> QED BY <3>1, <3>2, <3>3, <3>4, <3>5, <3>6, <3>7
  <2>14. ASSUME NEW c \in Clients, SendTasks(c) PROVE IInv'
    <3> USE <2>14 DEF SendTasks
    <3> DEFINE r == [id |-> lastId[c], event |-> 0, of |-> stage]
    <3>0. /\ r \in Entries /\ r.id = lastId[c] /\ r.event = 0
          /\ feed[c] = <<>> /\ Len(feed[c]) = 0
      BY DEF Entries, ServerTyped, StreamTyped, Ids
    <3>a. feed'[c] = <<r>> /\ conn'[c] = "replay"
      BY DEF StreamTyped
    <3> HIDE DEF r
    <3>b. /\ <<r>> \in Seq(Entries) /\ Len(<<r>>) = 1 /\ Head(<<r>>) = r
          /\ \A i \in 1 .. 1 : <<r>>[i] = r
      BY ONLY <3>0
    <3>c. \A o \in Clients \ {c} : feed'[o] = feed[o] /\ conn'[o] = conn[o]
      BY DEF StreamTyped
    <3>d. StartsWithList(c)' /\ ~StartsWithList(c)
      BY ONLY <3>0, <3>a, <3>b DEF StartsWithList
    <3>u. UNCHANGED <<seq, queue, lastId, lost, listed>> /\ conn[c] = "agents"
      OBVIOUS
    <3>1. ServerTyped'
      BY DEF ServerTyped
    <3>2. StoreTyped'
      BY DEF StoreTyped
    <3>3. StreamTyped'
      BY <3>a, <3>b DEF StreamTyped
    <3>4. Bounded'
      BY <1>a, <3>0, <3>a, <3>b, <3>c DEF Bounded
    <3>5. Connected'
      BY ONLY IInv, <3>a, <3>c, <3>u DEF Connected
    <3>6. ListIsFirst'
      <4>1. ~lost[c] => lastId[c] = seq
        <5>1. ~lost[c] => 0 = seq - lastId[c]
          BY ONLY IInv, <3>0, <3>d, <3>u DEF Owed
        <5> QED BY <5>1 DEF ServerTyped, StreamTyped, Ids
      <4>2. /\ \A i \in 1 .. Len(feed'[c]) : feed'[c][i].event = 0 => Len(feed'[c]) = 1
            /\ ~lost[c] => feed'[c][1].id = seq
        BY ONLY <3>0, <3>a, <3>b, <4>1
      <4> QED BY ONLY IInv, <3>c, <3>u, <4>2 DEF ListIsFirst, StartsWithList
    <3>7. Owed'
      <4>1. \A o \in Clients \ {c} : StartsWithList(o)' = StartsWithList(o)
        BY ONLY <3>c DEF StartsWithList
      <4> QED BY ONLY IInv, <3>a, <3>c, <3>d, <3>u, <4>1 DEF Owed
    <3> QED BY <3>1, <3>2, <3>3, <3>4, <3>5, <3>6, <3>7
  <2>13. CASE UNCHANGED vars
    BY <2>13 DEF vars, ServerTyped, StoreTyped, StreamTyped, Bounded, Connected, ListIsFirst,
                 StartsWithList, Owed
  <2> HIDE DEF IInv
  <2> QED BY <2>1, <2>2, <2>3, <2>4, <2>5, <2>6, <2>7, <2>8, <2>9, <2>10, <2>11, <2>12, <2>13, <2>14
          DEF Next, Deliver
<1> QED BY <1>1, <1>2, PTL DEF Spec

\* The variables have their types, for any bounds: a subscriber's queue never exceeds
\* subscription_queue_size and a replay never the buffer (SubscriptionManager.broadcast,
\* AgentEventBuffer).
THEOREM TypeCorrect == Spec => []TypeOK
<1>1. IInv => TypeOK
  <2> SUFFICES ASSUME IInv PROVE TypeOK
    OBVIOUS
  <2>1. \A S : \A s \in Seq(S) : Range(s) \subseteq S
    BY DEF Range
  <2>2. \A c \in Clients :
          /\ Range(feed[c]) \subseteq Entries /\ Len(feed[c]) <= Capacity
          /\ Range(queue[c]) \cup Range(direct[c]) \subseteq Ids /\ Len(queue[c]) <= QueueSize
    BY <2>1 DEF IInv, StreamTyped, Bounded
  <2>3. seq \in 0 .. stage
    BY DEF IInv, ServerTyped, Ids
  <2> QED BY <2>2, <2>3 DEF IInv, ServerTyped, StoreTyped, StreamTyped, TypeOK, Entries
<1> QED BY <1>1, Inductive, PTL

\* The safety half of FeedIsComplete: a client that has missed nothing for good is owed
\* every event after the last it has seen, each once and in order, however often its
\* connection breaks and however small the buffer is (agent_events_stream).
THEOREM NoneSkipped == Spec => [][NothingSkipped']_vars
<1>1. IInv => NothingSkipped
  <2> SUFFICES ASSUME IInv, NEW c \in Clients,
                      conn[c] # "down", ~lost[c], ~StartsWithList(c)
               PROVE  Pending(c) = [i \in 1 .. seq - lastId[c] |-> lastId[c] + i]
    BY DEF NothingSkipped
  <2>1. CASE conn[c] \in {"agents", "replay"}
    <3>1. queue[c] = <<>>
      BY <2>1 DEF IInv, Connected
    <3>2. /\ Len(feed[c]) = seq - lastId[c]
          /\ \A i \in 1 .. Len(feed[c]) : feed[c][i].id = lastId[c] + i
      BY <2>1 DEF IInv, Owed
    <3>3. feed[c] \in Seq(Entries)
      BY DEF IInv, StreamTyped
    <3> DEFINE ids == [i \in DOMAIN feed[c] |-> feed[c][i].id]
    <3>4. ids = [i \in 1 .. seq - lastId[c] |-> lastId[c] + i]
      BY <3>2, <3>3
    <3>5. ids \in Seq({feed[c][i].id : i \in 1 .. Len(feed[c])})
      BY <3>3
    <3>6. ids \o <<>> = ids
      BY <3>5
    <3> QED BY <3>1, <3>4, <3>6 DEF Pending
  <2>2. CASE conn[c] = "up"
    <3>1. feed[c] = <<>>
      BY <2>2 DEF IInv, Connected
    <3> QED BY <2>2, <3>1 DEF IInv, Owed, Pending, StreamTyped
  <2> QED BY <2>1, <2>2 DEF IInv, StreamTyped
<1> QED BY <1>1, Inductive, PTL
=============================================================================
