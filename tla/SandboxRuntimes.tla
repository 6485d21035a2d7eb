--------------------------- MODULE SandboxRuntimes ---------------------------
(***************************************************************************)
(* OpenHands runtimes and how the sandbox monitor follows them: the pool of *)
(* runtimes (runtime/openhands/adapter.py), the tools that run commands in  *)
(* them (runtime/manager.py), and the sandbox registry of api/server.py     *)
(* with its synchronisation, stop, delete and state endpoints.              *)
(*                                                                         *)
(* Tools run in threads of their own and interleave anywhere; handlers and  *)
(* synchronisations share the event loop and interleave where they wait,    *)
(* which a synchronisation does while it asks a runtime for its metrics.    *)
(***************************************************************************)
EXTENDS Naturals, Sequences, FiniteSets

CONSTANTS Agents, Tools,
          Syncs,        \* concurrent synchronisations (the loop, the list endpoint)
          MaxRuntimes,  \* bound: runtimes ever created
          MaxCommands   \* bound: commands in the first, one less in each further one

RuntimesAssumption == MaxRuntimes \in Nat \ {0} /\ MaxCommands \in Nat

VARIABLES pool,       \* _runtimes: the runtime of each agent, or NoRuntime
          made,       \* number of runtimes created
          connected,  \* runtimes that are connected
          closing,    \* runtimes out of the pool that are about to be disconnected
          counter,    \* _command_log_seq of each runtime
          logs,       \* _command_logs of each runtime: the numbers of the entries
          stopped,    \* _shutdown
          tool,       \* what each tool is about to do, and with which runtime
          entry,      \* _sandboxes: the entry of each agent, or NoEntry
          events,     \* _sandbox_events: what each reading of a log showed
          sync        \* where each synchronisation waits

pools == <<pool, made, connected, closing, counter, logs, stopped>>
registry == <<entry, events>>
vars == <<pools, tool, registry, sync>>

Runtimes == 1 .. MaxRuntimes
NoRuntime == 0
NoEntry == [state |-> "none", seq |-> 0]
Idle == [at |-> "idle"]

Init ==
  /\ pool = [a \in Agents |-> NoRuntime]
  /\ made = 0 /\ connected = {} /\ closing = {} /\ stopped = FALSE
  /\ counter = [r \in Runtimes |-> 0] /\ logs = [r \in Runtimes |-> <<>>]
  /\ tool = [t \in Tools |-> Idle]
  /\ entry = [a \in Agents |-> NoEntry]
  /\ events = [a \in Agents |-> <<>>]
  /\ sync = [s \in Syncs |-> Idle]

-----------------------------------------------------------------------------
(* Tools: a runtime is allocated for each command.                           *)

Use(r) == [at |-> "ready", runtime |-> r]

AllocateExisting(t, a) ==
  /\ tool[t] = Idle /\ ~stopped
  /\ pool[a] \in connected
  /\ tool' = [tool EXCEPT ![t] = Use(pool[a])]
  /\ UNCHANGED <<pools, registry, sync>>

\* A runtime that is not connected is forgotten.  The lock is given up while the
\* new one connects.
AllocateNew(t, a) ==
  /\ tool[t] = Idle /\ ~stopped
  /\ pool[a] \notin connected
  /\ made < MaxRuntimes
  /\ pool' = [pool EXCEPT ![a] = NoRuntime]
  /\ made' = made + 1
  /\ tool' = [tool EXCEPT ![t] = [at |-> "connecting", agent |-> a, runtime |-> made + 1]]
  /\ UNCHANGED <<connected, closing, counter, logs, stopped, registry, sync>>

\* Whatever the pool holds by now is replaced.
Allocated(t) ==
  /\ tool[t].at = "connecting"
  /\ connected' = connected \cup {tool[t].runtime}
  /\ pool' = [pool EXCEPT ![tool[t].agent] = tool[t].runtime]
  /\ tool' = [tool EXCEPT ![t] = Use(tool[t].runtime)]
  /\ UNCHANGED <<made, closing, counter, logs, stopped, registry, sync>>

AllocateFails(t) ==
  /\ tool[t].at = "connecting"
  /\ tool' = [tool EXCEPT ![t] = Idle]
  /\ UNCHANGED <<pools, registry, sync>>

\* Every command is logged, also one that failed, in three steps of its thread that
\* no lock holds together: the counter of the runtime is increased (which threads of
\* CPython do not tear), it is read again for the entry, and the entry is appended.
\* (The mutated form does not increase it.)
SameNumber(r) == counter[r]

NextNumber(r) == counter[r] + 1

Command(t) ==
  /\ tool[t].at = "ready" /\ tool[t].runtime \in connected
  /\ counter[tool[t].runtime] + tool[t].runtime <= MaxCommands
  /\ counter' = [counter EXCEPT ![tool[t].runtime] = NextNumber(tool[t].runtime)]
  /\ tool' = [tool EXCEPT ![t].at = "numbered"]
  /\ UNCHANGED <<pool, made, connected, closing, logs, stopped, registry, sync>>

Note(t) ==
  /\ tool[t].at = "numbered"
  /\ tool' = [tool EXCEPT ![t] = [at |-> "noted", runtime |-> tool[t].runtime,
                                  number |-> counter[tool[t].runtime]]]
  /\ UNCHANGED <<pools, registry, sync>>

Log(t) ==
  /\ tool[t].at = "noted"
  /\ logs' = [logs EXCEPT ![tool[t].runtime] = Append(@, tool[t].number)]
  /\ tool' = [tool EXCEPT ![t] = Idle]
  /\ UNCHANGED <<pool, made, connected, closing, counter, stopped, registry, sync>>

\* A runtime that has been disconnected meanwhile is connected again.
Reconnect(t) ==
  /\ tool[t].at = "ready" /\ tool[t].runtime \notin connected
  /\ \/ /\ connected' = connected \cup {tool[t].runtime}
        /\ UNCHANGED tool
     \/ /\ tool' = [tool EXCEPT ![t] = Idle]
        /\ UNCHANGED connected
  /\ UNCHANGED <<pool, made, closing, counter, logs, stopped, registry, sync>>

-----------------------------------------------------------------------------
(* Synchronisation of the registry with the pool.                            *)

Pooled(agents) == {a \in agents : pool[a] # NoRuntime}

\* What the end of a synchronisation makes of an entry: running ones whose agent
\* has no runtime are stopped.  (The mutated form keeps them.)
KeepRunning(e, seen) == e

Marked(e, seen) ==
  [a \in Agents |-> IF a \notin seen /\ e[a].state = "running"
                    THEN [e[a] EXCEPT !.state = "stopped"] ELSE e[a]]

\* On to the next agent, whose runtime is looked up and asked for its metrics, or
\* to the end.
Advance(s, e, todo, seen) ==
  \/ /\ Pooled(todo) = {}
     /\ sync' = [sync EXCEPT ![s] = Idle]
     /\ entry' = Marked(e, seen)
  \/ \E a \in Pooled(todo) :
       /\ sync' = [sync EXCEPT ![s] = [at |-> "metrics", agent |-> a, runtime |-> pool[a],
                                       todo |-> Pooled(todo) \ {a}, seen |-> seen \cup {a}]]
       /\ entry' = e

SyncStart(s) ==
  /\ sync[s] = Idle /\ closing = {} /\ ~stopped
  /\ Advance(s, entry, Pooled(Agents), {})
  /\ UNCHANGED <<pools, tool, events>>

\* The entries of r, by their place in its log, that are numbered above n.  (The
\* mutated form is off by one.)
NewLogsFromLast(r, n) == {k \in DOMAIN logs[r] : logs[r][k] >= n}

NewLogs(r, n) == {k \in DOMAIN logs[r] : logs[r][k] > n}

\* How far the log has been read, as it is found after the wait.  (The mutated
\* form forgets it when the state changes.)
ReadToReset(a, state) == IF entry[a].state = state THEN entry[a].seq ELSE 0

ReadTo(a, state) == entry[a].seq

\* The largest number among n and those of the entries read.  (The mutated form takes
\* the last number given out.)
FarthestGiven(r, n) == IF counter[r] > n THEN counter[r] ELSE n

Farthest(r, n) ==
  CHOOSE m \in {n} \cup {logs[r][k] : k \in NewLogs(r, n)} :
    \A k \in NewLogs(r, n) : logs[r][k] <= m

\* After the wait: the entry is made or updated and the new commands are shown, in
\* the order of the log.
SyncRecord(s) ==
  /\ sync[s].at = "metrics" /\ closing = {} /\ ~stopped
  /\ LET a == sync[s].agent
         r == sync[s].runtime
         state == IF r \in connected THEN "running" ELSE "disconnected"
         n == ReadTo(a, state)
         shown == IF entry[a] = NoEntry THEN <<>> ELSE events[a]
         new == NewLogs(r, n)
     IN  /\ events' = [events EXCEPT ![a] =
                         IF new = {} THEN shown
                                     ELSE Append(shown, [runtime |-> r, places |-> new])]
         /\ Advance(s, [entry EXCEPT ![a] = [state |-> state, seq |-> Farthest(r, n)]],
                    sync[s].todo, sync[s].seen)
  /\ UNCHANGED <<pools, tool>>

-----------------------------------------------------------------------------
(* Endpoints.                                                                *)

\* release: out of the pool, then disconnected.  The event loop does not go on in
\* between, the tools do.
Release(a) ==
  /\ pool' = [pool EXCEPT ![a] = NoRuntime]
  /\ closing' = {pool[b] : b \in Pooled({a})}
  /\ UNCHANGED <<made, connected, counter, logs, stopped>>

Released(r) ==
  /\ r \in closing
  /\ closing' = closing \ {r}
  /\ connected' = connected \ {r}
  /\ UNCHANGED <<pool, made, counter, logs, stopped, tool, registry, sync>>

\* The entry is kept.
StopSandbox(a) ==
  /\ closing = {} /\ ~stopped
  /\ entry[a].state \notin {"none", "stopped", "completed"}
  /\ entry' = [entry EXCEPT ![a].state = "stopped"]
  /\ Release(a)
  /\ UNCHANGED <<tool, events, sync>>

\* Without an entry the endpoint does not know that it is an OpenHands runtime.
DeleteSandbox(a) ==
  /\ closing = {} /\ ~stopped
  /\ entry[a] # NoEntry
  /\ entry' = [entry EXCEPT ![a] = NoEntry]
  /\ events' = [events EXCEPT ![a] = <<>>]
  /\ Release(a)
  /\ UNCHANGED <<tool, sync>>

UpdateState(a, state) ==
  /\ closing = {} /\ ~stopped
  /\ entry[a] # NoEntry
  /\ entry' = [entry EXCEPT ![a].state = state]
  /\ UNCHANGED <<pools, tool, events, sync>>

\* Synchronisations are cancelled and everything in the pool is disconnected; the
\* clean-up at exit does nothing more.
Shutdown ==
  /\ closing = {} /\ ~stopped
  /\ stopped' = TRUE
  /\ connected' = connected \ {pool[a] : a \in Agents}
  /\ pool' = [a \in Agents |-> NoRuntime]
  /\ sync' = [s \in Syncs |-> Idle]
  /\ UNCHANGED <<made, closing, counter, logs, tool, registry>>

Next ==
  \/ Shutdown
  \/ \E t \in Tools :
       \/ Allocated(t) \/ AllocateFails(t) \/ Command(t) \/ Reconnect(t)
       \/ Note(t) \/ Log(t)
       \/ \E a \in Agents : AllocateExisting(t, a) \/ AllocateNew(t, a)
  \/ \E s \in Syncs : SyncStart(s) \/ SyncRecord(s)
  \/ \E r \in Runtimes : Released(r)
  \/ \E a \in Agents :
       \/ StopSandbox(a) \/ DeleteSandbox(a)
       \/ \E state \in {"paused", "completed"} : UpdateState(a, state)

\* The loop synchronises every five seconds, and what it waits for is bounded.
Fairness ==
  /\ \A s \in Syncs : WF_vars(SyncStart(s)) /\ WF_vars(SyncRecord(s))
  /\ \A r \in Runtimes : WF_vars(Released(r))

Spec == Init /\ [][Next]_vars /\ Fairness

-----------------------------------------------------------------------------
(* Properties.                                                               *)

States == {"running", "disconnected", "stopped", "paused", "completed"}

\* What one reading of a log showed: the places of the entries.
Readings == [runtime : 1 .. made, places : SUBSET Nat]

\* The variables have their types: every entry of a log has a number given out.
TypeOK ==
  /\ pool \in [Agents -> 0 .. made] /\ made \in 0 .. MaxRuntimes
  /\ connected \subseteq 1 .. made /\ closing \subseteq 1 .. made
  /\ counter \in [Runtimes -> 0 .. MaxCommands] /\ stopped \in BOOLEAN
  /\ \A r \in Runtimes : logs[r] \in Seq(1 .. counter[r])
  /\ \A t \in Tools :
       /\ tool[t].at \in {"idle", "connecting", "ready", "numbered", "noted"}
       /\ tool[t] # Idle => tool[t].runtime \in 1 .. made
  /\ \A a \in Agents :
       /\ entry[a] \in [state : States, seq : 0 .. MaxCommands] \cup {NoEntry}
       /\ entry[a] = NoEntry => events[a] = <<>>
       /\ events[a] \in Seq(Readings)
  /\ \A s \in Syncs : /\ sync[s].at \in {"idle", "metrics"}
                       /\ sync[s] # Idle => sync[s].runtime \in 1 .. made

\* However commands are numbered and logged at once, synchronisations overlap, and
\* runtimes and entries change while they wait, no entry of a log is shown twice, and
\* those of a runtime are shown in the order of its log.
ShownOnceInOrder ==
  \A a \in Agents : \A x, y \in DOMAIN events[a] :
    x < y /\ events[a][x].runtime = events[a][y].runtime =>
      \A j \in events[a][x].places, k \in events[a][y].places : j < k

\* An entry is passed over for one reason only: by the time it could be read, an
\* entry with its number or a larger one, of any runtime of the agent, was shown.
\* (Two commands at once may get one number, or be logged against their numbers.)
PassedOverForACause ==
  \A a \in Agents : \A y \in DOMAIN events[a] :
    LET r == events[a][y].runtime
    IN  \A k \in events[a][y].places : \A j \in 1 .. k :
          \/ \E x \in 1 .. y : events[a][x].runtime = r /\ j \in events[a][x].places
          \/ \E x \in 1 .. y - 1 : \E i \in events[a][x].places :
               logs[events[a][x].runtime][i] >= logs[r][j]

\* A sandbox is not shown as running for ever when its agent has no runtime any
\* more, although a synchronisation that waited when the sandbox was stopped or
\* deleted writes the entry again.
StopIsShown ==
  \A a \in Agents :
    <>[](pool[a] = NoRuntime /\ ~stopped) => <>[](entry[a].state # "running")

\* All three.
CommandsAreShown == []ShownOnceInOrder /\ []PassedOverForACause /\ StopIsShown
=============================================================================
