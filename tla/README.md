# TLA+ models of Teaming24

Teaming24 lets an *Agentic Node* (AN) run tasks with its own crew of LLM agents
and delegate parts of them, for a price, to other ANs of the network. This
directory holds TLA+ specifications of the node's core logic, TLC configurations
that check them on small instances, and TLAPS proofs. Paths below are relative to
`src/teaming24/`; those of the central server to `src/`.

## 1. Inventory

### The system's parts

| part | state | operations | what makes it correct |
|---|---|---|---|
| Task manager, `task/manager.py` | `_tasks`, `_last_cleanup`, `_listeners` | create (with reuse of an id), start, complete, fail, cancel, delegate, phase, step, clean-up, clear | a settled task keeps its outcome; a resubmitted one shows nothing of its last run; the clean-up drops only finished tasks, oldest first |
| Workforce pool, `agent/workforce_pool.py` | peers, marketplace, local team | get_pool | no node twice, never the node itself, the local team first |
| Plan router, `agent/an_router.py`, `routing_strategy.py` | none | route, rank, repair, fill up | every subtask goes to a known member, one per node |
| Organizer: approval, `agent/core.py` `_request_routing_approval`, `api/services/approval.py` | `approval_requests`, `task_budgets` | create, resolve, wait, take; budget read and write | the answer acted on is the last one accepted; a refusal holds; nobody waits for ever; budgets are kept |
| Organizer: rounds, `agent/core.py` `_execute_body`, `execute_sync` | plan, round, results, history | bind, dispatch (parallel, sequential), aggregate, evaluate, settle | every target of a round has an answer; the outcome is one the rounds justify |
| Organizer: delegation, `agent/core.py` | submissions under way | submit, wait, retry, charge | a result belongs to the submission it is reported for; every delegation is paid once |
| Worker: execute endpoint, `api/server.py` | tasks, payment rows, wallet | admit, pay, start, run in the background | no pile of executions of one task; a running task is really executed; the price is taken once |
| Task stream, `subscribe_to_task`, `_subscribe_remote_task`, `_poll_remote_task` | listeners, queue per subscriber | subscribe, notify, forward, ping, poll | a reported success is real; no lost wake-up |
| LAN discovery, `communication/discovery.py`, `/api/network/lan/*`, dashboard toggles | socket, running, visible, scanning, known nodes | start, stop, scan, answer, expire | a scan finds who is visible; who is gone is forgotten; off means off |
| Peers, `communication/manager.py`, health loop of `api/server.py` | outbound and inbound tables, failure counts | connect, handshake, disconnect, probe | a peer shown offline has a cause; half a link does not stay |
| Central client, `communication/central_client.py` | token, registered, heartbeat loop | configure, join, leave, status, beat | leaving is final; a beating node stays listed |
| Central server, `agentanet_central/backend/app` | users, tokens, revocations, nodes | login, tokens, register, heartbeat, unlist, health check, administration | entries belong to valid tokens; ghosts are delisted |
| Chat task, `generate_agent_response`, `_reconnect_stream` of `api/server.py`, `ChatView.tsx` | queue, buffer, approval, the client's view | execute, stream, time out, cancel, leave, return | steps are shown once and in order; the client learns the end |
| Event feed, `api/event_buffer.py`, `communication/subscription.py`, `agentStore.ts`, `AgentEventBridge.tsx` | ring of events, queues, the client's store, the tasks table | push, replay, broadcast, drop, snapshot, merge, persist | a client sees events once and in order, and learns the end of a task |
| Sandboxes, `runtime/openhands/adapter.py`, `runtime/manager.py`, registry of `api/server.py` | pool, command logs, registry, sequence numbers | allocate, run, release, synchronise, stop, delete | commands are shown once and in order; a stopped sandbox is not shown running |
| Sandbox pool, `agent/tools/openhands_tools.py`, `runtime/manager.py`, `runtime/sandbox/pool.py` | sandboxes, in use, a lock used from several event loops | run a command or code, fall back, acquire, release, shutdown | no running sandbox is lost; every call returns; nothing is run twice |
| Local crew, `agent/core.py`, singleton and `/api/agents` of `api/server.py` | crew, settings, agents table, what is advertised | get, rebuild, set, create, update, delete | the crew follows the table and the settings |
| Agent loop, `agent/framework/native/runtime.py`, `agent/context.py` | messages, iterations | ask, call tools, compact | every tool call is answered before the next request |
| Coordinator's run, `execute_as_coordinator`, `native/runner.py` | plan, results, rounds | plan, work, aggregate, judge, settle | the reported outcome is one the rounds justify |
| Crew tools, `agent/crew_wrapper.py` | the manager's tools, a count of users | clear, kick off, restore, settle | the manager has its tools whenever no crew runs |
| Settings and payment gate, `config/`, `routes/health.py`, `payment/crypto/x402/` | files, environment, two configurations, wallet, gate | load, reload, save, set, admit | a requester's task is charged as the settings say, and once |
| Step progress, `agent/events.py`, `on_step` of `api/server.py`, `task_progress.py` | phase, percentage, milestones, roster | report, smooth, merge, conclude | nothing is shown done early; the end is shown; milestones are shown |
| Scheduler, `scheduler/service.py` | jobs, running | add, remove, start, stop, loop, execute | runs of a job are spaced; a failing job is disabled; a removed job does not start |
| Wallet, `api/services/wallet.py`, `data/database.py` | ledger, balance, rows | record, restore, reset | a restart leaves the wallet as it was |
| Gateway and channels, `gateway/`, `channels/` | bindings, tasks under way | route, execute, execute for a channel | a call settles its task and says how it ended |
| Sessions, `session/` | transcripts | get or create, record, trim, reset, clear | an answer joins the session it belongs to |
| Agent memory, `memory/manager.py`, `memory/store.py` | entries of a scope | save, compact, reset | compaction drops nothing that no summary accounts for |
| Event bus, `events/` | handlers | publish, subscribe | no protocol of its own |
| LLM access, what tools do, prompts, views of the GUI | | | text and presentation |

### How they interact

* A chat message starts `execute_sync` in a thread. The execute endpoint, the
  gateway and the scheduler run `execute` as a coroutine of the server's event
  loop. Both call the same blocking functions: router, approval, dispatch.
* The pool reads the tables of discovery, peers and the marketplace, once when
  a plan is made and again at every dispatch; nodes come and go in between.
* The organizer POSTs subtasks to workers under its own task id
  (`parent_task_id`), so all rounds of a task meet in one record of the worker.
* The worker's execution changes the task through the task manager, which calls
  its listeners in the caller's thread; one listener per SSE subscriber puts the
  update in a bounded queue, from which the endpoint feeds the stream.
* The approval service shares a table and a `threading.Event` per approval
  between the endpoints and the waiting execution.
* Payments: the gate of the worker approves, a row in `payment_records` keeps it
  from asking again, the worker's wallet books an income, and the organizer's
  `on_step` callback books an expense.
* All executions use one local crew, its agents and its sandbox pool, from several
  threads and event loops.
* The dashboard hears of a task from the feed, from snapshots and from the
  tasks table, and writes the table too.
* Peers keep two tables, one per direction, and tell each other of changes by
  HTTP calls that may fail. The marketplace's entry of a node is kept alive by
  the heartbeat loop of its client.

### What is hard

Threads and coroutines over one table with a lock per operation only; blocking
calls on the event loop; a status that is checked, then used after a suspension;
lost, late and repeated submissions; resubmission of an id that is still being
executed; dropped updates; restarts that lose the tasks and keep the payments;
services that are started in the middle of their stop; work that depends on names
that are not unique. `PROJECT.json` lists each of these at its line, with the
properties that look after it or a note on what is missing.

## 2. Plan

1. **Done:** `TaskManager` (with `TaskStatus`, `TaskRecord` and the abstract
   `TaskOutcome`), `RoutingApproval`, `TaskStream`, `Delegation`.
2. **Done:** `RefinementRounds` over `WorkforcePool`, `PlanRouter` and
   `QualityGate`; `CentralServer` and `Marketplace`; `PeerNetwork`; `LanDiscovery`;
   `EventFeed`; `ChatTask`; `Scheduler`, `AgentMemory`, `WalletLedger`, `TaskEntry`,
   `LocalCrew` and `NodeSettings`; `SandboxPool`, `SandboxRuntimes`, `AgentLoop`,
   `CoordinatorRun` and `CrewTools`; `StepProgress`.
3. **Done:** proofs for `TaskManager`, `RoutingApproval`, `Delegation`, `RefinementRounds`,
   `Marketplace`, `PeerNetwork`, `LanDiscovery`, `EventFeed`, `Scheduler`, `NodeSettings`,
   `TaskEntry`, `AgentMemory`, `WalletLedger`, `LocalCrew`, `SandboxPool`,
   `SandboxRuntimes`, `AgentLoop`, `CoordinatorRun`, `CrewTools`, `TaskStream`, `ChatTask`
   and `StepProgress` (see 6).
   With them every safety property that a passing run checks is a theorem; for those about
   liveness, the safety half is one where it says something by itself.
4. Left to model: two organizers that delegate to each other; a crash inside a worker's
   endpoint; start-up and orderly shutdown of a node.

## 3. Modules

A module's operators and actions have the names of the code's functions where that
is possible; `PROJECT.json` maps each to its lines. Definitions whose comment says
*mutated form* are not part of a specification: each is a plausible bug in the
definition after it, with which the property named in `PROJECT.json` fails.

### TaskStatus, TaskRecord, TaskManager, TaskOutcome

`TaskStatus` has the six states and, as predicates of a status, the early
returns of `start_task` (`Startable`), `complete_task` and `fail_task`
(`Finishable`), `cancel_task` (`Cancellable`) and `delegate_task` (`Delegable`).
All modules share it. A cancelled task is startable and finishable: that is what
the code does.

`TaskRecord` describes one `Task` and what each operation leaves of it, as a
function from record to record. Of the fields it keeps status, type, phase,
creation time, whether the two times are set, result, error, delegation target
and the number of steps. Labels, percentages, costs and rosters are left out.

`TaskManager` is the table. Each operation holds the manager's lock, so each is
one action; a call that the code refuses changes nothing. `CreateTask` contains
the clean-up (`AfterCleanup`: expiry, then eviction of the oldest finished tasks
above the limit) because `create_task` calls it first. Time is a counter that
`Tick` advances; two records never have the same creation time, as `created_at`
values differ in practice.

`TaskOutcome` is the abstract promise: per task an outcome that is absent, open
or decided, where a decided outcome other than a cancellation is changed only by
a resubmission or by dropping the task. `TaskManager!Promise` is the refinement
mapping.

### RoutingApproval

Two kinds of execution meet the approval service: those in a thread and those on
the event loop (`OnLoop`, and every resubmission, because only the execute
endpoint accepts an existing id). `loop` says what holds the event loop:
nothing, an execution (from `Execute` to `Settle`: routing, waiting and dispatch
are blocking calls), or a cancel endpoint between its two halves. Endpoints need
a free loop.

| code | action |
|---|---|
| `create_approval`, its broadcast | `NewApproval` in `AskUser`, `RequestApproval`; `Announce` |
| `resolve_approval` | `ResolveApproval` |
| `cancel_agent_task` | `CancelDeny` (under the approval lock), `CancelMark` |
| submission and start of an execution | `Submit`, `Start`, `Execute` |
| `_request_routing_approval` | `SkipApproval`, `AutoApprove`, `AskUser`, then `Wake` or `Expire`, then `TakeDecision` (the second critical section of `block_until_approval` and the branches on the decision) |
| rounds, settlement | `DispatchRound`, `Finish`, `FailDenied` |

`evt.wait` and the reading of the decision are different steps: an answer may
come in between. `Expire` requires that a broadcast that can be delivered has
been delivered, since the timeout is minutes. The history variable `acked`
records the last decision a client got a positive reply for.

### RefinementRounds over PlanRouter, WorkforcePool and QualityGate

One execution of the organizer, from the binding of the pool to the settlement.
`GetPool` of `WorkforcePool` is `get_pool`: the local team and each remote node once, from
records of the network and of the marketplace that may name one node differently.
`PlanRouter` is the repair of what the LLM answers (`ParseRoutingResponse`), the fill-up to
the minimum of members (`EnforceMinPoolMembers`), and the scoring router, where
`Ranked(pool, k)` is the member with `k - 1` better ones. The loops of the code are
recursive functions here, which is what a proof can reason about. `QualityGate` is the
policy of a class of prompts, the scores and the gate; a text is what the detectors
of the code see in it. `RefinementRounds` dispatches the plan's subtasks in parallel
or as a chain (`DispatchAll`, `OneEnds`, `DispatchRaises`; `DispatchChain`, `ChainStep`),
against the pool of that moment, then `Aggregate`, `Evaluate`, `Finish`. What the LLMs
answer, what the nodes return and who is in the pool are choices.

### TaskStream

One task on a worker and its subscribers. The execution, the progress callbacks
and the cancel endpoint are three notifiers, each with its own position in the
live listener list; `RemoveListener` shifts the list under them, as
`list.remove` does during a `for`. `subscribe_to_task` is `Subscribe`,
`AddListener`, `Recheck`, `Snapshot`, then `Forward` and `SendPing` until the
final update or `Hangup`. On the organizer, `Read` is one line of the stream with
the code's order of checks, `Disconnect` the fall-back to `Poll`. `missed` is a
history variable: the final update was dropped by a full queue, or a notifier
skipped the listener.

### Delegation

One organizer, one task, several workers. `Dispatch` sends a batch (a parallel
plan is one batch, a sequential plan one per step); a submission is an element of
`posts` until the worker's endpoint handles it (`Handle`), which may be after the
organizer gave up, or until it is lost. `Handle` is the endpoint up to its first
suspension: payment gate, payment row, short-cut for a running task, creation or
reuse, income. `Begin` is `start_task` with the 409 answer, `Finish` the end of
`execute_as_coordinator`. `Result` is what `TaskStream` tells of waiting: a
success only on a completed task, `pending` when a stream ends, an error in all
other cases. `Charge` is the branch of `on_step` that books the expense.
`Cancel` and `Restart` happen to a worker; payment rows and the wallet are in
its database. `fresh` is a history variable: an execution completed since the
open submission was sent.

### TaskEntry

The entries to an execution that run on the event loop. `Inbound` and `Execute` are
the two of the gateway: `Route` (the binding with the highest score), `Key` and
`Recorded` (the session and its transcript), then `CheckPayment`, `RunGateway` (the
execution and the second settlement), `TellGateway`. `Start`, `RunEndpoint`,
`TellEndpoint` and `SaveRow` are the execute endpoint, in the background or waiting.
Between these steps tasks are cancelled, sandboxes deleted, sessions reset and
cleared. An execution of the endpoint is one step with the outcomes of
`RefinementRounds`; one of the gateway always raises, because `_run_agent` imports a
name that `agent/core.py` does not have.

### ChatTask

A task of the chat: `Exec*` are its threads, which put steps in a queue; `Gen*` the
generator of the response, which reads the queue, sends and buffers, polls the task
for a cancellation, and ends with the outcome; `BackPoll` the second stream for a
client that left and came back; the rest is `ChatView.tsx`. What is sent to a client
that has left is lost, and the generator ends when it notices (`GenNotice`).
What is put and what the task records are two things: `on_step` records a step and
puts it later, when other threads may have put theirs, or never (`ExecRecord`, then
`ExecWork`), and `run_crew` puts steps of its own that nobody records. A client that
comes back when the buffer is gone is shown the record (`Rebuilt`).

### EventFeed

How a dashboard follows one task: numbered events in the ring (`Capacity`) and in the
queue of each stream (`QueueSize`), the replay after a broken connection, snapshots,
and the tasks table, which server and client both write. A first connection gets two
messages, the agents (`Connect`) and then the tasks (`SendTasks`), both with the number of
the last event, so that a client that loses the connection between them comes back as one
that has the second. `unlisted` is a history variable: this happened when no event before
the end was to come any more. Each event also reaches the
client directly from the task manager, without a number, as in the code.

### LanDiscovery, PeerNetwork

`LanDiscovery`: discover requests and answers are datagrams that may be lost; start,
stop and configuration are endpoints whose awaits (`StopEnd` and what is before it)
let others run; the toggles of the dashboard call them; entries age (`Expired`) unless
linked. `PeerNetwork`: a link is an entry on either side, made by a handshake and ended by a
disconnect, each a request whose reply may be lost; the health loop of a node
(`RoundStart`, `Probe`, `Reply` or `NoReply`, `Finish`) acts on answers while both tables
change.

### CentralServer, Marketplace

`CentralServer` has the tables of the AgentaNet server and one operator per handler:
tokens, revocation, registration, heartbeat, unlisting, the administrator's
operations and the health check. Rows hold ages instead of times. `Marketplace` puts
clients to it: the heartbeat loop and the calls join, leave and status of a node's own
API, each split where it waits for the server. Requests fail before or after they
are handled, and a registration may be handled late.

### StepProgress

Phase and percentage of a task while the organizer, the crew (`Members` in turn) and a
thread for each of `Peers` report steps. A step reads the progress (`OrganizerShows`,
`WorkerShows`, `RemoteShows` and their chat variants work out what it shows) and writes
it later (`Write`), with no lock from the one to the other. `Route`, `Dispatch`,
`LocalOnly`, `Gather`, `Again`, `Conclude`, `Settle` are the organizer's own course;
`Outside` is a cancellation from outside. `Merge` and `Emits` are the milestones of a
node and when they are shown; `Accounted` is the roster after the end.

### SandboxPool, SandboxRuntimes

`SandboxPool` is what a tool call goes through: `CheckDocker` with its cached answer,
`TakeLock`, `GetLock`, `Release` (an `asyncio.Lock` of one loop that other loops share: a
release from another loop sets the waiter's future and does not wake its loop, hence
`deaf`), `StartPooled` or `Unpooled`, `RunInSandbox`, `RunOpenHands`, `RunLocal`, then `Ends`
or `TimesOut` for a command and `CodeEnds` for code, which `exec` runs in the calling thread
with no time-out (`interpreter.py:161`), and `FallBack`. Code that OpenHands runs is a command
with a time-out (`adapter.py:880`); that of its old IPython API is taken on trust.
`SandboxRuntimes`: tools in threads allocate and use runtimes of OpenHands; a command is
numbered (`Command`), its number read (`Note`) and logged (`Log`), with no lock, while
synchronisations (`SyncStart`, a wait for the metrics, `SyncRecord`), stops and deletes work
on the registry. `SyncRecord` takes what is numbered above the number it has read to.

### AgentLoop, CoordinatorRun, CrewTools

`AgentLoop` is one run of an agent: `Ask` (after `Compacted`, near the limit of the
model), `FinalAnswer`, `CallTools`, `ToolReplies`, `LLMFails`, `OutOfIterations`.
`CoordinatorRun` is a task of another node or a local subtask: `Receive`, `Plan`,
`WorkersEnd`, `Aggregate`, `Judge`, `Settle`, or one call of a CrewAI crew (`CrewEnds`), or the
fixed experiment for prompts on machine learning (`MlExperiment`). `CrewTools` has several
wrappers that run with one manager: `ClearTools`, `CreateCrew`, `Kickoff`,
`RestoreTools`, then the settlement of the wrapper's own task.

### Scheduler, AgentMemory, WalletLedger, LocalCrew, NodeSettings

`Scheduler`: the fall-back loop, executions, the error limit,
and a second loop after a stop and start within one sleep. `AgentMemory`: saves of
several threads and the compaction, statement by statement, with failures in the
middle. `WalletLedger`: bookings under a lock, rows written after it, restarts and
resets between the two. `LocalCrew`: which workers are loaded (`Roster`), the singleton
(`GetCrew` and when it is `Fresh`), settings, the agents table with `CreateAgent`,
`UpdateAgent`, `DeleteAgent`, and what is advertised. `NodeSettings`: the configuration of
the start and that of the last `Reload`, the files and the environment they come from, the
endpoints that change them, and the gate that admits tasks (`Admit`, `AdmitLocal`).

### Composition

Modules interact where one reads or calls what another defines: `RefinementRounds` uses
`WorkforcePool`, `PlanRouter` and `QualityGate`, `Marketplace` puts clients to
`CentralServer`, all share `TaskStatus`. Other modules meet only in the values they
exchange: an execution is one step with the outcomes of `RefinementRounds` in `TaskEntry`,
and `AgentLoop` one with the kinds of text in `CoordinatorRun`. `MCConversations`
(`TaskStream`, `ChatTask`, `StepProgress`), `MCDelegation` (`RefinementRounds`, `Delegation`),
`MCServices` (`Scheduler`, `LocalCrew`, `AgentMemory`, `WalletLedger`, `TaskEntry`,
`NodeSettings`) and `MCExecution` (`SandboxPool`, `SandboxRuntimes`, `AgentLoop`,
`CoordinatorRun`, `CrewTools`) check modules side by side: these share no state, so a
behaviour exercises one of them, chosen at the start, and nothing is claimed of two at once.

## 4. Runs

With two workers of TLC every run ends within four minutes.

| run | instance | states | shows |
|---|---|---|---|
| `task_manager` | 3 ids (symmetric), limit 1, expiry 2, clean-up interval 2, 3 clock ticks, 1 step | 833 607 | consistency of records, sticky outcomes, fair clean-up, refinement of `TaskOutcome` |
| `approval` | a chat task submitted up to twice, a task on the loop, 1 remote subtask, 2 rounds, budgets 1 and 2, 1 approval requested over REST | 183 916 | the decision taken is the last accepted, refusals hold, budgets are kept, every run ends |
| `conversations` | stream: 1 subscriber with a queue of 1, 1 other listener, 2 updates; chat: 2 steps, 2 returns; progress: 1 worker, 1 node, 2 rounds, 1 step of the crew, 1 report | 1 135 242 | a success is real, steps come in order and once, the roster and the milestones are kept, the outcome is learnt |
| `delegation` | 2 workers, parallel and sequential plan, 2 rounds, 1 cancellation and 1 restart per worker; rounds: 2 nodes in 3 records, minimum of 2 members, 5 answers of the planner, 5 kinds of texts, a coding prompt (3 rounds) and a general one (2), both routers, gate with verifier | 2 483 976 | payments once and backed, executions match the status, no stale result, plans are sound, the outcome is justified |
| `marketplace` | 1 user, 1 node, 2 token ids, thresholds 3, 3 and 4 heartbeats, 1 lost heartbeat tolerated, 2 calls of each kind | 486 831 | listings follow the node, ghosts are delisted |
| `peers` | 2 nodes, 1 with a health loop, 2 failures, 1 restart | 245 784 | offline has a cause, half links leave |
| `discovery` | 2 nodes, 1 with a dashboard, expiry 1, 2 calls, 1 crash of the other | 612 432 | scans find, the gone are forgotten, off knows nobody |
| `feed` | 1 client, buffer 2, queue 2, 2 steps, 2 broken connections | 1 272 260 | events once and in order, or known to be missed; the end arrives unless it is the one thing left when the list of tasks is cut off |
| `services` | scheduler: 1 job, 2 loops; crew: 2 workers, a group with an unknown name; memory: 2 savers, 3 entries of 2 sizes; wallet: 2 writers, 3 transactions, a ledger of 2; entries: 2 calls, a peer and a group; settings: 2 tasks of a requester, 2 addresses | 240 246 | the crew follows its agents, ends are told as settled, payments follow the settings, runs are spaced, no memory is lost |
| `execution` | pool: 3 calls of one task on loops of their own, one of them code; runtimes: 1 agent, 2 runtimes, 2 commands in the first and 1 in the second, 2 tools, 2 synchronisations; loop: 4 iterations, threshold 6, up to 2 tool calls; run: 2 workers, 3 rounds, 4 plans; crews: 2 wrappers | 573 381 | tool calls are answered, the outcome of a run is justified, tools and sandboxes are returned, calls return unless their own code does not, commands are shown |
| `crew_offline` | the crew of `services` | 178 | counterexample, see 5 |
| `wallet_restart` | the wallet of `services` | about 43 000 | counterexample, see 5 |

**Why the bounds are enough.** Operations of the task manager touch one task, so
three ids are enough for the clean-up to have an older and a younger finished task and an
open one at once; a limit of 1, and an expiry and an interval of 2 with creations at
times 0 to 3, make every branch of the clean-up reachable. A chat task and a task on the
loop are the two kinds of execution, and one resubmission makes the chat task one of the
other kind, with a budget from its first run; one approval requested over REST is
enough for a task to have two. A queue of one drops an update as soon as there are two;
one other listener is enough to shift the list. Two rounds give a first and a retry, two
workers give both plan shapes; one cancellation leaves an old execution behind a new one.
Two records of one node and one of another are the smallest pool with something to merge
and something to keep; the three rounds of a coding prompt are the fewest that can
converge after an improvement. Links, datagrams and listings are relations of two
parties. The second token id is the one a revoked node comes back with. Time thresholds
keep their order (a tolerated miss is less than the offline threshold, that is not more
than the one of delisting, which is less than the one of purging). A buffer or a
queue of two overflows with the five events of a task. Two threads are enough for an
interleaving where every step of one may fall between any two of the other. Three
transactions exceed a ledger of two, and three entries of size 3 a budget of 5 in more
than one pass. Two steps are recorded in one order and put in the other, and one may be put that
is not recorded. Two commands at once get one number, or are logged against their numbers.
Three calls are needed for one that holds the lock, one that waits and one
that comes later; three rounds for a result that is poor, one that improves and one that
does not change any more; a threshold of 6 is passed within four iterations. `MaxLan` cannot be exceeded with two nodes; the limit is kept in the
action that adds one. Each property of a passing run is broken by at least one mutant of
the code.

`CHECK_DEADLOCK FALSE` everywhere: bounded time, runs, rounds, calls and breaks
come to an end, and a task that is settled may stay so.

**Fairness.**

* `RoutingApproval`: strong fairness of each execution and of the broadcasts, because
  asyncio serves every ready callback in turn, so that a coroutine that is enabled again
  and again (each time the loop is free) gets the loop; weak fairness of the second half
  of a cancellation, which already has it. No fairness of users: nobody has to answer.
* `TaskStream`: weak fairness of notifiers, the endpoint, the reader, the clock and the
  poll. The task may run for ever, and connections need not break.
* `Marketplace`: weak fairness of time, of the server's check and of the heartbeat loops
  that run; a heartbeat may be lost each time.
* `PeerNetwork`: time passes, health loops go on, a connect that is not answered times
  out; and a probe of the links of a reachable peer is answered again and again.
* `LanDiscovery`: datagrams are handled or lost, loops go on, and of the broadcasts that
  are sent again and again some arrive: without that a scan can find nobody.
* `SandboxRuntimes`: the synchronisation loop goes on and a released runtime closes.
  `SandboxPool`: a call or loop that can go on does so; commands end or time out. Code need
  not end, so `CallsReturn` has it as the one way to stay.
* `EventFeed`: only what is in a stream is delivered; `ChatTask`: the response and the
  second stream go on, an answered approval is acted upon and a thread that has its result
  ends; an execution may hang.
* `Delegation`, `RefinementRounds`, `Scheduler`, `AgentMemory`, `WalletLedger`, `TaskEntry`,
  `LocalCrew`, `NodeSettings`, `AgentLoop`, `CoordinatorRun`, `CrewTools`, `StepProgress`:
  none, their properties are safety.

## 5. Disagreements and doubtful behaviour

`wallet_restart` ends in a counterexample: "Restore wallet transactions from DB"
(`api/server.py:8457`) reads the table oldest first with a limit
(`data/database.py:451`), so a node that has booked more transactions than its ledger
holds restarts with the oldest of them, and with a balance that leaves out the newest.

`crew_offline` ends in a counterexample: "The singleton preserves worker online/offline state
across requests" (`api/server.py:2317`), but a crew that is rebuilt because the settings
changed (2357) starts with every worker online, and the first update of a worker changes them.

The models also show the following; each is what the code does, and no property asks
for the contrary. Tasks:

* A cancelled task may be settled or delegated later by the execution that goes on
  (`task/manager.py:566`, `597`), although `api/server.py:4147` and `task/manager.py:621`
  call the state terminal.
* After a denial the plan is dropped and the task fails; the docstring says that "only local
  execution proceeds" (`agent/core.py:930`). The execute endpoint tells
  and saves such a task as completed (`server.py` 6111). Waiting, the execute
  endpoint does so also for failed tasks (6341), and so does the chat when an execution
  returns the status `error` (8041). A gateway task without payment fails without a word,
  and with payment it fails too, because `_run_agent` imports a name that does not exist.
* On the event loop an approval request is not delivered before the wait for its answer
  times out, and a time-out dispatches (`core.py:1033`). A cancellation denies only the
  first pending approval (`server.py:4121`).
* Pings keep the organizer from looking at the monitoring time (`core.py:4268`).
* In rounds: `local_only` for a plan without a local part runs nothing and fails; a failed LLM
  call falls back to "local only" and still gets remote members; an error of the local
  part fails a task whose remote result was accepted; an aborted chain with a local success
  counts as one; all remote parts failed and the local one skipped is "partial"; an exception
  in a parallel dispatch loses the results of all nodes (2000); completed workers may exceed
  their total (2371); the fall-back to the step contents replaces a short accepted answer
  (2556). An empty `assigned_to` matches every name; two nodes with one wallet become
  one; a node chosen under its marketplace id is not found once it is connected.
* A client that disconnects ends the generator of a chat response, so that coming back
  shows no more steps than were buffered (the docstring at `server.py:6758` promises none is
  lost); it may also miss the result, which is buffered after the task is settled. When the
  buffer is gone, a return shows what the task has recorded, without the steps of `run_crew`
  (7293, 7485) and in the order of the record, not of the queue.

Progress:

* After a cancellation by the user, late steps show "executing" again until the execution
  ends. A step turns the phase "dispatching" back to "routing" (`server.py:5678`).
* The chat takes over a node's own progress (`server.py:7109`), so that "completed" and 100 %
  can be shown early; steps of the organizer take its percentage back to 25; and it marks
  every worker it saw as completed, even after a time-out.
* `completed_workers` may exceed `total_workers`, which a remote step sets to the number of
  known nodes; a percentage reported without a phase is ignored.

Network:

* The payment row is saved before the price is booked, two nodes of one name are charged
  once (`server.py:5522`), and with another token symbol the income is not parsed (5404).
* The status endpoint takes an unlisted row for a listing (3670); a join during the stop of
  the heartbeat loop leaves the node without one (`central_client.py:350`); after a
  delisting, heartbeats get a 409 for ever (194).
* LAN service: a start inside a stop leaves it marked running without a socket
  (`server.py:2681`, `discovery.py:364`); starting a scan makes the node visible.
* A failing back-connection during a new handshake removes the peer (2513).

Services:

* Concurrent allocations of a runtime leave one that is never closed (`adapter.py:1225`);
  the first commands of a new runtime are not shown (`server.py:651`). Two commands at once
  in one runtime may get one number, or be logged against their numbers
  (`adapter.py:603`); one that is logged after a synchronisation has read its number or a
  larger one is never shown (`server.py:661`).
* The dashboard keeps a stale status when snapshots tie and may write it to the table
  (`agentStore.ts` 1257, 627); an event between replay and subscription is lost
  (`server.py:4490`). A break between the two messages of a first connection leaves the client
  with the number of a list it does not have (`server.py:4486`): the stream then never brings
  the list, only the snapshot asked for on the return does.
* A job whose execution returns a failure counts as a success (`scheduler/service.py:191`).
* A summary of a memory scope keeps only the number of entries of the summaries it replaces; more
  than eight large entries exceed the budget for good; a reset during a compaction
  lets content come back as a summary.
* A result of `run_code` is asked for an `exit_code` it does not have, so that the code is run
  again on the other runtime; a command that timed out is started again (`manager.py:693`).
  Sandboxes outside the pool are never stopped, `max_size` and `idle_timeout` of the pool
  are not enforced, and its `asyncio.Lock` is shared across loops, where a waiter may not be
  woken. Two interpreters at once swap the output of the process (`interpreter.py:161`), and
  code that loops is never ended: `run_code` sets no time-out (`openhands_tools.py:107`) and the
  interpreter ignores the one it has, so that such a call keeps its thread for good.
* Executions use workers that are marked offline (`server.py` 6017, 6267, 7503; the docstring
  at 4826 says that they are excluded).
* Compaction does nothing for six messages or fewer (`agent/context.py:121`), and may leave
  tool replies without their call. The text of a failed LLM call counts as a local success.
* After `POST /api/config/reload` the endpoints go on to serve and change the old object
  (`docs/api.md:58`; `server.py:2242`), and the new one has another `an_id` (`identity.py:31`).
* Changing the mode of x402 keeps the network "mock" (`types.py:331`). Outside mock mode no
  payload can be parsed (`gate.py:385`), so that all payments are refused, and those of the
  local channel too (`server.py:5303`). The configured mode is ignored at the start.
* Saving a setting over a file that cannot be parsed resets all other settings.
* A binding without criteria scores 0 and never wins. An answer that was begun before a reset
  of its session is recorded after it. A call of the gateway with a task id leaves
  another task pending. Transcripts are read oldest first with a limit, as wallets are.
* The milestones of the timeline are told apart by the task id on the remote node
  (`task_progress.py`), which is the same on all nodes, so that equal milestones of two nodes are
  shown once.

## 6. Proofs

`TaskManagerProofs` proves, for any sets of ids, nodes, results and errors and
any limits, every property that the run `task_manager` checks:

* `Inductive`, `TypeCorrect`, `RecordsMatch`;
* the action properties `OutcomesStick`, `StepsKept` and `DropsOldestFirst`, and
  `HistoryKept`, which joins the last two;
* `Refinement`: the table implements `TaskOutcome`.

The inductive invariant `IInv` is the type of the table with `Task` replaced by
`GoodTask`, the records that are consistent. Type and consistency are not
inductive apart from each other: `complete_task` leaves `error` alone, so "an
error exactly in failed tasks" survives only because the guard excludes failed
tasks and a task that is not failed has none. The work is done per record: one
lemma per function of `TaskRecord` says that it maps a good record on which its
guard holds to a good record. One lemma lifts this to the table. The theorem
then has one step per action.

`DropsOldestFirst` is about counting: a task is evicted when fewer older finished
tasks exist than tasks above the limit. If a finished task stays while a younger
one goes, the older ones of the first are among the older ones of the second, so
the count that evicted the younger evicts it too. This needs finite sets, hence
`TableFinite`.

The assumptions are `NoneAssumption` (Python's `None` is no node, result or
error) and `ManagerAssumption` (the bounds are numbers, the callers' types and
phases exist). TLC evaluates both in the run.

The other proofs are about an inductive invariant `IInv` each, for any values of the
constants that the module's named assumption allows; TLC checked every `IInv` before it was
proved. Beside the type it holds what the properties need:

* `RoutingApprovalProofs` (`LastAnswerCounts`, `DispatchesAreAllowed`): no two executions
  wait for one approval, an approval in the table holds the answer accepted last, and it is
  out of the table when the execution acts on it. What the answer leads to is then a matter
  of the stage (`StageFollows`).
* `DelegationProofs` (`ExecutionsMatchStatus`, `ResultIsNew`, `PaymentsAgree`): a worker whose
  task does not run has used one execution less than it may; an answer "ok" is given while
  the task runs, so that a completed task behind it was completed since; a payment row
  outlives everything, so that an income is booked once, and in the first round every task
  came with its payment. The last is true of the token symbol ETH only, as in the run.
  `OutcomeJustified`, of the rounds: each round adds one entry, and the best result is that of
  a round and not beaten by more than a tie; until the rounds end none of their results was
  accepted; and each target of the plan has answered or is still asked, unless a chain broke
  off or the dispatch raised.
  `PlanIsSound`, of the plans (`PlansAreSound`): from the binding to the approval the snapshot
  is a pool, with the local team first and no two entries that share a key (`Pools`,
  `PoolsAreBuilt`); what is to be approved is a list that is not empty, names members of that
  pool, and each remote one once (`Lists`). The repair of the planner's answer takes an item
  only if its member is not in the list yet (`ParsedIs`); the fill-up adds members that are not
  in it, and as many as are missing exist, since a list of distinct members is no longer than
  the pool (`NamesAll`, `FilledIs`); the ranking is a permutation of the members, as ties are
  broken by position (`RankedIs`), so that its first `n` are `n` different ones
  (`ScoringIs`). That the loops' functions exist, and what holds after each record and each
  item, is proved from the least number for which it would not (`Repeated`, `LeastNat`).
* `MarketplaceProofs` (`ListingFollowsNode`): tokens have ids of their own, so the deletion of a
  user takes no node of another along; the age of a row is less than an interval for each
  heartbeat lost in a row and one more, so less than the threshold; a leave that nobody
  disturbs leaves no call behind that lists the node again.
* `NodeProofs` (`OfflineHasCause` of `PeerNetwork`): a health loop has one probe under way, so
  that an entry that was replaced under it is offline only by a notification; nobody connects
  to itself.
* `NodeProofs`, about the composition `ExecutionSpec`, has an invariant per part.
  `SharedIsReturned`: who starts a sandbox holds the lock and found none for its key; who
  holds it is at work under it, the queue has exactly those who wait, and when the lock is free
  its first waiter has been called and no other (`LockIsPassedOn`, the safety half of
  `CallsReturn`), since every way out of the critical section passes it on; the
  registry counts the wrappers that hold the manager's tools, and the tools it saved are the
  manager's own. `CallsAreAnswered`: a call of a tool has its reply or is among the last ones
  pending, so that an end of the conversation has the replies of its calls, which is what
  compaction keeps. `LocalOutcomeJustified`: another round begins only after a text that could
  be better, with rounds left. `ShownInOrder`, the safety half of `CommandsAreShown`: an
  entry that is shown, and all before it in its log, are numbered no higher than what was
  read, so that a later reading, of higher numbers, is of later entries (`ReadInOrder`); and the
  number read is that of an entry that was shown, which is the cause for one that is passed over
  (`Cause`).
  `ExecutionTypeOK`: among it, that a call is started three times at most, once and once more
  for each of its two fall-backs.
* `ObservationProofs` (`OffKnowsNobody` of `LanDiscovery`): what a service without a socket
  still knows waits for a stop under way; a node that is down is off and knows nobody; nobody
  sends to itself.
* `ObservationProofs`, about the composition `ConversationsSpec`, has an invariant per part.
  `SuccessReal`, the safety half of `OutcomeIsLearnt`: a line that says completed, in
  the queue or on the wire, was written when the task was, which it stays (`LinesTrue`); only
  such a line, or the poll of a completed task, gives the verdict success.
  `ShownTrue`, of the progress: neither what is shown nor what any thread has read and will
  write is that of the end while the execute endpoint's task runs (`NothingDone`), whose
  percentages are bounded although the mean of the nodes' reports is not computed from the
  phase (`BlendedBounded`); then the other threads are joined (`Quiet`), and the last step of
  the organizer leaves the end as it is (`LastStep`).
  `ShownTrue`, of the chat: the record has each step once, and a place of it stays what it is
  or gets the number of the step put for it (`Records`, `RecordMoves`, `RecordFollows`), so that
  what a return copied from it (`ShownSome`, `Copied`) shows no step twice. The buffer counts the
  steps. There are numbers `k[i]` such that
  the steps among its first `i` events are the first `k[i]` ones; the queue goes on from there,
  and the view has shown those of the events it has looked at (`StepsFollow`). A view that
  returns takes the events anew, one after the other (`AfterEvents`, a recursive function);
  what holds after each of them is proved from the least number of events after which it would
  not (`LeastNat`, `AfterEventsMakes`).
  `ConversationsTypes`: a subscriber is in the list of listeners, once, exactly while its
  endpoint is between `add_listener` and `remove_listener` (`ListenersInv`); the crew's steps
  of a round are bounded, and begin anew with each round (`WorkBounded`).
* `EventFeedProofs`: `NoneSkipped` is the action property `[][NothingSkipped']_vars`, the
  safety half of `FeedIsComplete`: a connection replays, is then listed, and the replay and
  the queue each follow the client's last id without a gap unless something is known lost. The
  two lists of a first connection carry the number of the last event, from which the replay
  that follows them goes on.

* `ServicesProofs`, about the composition `ServicesSpec`, has an invariant per service.
  `RunsAreSpaced`: as long as no second loop was started there is one, and what it made
  ready stays due until it begins. `PaymentsFollowSettings`: a configuration always has an
  address, that of the start is the one shown, and whoever was charged is recorded.
  `ToldAsSettled`: for each place of a call, what has been settled, told and stored by then,
  which no other call disturbs since ids and rows belong to one call. `CrewFollowsAgents`: the
  model of a live worker is that of the override its crew was built with, or has had since,
  under the worker's id; the overrides are compared with the agents table at each request.
  `NothingLost`, of the memory: all that was saved is accounted for by the entries that no
  thread is about to delete (`Accounted`), and what a thread has selected is older than the
  newest entry (`NewestStays`). Of the wallet: ledger and balance are what a list of
  transactions in the order of their timestamps makes of them, whatever rows and threads are
  behind (`Booked`); timestamps differ, so there is one such list of given transactions
  (`OneOrder`), and a restart reads it from the rows (`InOrderIs`). What a balance sums up to
  is a recursive function; that it exists, and what one more transaction adds, is proved from
  the least number for which it would not (`Repeated`, `SummedAppend`).
  `ServicesTypeOK`: among it, that a transcript holds each message once: a call speaks as it
  comes in and once more at its end (`Spoken`).

The assumptions are `NoneAssumption` (Python's `None` is no node, result or error) and one
named assumption per module that says that bounds are numbers, that thresholds keep the order
of the configuration, and that sets are finite where they are counted. TLC evaluates each in
the run of its module.

Model-checked only:

* Everything under fairness (`EveryRunEnds`, `OutcomeIsLearnt`, `GhostsLeave`,
  `HalfLinksLeave`, the second half of `FeedIsComplete`, `PoolCatchesUp`, `CallsReturn`,
  `CommandsAreShown`), since the prover does not handle liveness and `ENABLED`.
* What the remaining folds, selections and sums compute (the roster of `LocalCrew`, the
  characters in `AgentMemory`, the tokens in `AgentLoop`, the scores of `QualityGate`): the
  library's theorems on them take operators as parameters, with which the prover cannot
  instantiate them. The proofs hold whatever these compute.

## 7. Abstractions and limits

* LLM calls, results, prompts, costs: a result is a value or a kind of text, an answer of
  the planner a choice among kinds of answers.
* In `Delegation` payment is in mock mode, the configured default, with a configured
  merchant; `NodeSettings` has the other modes.
* `Delegation` has no local subtasks and no second run of the organizer's task;
  a worker's endpoint is one step up to its first suspension, so a crash in the
  middle of it is left out. In `RoutingApproval` a task is submitted again only
  when its previous execution is over. `RefinementRounds` leaves out the guard for settled
  tasks and cancellations (they are in `RoutingApproval`), exceptions inside the gate, and
  what a step of a chain learns from the one before.
* `TaskStream` and `ChatTask` deliver updates that cross threads at once; the loop delivers
  them in order, so this loses only a delay. `ChatTask` leaves out heartbeats and the
  chunks of a text.
* `PeerNetwork`'s `Restart` is a crash: the notifications of an orderly shutdown are left
  out, which makes it the harder case. `LanDiscovery` leaves out the broadcast endpoint.
* `SandboxPool` leaves out files and browsers. `AgentLoop` has sizes in units of the context
  window. `CoordinatorRun` makes the run of one agent a text. `LocalCrew` has no WebSocket
  client, so that its requests are steps. `StepProgress` leaves out the counts of workers
  and the percentages of sequential dispatch.
* `AgentMemory` counts the store; the vector index and the log follow it. `WalletLedger`
  has one initial balance for a new process and a restored wallet, as the shipped
  configuration has. A synchronisation of sandboxes is atomic but for its wait.
* Bounds, all in guards: `MaxClock`, `MaxSteps`, `MaxRequested`, `MaxRuns`,
  `MaxUpdates`, `MaxCancels`, `MaxRestarts`, `MaxTime`, `MaxActive`, `MaxBreaks`, `Steps`,
  `MaxCalls`, `TokenIds`, `MaxRuntimes`, `MaxCommands`, `MaxReturns`, `MaxSaves`, `MaxBooked`,
  `MaxToolCalls`, `MaxWork`, `MaxReports`, `MaxTurns`.
  `Checkers`, `Users`, `MayLink` restrict who acts. `MaxRounds`, `MaxLocalRounds`, `MaxIterations`, `QueueSize`, `MaxHistory` and
  the settings of clean-up, memory and ledger are the code's own.
* Not modelled, with the reason, are the components `PROJECT.json` lists so. Most of the
  rest of the repository is views of the web interface, start-up, hosts of sandboxes, prompts and
  formatting, which have no behaviour for a model checker.
