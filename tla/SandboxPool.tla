------------------------------ MODULE SandboxPool ------------------------------
(***************************************************************************)
(* How a tool of an agent runs a command or a piece of code: the tools of    *)
(* agent/tools/openhands_tools.py, the choice of a runtime and the fall-backs *)
(* of runtime/manager.py, and the pool of sandboxes of                       *)
(* runtime/sandbox/pool.py with the sandboxes it starts.                     *)
(*                                                                         *)
(* Tools run in threads that each have an event loop of their own, and       *)
(* the pool's asyncio.Lock is shared by all of them.  Such a lock takes the   *)
(* first loop that has to wait for it and refuses the others; a release from  *)
(* another loop sets the waiter's future but does not wake its loop.  Between *)
(* two awaits a thread makes one step.                                       *)
(***************************************************************************)
EXTENDS Naturals, Sequences, FiniteSets

CONSTANTS Calls, Tasks,
          TaskOf,        \* the task whose context the thread of a call has, or NoTask
          NoTask,
          LoopOf,        \* the event loop a call, or the end of a task, runs on
          IsCode,        \* the calls that run code; the others run commands
          Default        \* runtime.default: "openhands", "sandbox" or "local"

Actors == Calls \union Tasks
Keys == Tasks \union {NoTask}
Nobody == "nobody"

ASSUME PoolAssumption ==
  /\ NoTask \notin Tasks /\ Calls \cap Tasks = {} /\ Nobody \notin Actors
  /\ IsFiniteSet(Calls) /\ IsCode \subseteq Calls
  /\ \A c \in Calls : TaskOf[c] \in Keys
  /\ \A c \in Calls, a \in Actors : LoopOf[c] = LoopOf[a] => a = c
  /\ Default \in {"openhands", "sandbox", "local"}

VARIABLES
  known,      \* the cached availability of Docker: "up", "down", or "none" (expired)
  boxes,      \* _sandboxes: the keys that have a sandbox
  inUse,      \* _in_use: the keys marked as in use
  running,    \* how many sandboxes that the pool created run for each key
  holder,     \* who holds the lock, or nobody
  lockLoop,   \* the loop the lock is bound to, or none
  queue,      \* those who wait for the lock, in order
  called,     \* waiters whose future is set
  deaf,       \* those of them whose loop was not woken
  at,         \* where each call, and the end of each task, is
  asCode,     \* calls that still run code, not a command
  nested,     \* calls for which OpenHands is the last resort
  runs,       \* how often the command or code of a call was started
  up          \* the process runs

poolVars == <<boxes, inUse, running>>
lockVars == <<holder, lockLoop, queue, called, deaf>>
callVars == <<asCode, nested, runs>>
spVars == <<known, poolVars, lockVars, at, callVars, up>>

PoolInit ==
  /\ known = "none"
  /\ boxes = {} /\ inUse = {} /\ running = [k \in Keys |-> 0]
  /\ holder = Nobody /\ lockLoop = Nobody /\ queue = <<>> /\ called = {} /\ deaf = {}
  /\ at = [a \in Actors |-> "idle"]
  /\ asCode = IsCode /\ nested = {}
  /\ runs = [c \in Calls |-> 0]
  /\ up = TRUE

-----------------------------------------------------------------------------
(* The cached answer about Docker (get_docker_availability); Docker may come  *)
(* and go, so a new check has either answer.                                 *)

CacheExpires == /\ known # "none" /\ known' = "none"
                /\ UNCHANGED <<poolVars, lockVars, at, callVars, up>>

Answers == IF known # "none" THEN {known} ELSE {"up", "down"}

Goto(a, place) == at' = [at EXCEPT ![a] = place]

-----------------------------------------------------------------------------
(* The lock of the pool.                                                     *)

\* An actor that wants the lock gets it, waits for it, or is refused with an error:
\* the lock is bound to another loop.
Free == holder = Nobody /\ queue = <<>>
Refused(a) == ~Free /\ lockLoop \notin {Nobody, LoopOf[a]}

\* (The mutated form does not look whether it is held.)
TakeLockAnyway(a) ==
  /\ at[a] = "acquire"
  /\ holder' = a /\ Goto(a, "hold")
  /\ UNCHANGED <<lockLoop, queue, called, deaf>>
  /\ UNCHANGED <<known, poolVars, callVars, up>>

TakeLock(a) ==
  /\ at[a] = "acquire"
  /\ \/ /\ Free
        /\ holder' = a /\ Goto(a, "hold")
        /\ UNCHANGED <<lockLoop, queue, called, deaf>>
     \/ /\ ~Free /\ ~Refused(a)
        /\ lockLoop' = LoopOf[a]
        /\ queue' = Append(queue, a) /\ Goto(a, "wait")
        /\ UNCHANGED <<holder, called, deaf>>
     \/ /\ Refused(a)
        /\ Goto(a, IF a \in Calls THEN "unpooled" ELSE "over")
        /\ UNCHANGED lockVars
  /\ UNCHANGED <<known, poolVars, callVars, up>>

\* The loop of a waiter hears of its future when it was woken, or is busy anyhow.
Hears(a) ==
  \/ a \notin deaf
  \/ \E b \in Actors \ {a} : LoopOf[b] = LoopOf[a] /\ at[b] \notin {"idle", "wait", "over"}

GetLock(a) ==
  /\ at[a] = "wait" /\ a \in called /\ holder = Nobody /\ Hears(a)
  /\ holder' = a /\ Goto(a, "hold")
  /\ \E i \in DOMAIN queue : /\ queue[i] = a
                             /\ queue' = SubSeq(queue, 1, i - 1) \o SubSeq(queue, i + 1, Len(queue))
  /\ called' = called \ {a} /\ deaf' = deaf \ {a}
  /\ UNCHANGED <<known, poolVars, lockLoop, callVars, up>>

\* The first waiter is called, unless it was.  The loop of another thread may be
\* about to look at its callbacks, or asleep.
Unlock(a) ==
  /\ holder' = Nobody
  /\ UNCHANGED <<lockLoop, queue>>
  /\ IF queue = <<>>
     THEN UNCHANGED <<called, deaf>>
     ELSE /\ called' = called \union {Head(queue)}
          /\ \/ UNCHANGED deaf
             \/ /\ Head(queue) \notin called /\ LoopOf[Head(queue)] # LoopOf[a]
                /\ deaf' = deaf \union {Head(queue)}

-----------------------------------------------------------------------------
(* Acquiring a sandbox: of the pool, under the lock, or without it.           *)

\* In the context of a task its calls share a sandbox; outside of it, all calls do.
Key(c) == TaskOf[c]

Found(c) ==
  /\ at[c] = "hold" /\ c \in Calls
  /\ Key(c) \in boxes
  /\ inUse' = inUse \union {Key(c)}
  /\ Unlock(c) /\ Goto(c, "ready")
  /\ UNCHANGED <<known, boxes, running, callVars, up>>

\* Without Docker the pool raises.  (The mutated form keeps the lock.)
CheckDockerHolding(c) ==
  /\ at[c] = "hold" /\ c \in Calls
  /\ Key(c) \notin boxes
  /\ known' \in Answers
  /\ Goto(c, IF known' = "up" THEN "starting" ELSE "unpooled")
  /\ UNCHANGED <<lockVars, poolVars, callVars, up>>

CheckDocker(c) ==
  /\ at[c] = "hold" /\ c \in Calls
  /\ Key(c) \notin boxes
  /\ known' \in Answers
  /\ \/ known' = "up" /\ Goto(c, "starting") /\ UNCHANGED lockVars
     \/ known' = "down" /\ Goto(c, "unpooled") /\ Unlock(c)
  /\ UNCHANGED <<poolVars, callVars, up>>

\* The container of a new sandbox starts, or Docker refuses it.
StartPooled(c) ==
  /\ at[c] = "starting" /\ Unlock(c)
  /\ \/ /\ running' = [running EXCEPT ![Key(c)] = @ + 1]
        /\ boxes' = boxes \union {Key(c)} /\ inUse' = inUse \union {Key(c)}
        /\ Goto(c, "ready")
     \/ Goto(c, "unpooled") /\ UNCHANGED poolVars
  /\ UNCHANGED <<known, callVars, up>>

\* get_sandbox after an error of the pool: a sandbox of the call's own, which nothing
\* stops; a local one without Docker, or else a container, which may not start.
Unpooled(c) ==
  /\ at[c] = "unpooled"
  /\ known' \in Answers
  /\ \/ Goto(c, "ready")
     \/ known' = "up" /\ Goto(c, "failed")
  /\ UNCHANGED <<poolVars, lockVars, callVars, up>>

-----------------------------------------------------------------------------
(* Running it.                                                               *)

Started(c) == runs' = [runs EXCEPT ![c] = @ + 1]

\* Execute, or run_code; code is executed as a command on the local runtime.
Call(c) ==
  /\ at[c] = "idle"
  /\ Goto(c, IF Default = "sandbox" THEN "acquire" ELSE Default)
  /\ UNCHANGED <<known, poolVars, lockVars, callVars, up>>

\* OpenHands has no runtime: the sandbox is tried, unless it was.
NoOpenHands(c) ==
  /\ at[c] = "openhands"
  /\ Goto(c, IF c \in nested THEN "over" ELSE "acquire")
  /\ UNCHANGED <<known, poolVars, lockVars, callVars, up>>

RunOpenHands(c) ==
  /\ at[c] = "openhands"
  /\ Started(c) /\ Goto(c, "over")
  /\ UNCHANGED <<known, poolVars, lockVars, asCode, nested, up>>

RunLocal(c) ==
  /\ at[c] = "local"
  /\ Started(c) /\ Goto(c, "over")
  /\ UNCHANGED <<known, poolVars, lockVars, asCode, nested, up>>

RunInSandbox(c) ==
  /\ at[c] = "ready"
  /\ Started(c) /\ Goto(c, "running")
  /\ UNCHANGED <<known, poolVars, lockVars, asCode, nested, up>>

\* A command ends with its exit code.
Ends(c) ==
  /\ at[c] = "running" /\ c \notin asCode
  /\ Goto(c, "over")
  /\ UNCHANGED <<known, poolVars, lockVars, callVars, up>>

\* The shell gives a command up, whose process goes on.
TimesOut(c) ==
  /\ at[c] = "running" /\ c \notin asCode
  /\ Goto(c, "failed")
  /\ UNCHANGED <<known, poolVars, lockVars, callVars, up>>

\* Python code is executed in the thread of the call itself, where the time-out is not
\* looked at, and may never end.  Reading the exit code fails, because the result of
\* code has none; code that exits the interpreter ends the call.
CodeEnds(c) ==
  /\ at[c] = "running" /\ c \in asCode
  /\ Goto(c, "failed") \/ Goto(c, "over")
  /\ UNCHANGED <<known, poolVars, lockVars, callVars, up>>

\* Any error with the sandbox leads to OpenHands, and code is first made a command
\* when OpenHands was missing already.
FallBack(c) ==
  /\ at[c] = "failed"
  /\ Goto(c, "openhands")
  /\ \/ /\ Default = "openhands" /\ c \in asCode
        /\ asCode' = asCode \ {c} /\ UNCHANGED nested
     \/ /\ Default = "sandbox" \/ c \notin asCode
        /\ nested' = nested \union {c} /\ UNCHANGED asCode
  /\ UNCHANGED <<known, poolVars, lockVars, runs, up>>

-----------------------------------------------------------------------------
(* The end of a task, and of the process.                                    *)

\* The execution of a task is over: its sandbox is released, and goes on running.
TaskEnds(t) ==
  /\ t \in Tasks /\ at[t] = "idle"
  /\ \A c \in Calls : TaskOf[c] = t => at[c] = "over"
  /\ Goto(t, "acquire")
  /\ UNCHANGED <<known, poolVars, lockVars, callVars, up>>

Release(t) ==
  /\ t \in Tasks /\ at[t] = "hold"
  /\ inUse' = inUse \ {t}
  /\ Unlock(t) /\ Goto(t, "over")
  /\ UNCHANGED <<known, boxes, running, callVars, up>>

\* Shutdown at the exit: the sandboxes of the pool are stopped when the lock is free.
Exit ==
  /\ up' = FALSE
  /\ IF Free THEN /\ running' = [k \in Keys |-> IF k \in boxes THEN running[k] - 1 ELSE running[k]]
                  /\ boxes' = {} /\ inUse' = {}
             ELSE UNCHANGED poolVars
  /\ UNCHANGED <<known, lockVars, at, callVars>>

CallStep(c) ==
  \/ Found(c) \/ CheckDocker(c) \/ StartPooled(c) \/ Unpooled(c)
  \/ NoOpenHands(c) \/ RunOpenHands(c) \/ RunLocal(c)
  \/ RunInSandbox(c) \/ Ends(c) \/ TimesOut(c) \/ FallBack(c)

LockStep(a) == TakeLock(a) \/ GetLock(a) \/ Release(a)

PoolNext ==
  /\ up
  /\ \/ CacheExpires \/ Exit
     \/ \E c \in Calls : Call(c) \/ CallStep(c) \/ CodeEnds(c)
     \/ \E a \in Actors : LockStep(a)
     \/ \E t \in Tasks : TaskEnds(t)

\* A command ends or times out, Docker and OpenHands answer, if with an error, and a
\* thread or loop that can go on does.  Code need not end.
PoolFairness ==
  /\ \A c \in Calls : WF_spVars(up /\ CallStep(c))
  /\ \A a \in Actors : WF_spVars(up /\ LockStep(a))

PoolSpec == PoolInit /\ [][PoolNext]_spVars /\ PoolFairness

-----------------------------------------------------------------------------
PoolTypeOK ==
  /\ up \in BOOLEAN /\ known \in {"none", "up", "down"}
  /\ boxes \subseteq Keys /\ inUse \subseteq boxes
  /\ running \in [Keys -> 0 .. Cardinality(Calls)]
  /\ holder \in Actors \union {Nobody} /\ called \subseteq Actors /\ deaf \subseteq called
  /\ at \in [Actors -> {"idle", "acquire", "wait", "hold", "starting", "unpooled", "ready",
                        "running", "failed", "openhands", "local", "over"}]
  /\ asCode \subseteq IsCode /\ nested \subseteq Calls
  /\ runs \in [Calls -> 0 .. 3]

\* The pool loses no sandbox: each sandbox it created and that still runs is the one
\* it has for its key, so the shutdown stops it.  Creating one takes seconds, during
\* which other calls of the same task ask for theirs.
PoolLosesNone == \A k \in Keys : running[k] = IF k \in boxes THEN 1 ELSE 0

\* The lock goes round however calls fail, code falls back and Docker comes and goes: it is
\* held exactly by the one who works under it, who waits is in its queue, once, and when
\* it is free its first waiter has been called, and nobody else has.
LockIsPassedOn ==
  /\ \A a \in Actors : at[a] \in {"hold", "starting"} <=> holder = a
  /\ \A a \in Actors : at[a] = "wait" <=> \E i \in DOMAIN queue : queue[i] = a
  /\ \A i, j \in DOMAIN queue : queue[i] = queue[j] => i = j
  /\ called \subseteq (IF queue = <<>> THEN {} ELSE {Head(queue)})
  /\ holder = Nobody /\ queue # <<>> => Head(queue) \in called

\* A call that asks for a sandbox gets an answer in the end, whatever fails on the
\* way.  Two things can keep it for ever: the lock, when its release came from another
\* event loop than the one that waits, and the code of the call itself.
Stuck == holder = Nobody /\ queue # <<>> /\ Head(queue) \in deaf
RunsCode(c) == at[c] = "running" /\ c \in asCode
CallsReturn ==
  \A c \in Calls : \/ <>[]RunsCode(c)
                   \/ at[c] = "acquire" ~> (at[c] = "over" \/ Stuck \/ ~up)

\* What the comment of _execute_with_fallback says: another runtime is tried when the
\* first one is unavailable, so nothing is started twice.
FallbackOnlyIfUnavailable == \A c \in Calls : runs[c] <= 1
=============================================================================
