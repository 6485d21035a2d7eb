------------------------------ MODULE Scheduler ------------------------------
(***************************************************************************)
(* The scheduler of recurring jobs (scheduler/service.py) without           *)
(* APScheduler: a loop that looks every few seconds which jobs are due and   *)
(* starts each as a task of the event loop; executions that end well or      *)
(* raise; and a job that raises too often in a row is disabled.  A stopped   *)
(* loop ends only when it wakes up, so that a scheduler that is started again*)
(* before has two of them.                                                   *)
(***************************************************************************)
EXTENDS Naturals, FiniteSets

CONSTANTS Jobs,
          Loops,      \* instances of the fall-back loop
          Sleep,      \* its pause
          Interval,   \* interval_seconds of every job
          MaxErrors,  \* max_errors
          MaxTime,    \* bound: the clock
          MaxActive   \* bound: executions of one job under way

SchedulerAssumption ==
  /\ {Sleep, Interval, MaxErrors} \subseteq Nat \ {0}
  /\ {MaxTime, MaxActive} \subseteq Nat
  /\ IsFiniteSet(Loops)

VARIABLES now,
          running,  \* _running
          alive,    \* the loops that have not ended
          wake,     \* when each of them wakes up
          jobs,     \* _jobs, each job with its fields
          ready,    \* tasks that have been created and have not begun
          active,   \* executions under way
          began,    \* history: when a job was last executed
          doubled   \* history: were two loops alive at the same time?

loopVars == <<running, alive, wake>>
vars == <<now, loopVars, jobs, ready, active, began, doubled>>

Never == MaxTime + Interval + 1
NewJob == [stored |-> "no", enabled |-> TRUE, last |-> Never, errors |-> 0]

Init ==
  /\ now = 0 /\ running = FALSE /\ alive = {} /\ wake = [l \in Loops |-> 0]
  /\ jobs = [j \in Jobs |-> NewJob]
  /\ ready = {} /\ active = [j \in Jobs |-> 0]
  /\ began = [j \in Jobs |-> Never] /\ doubled = FALSE

Tick ==
  /\ now < MaxTime
  /\ now' = now + 1
  /\ UNCHANGED <<loopVars, jobs, ready, active, began, doubled>>

\* The id of a job that was removed is not used again.
AddJob(j) ==
  /\ jobs[j].stored = "no"
  /\ jobs' = [jobs EXCEPT ![j].stored = "yes"]
  /\ UNCHANGED <<now, loopVars, ready, active, began, doubled>>

RemoveJob(j) ==
  /\ jobs[j].stored = "yes"
  /\ jobs' = [jobs EXCEPT ![j].stored = "removed"]
  /\ UNCHANGED <<now, loopVars, ready, active, began, doubled>>

\* start() of a scheduler that runs does nothing; its new loop begins at once.
Start ==
  /\ ~running
  /\ running' = TRUE
  /\ \E l \in Loops \ alive : alive' = alive \cup {l} /\ wake' = [wake EXCEPT ![l] = now]
  /\ doubled' = (doubled \/ alive # {})
  /\ UNCHANGED <<now, jobs, ready, active, began>>

Stop ==
  /\ running
  /\ running' = FALSE
  /\ UNCHANGED <<now, alive, wake, jobs, ready, active, began, doubled>>

Due(j) ==
  /\ jobs[j].stored = "yes" /\ jobs[j].enabled
  /\ jobs[j].last = Never \/ now >= jobs[j].last + Interval

\* The event loop begins tasks in the order of their creation: those of a loop have
\* begun before it wakes up again.
Wake(l) ==
  /\ l \in alive /\ now >= wake[l]
  /\ \A j \in Jobs : <<l, j>> \notin ready
  /\ IF running
     THEN /\ ready' = ready \cup {<<l, j>> : j \in {k \in Jobs : Due(k)}}
          /\ wake' = [wake EXCEPT ![l] = now + Sleep]
          /\ UNCHANGED alive
     ELSE /\ alive' = alive \ {l}
          /\ wake' = [wake EXCEPT ![l] = 0]
          /\ UNCHANGED ready
  /\ UNCHANGED <<now, running, jobs, active, began, doubled>>

\* last_run is set when the execution begins.  (The mutated form leaves it as it is.)
BegunUnmarked(job) == job

Begun(job) == [job EXCEPT !.last = now]

\* _execute_job up to its first await.
Begin(l, j) ==
  /\ <<l, j>> \in ready
  /\ ready' = ready \ {<<l, j>>}
  /\ IF jobs[j].stored = "yes" /\ jobs[j].enabled
     THEN /\ active[j] < MaxActive
          /\ active' = [active EXCEPT ![j] = @ + 1]
          /\ jobs' = [jobs EXCEPT ![j] = Begun(@)]
          /\ began' = [began EXCEPT ![j] = now]
     ELSE UNCHANGED <<jobs, active, began>>
  /\ UNCHANGED <<now, loopVars, doubled>>

\* A result counts as a success, also one whose status is an error.
Succeed(j) ==
  /\ active[j] > 0
  /\ active' = [active EXCEPT ![j] = @ - 1]
  /\ jobs' = [jobs EXCEPT ![j].errors = 0]
  /\ UNCHANGED <<now, loopVars, ready, began, doubled>>

\* (The mutated form never disables the job.)
RaisedUnlimited(job) == [job EXCEPT !.errors = @ + 1]

Raised(job) ==
  [job EXCEPT !.errors = @ + 1, !.enabled = @ /\ job.errors + 1 < MaxErrors]

Raise(j) ==
  /\ active[j] > 0
  /\ active' = [active EXCEPT ![j] = @ - 1]
  /\ jobs' = [jobs EXCEPT ![j] = Raised(@)]
  /\ UNCHANGED <<now, loopVars, ready, began, doubled>>

Next ==
  \/ Tick \/ Start \/ Stop
  \/ \E l \in Loops : Wake(l) \/ \E j \in Jobs : Begin(l, j)
  \/ \E j \in Jobs : AddJob(j) \/ RemoveJob(j) \/ Succeed(j) \/ Raise(j)

Spec == Init /\ [][Next]_vars

-----------------------------------------------------------------------------
(* Properties.                                                               *)

\* The variables have their types.  An error count exceeds its limit only by the
\* executions that were under way when the job was disabled.
TypeOK ==
  /\ now \in 0 .. MaxTime /\ running \in BOOLEAN /\ doubled \in BOOLEAN
  /\ alive \subseteq Loops /\ wake \in [Loops -> 0 .. MaxTime + Sleep]
  /\ jobs \in [Jobs -> [stored : {"no", "yes", "removed"}, enabled : BOOLEAN,
                        last : 0 .. MaxTime \cup {Never},
                        errors : 0 .. MaxErrors + MaxActive - 1]]
  /\ ready \subseteq Loops \X Jobs /\ active \in [Jobs -> 0 .. MaxActive]
  /\ began \in [Jobs -> 0 .. MaxTime \cup {Never}]

\* A job is executed again only after its interval, however long its executions take
\* and however late the event loop begins them, unless a scheduler that was stopped
\* and started at once has had two loops; and never after it is removed or disabled
\* (service.py: interval_seconds, "run every N seconds").
RunsAreSpaced ==
  [][\A l \in Loops, j \in Jobs :
       Begin(l, j) /\ active'[j] > active[j] =>
         /\ jobs[j].stored = "yes" /\ jobs[j].enabled
         /\ doubled \/ began[j] = Never \/ now >= began[j] + Interval]_vars

=============================================================================
