---------------------------- MODULE ServicesProofs ----------------------------
(***************************************************************************)
(* Theorems about the services of a node.                                   *)
(***************************************************************************)
EXTENDS MCServices, FiniteSetTheorems, SequenceTheorems, WellFoundedInduction, TLAPS

-----------------------------------------------------------------------------
(* Scheduler.                                                                *)

Spaced(j) == jobs[j].last = Schedule!Never \/ now >= jobs[j].last + Interval

\* A job counts at most MaxErrors - 1 errors while it is enabled, and then those of
\* the executions that were under way.
ErrorsCounted ==
  \A j \in Jobs : IF jobs[j].enabled THEN jobs[j].errors < MaxErrors
                  ELSE jobs[j].errors + active[j] <= MaxErrors + MaxActive - 1

\* Tasks belong to loops that have not ended; without a restart there is one loop, and
\* what it has made ready is due until it begins.
LoopsInStep ==
  /\ \A j \in Jobs : jobs[j].last = began[j]
  /\ \A l \in Loops, j \in Jobs : <<l, j>> \in ready => l \in alive
  /\ ~doubled => \A l, k \in alive : l = k
  /\ ~doubled => \A l \in Loops, j \in Jobs : <<l, j>> \in ready => Spaced(j)

ScheduleInv == Schedule!TypeOK /\ ErrorsCounted /\ LoopsInStep

\* What one execution may not do to the spacing of a job.
SpacedStep ==
  \A l \in Loops, j \in Jobs :
    Schedule!Begin(l, j) /\ active'[j] > active[j] =>
      /\ jobs[j].stored = "yes" /\ jobs[j].enabled
      /\ doubled \/ began[j] = Schedule!Never \/ now >= began[j] + Interval

\* The constants of the scheduler.
LEMMA ScheduleConstants ==
  /\ Sleep \in Nat \ {0} /\ Interval \in Nat \ {0} /\ MaxErrors \in Nat \ {0}
  /\ MaxTime \in Nat /\ MaxActive \in Nat
  /\ Schedule!Never \in Nat /\ Schedule!Never > MaxTime
<1> QED BY ServicesAssumption DEF ServicesAssumption, Schedule!SchedulerAssumption, Schedule!Never

\* Every step of the scheduler keeps its invariant.
LEMMA ScheduleStep == ScheduleInv /\ Schedule!Next => ScheduleInv'
<1> SUFFICES ASSUME ScheduleInv, Schedule!Next PROVE ScheduleInv'
  OBVIOUS
<1> USE ScheduleConstants DEF ScheduleInv, Schedule!loopVars
<1>1. ASSUME Schedule!Tick PROVE ScheduleInv'
  <2>1. Schedule!TypeOK' /\ ErrorsCounted'
    BY <1>1 DEF Schedule!Tick, Schedule!TypeOK, ErrorsCounted
  <2>2. LoopsInStep'
    BY <1>1 DEF Schedule!Tick, Schedule!TypeOK, LoopsInStep, Spaced
  <2> QED BY <2>1, <2>2
<1>2. ASSUME Schedule!Start PROVE ScheduleInv'
  <2>1. Schedule!TypeOK' /\ ErrorsCounted'
    BY <1>2 DEF Schedule!Start, Schedule!TypeOK, ErrorsCounted
  <2>2. LoopsInStep'
    BY <1>2 DEF Schedule!Start, Schedule!TypeOK, LoopsInStep, Spaced
  <2> QED BY <2>1, <2>2
<1>3. ASSUME Schedule!Stop PROVE ScheduleInv'
  <2>1. Schedule!TypeOK' /\ ErrorsCounted'
    BY <1>3 DEF Schedule!Stop, Schedule!TypeOK, ErrorsCounted
  <2>2. LoopsInStep'
    BY <1>3 DEF Schedule!Stop, Schedule!TypeOK, LoopsInStep, Spaced
  <2> QED BY <2>1, <2>2
<1>4. ASSUME NEW l \in Loops, Schedule!Wake(l) PROVE ScheduleInv'
  <2>1. Schedule!TypeOK' /\ ErrorsCounted'
    <3>1. wake' \in [Loops -> 0 .. MaxTime + Sleep]
      BY <1>4 DEF Schedule!Wake, Schedule!TypeOK
    <3> QED BY <1>4, <3>1 DEF Schedule!Wake, Schedule!TypeOK, ErrorsCounted
  <2>2. LoopsInStep'
    BY <1>4 DEF Schedule!Wake, Schedule!Due, Schedule!TypeOK, LoopsInStep, Spaced
  <2> QED BY <2>1, <2>2
<1>5. ASSUME NEW l \in Loops, NEW j \in Jobs, Schedule!Begin(l, j) PROVE ScheduleInv'
  <2>1. Schedule!TypeOK' /\ ErrorsCounted'
    BY <1>5 DEF Schedule!Begin, Schedule!Begun, Schedule!TypeOK, ErrorsCounted
  <2>2. LoopsInStep'
    BY <1>5 DEF Schedule!Begin, Schedule!Begun, Schedule!TypeOK, LoopsInStep, Spaced
  <2> QED BY <2>1, <2>2
<1>6. ASSUME NEW j \in Jobs, Schedule!AddJob(j) \/ Schedule!RemoveJob(j) PROVE ScheduleInv'
  <2>1. Schedule!TypeOK' /\ ErrorsCounted'
    BY <1>6 DEF Schedule!AddJob, Schedule!RemoveJob, Schedule!TypeOK, ErrorsCounted
  <2>2. LoopsInStep'
    BY <1>6 DEF Schedule!AddJob, Schedule!RemoveJob, Schedule!TypeOK, LoopsInStep, Spaced
  <2> QED BY <2>1, <2>2
<1>7. ASSUME NEW j \in Jobs, Schedule!Succeed(j) PROVE ScheduleInv'
  <2>1. Schedule!TypeOK' /\ ErrorsCounted'
    BY <1>7 DEF Schedule!Succeed, Schedule!TypeOK, ErrorsCounted
  <2>2. LoopsInStep'
    BY <1>7 DEF Schedule!Succeed, Schedule!TypeOK, LoopsInStep, Spaced
  <2> QED BY <2>1, <2>2
<1>8. ASSUME NEW j \in Jobs, Schedule!Raise(j) PROVE ScheduleInv'
  <2>1. Schedule!TypeOK' /\ ErrorsCounted'
    <3>1. /\ active[j] \in 1 .. MaxActive /\ jobs[j].errors \in Nat
          /\ jobs[j].errors + active[j] <= MaxErrors + MaxActive - 1
      BY <1>8 DEF Schedule!Raise, Schedule!TypeOK, ErrorsCounted
    <3>2. /\ active' = [active EXCEPT ![j] = active[j] - 1]
          /\ \E e \in BOOLEAN :
               /\ e => jobs[j].errors + 1 < MaxErrors
               /\ jobs' = [jobs EXCEPT ![j] =
                            [jobs[j] EXCEPT !.errors = jobs[j].errors + 1, !.enabled = e]]
      BY <1>8 DEF Schedule!Raise, Schedule!Raised
    <3>3. PICK e \in BOOLEAN :
            /\ e => jobs[j].errors + 1 < MaxErrors
            /\ jobs' = [jobs EXCEPT ![j] =
                         [jobs[j] EXCEPT !.errors = jobs[j].errors + 1, !.enabled = e]]
      BY <3>2
    <3>4. Schedule!TypeOK'
      <4>1. active' \in [Jobs -> 0 .. MaxActive]
        BY <3>1, <3>2 DEF Schedule!TypeOK
      <4>2. jobs[j].errors + 1 \in 0 .. MaxErrors + MaxActive - 1
        BY <3>1
      <4>3. jobs' \in [Jobs -> [stored : {"no", "yes", "removed"}, enabled : BOOLEAN,
                               last : 0 .. MaxTime \cup {Schedule!Never},
                               errors : 0 .. MaxErrors + MaxActive - 1]]
        BY <3>3, <4>2 DEF Schedule!TypeOK
      <4> QED BY <1>8, <4>1, <4>3 DEF Schedule!Raise, Schedule!TypeOK
    <3>5. ErrorsCounted'
      <4> SUFFICES ASSUME NEW k \in Jobs
                   PROVE  IF jobs'[k].enabled THEN jobs'[k].errors < MaxErrors
                          ELSE jobs'[k].errors + active'[k] <= MaxErrors + MaxActive - 1
        BY DEF ErrorsCounted
      <4>1. CASE k = j
        <5>1. jobs'[j].errors = jobs[j].errors + 1 /\ jobs'[j].enabled = e
          BY <3>3 DEF Schedule!TypeOK
        <5>2. active'[j] = active[j] - 1
          BY <3>2 DEF Schedule!TypeOK
        <5> QED BY <3>1, <3>3, <4>1, <5>1, <5>2
      <4>2. CASE k # j
        BY <3>2, <3>3, <4>2 DEF Schedule!TypeOK, ErrorsCounted
      <4> QED BY <4>1, <4>2
    <3> QED BY <3>4, <3>5
  <2>2. LoopsInStep'
    BY <1>8 DEF Schedule!Raise, Schedule!Raised, Schedule!TypeOK, LoopsInStep, Spaced
  <2> QED BY <2>1, <2>2
<1> QED BY <1>1, <1>2, <1>3, <1>4, <1>5, <1>6, <1>7, <1>8 DEF Schedule!Next

\* The invariant of the scheduler holds, whatever service a behaviour exercises.
LEMMA ScheduleInvariant == ServicesSpec => []ScheduleInv
<1>1. ServicesInit => ScheduleInv
  <2> SUFFICES ASSUME Schedule!Init PROVE ScheduleInv
    BY DEF ServicesInit
  <2>1. Schedule!TypeOK
    <3>1. Schedule!NewJob \in [stored : {"no", "yes", "removed"}, enabled : BOOLEAN,
                               last : 0 .. MaxTime \cup {Schedule!Never},
                               errors : 0 .. MaxErrors + MaxActive - 1]
      BY ScheduleConstants DEF Schedule!NewJob
    <3>2. jobs \in [Jobs -> [stored : {"no", "yes", "removed"}, enabled : BOOLEAN,
                             last : 0 .. MaxTime \cup {Schedule!Never},
                             errors : 0 .. MaxErrors + MaxActive - 1]]
      BY <3>1 DEF Schedule!Init
    <3>3. /\ wake \in [Loops -> 0 .. MaxTime + Sleep]
          /\ active \in [Jobs -> 0 .. MaxActive]
          /\ began \in [Jobs -> 0 .. MaxTime \cup {Schedule!Never}]
      BY ScheduleConstants DEF Schedule!Init
    <3>4. now = 0 /\ running = FALSE /\ doubled = FALSE /\ alive = {} /\ ready = {}
      BY DEF Schedule!Init
    <3>5. 0 \in 0 .. MaxTime
      BY ScheduleConstants
    <3> QED BY <3>2, <3>3, <3>4, <3>5 DEF Schedule!TypeOK
  <2>2. ErrorsCounted
    BY ScheduleConstants DEF Schedule!Init, Schedule!NewJob, ErrorsCounted
  <2>3. LoopsInStep
    BY DEF Schedule!Init, Schedule!NewJob, LoopsInStep
  <2> QED BY <2>1, <2>2, <2>3 DEF ScheduleInv
<1>2. ScheduleInv /\ [ServicesNext]_allVars => ScheduleInv'
  <2>1. UNCHANGED schedulerVars /\ ScheduleInv => ScheduleInv'
    BY DEF schedulerVars, ScheduleInv, Schedule!TypeOK, ErrorsCounted, LoopsInStep, Spaced
  <2> QED BY <2>1, ScheduleStep DEF ServicesNext, Others, allVars
<1> QED BY <1>1, <1>2, PTL DEF ServicesSpec

\* A job is executed again only after its interval, and never after it is removed or
\* disabled, for every number of jobs and loops, every interval and every limit.
THEOREM JobsAreSpaced == ServicesSpec => RunsAreSpaced
<1>1. ScheduleInv => SpacedStep
  BY ScheduleConstants
     DEF ScheduleInv, Schedule!TypeOK, LoopsInStep, Spaced, SpacedStep, Schedule!Begin
<1>2. ServicesSpec => [][SpacedStep]_(Schedule!vars)
  BY <1>1, ScheduleInvariant, PTL
<1> QED BY <1>2, PTL DEF RunsAreSpaced, Schedule!RunsAreSpaced, SpacedStep

-----------------------------------------------------------------------------
(* NodeSettings.                                                             *)

\* Every configuration has an address; the one loaded at the start has the address
\* that is shown, also while a reloaded one is in force.
AddressesKept ==
  /\ start.wallet # Settings!NoAddress
  /\ reloaded # Settings!NoConfig => reloaded.wallet # Settings!NoAddress
  /\ wallet # Settings!NoAddress => start.wallet = wallet

SettingsInv == Settings!SettingsTypeOK /\ PaymentsFollowSettings /\ AddressesKept

\* What is loaded is a configuration with an address, which is that of the environment
\* if there is one.
LEMMA LoadedHasAddress ==
  ASSUME NEW f \in [valid : BOOLEAN, enabled : BOOLEAN],
         NEW a \in Addresses \cup {Settings!NoAddress}
  PROVE  /\ Settings!Loaded(f, a) \in Settings!Configs
         /\ Settings!Loaded(f, a).wallet # Settings!NoAddress
         /\ Settings!WithWallet(Settings!Loaded(f, a), a) \in Settings!Configs
         /\ Settings!WithWallet(Settings!Loaded(f, a), a).wallet # Settings!NoAddress
         /\ a # Settings!NoAddress => Settings!WithWallet(Settings!Loaded(f, a), a).wallet = a
<1>1. Settings!Enabled(f) \in BOOLEAN
  BY DEF Settings!Enabled
<1>2. /\ Settings!Identity(a) \in Addresses \cup {Settings!Derived}
      /\ Settings!Identity(a) # Settings!NoAddress
  BY ServicesAssumption
     DEF ServicesAssumption, Settings!NodeSettingsAssumption, Settings!Identity,
         Settings!NoAddress, Settings!Derived
<1> QED BY <1>1, <1>2 DEF Settings!Loaded, Settings!WithWallet, Settings!Configs

\* A task is charged once, and then recorded as paid.
LEMMA AdmitSettles ==
  ASSUME SettingsInv, NEW p \in Parents, NEW pay \in {"amount", "nothing"},
         Settings!Admit(p, pay)
  PROVE  SettingsInv'
<1>1. /\ gate' \in Settings!Modes /\ gate' = x402.mode
      /\ UNCHANGED <<file, dotenv, environ, start, reloaded, wallet, x402>>
  BY DEF SettingsInv, Settings!SettingsTypeOK, PaymentsFollowSettings,
         Settings!PaymentsFollowSettings, Settings!Admit, Settings!Gate, Settings!config,
         Settings!Modes
<1>2. /\ paid' \subseteq Parents /\ charges' \in [Parents -> Nat]
      /\ \A q \in Parents : charges'[q] <= 1 /\ (charges'[q] = 1 => q \in paid')
  <2>1. CASE p \in paid
    BY <2>1 DEF SettingsInv, Settings!SettingsTypeOK, PaymentsFollowSettings,
       Settings!PaymentsFollowSettings, Settings!Admit, Settings!records
  <2>2. CASE p \notin paid
    <3>1. charges[p] = 0
      BY <2>2 DEF SettingsInv, Settings!SettingsTypeOK, PaymentsFollowSettings,
         Settings!PaymentsFollowSettings
    <3>2. CASE Settings!Decision(pay) = "charged"
      <4>1. paid' = paid \cup {p} /\ charges' = [charges EXCEPT ![p] = @ + 1]
        BY <2>2, <3>2 DEF Settings!Admit, Settings!Charged
      <4> QED BY <3>1, <4>1 DEF SettingsInv, Settings!SettingsTypeOK, PaymentsFollowSettings,
              Settings!PaymentsFollowSettings
    <3>3. CASE Settings!Decision(pay) # "charged"
      <4>1. charges' = charges /\ paid' \in {paid, paid \cup {p}}
        BY <2>2, <3>3 DEF Settings!Admit, Settings!Charged
      <4> QED BY <4>1 DEF SettingsInv, Settings!SettingsTypeOK, PaymentsFollowSettings,
              Settings!PaymentsFollowSettings
    <3> QED BY <3>2, <3>3
  <2> QED BY <2>1, <2>2
<1> QED BY <1>1, <1>2 DEF SettingsInv, Settings!SettingsTypeOK, PaymentsFollowSettings,
        Settings!PaymentsFollowSettings, AddressesKept, Settings!Current

\* Every step of the settings and the gate keeps the invariant.
LEMMA SettingsStep == SettingsInv /\ Settings!SettingsNext => SettingsInv'
<1> SUFFICES ASSUME SettingsInv, Settings!SettingsNext PROVE SettingsInv'
  OBVIOUS
<1> USE DEF SettingsInv, Settings!SettingsTypeOK, PaymentsFollowSettings, AddressesKept,
            Settings!PaymentsFollowSettings, Settings!payment, Settings!records, Settings!config
<1>1. ASSUME NEW v \in BOOLEAN, NEW e \in BOOLEAN, Settings!EditFile(v, e) PROVE SettingsInv'
  BY <1>1 DEF Settings!EditFile, Settings!Current
<1>2. ASSUME Settings!SaveSetting PROVE SettingsInv'
  <2>1. Settings!Enabled(file) \in BOOLEAN
    BY DEF Settings!Enabled
  <2> QED BY <1>2, <2>1 DEF Settings!SaveSetting, Settings!Current
<1>3. ASSUME Settings!Restart PROVE SettingsInv'
  <2>1. environ' \in Addresses \cup {Settings!NoAddress}
    BY <1>3, ServicesAssumption
       DEF ServicesAssumption, Settings!NodeSettingsAssumption, Settings!Restart,
           Settings!Environment
  <2>2. /\ start' \in Settings!Configs /\ start'.wallet # Settings!NoAddress
        /\ environ' # Settings!NoAddress => start'.wallet = environ'
    BY <1>3, <2>1, LoadedHasAddress DEF Settings!Restart
  <2>3. Settings!NoConfig \in Settings!Configs
    BY DEF Settings!NoConfig, Settings!Configs
  <2>4. Exported = Settings!NoAddress => environ' = dotenv
    BY <1>3 DEF Settings!Restart, Settings!Environment
  <2>5. /\ x402' \in [mode : Settings!Modes, network : {"mock", "base-sepolia"}]
        /\ gate' = "none"
    BY <1>3 DEF Settings!Restart, Settings!DefaultX402, Settings!NetworkOf, Settings!Modes
  <2> QED BY <1>3, <2>1, <2>2, <2>3, <2>4, <2>5 DEF Settings!Restart, Settings!Current
<1>4. ASSUME Settings!Reload PROVE SettingsInv'
  <2>1. reloaded' \in Settings!Configs /\ reloaded'.wallet # Settings!NoAddress
    BY <1>4, LoadedHasAddress DEF Settings!Reload
  <2>2. reloaded' # Settings!NoConfig
    BY <2>1 DEF Settings!NoConfig
  <2> QED BY <1>4, <2>1, <2>2 DEF Settings!Reload, Settings!Current
<1>5. ASSUME NEW a \in Addresses, Settings!SetWallet(a) PROVE SettingsInv'
  <2>1. a # Settings!NoAddress
    BY ServicesAssumption DEF ServicesAssumption, Settings!NodeSettingsAssumption
  <2>2. start' \in Settings!Configs /\ start'.wallet = a
    BY <1>5, <2>1 DEF Settings!SetWallet, Settings!WithWallet, Settings!Configs
  <2> QED BY <1>5, <2>1, <2>2 DEF Settings!SetWallet, Settings!Current
<1>6. ASSUME NEW e \in BOOLEAN, NEW m \in Settings!Modes, Settings!SetPayment(e, m)
      PROVE SettingsInv'
  <2>1. start' \in Settings!Configs /\ start'.wallet = start.wallet
    BY <1>6 DEF Settings!SetPayment, Settings!Configs
  <2>2. /\ x402' \in [mode : Settings!Modes, network : {"mock", "base-sepolia"}]
        /\ x402'.mode = m
    BY <1>6 DEF Settings!SetPayment, Settings!Configured, Settings!NetworkOf
  <2> QED BY <1>6, <2>1, <2>2 DEF Settings!SetPayment, Settings!Current
<1>7. ASSUME Settings!AdmitLocal PROVE SettingsInv'
  BY <1>7 DEF Settings!AdmitLocal, Settings!Gate, Settings!Current
<1> QED BY AdmitSettles, <1>1, <1>2, <1>3, <1>4, <1>5, <1>6, <1>7 DEF Settings!SettingsNext

\* The invariant of the settings holds, whatever service a behaviour exercises.
LEMMA SettingsInvariant == ServicesSpec => []SettingsInv
<1>1. ServicesInit => SettingsInv
  <2> SUFFICES ASSUME Settings!SettingsInit PROVE SettingsInv
    BY DEF ServicesInit
  <2> USE DEF Settings!SettingsInit
  <2>1. environ \in Addresses \cup {Settings!NoAddress} /\ environ = wallet
    BY ServicesAssumption
       DEF ServicesAssumption, Settings!NodeSettingsAssumption, Settings!Environment
  <2>2. /\ start \in Settings!Configs /\ start.wallet # Settings!NoAddress
        /\ environ # Settings!NoAddress => start.wallet = environ
    BY <2>1, LoadedHasAddress
  <2>3. reloaded \in Settings!Configs /\ reloaded = Settings!NoConfig
    BY DEF Settings!NoConfig, Settings!Configs
  <2>4. Exported = Settings!NoAddress => environ = dotenv
    BY DEF Settings!Environment
  <2>5. /\ x402 \in [mode : Settings!Modes, network : {"mock", "base-sepolia"}]
        /\ gate = "none"
    BY DEF Settings!DefaultX402, Settings!NetworkOf, Settings!Modes
  <2>6. paid = {} /\ charges \in [Parents -> Nat] /\ \A p \in Parents : charges[p] = 0
    OBVIOUS
  <2>7. file \in [valid : BOOLEAN, enabled : BOOLEAN] /\ dotenv = Settings!NoAddress
    OBVIOUS
  <2> HIDE DEF Settings!SettingsInit
  <2> QED BY <2>1, <2>2, <2>3, <2>4, <2>5, <2>6, <2>7
          DEF SettingsInv, Settings!SettingsTypeOK, PaymentsFollowSettings,
              Settings!PaymentsFollowSettings, AddressesKept, Settings!Current
<1>2. SettingsInv /\ [ServicesNext]_allVars => SettingsInv'
  <2>1. UNCHANGED settingsVars /\ SettingsInv => SettingsInv'
    BY DEF settingsVars, SettingsInv, Settings!SettingsTypeOK, PaymentsFollowSettings,
       Settings!PaymentsFollowSettings, AddressesKept, Settings!Current
  <2> QED BY <2>1, SettingsStep DEF ServicesNext, Others, allVars
<1> QED BY <1>1, <1>2, PTL DEF ServicesSpec

\* A task is charged at most once and then recorded, the gate settles by the mode in
\* force, and the wallet that is shown is paid, for every number of tasks and addresses.
THEOREM PaymentsFollow == ServicesSpec => []PaymentsFollowSettings
<1>1. SettingsInv => PaymentsFollowSettings
  BY DEF SettingsInv
<1> QED BY <1>1, SettingsInvariant, PTL

-----------------------------------------------------------------------------
(* AgentMemory.                                                              *)

\* Entries as they may have been stored so far.
MemEntries ==
  [id : 1 .. lastId, time : 1 .. saves, added : Nat, kind : {"note", "summary"},
   size : NoteSizes \cup {SummarySize}, of : (SUBSET (1 .. saves)) \ {{}}]

MemTyped ==
  /\ saves \in 0 .. MaxSaves /\ lastId \in Nat /\ forgotten \subseteq 1 .. saves
  /\ memory \subseteq MemEntries
  /\ saver \in [Savers -> [at : {"idle", "measure", "summarize", "delete"}, pass : 0 .. MaxPasses,
                           old : SUBSET MemEntries]]
  /\ \A s \in Savers : saver[s].at \in {"summarize", "delete"} => saver[s].old # {}

\* The entries that no thread is about to delete account for all that was saved.
Staying ==
  {e \in memory : \A s \in Savers : saver[s].at = "delete" => e \notin saver[s].old}
Accounted == \A n \in 1 .. saves : n \notin forgotten => \E e \in Staying : n \in e.of

\* The newest entry is there, unless a reset has deleted it; it comes after all others,
\* and nobody is about to replace it.
NewestStays ==
  /\ saves \notin {0} \cup forgotten =>
       \E e \in memory : e.kind = "note" /\ e.of = {saves} /\ e.time = saves
  /\ \A e, f \in memory : e.time = saves /\ f.time = saves => e = f
  /\ \A s \in Savers : \A e \in saver[s].old : e.time < saves

MemInv == MemTyped /\ Accounted /\ NewestStays

\* The constants of the memory.
LEMMA MemConstants ==
  /\ SummarySize \in Nat \ {0} /\ MinRecent \in Nat \ {0} /\ MaxPasses \in Nat \ {0}
  /\ MaxSaves \in Nat \ {0} /\ NoteSizes \subseteq Nat \ {0}
<1> QED BY ServicesAssumption DEF ServicesAssumption, Memory!MemoryAssumption

\* The newest entry is not compacted.
LEMMA CandidatesOlder ==
  ASSUME MemInv
  PROVE  \A e \in Memory!Candidates : e \in memory /\ e.time < saves
<1> SUFFICES ASSUME NEW e \in Memory!Candidates PROVE e \in memory /\ e.time < saves
  OBVIOUS
<1>1. e \in memory
  BY DEF Memory!Candidates, Memory!Kept
<1>2. e \in MemEntries
  BY <1>1 DEF MemInv, MemTyped
<1>3. SUFFICES ASSUME e.time = saves PROVE FALSE
  BY <1>1, <1>2 DEF MemEntries, MemInv, MemTyped
<1>4. Memory!Newer(e) = {}
  <2> SUFFICES ASSUME NEW f \in memory, Memory!Before(e, f) PROVE FALSE
    BY DEF Memory!Newer
  <2>1. f \in MemEntries
    BY DEF MemInv, MemTyped
  <2>2. f.time \in 1 .. saves /\ f.added \in Nat /\ f.id \in Nat /\ saves \in Nat
    BY <2>1 DEF MemEntries, MemInv, MemTyped
  <2>3. CASE f.time = saves
    <3>1. f = e
      BY <1>1, <1>3, <2>3 DEF MemInv, NewestStays
    <3> QED BY <2>2, <3>1 DEF Memory!Before
  <2>4. CASE f.time # saves
    BY <1>3, <2>2, <2>4 DEF Memory!Before
  <2> QED BY <2>3, <2>4
<1>5. Cardinality(Memory!Newer(e)) < MinRecent
  BY <1>4, FS_EmptySet, MemConstants
<1>6. e \in Memory!Kept
  <2>1. \/ Cardinality(Memory!Newer(e)) < MinRecent
        \/ Memory!Chars(Memory!Newer(e) \cup {e}) <= RecentChars
    BY <1>5
  <2>2. Memory!Cardinality(Memory!Newer(e)) = Cardinality(Memory!Newer(e))
    BY DEF Memory!Cardinality, Cardinality
  <2> QED BY ONLY <1>1, <2>1, <2>2, Zenon DEF Memory!Kept
<1> QED BY <1>4, <1>6 DEF Memory!Candidates

\* Later there are more entries that may have been stored.
LEMMA EntriesGrow ==
  ASSUME MemTyped, saves' \in {saves, saves + 1}, lastId' \in {lastId, lastId + 1}
  PROVE  MemEntries \subseteq MemEntries'
<1>1. 1 .. lastId \subseteq 1 .. lastId' /\ 1 .. saves \subseteq 1 .. saves'
  BY DEF MemTyped
<1> QED BY <1>1 DEF MemEntries

\* A thread goes on, and no other one does.
LEMMA SaverMoves ==
  ASSUME MemTyped, MemEntries \subseteq MemEntries', NEW s \in Savers,
         NEW at \in {"idle", "measure", "summarize", "delete"}, NEW pass \in 0 .. MaxPasses,
         NEW old \in SUBSET MemEntries',
         at \in {"summarize", "delete"} => old # {},
         saver' = [saver EXCEPT ![s] = [at |-> at, pass |-> pass, old |-> old]]
  PROVE  /\ saver' \in [Savers -> [at : {"idle", "measure", "summarize", "delete"},
                                   pass : 0 .. MaxPasses, old : SUBSET MemEntries']]
         /\ \A t \in Savers : saver'[t].at \in {"summarize", "delete"} => saver'[t].old # {}
         /\ saver'[s].at = at /\ saver'[s].old = old
         /\ \A t \in Savers \ {s} : saver'[t] = saver[t]
<1>1. \A t \in Savers :
        saver'[t] = IF t = s THEN [at |-> at, pass |-> pass, old |-> old] ELSE saver[t]
  BY DEF MemTyped
<1>2. \A t \in Savers : saver[t] \in [at : {"idle", "measure", "summarize", "delete"},
                                      pass : 0 .. MaxPasses, old : SUBSET MemEntries']
  BY DEF MemTyped
<1>3. DOMAIN saver' = Savers /\ saver' = [t \in Savers |-> saver'[t]]
  BY DEF MemTyped
<1> QED BY <1>1, <1>2, <1>3 DEF MemTyped

\* Every step of the memory keeps its invariant.
LEMMA MemStep == MemInv /\ Memory!MemNext => MemInv'
<1> SUFFICES ASSUME MemInv, Memory!MemNext PROVE MemInv'
  OBVIOUS
<1> USE MemConstants
<1>1. ASSUME NEW s \in Savers, Memory!Save(s) PROVE MemInv'
  <2>1. PICK size \in NoteSizes : memory' = memory \cup {Memory!Note(saves + 1, size)}
    BY <1>1 DEF Memory!Save
  <2> DEFINE note == Memory!Note(saves + 1, size)
  <2>2. /\ saves' = saves + 1 /\ lastId' = lastId + 1 /\ forgotten' = forgotten
        /\ saves < MaxSaves /\ saver[s].at = "idle"
        /\ saver' = [saver EXCEPT ![s] = [at |-> "measure", pass |-> 0, old |-> {}]]
    BY <1>1 DEF Memory!Save
  <2>3. MemEntries \subseteq MemEntries'
    BY <2>2, EntriesGrow DEF MemInv
  <2>4. /\ note.time = saves' /\ note.of = {saves'} /\ note.kind = "note"
        /\ note \in MemEntries' /\ note.id = lastId + 1
    BY <2>2 DEF Memory!Note, MemEntries, MemInv, MemTyped
  <2>11. memory' = memory \cup {note}
    BY <2>1
  <2> HIDE DEF note
  <2>5. /\ saver' \in [Savers -> [at : {"idle", "measure", "summarize", "delete"},
                                  pass : 0 .. MaxPasses, old : SUBSET MemEntries']]
        /\ \A t \in Savers : saver'[t].at \in {"summarize", "delete"} => saver'[t].old # {}
        /\ saver'[s].at = "measure" /\ saver'[s].old = {}
        /\ \A t \in Savers \ {s} : saver'[t] = saver[t]
    <3>1. /\ 0 \in 0 .. MaxPasses /\ "measure" \in {"idle", "measure", "summarize", "delete"}
          /\ {} \in SUBSET MemEntries' /\ ~("measure" \in {"summarize", "delete"}) /\ MemTyped
      BY DEF MemInv
    <3> QED BY ONLY <2>2, <2>3, <3>1, SaverMoves
  <2>6. MemTyped'
    <3>1. /\ saves' \in 0 .. MaxSaves /\ lastId' \in Nat /\ forgotten' \subseteq 1 .. saves'
          /\ memory \subseteq MemEntries
      BY <2>2 DEF MemInv, MemTyped
    <3>2. memory' \subseteq MemEntries'
      BY ONLY <2>3, <2>4, <2>11, <3>1
    <3> QED BY ONLY <2>5, <3>1, <3>2 DEF MemTyped
  <2>7. \A e \in memory : e.time < saves' /\ e.id < note.id
    BY <2>2, <2>4 DEF MemInv, MemTyped, MemEntries
  <2>8. Staying \cup {note} \subseteq Staying'
    <3>1. \A t \in Savers : note \notin saver[t].old
      BY <2>4 DEF MemInv, MemTyped, MemEntries
    <3>2. \A t \in Savers : saver'[t].at = "delete" => t # s
      BY <2>5
    <3> QED BY ONLY <2>5, <2>11, <3>1, <3>2 DEF Staying
  <2>9. Accounted'
    BY <2>2, <2>4, <2>8 DEF MemInv, Accounted, MemTyped
  <2>10. NewestStays'
    <3>1. \A t \in Savers : \A e \in saver'[t].old : e.time < saves'
      BY <2>2, <2>5 DEF MemInv, NewestStays, MemTyped, MemEntries
    <3>2. note \in memory' /\ \A e \in memory' : e \in memory \/ e = note
      BY <2>11
    <3>3. \A e \in memory' : e.time = saves' => e = note
      <4>1. saves' \in Nat
        BY <2>2 DEF MemInv, MemTyped
      <4>2. \A e \in memory : e.time \in Nat
        BY DEF MemInv, MemTyped, MemEntries
      <4> QED BY ONLY <2>7, <3>2, <4>1, <4>2
    <3> QED BY ONLY <2>4, <3>1, <3>2, <3>3 DEF NewestStays
  <2> QED BY <2>6, <2>9, <2>10 DEF MemInv
<1>2. ASSUME NEW s \in Savers, Memory!Measure(s) PROVE MemInv'
  <2>1. UNCHANGED <<memory, lastId, saves, forgotten>> /\ saver[s].at = "measure"
    BY <1>2 DEF Memory!Measure
  <2>2. \E at \in {"idle", "summarize"}, pass \in 0 .. MaxPasses, old \in SUBSET Memory!Candidates :
           /\ at = "summarize" => old # {}
           /\ saver' = [saver EXCEPT ![s] = [at |-> at, pass |-> pass, old |-> old]]
    <3>1. CASE Memory!Chars(memory) <= MaxChars \/ saver[s].pass = MaxPasses \/ Memory!Candidates = {}
      <4>1. saver' = [saver EXCEPT ![s] = [at |-> "idle", pass |-> 0, old |-> {}]]
        BY <1>2, <3>1 DEF Memory!Measure, Memory!Idle
      <4>2. /\ "idle" \in {"idle", "summarize"} /\ 0 \in 0 .. MaxPasses
            /\ {} \in SUBSET Memory!Candidates /\ "idle" # "summarize"
        OBVIOUS
      <4> QED BY ONLY <4>1, <4>2
    <3>2. CASE ~ \/ Memory!Chars(memory) <= MaxChars \/ saver[s].pass = MaxPasses
                 \/ Memory!Candidates = {}
      <4>1. saver' = [saver EXCEPT ![s] =
              [at |-> "summarize", pass |-> saver[s].pass + 1, old |-> Memory!Candidates]]
        BY <1>2, <3>2 DEF Memory!Measure
      <4>2. saver[s].pass + 1 \in 0 .. MaxPasses
        BY <3>2 DEF MemInv, MemTyped
      <4> QED BY <3>2, <4>1, <4>2
    <3> QED BY <3>1, <3>2
  <2>3. PICK at \in {"idle", "summarize"}, pass \in 0 .. MaxPasses, old \in SUBSET Memory!Candidates :
           /\ at = "summarize" => old # {}
           /\ saver' = [saver EXCEPT ![s] = [at |-> at, pass |-> pass, old |-> old]]
    BY <2>2
  <2>4. MemEntries' = MemEntries
    BY <2>1 DEF MemEntries
  <2>5. old \subseteq memory /\ \A e \in old : e.time < saves
    BY CandidatesOlder
  <2>6. /\ saver' \in [Savers -> [at : {"idle", "measure", "summarize", "delete"},
                                  pass : 0 .. MaxPasses, old : SUBSET MemEntries']]
        /\ \A t \in Savers : saver'[t].at \in {"summarize", "delete"} => saver'[t].old # {}
        /\ saver'[s].at = at /\ saver'[s].old = old
        /\ \A t \in Savers \ {s} : saver'[t] = saver[t]
    <3>1. /\ at \in {"idle", "measure", "summarize", "delete"} /\ old \in SUBSET MemEntries'
          /\ at \in {"summarize", "delete"} => old # {}
      BY <2>3, <2>4, <2>5 DEF MemInv, MemTyped
    <3> QED BY <2>3, <2>4, <3>1, SaverMoves DEF MemInv
  <2>7. MemTyped'
    BY <2>1, <2>4, <2>6 DEF MemInv, MemTyped
  <2>8. Staying \subseteq Staying'
    BY <2>1, <2>6 DEF Staying
  <2> QED BY <2>1, <2>5, <2>6, <2>7, <2>8 DEF MemInv, Accounted, NewestStays
<1>3. ASSUME NEW s \in Savers, Memory!Summarize(s) PROVE MemInv'
  <2>1. PICK last \in saver[s].old : memory' = memory \cup {Memory!SummaryOf(saver[s].old, last)}
    BY <1>3 DEF Memory!Summarize
  <2> DEFINE sum == Memory!SummaryOf(saver[s].old, last)
             old == saver[s].old
  <2>2. /\ lastId' = lastId + 1 /\ UNCHANGED <<saves, forgotten>> /\ saver[s].at = "summarize"
        /\ saver' = [saver EXCEPT ![s] = [at |-> "delete", pass |-> saver[s].pass, old |-> old]]
    BY <1>3 DEF Memory!Summarize, Memory!Goes
  <2>3. MemEntries \subseteq MemEntries'
    BY <2>2, EntriesGrow DEF MemInv
  <2>4. old \subseteq MemEntries /\ old # {} /\ saver[s].pass \in 0 .. MaxPasses
    BY <2>2 DEF MemInv, MemTyped
  <2>5. /\ sum \in MemEntries' /\ sum.id = lastId + 1 /\ sum.time < saves
        /\ \A e \in old : e.of \subseteq sum.of
    <3>1. last \in MemEntries /\ last.time < saves
      BY <2>1, <2>4 DEF MemInv, NewestStays
    <3>2. UNION {e.of : e \in old} \in (SUBSET (1 .. saves)) \ {{}}
      <4>1. last.of # {} /\ last.of \subseteq UNION {e.of : e \in old}
        BY <2>1, <3>1 DEF MemEntries
      <4>2. \A e \in old : e.of \subseteq 1 .. saves
        BY <2>4 DEF MemEntries
      <4> QED BY <4>1, <4>2
    <3>3. /\ sum.id = lastId + 1 /\ sum.time = last.time /\ sum.of = UNION {e.of : e \in old}
          /\ sum = [id |-> lastId + 1, time |-> last.time, added |-> last.added + 1,
                    kind |-> "summary", size |-> SummarySize, of |-> UNION {e.of : e \in old}]
      BY DEF Memory!SummaryOf
    <3>4. last.time \in 1 .. saves /\ last.added + 1 \in Nat /\ lastId + 1 \in 1 .. lastId'
      BY <2>2, <3>1 DEF MemEntries, MemInv, MemTyped
    <3> HIDE DEF sum, old
    <3>5. sum \in MemEntries'
      BY <2>2, <3>2, <3>3, <3>4 DEF MemEntries
    <3> QED BY <3>1, <3>3, <3>5
  <2>11. memory' = memory \cup {sum}
    BY <2>1
  <2> HIDE DEF sum
  <2>6. /\ saver' \in [Savers -> [at : {"idle", "measure", "summarize", "delete"},
                                  pass : 0 .. MaxPasses, old : SUBSET MemEntries']]
        /\ \A t \in Savers : saver'[t].at \in {"summarize", "delete"} => saver'[t].old # {}
        /\ saver'[s].at = "delete" /\ saver'[s].old = old
        /\ \A t \in Savers \ {s} : saver'[t] = saver[t]
    <3>1. old \in SUBSET MemEntries' /\ ("delete" \in {"summarize", "delete"} => old # {})
      BY <2>3, <2>4
    <3> QED BY <2>2, <2>3, <2>4, <3>1, SaverMoves DEF MemInv
  <2>7. MemTyped'
    <3>1. /\ saves' \in 0 .. MaxSaves /\ lastId' \in Nat /\ forgotten' \subseteq 1 .. saves'
          /\ memory \subseteq MemEntries
      BY <2>2 DEF MemInv, MemTyped
    <3>2. memory' \subseteq MemEntries'
      BY ONLY <2>3, <2>5, <2>11, <3>1
    <3> QED BY ONLY <2>6, <3>1, <3>2 DEF MemTyped
  <2>8. sum \in Staying' /\ Staying \ old \subseteq Staying'
    <3>1. \A t \in Savers : sum \notin saver[t].old
      BY <2>5 DEF MemInv, MemTyped, MemEntries
    <3>2. /\ sum \notin saver'[s].old
          /\ \A t \in Savers \ {s} : sum \notin saver'[t].old
      BY <2>6, <3>1
    <3>3. \A e \in Staying \ old, t \in Savers : saver'[t].at = "delete" => e \notin saver'[t].old
      BY <2>6 DEF Staying
    <3> HIDE DEF old
    <3> QED BY ONLY <2>11, <3>2, <3>3 DEF Staying
  <2>9. Accounted'
    BY <2>2, <2>5, <2>8 DEF MemInv, Accounted
  <2>10. NewestStays'
    <3>1. saves \in Nat
      BY DEF MemInv, MemTyped
    <3>2. \A e \in memory' : e.time = saves => e \in memory
      <4>1. \A e \in memory' : e \in memory \/ e = sum
        BY <2>11
      <4>2. sum.time # saves
        <5>1. sum.time \in Nat
          BY <2>5 DEF MemEntries
        <5> QED BY ONLY <2>5, <3>1, <5>1
      <4> QED BY ONLY <4>1, <4>2
    <3> QED BY <2>2, <2>6, <2>11, <3>2 DEF MemInv, NewestStays
  <2> QED BY <2>7, <2>9, <2>10 DEF MemInv
<1>4. ASSUME NEW s \in Savers, Memory!Delete(s) PROVE MemInv'
  <2>1. PICK first \in saver[s].old :
          /\ memory' = memory \ {first}
          /\ saver' = [saver EXCEPT ![s] =
               [at |-> IF saver[s].old = {first} THEN "measure" ELSE "delete",
                pass |-> saver[s].pass, old |-> saver[s].old \ {first}]]
    BY <1>4 DEF Memory!Delete, Memory!Goes
  <2> DEFINE at == IF saver[s].old = {first} THEN "measure" ELSE "delete"
             old == saver[s].old \ {first}
  <2>2. UNCHANGED <<lastId, saves, forgotten>> /\ saver[s].at = "delete"
    BY <1>4 DEF Memory!Delete
  <2>3. MemEntries' = MemEntries
    BY <2>2 DEF MemEntries
  <2>4. /\ saver' \in [Savers -> [at : {"idle", "measure", "summarize", "delete"},
                                  pass : 0 .. MaxPasses, old : SUBSET MemEntries']]
        /\ \A t \in Savers : saver'[t].at \in {"summarize", "delete"} => saver'[t].old # {}
        /\ saver'[s].at = at /\ saver'[s].old = old
        /\ \A t \in Savers \ {s} : saver'[t] = saver[t]
    <3>1. /\ at \in {"idle", "measure", "summarize", "delete"} /\ old \in SUBSET MemEntries'
          /\ at \in {"summarize", "delete"} => old # {}
          /\ saver[s].pass \in 0 .. MaxPasses
      BY <2>3 DEF MemInv, MemTyped
    <3>2. saver' = [saver EXCEPT ![s] = [at |-> at, pass |-> saver[s].pass, old |-> old]]
      BY <2>1
    <3> HIDE DEF at, old
    <3> QED BY <2>3, <3>1, <3>2, SaverMoves DEF MemInv
  <2>5. MemTyped'
    BY <2>1, <2>2, <2>3, <2>4 DEF MemInv, MemTyped
  <2>6. Staying \subseteq Staying'
    BY <2>1, <2>2, <2>4 DEF Staying
  <2>7. first.time < saves /\ saves \in Nat
    BY <2>1 DEF MemInv, NewestStays, MemTyped
  <2>8. NewestStays'
    BY <2>1, <2>2, <2>4, <2>7 DEF MemInv, NewestStays
  <2> QED BY <2>2, <2>5, <2>6, <2>8 DEF MemInv, Accounted
<1>5. ASSUME NEW s \in Savers, Memory!Fail(s) PROVE MemInv'
  <2>1. /\ UNCHANGED <<memory, lastId, saves, forgotten>>
        /\ saver' = [saver EXCEPT ![s] = [at |-> "idle", pass |-> 0, old |-> {}]]
    BY <1>5 DEF Memory!Fail, Memory!Idle
  <2>2. MemEntries' = MemEntries
    BY <2>1 DEF MemEntries
  <2>3. /\ saver' \in [Savers -> [at : {"idle", "measure", "summarize", "delete"},
                                  pass : 0 .. MaxPasses, old : SUBSET MemEntries']]
        /\ \A t \in Savers : saver'[t].at \in {"summarize", "delete"} => saver'[t].old # {}
        /\ saver'[s].at = "idle" /\ saver'[s].old = {}
        /\ \A t \in Savers \ {s} : saver'[t] = saver[t]
    <3>1. /\ 0 \in 0 .. MaxPasses /\ "idle" \in {"idle", "measure", "summarize", "delete"}
          /\ {} \in SUBSET MemEntries' /\ ~("idle" \in {"summarize", "delete"}) /\ MemTyped
          /\ MemEntries \subseteq MemEntries'
      BY <2>2 DEF MemInv
    <3> QED BY ONLY <2>1, <3>1, SaverMoves
  <2>4. MemTyped'
    BY <2>1, <2>2, <2>3 DEF MemInv, MemTyped
  <2>5. Staying \subseteq Staying'
    BY <2>1, <2>3 DEF Staying
  <2> QED BY <2>1, <2>3, <2>4, <2>5 DEF MemInv, Accounted, NewestStays
<1>6. ASSUME Memory!ResetAll PROVE MemInv'
  <2>1. memory' = {} /\ forgotten' = 1 .. saves /\ UNCHANGED <<saver, lastId, saves>>
    BY <1>6 DEF Memory!ResetAll
  <2>2. MemEntries' = MemEntries
    BY <2>1 DEF MemEntries
  <2> QED BY <2>1, <2>2 DEF MemInv, MemTyped, Accounted, NewestStays
<1> QED BY <1>1, <1>2, <1>3, <1>4, <1>5, <1>6 DEF Memory!MemNext

\* The invariant of the memory holds, whatever service a behaviour exercises.
LEMMA MemInvariant == ServicesSpec => []MemInv
<1>1. ServicesInit => MemInv
  BY MemConstants
     DEF ServicesInit, Memory!MemInit, Memory!Idle, MemInv, MemTyped, Accounted, NewestStays
<1>2. MemInv /\ [ServicesNext]_allVars => MemInv'
  <2>1. UNCHANGED memoryVars /\ MemInv => MemInv'
    BY DEF memoryVars, MemInv, MemTyped, Accounted, NewestStays, Staying, MemEntries
  <2> QED BY <2>1, MemStep DEF ServicesNext, Others, allVars
<1> QED BY <1>1, <1>2, PTL DEF ServicesSpec

\* Nothing that was saved goes without a trace, and the newest entry is kept.
LEMMA MemoryKept == MemInv => Memory!NothingLost /\ Memory!MemTypeOK
<1> SUFFICES ASSUME MemInv PROVE Memory!NothingLost /\ Memory!MemTypeOK
  OBVIOUS
<1>1. Memory!NothingLost
  BY DEF MemInv, Accounted, Staying, NewestStays, Memory!NothingLost
<1>2. Memory!MemTypeOK
  BY DEF MemInv, MemTyped, MemEntries, Memory!MemTypeOK
<1> QED BY <1>1, <1>2

-----------------------------------------------------------------------------
(* WalletLedger.                                                             *)

\* A set of natural numbers has a least element, if any: the principle of induction, as
\* the provers can use it.
LEMMA LeastNat ==
  ASSUME NEW T, T \subseteq Nat, T # {}
  PROVE  \E n \in T : \A m \in T : n <= m
<1> DEFINE R == {ss \in Nat \X Nat : ss[1] < ss[2]}
<1>1. IsWellFoundedOn(R, Nat)
  BY NatLessThanWellFounded DEF OpToRel
<1> HIDE DEF R
<1>2. PICK n \in T : \A y \in T : ~(<<y, n>> \in R)
  BY <1>1, WFMin
<1>3. \A m \in T : ~(m < n)
  BY <1>2 DEF R
<1> QED BY <1>3

\* The steps that lead from each of the first N numbers to the next, among the values S.
Steps(N, S) == [(1 .. N) \X S -> S]

\* Reachable: from base, the steps reach a value for each of the first N numbers.
Reachable(N, S, base, G) ==
  \E f \in [0 .. N -> S] : f[0] = base /\ \A n \in 1 .. N : f[n] = G[<<n, f[n - 1]>>]

\* A step from each number to the next can be repeated.
LEMMA Repeated ==
  ASSUME NEW N \in Nat, NEW S, NEW base \in S, NEW G \in Steps(N, S)
  PROVE  Reachable(N, S, base, G)
<1> DEFINE Good(m) == \E f \in [0 .. m -> S] :
                        f[0] = base /\ \A n \in 1 .. m : f[n] = G[<<n, f[n - 1]>>]
           T == {m \in 0 .. N : ~Good(m)}
<1> SUFFICES ASSUME T # {} PROVE FALSE
  BY DEF Reachable
<1>1. PICK m \in T : \A k \in T : m <= k
  <2>1. T \subseteq Nat /\ T # {}
    OBVIOUS
  <2> HIDE DEF T
  <2> QED BY <2>1, LeastNat
<1>2. m # 0
  <2> SUFFICES ASSUME m = 0 PROVE FALSE
    OBVIOUS
  <2> DEFINE g == [i \in 0 .. 0 |-> base]
  <2>1. g \in [0 .. 0 -> S] /\ g[0] = base /\ 1 .. 0 = {}
    OBVIOUS
  <2>2. Good(0)
    BY <2>1
  <2> QED BY <2>2
<1>3. Good(m - 1) /\ m \in 1 .. N
  <2>1. m \in 1 .. N /\ m - 1 \in 0 .. N /\ ~(m <= m - 1)
    BY <1>2
  <2> HIDE DEF Good
  <2>2. m - 1 \notin T
    BY <1>1, <2>1
  <2> QED BY <2>1, <2>2
<1>4. PICK f \in [0 .. m - 1 -> S] :
        f[0] = base /\ \A n \in 1 .. m - 1 : f[n] = G[<<n, f[n - 1]>>]
  BY <1>3
<1> DEFINE next == G[<<m, f[m - 1]>>]
           g == [i \in 0 .. m |-> IF i = m THEN next ELSE f[i]]
<1>5. next \in S
  <2>1. f[m - 1] \in S
    BY <1>3
  <2> QED BY <1>3, <2>1 DEF Steps
<1>6. g \in [0 .. m -> S] /\ g[0] = base /\ g[m] = next /\ \A i \in 0 .. m - 1 : g[i] = f[i]
  <2> HIDE DEF next
  <2> QED BY <1>2, <1>3, <1>4, <1>5
<1>7. \A n \in 1 .. m : g[n] = G[<<n, g[n - 1]>>]
  <2> SUFFICES ASSUME NEW n \in 1 .. m PROVE g[n] = G[<<n, g[n - 1]>>]
    OBVIOUS
  <2>1. n - 1 \in 0 .. m - 1 /\ g[n - 1] = f[n - 1]
    BY <1>3, <1>6
  <2>2. CASE n = m
    BY <1>6, <2>1, <2>2
  <2>3. CASE n # m
    <3>1. n \in 1 .. m - 1 /\ n \in 0 .. m - 1
      BY <1>3, <2>3
    <3> QED BY <1>4, <1>6, <2>1, <3>1
  <2> QED BY <2>2, <2>3
<1>8. Good(m)
  <2> HIDE DEF g
  <2> QED BY <1>6, <1>7
<1> QED BY <1>1, <1>8

\* The constants of the wallet.
LEMMA WalletConstants ==
  /\ Amounts \subseteq Nat \ {0} /\ Initial \in Nat /\ MaxBooked \in Nat
  /\ Capacity \in Nat \ {0} /\ Wallet!NoTx \notin Wallet!Txs
<1>1. \A tx \in Wallet!Txs : tx.timestamp # 0
  BY DEF Wallet!Txs
<1>2. Wallet!NoTx.timestamp = 0
  BY DEF Wallet!NoTx
<1> QED BY <1>1, <1>2, ServicesAssumption DEF ServicesAssumption, Wallet!WalletAssumption

\* Balances stay numbers.
LEMMA AppliedNat ==
  ASSUME NEW b \in Nat, NEW tx \in Wallet!Txs
  PROVE  Wallet!Applied(b, tx) \in Nat
<1>1. tx.amount \in Nat
  BY WalletConstants DEF Wallet!Txs
<1>2. (IF tx.type = "expense" THEN IF b > tx.amount THEN b - tx.amount ELSE 0
                              ELSE b + tx.amount) \in Nat
  BY <1>1
<1> QED BY <1>2 DEF Wallet!Applied

\* The balances after the transactions of a list, one after the other.
Balances(f, list) ==
  f = [n \in 0 .. Len(list) |-> IF n = 0 THEN Initial ELSE Wallet!Applied(f[n - 1], list[n])]

\* There are such balances, and the last of them is what the list sums up to.
LEMMA SummedIs ==
  ASSUME NEW list \in Seq(Wallet!Txs)
  PROVE  \E f \in [0 .. Len(list) -> Nat] :
           /\ f[0] = Initial
           /\ \A n \in 1 .. Len(list) : f[n] = Wallet!Applied(f[n - 1], list[n])
           /\ Wallet!Summed(list) = f[Len(list)]
<1> DEFINE N == Len(list)
           G == [p \in (1 .. N) \X Nat |-> Wallet!Applied(p[2], list[p[1]])]
<1>1. N \in Nat /\ Initial \in Nat
  BY WalletConstants
<1>2. G \in Steps(N, Nat)
  <2> SUFFICES ASSUME NEW p \in (1 .. N) \X Nat PROVE Wallet!Applied(p[2], list[p[1]]) \in Nat
    BY DEF Steps
  <2>1. p[2] \in Nat /\ list[p[1]] \in Wallet!Txs
    OBVIOUS
  <2> QED BY ONLY <2>1, AppliedNat
<1>3. Reachable(N, Nat, Initial, G)
  <2> HIDE DEF N, G
  <2> QED BY ONLY <1>1, <1>2, Repeated
<1>4. PICK g \in [0 .. N -> Nat] : g[0] = Initial /\ \A n \in 1 .. N : g[n] = G[<<n, g[n - 1]>>]
  <2> HIDE DEF N, G
  <2> QED BY ONLY <1>3 DEF Reachable
<1>5. \A n \in 1 .. N : g[n] = Wallet!Applied(g[n - 1], list[n])
  <2> SUFFICES ASSUME NEW n \in 1 .. N PROVE g[n] = Wallet!Applied(g[n - 1], list[n])
    OBVIOUS
  <2>1. n - 1 \in 0 .. N
    BY <1>1
  <2>2. <<n, g[n - 1]>> \in (1 .. N) \X Nat
    BY <2>1
  <2>3. g[n] = G[<<n, g[n - 1]>>]
    BY <1>4
  <2> QED BY <2>2, <2>3
<1>6. Balances(g, list)
  <2>1. g = [n \in 0 .. N |-> g[n]]
    OBVIOUS
  <2>2. \A n \in 0 .. N : g[n] = IF n = 0 THEN Initial ELSE Wallet!Applied(g[n - 1], list[n])
    BY <1>4, <1>5
  <2> HIDE DEF G
  <2> QED BY ONLY <2>1, <2>2 DEF Balances
<1> DEFINE f == CHOOSE f : Balances(f, list)
<1>7. Balances(f, list)
  BY <1>6
<1>8. Wallet!Summed(list) = f[Len(list)]
  BY DEF Wallet!Summed, Balances
<1> HIDE DEF f, G
<1>9. f[0] = Initial /\ \A n \in 1 .. N : f[n] = Wallet!Applied(f[n - 1], list[n])
  BY <1>1, <1>7 DEF Balances
<1>10. \A n \in 0 .. N : f[n] \in Nat
  <2> DEFINE T == {n \in 0 .. N : f[n] \notin Nat}
  <2> SUFFICES ASSUME T # {} PROVE FALSE
    OBVIOUS
  <2>1. PICK n \in T : \A m \in T : n <= m
    <3>1. T \subseteq Nat /\ T # {}
      BY <1>1
    <3> HIDE DEF T
    <3> QED BY <3>1, LeastNat
  <2>2. n # 0
    BY <1>1, <1>9
  <2>3. n \in 1 .. N /\ n - 1 \in 0 .. N /\ f[n - 1] \in Nat
    BY <1>1, <2>1, <2>2
  <2>4. list[n] \in Wallet!Txs
    BY <2>3
  <2> QED BY <1>9, <2>3, <2>4, AppliedNat
<1>11. f \in [0 .. N -> Nat]
  BY <1>7, <1>10 DEF Balances
<1> QED BY <1>8, <1>9, <1>11

\* A list without transactions leaves the initial balance.
LEMMA SummedNone == Wallet!Summed(<<>>) = Initial
<1>1. <<>> \in Seq(Wallet!Txs) /\ Len(<<>>) = 0
  OBVIOUS
<1> QED BY <1>1, SummedIs

\* One more transaction is applied to what the others sum up to.
LEMMA SummedAppend ==
  ASSUME NEW list \in Seq(Wallet!Txs), NEW tx \in Wallet!Txs
  PROVE  Wallet!Summed(Append(list, tx)) = Wallet!Applied(Wallet!Summed(list), tx)
<1> DEFINE N == Len(list)
           more == Append(list, tx)
<1>1. /\ N \in Nat /\ more \in Seq(Wallet!Txs) /\ Len(more) = N + 1 /\ more[N + 1] = tx
      /\ \A i \in 1 .. N : more[i] = list[i]
  OBVIOUS
<1>2. PICK f \in [0 .. N -> Nat] :
        /\ f[0] = Initial
        /\ \A n \in 1 .. N : f[n] = Wallet!Applied(f[n - 1], list[n])
        /\ Wallet!Summed(list) = f[N]
  BY SummedIs
<1> HIDE DEF more
<1>3. PICK g \in [0 .. Len(more) -> Nat] :
        /\ g[0] = Initial
        /\ \A n \in 1 .. Len(more) : g[n] = Wallet!Applied(g[n - 1], more[n])
        /\ Wallet!Summed(more) = g[Len(more)]
  BY <1>1, SummedIs
<1>4. \A n \in 0 .. N : g[n] = f[n]
  <2> DEFINE T == {n \in 0 .. N : g[n] # f[n]}
  <2> SUFFICES ASSUME T # {} PROVE FALSE
    OBVIOUS
  <2>1. PICK n \in T : \A m \in T : n <= m
    <3>1. T \subseteq Nat /\ T # {}
      BY <1>1
    <3> HIDE DEF T
    <3> QED BY <3>1, LeastNat
  <2>2. n # 0
    BY <1>2, <1>3
  <2>3. n \in 1 .. N /\ n - 1 \in 0 .. N /\ n \in 1 .. Len(more) /\ g[n - 1] = f[n - 1]
    BY <1>1, <2>1, <2>2
  <2>4. g[n] = Wallet!Applied(g[n - 1], list[n])
    BY <1>1, <1>3, <2>3
  <2>5. f[n] = Wallet!Applied(f[n - 1], list[n])
    BY <1>2, <2>3
  <2> QED BY <2>3, <2>4, <2>5
<1>5. N + 1 \in 1 .. Len(more) /\ (N + 1) - 1 = N /\ N \in 0 .. N
  BY <1>1
<1>6. g[N + 1] = Wallet!Applied(g[N], tx)
  BY <1>1, <1>3, <1>5
<1> QED BY <1>1, <1>2, <1>3, <1>4, <1>5, <1>6 DEF more

-----------------------------------------------------------------------------
\* Transactions in the order of their timestamps.
InTime(list) ==
  \A i, j \in 1 .. Len(list) : i < j => list[i].timestamp < list[j].timestamp
Different(txs) == \A a, b \in txs : a.timestamp = b.timestamp => a = b

\* There is one list of given transactions in their order.
LEMMA OneOrder ==
  ASSUME NEW A \in Seq(Wallet!Txs), NEW B \in Seq(Wallet!Txs), InTime(A), InTime(B),
         Wallet!ToSet(A) = Wallet!ToSet(B)
  PROVE  A = B
<1>1. ASSUME NEW C \in Seq(Wallet!Txs), NEW D \in Seq(Wallet!Txs), InTime(C), InTime(D),
             Wallet!ToSet(C) = Wallet!ToSet(D)
      PROVE  Len(C) <= Len(D) /\ \A i \in 1 .. Len(C) : C[i] = D[i]
  <2> DEFINE T == {i \in 1 .. Len(C) : ~(i <= Len(D) /\ C[i] = D[i])}
  <2>1. /\ \A i \in 1 .. Len(C) : C[i].timestamp \in Nat
        /\ \A i \in 1 .. Len(D) : D[i].timestamp \in Nat
        /\ DOMAIN C = 1 .. Len(C) /\ DOMAIN D = 1 .. Len(D)
    <3>1. /\ \A i \in 1 .. Len(C) : C[i] \in Wallet!Txs
          /\ \A i \in 1 .. Len(D) : D[i] \in Wallet!Txs
      OBVIOUS
    <3>2. \A tx \in Wallet!Txs : tx.timestamp \in Nat
      BY DEF Wallet!Txs
    <3> QED BY <3>1, <3>2
  <2>2. T = {}
    <3> SUFFICES ASSUME T # {} PROVE FALSE
      OBVIOUS
    <3>1. PICK i \in T : \A m \in T : i <= m
      <4>1. T \subseteq Nat /\ T # {}
        OBVIOUS
      <4> HIDE DEF T
      <4> QED BY <4>1, LeastNat
    <3>2. \A j \in 1 .. i - 1 : j <= Len(D) /\ C[j] = D[j]
      BY <3>1
    <3>3. PICK k \in 1 .. Len(D) : C[i] = D[k]
      <4>1. C[i] \in Wallet!ToSet(C)
        BY <2>1 DEF Wallet!ToSet
      <4> QED BY <1>1, <2>1, <4>1 DEF Wallet!ToSet
    <3>4. k >= i
      <4> SUFFICES ASSUME k < i PROVE FALSE
        OBVIOUS
      <4>1. C[k] = D[k] /\ k \in 1 .. Len(C)
        BY <3>2
      <4>2. C[k].timestamp < C[i].timestamp
        BY <1>1, <4>1 DEF InTime
      <4> QED BY <2>1, <3>3, <4>1, <4>2
    <3>5. i \in 1 .. Len(D)
      BY <3>4
    <3>6. PICK m \in 1 .. Len(C) : D[i] = C[m]
      <4>1. D[i] \in Wallet!ToSet(D)
        BY <2>1, <3>5 DEF Wallet!ToSet
      <4> QED BY <1>1, <2>1, <4>1 DEF Wallet!ToSet
    <3>7. m >= i
      <4> SUFFICES ASSUME m < i PROVE FALSE
        OBVIOUS
      <4>1. C[m] = D[m] /\ m \in 1 .. Len(D)
        BY <3>2
      <4>2. D[m].timestamp < D[i].timestamp
        BY <1>1, <3>5, <4>1 DEF InTime
      <4> QED BY <2>1, <3>5, <3>6, <4>1, <4>2
    <3>8. CASE k = i
      BY <3>1, <3>3, <3>5, <3>8
    <3>9. CASE k > i
      <4>1. D[i].timestamp < D[k].timestamp
        BY <1>1, <3>5, <3>9 DEF InTime
      <4>2. m = i \/ C[i].timestamp < C[m].timestamp
        BY <1>1, <3>7 DEF InTime
      <4>3. C[i].timestamp \in Nat /\ D[i].timestamp \in Nat
        BY <2>1, <3>5
      <4> QED BY <3>3, <3>6, <4>1, <4>2, <4>3
    <3> QED BY <3>4, <3>8, <3>9
  <2>3. \A i \in 1 .. Len(C) : i <= Len(D) /\ C[i] = D[i]
    BY <2>2
  <2>4. Len(C) <= Len(D)
    <3>1. CASE Len(C) = 0
      BY <3>1
    <3>2. CASE Len(C) # 0
      <4>1. Len(C) \in 1 .. Len(C)
        BY <3>2
      <4> QED BY <2>3, <4>1
    <3> QED BY <3>1, <3>2
  <2> QED BY <2>3, <2>4
<1>2. Len(A) = Len(B) /\ \A i \in 1 .. Len(A) : A[i] = B[i]
  <2>1. Len(A) <= Len(B) /\ \A i \in 1 .. Len(A) : A[i] = B[i]
    BY <1>1
  <2>2. Len(B) <= Len(A)
    BY <1>1
  <2> QED BY <2>1, <2>2
<1> QED BY <1>2, SeqEqual

\* The lists of the transactions with the first timestamps.
Lists(f, txs) ==
  f = [n \in 0 .. MaxBooked |->
        IF n = 0 THEN <<>>
        ELSE IF \E tx \in txs : tx.timestamp = n
             THEN Append(f[n - 1], CHOOSE tx \in txs : tx.timestamp = n)
             ELSE f[n - 1]]

\* One more timestamp: the transaction that has it, if any, is the last of the list.
NextList(list, txs, n) ==
  IF \E tx \in txs : tx.timestamp = n
  THEN Append(list, CHOOSE tx \in txs : tx.timestamp = n) ELSE list

\* What has been listed with the first n timestamps.
ListedTo(list, txs, n) ==
  /\ list \in Seq(Wallet!Txs) /\ InTime(list)
  /\ Wallet!ToSet(list) = {tx \in txs : tx.timestamp <= n}

\* The next timestamp is listed after those before it.
LEMMA NextListed ==
  ASSUME NEW txs, txs \subseteq Wallet!Txs, Different(txs), NEW n \in 1 .. MaxBooked,
         NEW list, ListedTo(list, txs, n - 1)
  PROVE  ListedTo(NextList(list, txs, n), txs, n)
<1>0. /\ \A tx \in txs : tx.timestamp \in Nat /\ n \in Nat /\ Len(list) \in Nat
      /\ list \in Seq(Wallet!Txs)
  BY WalletConstants DEF Wallet!Txs, ListedTo
<1>1. CASE \E tx \in txs : tx.timestamp = n
  <2> DEFINE new == CHOOSE tx \in txs : tx.timestamp = n
             more == Append(list, new)
  <2>1. new \in txs /\ new.timestamp = n
    BY <1>1
  <2>2. NextList(list, txs, n) = more
    BY <1>1 DEF NextList
  <2> HIDE DEF new
  <2>3. /\ more \in Seq(Wallet!Txs) /\ Len(more) = Len(list) + 1 /\ more[Len(list) + 1] = new
        /\ \A i \in 1 .. Len(list) : more[i] = list[i]
    BY <1>0, <2>1
  <2> HIDE DEF more
  <2>4. \A i \in 1 .. Len(list) : list[i] \in txs /\ list[i].timestamp <= n - 1
    BY DEF ListedTo, Wallet!ToSet
  <2>5. InTime(more)
    <3> SUFFICES ASSUME NEW i \in 1 .. Len(more), NEW j \in 1 .. Len(more), i < j
                 PROVE  more[i].timestamp < more[j].timestamp
      BY DEF InTime
    <3>1. i \in 1 .. Len(list) /\ more[i] = list[i]
      BY <1>0, <2>3
    <3>2. CASE j = Len(list) + 1
      BY <1>0, <2>1, <2>3, <2>4, <3>1, <3>2
    <3>3. CASE j # Len(list) + 1
      <4>0. j \in 1 .. Len(list)
        BY <1>0, <2>3, <3>3
      <4>1. more[j] = list[j]
        BY <2>3, <4>0
      <4> QED BY <3>1, <4>0, <4>1 DEF ListedTo, InTime
    <3> QED BY <3>2, <3>3
  <2>6. Wallet!ToSet(more) = Wallet!ToSet(list) \cup {new}
    <3>1. \A i \in 1 .. Len(more) : i \in 1 .. Len(list) \/ i = Len(list) + 1
      BY <1>0, <2>3
    <3>2. Len(list) + 1 \in 1 .. Len(more) /\ \A i \in 1 .. Len(list) : i \in 1 .. Len(more)
      BY <1>0, <2>3
    <3>3. DOMAIN more = 1 .. Len(more) /\ DOMAIN list = 1 .. Len(list)
      BY <1>0, <2>3
    <3> QED BY <2>3, <3>1, <3>2, <3>3 DEF Wallet!ToSet
  <2>7. Wallet!ToSet(more) = {tx \in txs : tx.timestamp <= n}
    <3>1. \A tx \in txs : tx.timestamp <= n <=> tx.timestamp <= n - 1 \/ tx.timestamp = n
      BY <1>0
    <3>2. \A tx \in txs : tx.timestamp = n <=> tx = new
      BY <2>1 DEF Different
    <3> QED BY <2>1, <2>6, <3>1, <3>2 DEF ListedTo
  <2> QED BY <2>2, <2>3, <2>5, <2>7 DEF ListedTo
<1>2. CASE ~ \E tx \in txs : tx.timestamp = n
  <2>1. NextList(list, txs, n) = list
    BY <1>2 DEF NextList
  <2>2. \A tx \in txs : tx.timestamp <= n <=> tx.timestamp <= n - 1
    BY <1>0, <1>2
  <2> QED BY <2>1, <2>2 DEF ListedTo
<1> QED BY <1>1, <1>2

\* InOrder lists the transactions it is given.
LEMMA InOrderIs ==
  ASSUME NEW txs, txs \subseteq Wallet!Txs, Different(txs)
  PROVE  /\ Wallet!InOrder(txs) \in Seq(Wallet!Txs) /\ InTime(Wallet!InOrder(txs))
         /\ Wallet!ToSet(Wallet!InOrder(txs)) = txs
<1> DEFINE N == MaxBooked
           G == [p \in (1 .. N) \X Seq(Wallet!Txs) |-> NextList(p[2], txs, p[1])]
<1>1. N \in Nat /\ <<>> \in Seq(Wallet!Txs)
  BY WalletConstants
<1>2. G \in Steps(N, Seq(Wallet!Txs))
  <2> SUFFICES ASSUME NEW p \in (1 .. N) \X Seq(Wallet!Txs)
               PROVE  NextList(p[2], txs, p[1]) \in Seq(Wallet!Txs)
    BY DEF Steps
  <2>1. p[2] \in Seq(Wallet!Txs)
    OBVIOUS
  <2>2. CASE \E tx \in txs : tx.timestamp = p[1]
    <3>1. (CHOOSE tx \in txs : tx.timestamp = p[1]) \in Wallet!Txs
      BY <2>2
    <3> QED BY <2>1, <2>2, <3>1 DEF NextList
  <2>3. CASE ~ \E tx \in txs : tx.timestamp = p[1]
    BY <2>1, <2>3 DEF NextList
  <2> QED BY <2>2, <2>3
<1>3. Reachable(N, Seq(Wallet!Txs), <<>>, G)
  <2> HIDE DEF N, G
  <2> QED BY ONLY <1>1, <1>2, Repeated
<1>4. PICK g \in [0 .. N -> Seq(Wallet!Txs)] :
        g[0] = <<>> /\ \A n \in 1 .. N : g[n] = G[<<n, g[n - 1]>>]
  <2> HIDE DEF N, G
  <2> QED BY ONLY <1>3 DEF Reachable
<1>5. \A n \in 1 .. N : g[n] = NextList(g[n - 1], txs, n)
  <2> SUFFICES ASSUME NEW n \in 1 .. N PROVE g[n] = NextList(g[n - 1], txs, n)
    OBVIOUS
  <2>1. n - 1 \in 0 .. N
    BY <1>1
  <2>2. <<n, g[n - 1]>> \in (1 .. N) \X Seq(Wallet!Txs)
    BY <2>1
  <2>3. g[n] = G[<<n, g[n - 1]>>]
    BY <1>4
  <2> QED BY <2>2, <2>3
<1>6. Lists(g, txs)
  <2>1. g = [n \in 0 .. N |-> g[n]]
    OBVIOUS
  <2>2. \A n \in 0 .. N : g[n] = IF n = 0 THEN <<>> ELSE NextList(g[n - 1], txs, n)
    BY <1>4, <1>5
  <2> HIDE DEF G
  <2> QED BY ONLY <2>1, <2>2 DEF Lists, NextList
<1> DEFINE f == CHOOSE f : Lists(f, txs)
<1>7. Lists(f, txs)
  BY <1>6
<1>8. Wallet!InOrder(txs) = f[N]
  BY DEF Wallet!InOrder, Lists
<1> HIDE DEF f, G
<1>9. f[0] = <<>> /\ \A n \in 1 .. N : f[n] = NextList(f[n - 1], txs, n)
  <2>1. f = [n \in 0 .. N |-> IF n = 0 THEN <<>> ELSE NextList(f[n - 1], txs, n)]
    BY ONLY <1>7 DEF Lists, NextList
  <2>2. \A n \in 0 .. N : f[n] = IF n = 0 THEN <<>> ELSE NextList(f[n - 1], txs, n)
    BY ONLY <2>1
  <2>3. 0 \in 0 .. N /\ \A n \in 1 .. N : n \in 0 .. N /\ n # 0
    BY <1>1
  <2> QED BY ONLY <2>2, <2>3
<1>10. \A n \in 0 .. N : ListedTo(f[n], txs, n)
  <2> DEFINE T == {n \in 0 .. N : ~ListedTo(f[n], txs, n)}
  <2> SUFFICES ASSUME T # {} PROVE FALSE
    OBVIOUS
  <2>1. PICK n \in T : \A m \in T : n <= m
    <3>1. T \subseteq Nat /\ T # {}
      BY <1>1
    <3> HIDE DEF T
    <3> QED BY <3>1, LeastNat
  <2>2. n # 0
    <3>1. ListedTo(<<>>, txs, 0)
      <4>1. {tx \in txs : tx.timestamp <= 0} = {}
        BY DEF Wallet!Txs
      <4>2. Wallet!ToSet(<<>>) = {}
        BY DEF Wallet!ToSet
      <4> QED BY <4>1, <4>2 DEF ListedTo, InTime
    <3> QED BY <1>9, <2>1, <3>1
  <2>3. n \in 1 .. N /\ ListedTo(f[n - 1], txs, n - 1)
    BY <1>1, <2>1, <2>2
  <2> QED BY <1>9, <2>1, <2>3, NextListed
<1>11. ListedTo(f[N], txs, N)
  BY <1>1, <1>10
<1>12. {tx \in txs : tx.timestamp <= N} = txs
  BY <1>1 DEF Wallet!Txs
<1> QED BY <1>8, <1>11, <1>12 DEF ListedTo

-----------------------------------------------------------------------------
\* Trimmed keeps the end of a list, and all of a list that is short enough.
LEMMA TrimmedIs ==
  ASSUME NEW S, NEW list \in Seq(S), NEW n \in Nat \ {0}
  PROVE  /\ Wallet!Trimmed(list, n) \in Seq(S) /\ Len(Wallet!Trimmed(list, n)) <= n
         /\ Len(list) <= n => Wallet!Trimmed(list, n) = list
         /\ Len(list) > n => /\ Len(Wallet!Trimmed(list, n)) = n
                             /\ \A i \in 1 .. n :
                                  Wallet!Trimmed(list, n)[i] = list[Len(list) - n + i]
<1>1. CASE Len(list) <= n
  <2>0. Len(list) \in Nat /\ ~(Len(list) > n)
    BY <1>1
  <2>1. Wallet!Trimmed(list, n) = SubSeq(list, 1, Len(list))
    BY ONLY <2>0 DEF Wallet!Trimmed
  <2>2. SubSeq(list, 1, Len(list)) = list
    OBVIOUS
  <2>3. Wallet!Trimmed(list, n) = list
    BY <2>1, <2>2
  <2> HIDE DEF Wallet!Trimmed
  <2> QED BY <1>1, <2>0, <2>3
<1>2. CASE Len(list) > n
  <2>1. Wallet!Trimmed(list, n) = SubSeq(list, Len(list) - n + 1, Len(list))
    BY <1>2 DEF Wallet!Trimmed
  <2>2. Len(list) - n + 1 \in 1 .. Len(list) /\ Len(list) \in Nat
    BY <1>2
  <2> DEFINE s == SubSeq(list, Len(list) - n + 1, Len(list))
  <2>3. s \in Seq(S)
    BY <2>2
  <2>4. Len(s) = n
    BY <2>2
  <2>5. \A i \in 1 .. n : s[i] = list[Len(list) - n + i]
    BY <2>2
  <2> QED BY <1>2, <2>1, <2>3, <2>4, <2>5
<1> QED BY <1>1, <1>2

\* Trimming a list before something is appended makes no difference to trimming it after.
LEMMA TrimmedAppend ==
  ASSUME NEW S, NEW list \in Seq(S), NEW e \in S, NEW n \in Nat \ {0}
  PROVE  Wallet!Trimmed(Append(Wallet!Trimmed(list, n), e), n)
           = Wallet!Trimmed(Append(list, e), n)
<1>1. CASE Len(list) <= n
  BY <1>1, TrimmedIs
<1>2. CASE Len(list) > n
  <2> DEFINE short == Wallet!Trimmed(list, n)
             a == Append(short, e)
             b == Append(list, e)
             x == Wallet!Trimmed(a, n)
             y == Wallet!Trimmed(b, n)
  <2>1. /\ short \in Seq(S) /\ Len(short) = n
        /\ \A i \in 1 .. n : short[i] = list[Len(list) - n + i]
    BY <1>2, TrimmedIs
  <2> HIDE DEF short
  <2>2. /\ a \in Seq(S) /\ Len(a) = n + 1 /\ a[n + 1] = e
        /\ \A i \in 1 .. n : a[i] = short[i]
    BY <2>1
  <2>3. /\ b \in Seq(S) /\ Len(b) = Len(list) + 1 /\ b[Len(list) + 1] = e
        /\ \A i \in 1 .. Len(list) : b[i] = list[i]
    OBVIOUS
  <2> HIDE DEF a, b
  <2>4. Len(a) > n /\ Len(b) > n /\ Len(list) \in Nat
    BY <1>2, <2>2, <2>3
  <2>5. /\ x \in Seq(S) /\ Len(x) = n /\ \A i \in 1 .. n : x[i] = a[Len(a) - n + i]
    <3>1. a \in Seq(S) /\ n \in Nat \ {0} /\ Len(a) > n
      BY <2>2, <2>4
    <3> QED BY ONLY <3>1, TrimmedIs
  <2>6. /\ y \in Seq(S) /\ Len(y) = n /\ \A i \in 1 .. n : y[i] = b[Len(b) - n + i]
    <3>1. b \in Seq(S) /\ n \in Nat \ {0} /\ Len(b) > n
      BY <2>3, <2>4
    <3> QED BY ONLY <3>1, TrimmedIs
  <2> HIDE DEF x, y
  <2>7. ASSUME NEW i \in 1 .. n PROVE x[i] = y[i]
    <3>1. x[i] = a[i + 1] /\ y[i] = b[Len(list) - n + (i + 1)]
      <4>0. Len(a) = n + 1 /\ Len(b) = Len(list) + 1 /\ Len(list) \in Nat
        BY <2>2, <2>3, <2>4
      <4>1. Len(a) - n + i = i + 1 /\ Len(b) - n + i = Len(list) - n + (i + 1)
        BY ONLY <4>0, n \in Nat \ {0}, i \in 1 .. n
      <4> QED BY <2>5, <2>6, <4>1
    <3>2. CASE i = n
      <4>1. i + 1 = n + 1 /\ Len(list) - n + (i + 1) = Len(list) + 1
        BY <2>4, <3>2
      <4> QED BY <2>2, <2>3, <3>1, <4>1
    <3>3. CASE i # n
      <4>1. i + 1 \in 1 .. n /\ Len(list) - n + (i + 1) \in 1 .. Len(list)
        BY <1>2, <2>4, <3>3
      <4>2. a[i + 1] = short[i + 1] /\ short[i + 1] = list[Len(list) - n + (i + 1)]
        BY <2>1, <2>2, <4>1
      <4>3. b[Len(list) - n + (i + 1)] = list[Len(list) - n + (i + 1)]
        BY <2>3, <4>1
      <4> QED BY <3>1, <4>2, <4>3
    <3> QED BY <3>2, <3>3
  <2>8. x = y
    BY <2>5, <2>6, <2>7, SeqEqual
  <2> QED BY <2>8 DEF x, y, a, b, short
<1> QED BY <1>1, <1>2

-----------------------------------------------------------------------------
\* The transactions that the wallet, its rows or a writer know of.
KnownTxs == {tx \in Wallet!Txs : \/ tx \in counted
                              \/ tx \in Wallet!ToSet(txRows)
                              \/ \E w \in Writers : unsaved[w] = tx}

\* The wallet is what a list of transactions in their order makes of it; the transactions
\* that are known have different timestamps, none of which is to come.
Booked(list) ==
  /\ list \in Seq(Wallet!Txs) /\ InTime(list) /\ Wallet!ToSet(list) = counted
  /\ ledger = Wallet!Trimmed(list, Capacity) /\ balance = Wallet!Summed(list)

WalletTyped ==
  /\ txRows \in Seq(Wallet!Txs) /\ unsaved \in [Writers -> Wallet!Txs \cup {Wallet!NoTx}]
  /\ clearing \in BOOLEAN /\ time \in 0 .. MaxBooked /\ counted \subseteq Wallet!Txs

WalletInv ==
  /\ WalletTyped
  /\ Different(KnownTxs) /\ \A tx \in KnownTxs : tx.timestamp <= time
  /\ \E list : Booked(list)

\* What the rows restore: their transactions in their order, all of them when they fit.
LEMMA RestoredIs ==
  ASSUME txRows \in Seq(Wallet!Txs), Different(Wallet!ToSet(txRows))
  PROVE  LET restored == Wallet!Stored(Capacity)
             all == Wallet!InOrder(Wallet!ToSet(txRows))
         IN  /\ restored \in Seq(Wallet!Txs) /\ InTime(restored)
             /\ Wallet!ToSet(restored) \subseteq Wallet!ToSet(txRows)
             /\ all \in Seq(Wallet!Txs) /\ InTime(all)
             /\ Wallet!ToSet(all) = Wallet!ToSet(txRows)
             /\ Len(all) <= Capacity => restored = all
<1> DEFINE txs == Wallet!ToSet(txRows)
           all == Wallet!InOrder(txs)
           k == IF Len(all) > Capacity THEN Capacity ELSE Len(all)
           restored == SubSeq(all, 1, k)
<1>1. txs \subseteq Wallet!Txs /\ Different(txs)
  <2>1. \A i \in DOMAIN txRows : txRows[i] \in Wallet!Txs
    OBVIOUS
  <2> QED BY <2>1 DEF Wallet!ToSet
<1>2. all \in Seq(Wallet!Txs) /\ InTime(all) /\ Wallet!ToSet(all) = txs
  <2> HIDE DEF txs
  <2> QED BY ONLY <1>1, InOrderIs
<1>3. Wallet!Stored(Capacity) = restored
  BY DEF Wallet!Stored
<1> HIDE DEF txs, all
<1>4. Len(all) \in Nat /\ Capacity \in Nat \ {0}
  BY <1>2, WalletConstants
<1>5. k \in 0 .. Len(all) /\ (Len(all) <= Capacity => k = Len(all))
  BY ONLY <1>4
<1> HIDE DEF k
<1>6. restored \in Seq(Wallet!Txs) /\ Len(restored) = k /\ \A i \in 1 .. k : restored[i] = all[i]
  BY <1>2, <1>4, <1>5
<1> HIDE DEF restored
<1>7. InTime(restored)
  <2>1. \A i \in 1 .. Len(restored) : i \in 1 .. Len(all) /\ restored[i] = all[i]
    BY <1>4, <1>5, <1>6
  <2> QED BY <1>2, <2>1 DEF InTime
<1>8. Wallet!ToSet(restored) \subseteq txs
  <2>1. \A i \in 1 .. k : i \in 1 .. Len(all) /\ restored[i] = all[i]
    BY <1>4, <1>5, <1>6
  <2>2. DOMAIN restored = 1 .. k /\ DOMAIN all = 1 .. Len(all)
    BY <1>2, <1>6
  <2> QED BY <1>2, <2>1, <2>2 DEF Wallet!ToSet
<1>9. Len(all) <= Capacity => restored = all
  <2> SUFFICES ASSUME Len(all) <= Capacity PROVE restored = all
    OBVIOUS
  <2> QED BY <1>2, <1>5, <1>6, SeqEqual
<1> QED BY <1>2, <1>3, <1>6, <1>7, <1>8, <1>9 DEF txs, all

\* A transaction at the end of a list: the list stays in its order if it is later.
LEMMA BookedNext ==
  ASSUME NEW list \in Seq(Wallet!Txs), InTime(list), NEW tx \in Wallet!Txs,
         \A other \in Wallet!ToSet(list) : other.timestamp < tx.timestamp
  PROVE  /\ Append(list, tx) \in Seq(Wallet!Txs) /\ InTime(Append(list, tx))
         /\ Wallet!ToSet(Append(list, tx)) = Wallet!ToSet(list) \cup {tx}
<1> DEFINE more == Append(list, tx)
<1>1. /\ more \in Seq(Wallet!Txs) /\ Len(more) = Len(list) + 1 /\ more[Len(list) + 1] = tx
      /\ \A i \in 1 .. Len(list) : more[i] = list[i]
      /\ Len(list) \in Nat /\ DOMAIN list = 1 .. Len(list) /\ DOMAIN more = 1 .. Len(more)
  OBVIOUS
<1> HIDE DEF more
<1>2. \A i \in 1 .. Len(list) : list[i].timestamp < tx.timestamp
  BY <1>1 DEF Wallet!ToSet
<1>3. InTime(more)
  <2> SUFFICES ASSUME NEW i \in 1 .. Len(more), NEW j \in 1 .. Len(more), i < j
               PROVE  more[i].timestamp < more[j].timestamp
    BY DEF InTime
  <2>1. i \in 1 .. Len(list) /\ more[i] = list[i]
    BY <1>1
  <2>2. CASE j = Len(list) + 1
    BY <1>1, <1>2, <2>1, <2>2
  <2>3. CASE j # Len(list) + 1
    <3>1. j \in 1 .. Len(list)
      BY <1>1, <2>3
    <3>2. more[j] = list[j]
      BY <1>1, <3>1
    <3> QED BY <2>1, <3>1, <3>2 DEF InTime
  <2> QED BY <2>2, <2>3
<1>4. Wallet!ToSet(more) = Wallet!ToSet(list) \cup {tx}
  <2>1. \A i \in 1 .. Len(more) : i \in 1 .. Len(list) \/ i = Len(list) + 1
    BY <1>1
  <2>2. Len(list) + 1 \in 1 .. Len(more) /\ \A i \in 1 .. Len(list) : i \in 1 .. Len(more)
    BY <1>1
  <2> QED BY <1>1, <2>1, <2>2 DEF Wallet!ToSet
<1> QED BY <1>1, <1>3, <1>4 DEF more

\* What an empty list of transactions makes.
LEMMA EmptyBooked ==
  /\ <<>> \in Seq(Wallet!Txs) /\ InTime(<<>>) /\ Wallet!ToSet(<<>>) = {}
  /\ Wallet!Trimmed(<<>>, Capacity) = <<>> /\ Wallet!Summed(<<>>) = Initial
<1>1. /\ <<>> \in Seq(Wallet!Txs) /\ Len(<<>>) = 0
      /\ Capacity \in Nat \ {0} /\ Len(<<>>) <= Capacity
  BY WalletConstants
<1>2. InTime(<<>>) /\ Wallet!ToSet(<<>>) = {}
  BY DEF InTime, Wallet!ToSet
<1> QED BY <1>1, <1>2, TrimmedIs, SummedNone

\* Every step of the wallet keeps its invariant.
LEMMA WalletStep == WalletInv /\ Wallet!WalletNext => WalletInv'
<1> SUFFICES ASSUME WalletInv, Wallet!WalletNext PROVE WalletInv'
  OBVIOUS
<1>0. KnownTxs \subseteq Wallet!Txs /\ \A tx \in Wallet!Txs : tx.timestamp \in Nat
  BY DEF KnownTxs, Wallet!Txs
<1>1. ASSUME NEW w \in Writers, Wallet!Book(w) PROVE WalletInv'
  <2>1. PICK type \in {"income", "expense"}, amount \in Amounts :
          LET tx == [timestamp |-> time + 1, type |-> type, amount |-> amount]
          IN /\ ledger' = Wallet!Trimmed(Append(ledger, tx), Capacity)
             /\ balance' = Wallet!Applied(balance, tx)
             /\ unsaved' = [unsaved EXCEPT ![w] = tx]
             /\ counted' = counted \cup {tx}
    BY <1>1 DEF Wallet!Book
  <2> DEFINE tx == [timestamp |-> time + 1, type |-> type, amount |-> amount]
  <2>2. time' = time + 1 /\ UNCHANGED <<txRows, clearing>> /\ time < MaxBooked
    BY <1>1 DEF Wallet!Book
  <2>3. tx \in Wallet!Txs /\ tx.timestamp = time + 1 /\ time \in Nat /\ MaxBooked \in Nat
    BY <2>2, WalletConstants DEF WalletInv, WalletTyped, Wallet!Txs
  <2>4. /\ ledger' = Wallet!Trimmed(Append(ledger, tx), Capacity)
        /\ balance' = Wallet!Applied(balance, tx)
        /\ unsaved' = [unsaved EXCEPT ![w] = tx] /\ counted' = counted \cup {tx}
    BY <2>1
  <2> HIDE DEF tx
  <2>5. WalletTyped'
    BY <2>2, <2>3, <2>4, WalletConstants DEF WalletInv, WalletTyped
  <2>6. KnownTxs' \subseteq KnownTxs \cup {tx}
    <3>1. \A v \in Writers : unsaved'[v] = tx \/ unsaved'[v] = unsaved[v]
      BY <2>4 DEF WalletInv, WalletTyped
    <3> QED BY <2>2, <2>4, <3>1 DEF KnownTxs
  <2>7. \A a \in KnownTxs : a.timestamp <= time /\ a.timestamp \in Nat
    BY <1>0 DEF WalletInv
  <2>8. Different(KnownTxs') /\ \A a \in KnownTxs' : a.timestamp <= time'
    <3>1. \A a \in KnownTxs' : a.timestamp <= time'
      BY <2>2, <2>3, <2>6, <2>7
    <3>2. Different(KnownTxs')
      <4> SUFFICES ASSUME NEW a \in KnownTxs', NEW b \in KnownTxs', a.timestamp = b.timestamp
                   PROVE  a = b
        BY DEF Different
      <4>1. Different(KnownTxs)
        BY DEF WalletInv
      <4> QED BY <2>3, <2>6, <2>7, <4>1 DEF Different
    <3> QED BY <3>1, <3>2
  <2>9. PICK list : Booked(list)
    BY DEF WalletInv
  <2>10. \A other \in Wallet!ToSet(list) : other.timestamp < tx.timestamp
    <3>1. counted \subseteq KnownTxs
      BY DEF WalletInv, WalletTyped, KnownTxs
    <3> QED BY <2>3, <2>7, <2>9, <3>1 DEF Booked
  <2> DEFINE more == Append(list, tx)
  <2>11. /\ more \in Seq(Wallet!Txs) /\ InTime(more)
         /\ Wallet!ToSet(more) = Wallet!ToSet(list) \cup {tx}
    <3>1. list \in Seq(Wallet!Txs) /\ InTime(list)
      BY <2>9 DEF Booked
    <3> QED BY ONLY <2>3, <2>10, <3>1, BookedNext
  <2>12. ledger' = Wallet!Trimmed(more, Capacity) /\ balance' = Wallet!Summed(more)
    <3>1. /\ list \in Seq(Wallet!Txs) /\ Capacity \in Nat \ {0}
          /\ ledger = Wallet!Trimmed(list, Capacity) /\ balance = Wallet!Summed(list)
      BY <2>9, WalletConstants DEF Booked
    <3>2. Wallet!Trimmed(Append(ledger, tx), Capacity) = Wallet!Trimmed(more, Capacity)
      BY ONLY <2>3, <3>1, TrimmedAppend
    <3>3. Wallet!Summed(more) = Wallet!Applied(balance, tx)
      BY ONLY <2>3, <3>1, SummedAppend
    <3> QED BY <2>4, <3>2, <3>3
  <2> HIDE DEF more
  <2>13. PICK longer : longer = more
    OBVIOUS
  <2>14. Booked(longer)'
    BY <2>4, <2>9, <2>11, <2>12, <2>13 DEF Booked
  <2> QED BY <2>5, <2>8, <2>14 DEF WalletInv, Different
<1>2. ASSUME NEW w \in Writers, Wallet!SaveRow(w) PROVE WalletInv'
  <2>1. /\ unsaved[w] # Wallet!NoTx /\ txRows' \in {Append(txRows, unsaved[w]), txRows}
        /\ unsaved' = [unsaved EXCEPT ![w] = Wallet!NoTx]
        /\ UNCHANGED <<ledger, balance, clearing, time, counted>>
    BY <1>2 DEF Wallet!SaveRow
  <2>2. unsaved[w] \in Wallet!Txs /\ txRows \in Seq(Wallet!Txs)
    BY <2>1 DEF WalletInv, WalletTyped
  <2>3. /\ txRows' \in Seq(Wallet!Txs)
        /\ Wallet!ToSet(txRows') \subseteq Wallet!ToSet(txRows) \cup {unsaved[w]}
    <3>1. CASE txRows' = txRows
      BY <2>2, <3>1
    <3>2. CASE txRows' = Append(txRows, unsaved[w])
      <4>1. /\ DOMAIN txRows' = 1 .. Len(txRows) + 1 /\ txRows' \in Seq(Wallet!Txs)
            /\ txRows'[Len(txRows) + 1] = unsaved[w] /\ DOMAIN txRows = 1 .. Len(txRows)
            /\ \A i \in 1 .. Len(txRows) : txRows'[i] = txRows[i]
        BY <2>2, <3>2
      <4>2. \A i \in DOMAIN txRows' : i \in DOMAIN txRows \/ i = Len(txRows) + 1
        BY <2>2, <4>1
      <4> QED BY <4>1, <4>2 DEF Wallet!ToSet
    <3> QED BY <2>1, <3>1, <3>2
  <2>4. WalletTyped'
    BY <2>1, <2>3 DEF WalletInv, WalletTyped
  <2>5. KnownTxs' \subseteq KnownTxs
    <3>1. \A v \in Writers : unsaved'[v] = Wallet!NoTx \/ unsaved'[v] = unsaved[v]
      BY <2>1 DEF WalletInv, WalletTyped
    <3> QED BY <2>1, <2>2, <2>3, <3>1, WalletConstants DEF KnownTxs
  <2>6. \A list : Booked(list) => Booked(list)'
    BY <2>1 DEF Booked
  <2> QED BY <2>1, <2>4, <2>5, <2>6 DEF WalletInv, Different
<1>3. ASSUME Wallet!Restart PROVE WalletInv'
  <2> DEFINE restored == Wallet!Stored(Capacity)
  <2>1. /\ ledger' = Wallet!Trimmed(restored, Capacity) /\ balance' = Wallet!Summed(restored)
        /\ counted' = Wallet!ToSet(restored) /\ unsaved' = [w \in Writers |-> Wallet!NoTx]
        /\ clearing' = FALSE /\ UNCHANGED <<txRows, time>>
    BY <1>3 DEF Wallet!Restart
  <2>2. txRows \in Seq(Wallet!Txs) /\ Wallet!ToSet(txRows) \subseteq KnownTxs
    <3>1. txRows \in Seq(Wallet!Txs)
      BY DEF WalletInv, WalletTyped
    <3>2. \A i \in DOMAIN txRows : txRows[i] \in Wallet!Txs
      BY <3>1
    <3> QED BY <3>1, <3>2 DEF KnownTxs, Wallet!ToSet
  <2>3. Different(Wallet!ToSet(txRows))
    BY <2>2 DEF WalletInv, Different
  <2>4. /\ restored \in Seq(Wallet!Txs) /\ InTime(restored)
        /\ Wallet!ToSet(restored) \subseteq Wallet!ToSet(txRows)
    BY ONLY <2>2, <2>3, RestoredIs
  <2> HIDE DEF restored
  <2>5. KnownTxs' \subseteq KnownTxs
    BY <2>1, <2>2, <2>4, WalletConstants DEF KnownTxs
  <2>6. WalletTyped'
    <3>1. counted' \subseteq Wallet!Txs
      BY <1>0, <2>1, <2>2, <2>4
    <3> QED BY <2>1, <3>1 DEF WalletInv, WalletTyped
  <2>7. PICK list : list = restored
    OBVIOUS
  <2>8. Booked(list)'
    BY <2>1, <2>4, <2>7 DEF Booked
  <2> QED BY <2>1, <2>5, <2>6, <2>8 DEF WalletInv, Different
<1>4. ASSUME Wallet!ResetRows PROVE WalletInv'
  <2>1. /\ txRows' = <<>> /\ clearing' = TRUE
        /\ UNCHANGED <<ledger, balance, unsaved, time, counted>>
    BY <1>4 DEF Wallet!ResetRows
  <2>2. txRows' \in Seq(Wallet!Txs) /\ Wallet!ToSet(txRows') = {}
    BY <2>1 DEF Wallet!ToSet
  <2>3. WalletTyped'
    BY <2>1, <2>2 DEF WalletInv, WalletTyped
  <2>4. KnownTxs' \subseteq KnownTxs
    BY <2>1, <2>2 DEF KnownTxs
  <2>5. \A list : Booked(list) => Booked(list)'
    BY <2>1 DEF Booked
  <2> QED BY <2>1, <2>3, <2>4, <2>5 DEF WalletInv, Different
<1>5. ASSUME Wallet!ResetWallet PROVE WalletInv'
  <2>1. /\ ledger' = <<>> /\ balance' = Initial /\ counted' = {} /\ clearing' = FALSE
        /\ UNCHANGED <<txRows, unsaved, time>>
    BY <1>5 DEF Wallet!ResetWallet
  <2>2. WalletTyped'
    BY <2>1 DEF WalletInv, WalletTyped
  <2>3. KnownTxs' \subseteq KnownTxs
    BY <2>1 DEF KnownTxs
  <2>4. Booked(<<>>)'
    BY <2>1, EmptyBooked DEF Booked
  <2> QED BY <2>1, <2>2, <2>3, <2>4 DEF WalletInv, Different
<1> QED BY <1>1, <1>2, <1>3, <1>4, <1>5 DEF Wallet!WalletNext

\* The invariant of the wallet holds, whatever service a behaviour exercises.
LEMMA WalletInvariant == ServicesSpec => []WalletInv
<1>1. ServicesInit => WalletInv
  <2> SUFFICES ASSUME Wallet!WalletInit PROVE WalletInv
    BY DEF ServicesInit
  <2>1. /\ ledger = <<>> /\ balance = Initial /\ txRows = <<>> /\ counted = {}
        /\ unsaved = [w \in Writers |-> Wallet!NoTx] /\ clearing = FALSE /\ time = 0
    BY DEF Wallet!WalletInit
  <2>2. WalletTyped
    <3>1. unsaved \in [Writers -> Wallet!Txs \cup {Wallet!NoTx}]
      BY <2>1
    <3>2. 0 \in 0 .. MaxBooked /\ <<>> \in Seq(Wallet!Txs)
      BY WalletConstants
    <3> QED BY <2>1, <3>1, <3>2 DEF WalletTyped
  <2>3. KnownTxs = {}
    BY <2>1, EmptyBooked, WalletConstants DEF KnownTxs
  <2>4. Booked(<<>>)
    BY <2>1, EmptyBooked DEF Booked
  <2> QED BY <2>2, <2>3, <2>4 DEF WalletInv, Different
<1>2. WalletInv /\ [ServicesNext]_allVars => WalletInv'
  <2>1. UNCHANGED walletVars /\ WalletInv => WalletInv'
    <3> SUFFICES ASSUME UNCHANGED walletVars, WalletInv PROVE WalletInv'
      OBVIOUS
    <3>1. KnownTxs' = KnownTxs /\ WalletTyped' /\ \A list : Booked(list) => Booked(list)'
      BY DEF walletVars, WalletInv, WalletTyped, KnownTxs, Booked
    <3> QED BY <3>1 DEF walletVars, WalletInv, Different
  <2> QED BY <2>1, WalletStep DEF ServicesNext, Others, allVars
<1> QED BY <1>1, <1>2, PTL DEF ServicesSpec

\* The ledger, the balance and the rows have their types.
LEMMA WalletTypes == WalletInv => Wallet!WalletTypeOK
<1> SUFFICES ASSUME WalletInv PROVE Wallet!WalletTypeOK
  OBVIOUS
<1>1. PICK list : Booked(list)
  BY DEF WalletInv
<1>2. list \in Seq(Wallet!Txs) /\ Capacity \in Nat \ {0}
  BY <1>1, WalletConstants DEF Booked
<1>3. /\ Wallet!Trimmed(list, Capacity) \in Seq(Wallet!Txs)
      /\ Len(Wallet!Trimmed(list, Capacity)) <= Capacity
  BY ONLY <1>2, TrimmedIs
<1>4. Wallet!Summed(list) \in Nat
  <2>1. PICK f \in [0 .. Len(list) -> Nat] : Wallet!Summed(list) = f[Len(list)]
    BY ONLY <1>2, SummedIs
  <2>2. Len(list) \in 0 .. Len(list)
    BY <1>2
  <2> QED BY <2>1, <2>2
<1> QED BY <1>1, <1>3, <1>4 DEF WalletInv, WalletTyped, Booked, Wallet!WalletTypeOK

\* A list in its order is no longer than a list with the same transactions.
LEMMA NoLonger ==
  ASSUME NEW A \in Seq(Wallet!Txs), NEW B \in Seq(Wallet!Txs), InTime(A),
         Wallet!ToSet(A) \subseteq Wallet!ToSet(B)
  PROVE  Len(A) <= Len(B)
<1>1. /\ Len(A) \in Nat /\ Len(B) \in Nat
      /\ DOMAIN A = 1 .. Len(A) /\ DOMAIN B = 1 .. Len(B)
      /\ \A i \in 1 .. Len(A) : A[i].timestamp \in Nat
  <2>1. \A i \in 1 .. Len(A) : A[i] \in Wallet!Txs
    OBVIOUS
  <2> QED BY <2>1 DEF Wallet!Txs
<1>2. \A i \in 1 .. Len(A) : \E k \in 1 .. Len(B) : B[k] = A[i]
  BY <1>1 DEF Wallet!ToSet
<1> DEFINE at == [i \in 1 .. Len(A) |-> CHOOSE k \in 1 .. Len(B) : B[k] = A[i]]
<1>3. \A i \in 1 .. Len(A) : at[i] \in 1 .. Len(B) /\ B[at[i]] = A[i]
  BY <1>2
<1>4. at \in [1 .. Len(A) -> 1 .. Len(B)]
  BY <1>3
<1> HIDE DEF at
<1>5. \A i, j \in 1 .. Len(A) : at[i] = at[j] => i = j
  <2> SUFFICES ASSUME NEW i \in 1 .. Len(A), NEW j \in 1 .. Len(A), at[i] = at[j], i # j
               PROVE  FALSE
    OBVIOUS
  <2>1. A[i] = A[j]
    BY <1>3
  <2>2. i < j \/ j < i
    BY <1>1
  <2>3. A[i].timestamp < A[j].timestamp \/ A[j].timestamp < A[i].timestamp
    BY <2>2 DEF InTime
  <2> QED BY <1>1, <2>1, <2>3
<1>6. at \in Injection(1 .. Len(A), 1 .. Len(B))
  BY <1>4, <1>5 DEF Injection, IsInjective
<1>7. /\ IsFiniteSet(1 .. Len(B))
      /\ Cardinality(1 .. Len(A)) = Len(A) /\ Cardinality(1 .. Len(B)) = Len(B)
  <2>1. \A n \in Nat : IsFiniteSet(1 .. n) /\ Cardinality(1 .. n) = n
    <3> SUFFICES ASSUME NEW n \in Nat PROVE IsFiniteSet(1 .. n) /\ Cardinality(1 .. n) = n
      OBVIOUS
    <3>1. 1 \in Int /\ n \in Int
      OBVIOUS
    <3>2. /\ IsFiniteSet(1 .. n)
          /\ Cardinality(1 .. n) = IF 1 > n THEN 0 ELSE n - 1 + 1
      BY ONLY <3>1, FS_Interval
    <3> QED BY <3>2
  <2> QED BY <1>1, <2>1
<1>8. Cardinality(1 .. Len(A)) <= Cardinality(1 .. Len(B))
  BY <1>6, <1>7, FS_Injection
<1> QED BY <1>7, <1>8

\* A restart with the rows of what the wallet accounts for leaves it as it is.
LEMMA RestartRestores ==
  ASSUME WalletInv, Wallet!Restart, counted = Wallet!ToSet(txRows), Len(txRows) <= Capacity
  PROVE  ledger' = ledger /\ balance' = balance
<1> DEFINE restored == Wallet!Stored(Capacity)
           all == Wallet!InOrder(Wallet!ToSet(txRows))
<1>1. ledger' = Wallet!Trimmed(restored, Capacity) /\ balance' = Wallet!Summed(restored)
  BY DEF Wallet!Restart
<1>2. txRows \in Seq(Wallet!Txs) /\ Different(Wallet!ToSet(txRows))
  <2>1. txRows \in Seq(Wallet!Txs) /\ Wallet!ToSet(txRows) \subseteq KnownTxs
    BY DEF WalletInv, WalletTyped, KnownTxs
  <2> QED BY <2>1 DEF WalletInv, Different
<1>3. /\ all \in Seq(Wallet!Txs) /\ InTime(all) /\ Wallet!ToSet(all) = Wallet!ToSet(txRows)
      /\ Len(all) <= Capacity => restored = all
  BY ONLY <1>2, RestoredIs
<1> HIDE DEF restored, all
<1>4. PICK list : Booked(list)
  BY DEF WalletInv
<1>5. /\ list \in Seq(Wallet!Txs) /\ InTime(list) /\ Wallet!ToSet(list) = Wallet!ToSet(txRows)
      /\ ledger = Wallet!Trimmed(list, Capacity) /\ balance = Wallet!Summed(list)
  BY <1>4 DEF Booked
<1>6. all = list
  <2>1. Wallet!ToSet(all) = Wallet!ToSet(list)
    BY <1>3, <1>5
  <2> QED BY ONLY <1>3, <1>5, <2>1, OneOrder
<1>7. Len(all) <= Len(txRows)
  <2>1. Wallet!ToSet(all) \subseteq Wallet!ToSet(txRows)
    BY <1>3
  <2> QED BY ONLY <1>2, <1>3, <2>1, NoLonger
<1>8. Len(all) <= Capacity
  BY <1>2, <1>3, <1>7, WalletConstants
<1> QED BY <1>1, <1>3, <1>5, <1>6, <1>8

-----------------------------------------------------------------------------
(* TaskEntry.                                                                *)

Places == {"new", "payment", "ready", "telling", "saving", "over"}
Kinds == {"none", "reset", "channel", "gateway", "async", "sync"}
Results == {"none", "unpaid", "raised", "success", "error", "denied"}
CallType == [at : Places, kind : Kinds, key : Entries!Keys \cup {Entries!NoKey},
             result : Results]
TaskType == Entries!Status \cup {"none"}
ToldType == {"none", "completed", "failed"}
BoxType == {"none", "running", "completed", "error"}

ByGateway(call) == call.kind \in {"channel", "gateway"}
ByEndpoint(call) == call.kind \in {"async", "sync"}
TakenForSuccess(call) == ByEndpoint(call) /\ Entries!Success(call.kind, call.result)

\* An execution has ended; unless it raised, as that of a gateway's call always does,
\* that settled the task.
HasRun(call, s) ==
  /\ call.result \in {"raised", "success", "error", "denied"}
  /\ ByGateway(call) => call.result = "raised"
  /\ call.result = "success" => s = "completed"
  /\ call.result \in {"error", "denied"} => s = "failed"

\* The sandbox (b) shows what is taken for a success; a gateway's call has none.
BoxFits(call, b) ==
  /\ b # "none" => (b = "completed" <=> TakenForSuccess(call))
  /\ ByGateway(call) => b = "none"

\* A call has told (t) what it takes for a success, and settled its task (s) if the
\* execution raised.
Reported(call, s, t, b) ==
  /\ HasRun(call, s) /\ BoxFits(call, b)
  /\ call.result = "raised" => s = "failed"
  /\ t = IF TakenForSuccess(call) THEN "completed" ELSE "failed"

\* What is known of a call at each of its places: the status s of its task, what the
\* dashboard was told, its sandbox and its row.
CallKnown(call, s, t, b, r) ==
  /\ call.at \notin {"saving", "over"} => t = "none"
  /\ call.at # "over" => r = "none"
  /\ call.at = "new" => call.kind = "none" /\ s = "none" /\ b = "none"
  /\ call.at \notin {"new", "over"} => ByGateway(call) \/ ByEndpoint(call)
  /\ call.at \in {"payment", "ready"} /\ ByGateway(call) => b = "none"
  /\ call.at = "payment" => ByGateway(call) /\ s \in {"pending", "cancelled"}
  /\ call.at = "ready" => s \in {"running", "cancelled"}
  /\ call.at = "telling" =>
       /\ HasRun(call, s) /\ BoxFits(call, b)
       /\ ByGateway(call) => s = "failed"
       /\ ByEndpoint(call) /\ call.result = "raised" => s \in {"running", "cancelled"}
  /\ call.at = "saving" => call.kind = "async" /\ Reported(call, s, t, b)
  /\ call.at = "over" =>
       \/ call.kind = "reset" /\ s = "none" /\ b = "none" /\ r = "none"
       \/ /\ ByGateway(call) /\ call.result = "unpaid"
          /\ s = "failed" /\ t = "none" /\ b = "none" /\ r = "none"
       \/ /\ ByGateway(call) \/ ByEndpoint(call)
          /\ Reported(call, s, t, b) /\ r \in {"none", t}

EntryInv ==
  /\ entryCall \in [Calls -> CallType] /\ entryTask \in [Calls -> TaskType]
  /\ told \in [Calls -> ToldType] /\ box \in [Calls -> BoxType]
  /\ row \in [Calls -> ToldType]
  /\ \A c \in Calls : CallKnown(entryCall[c], entryTask[c], told[c], box[c], row[c])

\* A step that changes what belongs to one call.
Changed(c, call, s, t, b, r) ==
  /\ entryCall' = [entryCall EXCEPT ![c] = call]
  /\ entryTask' = [entryTask EXCEPT ![c] = s]
  /\ told' = [told EXCEPT ![c] = t] /\ box' = [box EXCEPT ![c] = b]
  /\ row' = [row EXCEPT ![c] = r]

\* It keeps the invariant if it keeps what is known of this call.
LEMMA OneCall ==
  ASSUME EntryInv, NEW c \in Calls,
         NEW call \in CallType, NEW s \in TaskType, NEW t \in ToldType,
         NEW b \in BoxType, NEW r \in ToldType,
         Changed(c, call, s, t, b, r), CallKnown(call, s, t, b, r)
  PROVE  EntryInv'
<1> USE DEF Changed
<1>1. /\ entryCall' \in [Calls -> CallType] /\ entryTask' \in [Calls -> TaskType]
      /\ told' \in [Calls -> ToldType] /\ box' \in [Calls -> BoxType]
      /\ row' \in [Calls -> ToldType]
  BY DEF EntryInv
<1>2. ASSUME NEW d \in Calls
      PROVE  CallKnown(entryCall'[d], entryTask'[d], told'[d], box'[d], row'[d])
  BY DEF EntryInv
<1> QED BY <1>1, <1>2 DEF EntryInv

\* A call enters for a session, or for none.
LEMMA EnteredCall ==
  ASSUME EntryInv, NEW c \in Calls, NEW at \in Places, NEW kind \in Kinds,
         NEW key \in Entries!Keys \cup {Entries!NoKey}, Entries!Entered(c, at, kind, key)
  PROVE  \E call \in CallType :
           /\ entryCall' = [entryCall EXCEPT ![c] = call]
           /\ call.at = at /\ call.kind = kind /\ call.result = entryCall[c].result
<1> DEFINE call == [entryCall[c] EXCEPT !.at = at, !.kind = kind, !.key = key]
<1>1. entryCall[c] \in CallType
  BY DEF EntryInv
<1>2. call \in CallType
  BY <1>1 DEF CallType
<1>3. call.at = at /\ call.kind = kind /\ call.result = entryCall[c].result
  BY <1>1 DEF CallType
<1>4. entryCall' = [entryCall EXCEPT ![c] = call]
  BY <1>1 DEF Entries!Entered, EntryInv, CallType
<1> QED BY <1>2, <1>3, <1>4

\* A call goes on with a result.
LEMMA EndedCall ==
  ASSUME EntryInv, NEW c \in Calls, NEW at \in Places, NEW result \in Results,
         Entries!Ended(c, at, result)
  PROVE  \E call \in CallType :
           /\ entryCall' = [entryCall EXCEPT ![c] = call]
           /\ call.at = at /\ call.kind = entryCall[c].kind /\ call.result = result
<1> DEFINE call == [entryCall[c] EXCEPT !.at = at, !.result = result]
<1>1. entryCall[c] \in CallType
  BY DEF EntryInv
<1>2. call \in CallType
  BY <1>1 DEF CallType
<1>3. call.at = at /\ call.kind = entryCall[c].kind /\ call.result = result
  BY <1>1 DEF CallType
<1>4. entryCall' = [entryCall EXCEPT ![c] = call]
  BY <1>1 DEF Entries!Ended, EntryInv, CallType
<1> QED BY <1>2, <1>3, <1>4

\* A call goes on with the result it had.
LEMMA MovedCall ==
  ASSUME EntryInv, NEW c \in Calls, NEW at \in Places, Entries!Moved(c, at)
  PROVE  \E call \in CallType :
           /\ entryCall' = [entryCall EXCEPT ![c] = call]
           /\ call.at = at /\ call.kind = entryCall[c].kind
           /\ call.result = entryCall[c].result
<1> DEFINE call == [entryCall[c] EXCEPT !.at = at]
<1>1. entryCall[c] \in CallType
  BY DEF EntryInv
<1>2. call \in CallType
  BY <1>1 DEF CallType
<1>3. /\ call.at = at /\ call.kind = entryCall[c].kind
      /\ call.result = entryCall[c].result
  BY <1>1 DEF CallType
<1>4. entryCall' = [entryCall EXCEPT ![c] = call]
  BY <1>1 DEF Entries!Moved, EntryInv, CallType
<1> QED BY <1>2, <1>3, <1>4

\* What does not change is as it was.
LEMMA Kept ==
  ASSUME EntryInv, NEW c \in Calls
  PROVE  /\ UNCHANGED entryCall => entryCall' = [entryCall EXCEPT ![c] = entryCall[c]]
         /\ UNCHANGED entryTask => entryTask' = [entryTask EXCEPT ![c] = entryTask[c]]
         /\ UNCHANGED told => told' = [told EXCEPT ![c] = told[c]]
         /\ UNCHANGED box => box' = [box EXCEPT ![c] = box[c]]
         /\ UNCHANGED row => row' = [row EXCEPT ![c] = row[c]]
         /\ entryCall[c] \in CallType /\ entryTask[c] \in TaskType /\ told[c] \in ToldType
         /\ box[c] \in BoxType /\ row[c] \in ToldType
         /\ CallKnown(entryCall[c], entryTask[c], told[c], box[c], row[c])
<1> QED BY DEF EntryInv

\* Every step of the entries keeps the invariant.
LEMMA EntryStep == EntryInv /\ Entries!EntryNext => EntryInv'
<1> SUFFICES ASSUME EntryInv, Entries!EntryNext PROVE EntryInv'
  OBVIOUS
<1> USE DEF ByGateway, ByEndpoint
<1>1. ASSUME NEW c \in Calls, Entries!Inbound(c) PROVE EntryInv'
  <2>1. entryCall[c].at = "new" /\ UNCHANGED <<told, box, row>>
    BY <1>1 DEF Entries!Inbound
  <2>2. CASE Entries!Entered(c, "over", "reset", Entries!NoKey) /\ UNCHANGED entryTask
    <3>1. PICK call \in CallType :
            /\ entryCall' = [entryCall EXCEPT ![c] = call]
            /\ call.at = "over" /\ call.kind = "reset"
      BY <2>2, EnteredCall DEF Places, Kinds
    <3>2. CallKnown(call, entryTask[c], told[c], box[c], row[c])
      BY <2>1, <3>1, Kept DEF CallKnown
    <3>9. Changed(c, call, entryTask[c], told[c], box[c], row[c])
      BY <2>1, <2>2, <3>1, <3>2, Kept DEF Changed
    <3> QED BY <2>1, <2>2, <3>1, <3>2, <3>9, Kept, OneCall
  <2>3. CASE /\ \E m \in Messages : Entries!Entered(c, "payment", "channel", Entries!Key(m))
             /\ entryTask' = [entryTask EXCEPT ![c] = "pending"]
    <3>1. PICK call \in CallType :
            /\ entryCall' = [entryCall EXCEPT ![c] = call]
            /\ call.at = "payment" /\ call.kind = "channel"
      BY <2>3, EnteredCall DEF Places, Kinds, Entries!Keys
    <3>2. CallKnown(call, "pending", told[c], box[c], row[c])
      BY <2>1, <3>1, Kept DEF CallKnown
    <3>3. "pending" \in TaskType
      BY DEF TaskType, Entries!Status
    <3>9. Changed(c, call, "pending", told[c], box[c], row[c])
      BY <2>1, <2>3, <3>1, <3>2, <3>3, Kept DEF Changed
    <3> QED BY <2>1, <2>3, <3>1, <3>2, <3>3, <3>9, Kept, OneCall
  <2> QED BY <1>1, <2>2, <2>3 DEF Entries!Inbound
<1>2. ASSUME NEW c \in Calls, Entries!Execute(c) PROVE EntryInv'
  <2>1. /\ entryCall[c].at = "new" /\ UNCHANGED <<told, box, row>>
        /\ entryTask' = [entryTask EXCEPT ![c] = "pending"]
        /\ \E m \in Messages : Entries!Entered(c, "payment", "gateway", Entries!Key(m))
    BY <1>2 DEF Entries!Execute
  <2>2. PICK call \in CallType :
          /\ entryCall' = [entryCall EXCEPT ![c] = call]
          /\ call.at = "payment" /\ call.kind = "gateway"
    BY <2>1, EnteredCall DEF Places, Kinds, Entries!Keys
  <2>3. CallKnown(call, "pending", told[c], box[c], row[c])
    BY <2>1, <2>2, Kept DEF CallKnown
  <2>4. "pending" \in TaskType
    BY DEF TaskType, Entries!Status
  <2>9. Changed(c, call, "pending", told[c], box[c], row[c])
    BY <2>1, <2>2, <2>3, <2>4, Kept DEF Changed
  <2> QED BY <2>1, <2>2, <2>3, <2>4, <2>9, Kept, OneCall
<1>3. ASSUME NEW c \in Calls, Entries!CheckPayment(c) PROVE EntryInv'
  <2>1. entryCall[c].at = "payment" /\ UNCHANGED <<told, box, row>>
    BY <1>3 DEF Entries!CheckPayment
  <2>2. CASE /\ Entries!Moved(c, "ready")
             /\ entryTask' = [entryTask EXCEPT ![c] =
                             IF Entries!Startable(@) THEN "running" ELSE @]
    <3>1. entryTask[c] \in {"pending", "cancelled"}
      BY <2>1, Kept DEF CallKnown
    <3>2. entryTask' = [entryTask EXCEPT ![c] = "running"]
      BY <2>2, <3>1 DEF Entries!Startable
    <3>3. PICK call \in CallType :
            /\ entryCall' = [entryCall EXCEPT ![c] = call]
            /\ call.at = "ready" /\ call.kind = entryCall[c].kind
      BY <2>2, MovedCall DEF Places
    <3>4. CallKnown(call, "running", told[c], box[c], row[c])
      BY <2>1, <3>3, Kept DEF CallKnown
    <3>5. "running" \in TaskType
      BY DEF TaskType, Entries!Status
    <3>9. Changed(c, call, "running", told[c], box[c], row[c])
      BY <2>1, <3>2, <3>3, <3>4, <3>5, Kept DEF Changed
    <3> QED BY <2>1, <3>2, <3>3, <3>4, <3>5, <3>9, Kept, OneCall
  <2>3. CASE /\ Entries!Ended(c, "over", "unpaid")
             /\ entryTask' = [entryTask EXCEPT ![c] = "failed"]
    <3>1. PICK call \in CallType :
            /\ entryCall' = [entryCall EXCEPT ![c] = call]
            /\ call.at = "over" /\ call.kind = entryCall[c].kind /\ call.result = "unpaid"
      BY <2>3, EndedCall DEF Places, Results
    <3>2. CallKnown(call, "failed", told[c], box[c], row[c])
      BY <2>1, <3>1, Kept DEF CallKnown
    <3>3. "failed" \in TaskType
      BY DEF TaskType, Entries!Status
    <3>9. Changed(c, call, "failed", told[c], box[c], row[c])
      BY <2>1, <2>3, <3>1, <3>2, <3>3, Kept DEF Changed
    <3> QED BY <2>1, <2>3, <3>1, <3>2, <3>3, <3>9, Kept, OneCall
  <2> QED BY <1>3, <2>2, <2>3 DEF Entries!CheckPayment
<1>4. ASSUME NEW c \in Calls, Entries!Start(c) PROVE EntryInv'
  <2>1. /\ entryCall[c].at = "new" /\ UNCHANGED <<told, row>>
        /\ entryTask' = [entryTask EXCEPT ![c] = "running"]
        /\ box' = [box EXCEPT ![c] = "running"]
        /\ \E kind \in {"async", "sync"} : Entries!Entered(c, "ready", kind, Entries!NoKey)
    BY <1>4 DEF Entries!Start
  <2>2. PICK call \in CallType :
          /\ entryCall' = [entryCall EXCEPT ![c] = call]
          /\ call.at = "ready" /\ call.kind \in {"async", "sync"}
    BY <2>1, EnteredCall DEF Places, Kinds
  <2>3. CallKnown(call, "running", told[c], "running", row[c])
    BY <2>1, <2>2, Kept DEF CallKnown
  <2>4. "running" \in TaskType /\ "running" \in BoxType
    BY DEF TaskType, BoxType, Entries!Status
  <2>9. Changed(c, call, "running", told[c], "running", row[c])
    BY <2>1, <2>2, <2>3, <2>4, Kept DEF Changed
  <2> QED BY <2>1, <2>2, <2>3, <2>4, <2>9, Kept, OneCall
<1>5. ASSUME NEW c \in Calls, Entries!RunGateway(c) PROVE EntryInv'
  <2>1. /\ entryCall[c].at = "ready" /\ ByGateway(entryCall[c])
        /\ UNCHANGED <<told, box, row>>
    BY <1>5 DEF Entries!RunGateway
  <2>2. entryTask' = [entryTask EXCEPT ![c] = "failed"]
    BY <1>5, <2>1, Kept DEF Entries!RunGateway, CallKnown, Entries!Finishable, Entries!Settled
  <2>3. PICK call \in CallType :
          /\ entryCall' = [entryCall EXCEPT ![c] = call]
          /\ call.at = "telling" /\ call.kind = entryCall[c].kind /\ call.result = "raised"
    BY <1>5, EndedCall DEF Entries!RunGateway, Places, Results
  <2>4. CallKnown(call, "failed", told[c], box[c], row[c])
    BY <2>1, <2>3, Kept DEF CallKnown, HasRun, BoxFits
  <2>5. "failed" \in TaskType
    BY DEF TaskType, Entries!Status
  <2>9. Changed(c, call, "failed", told[c], box[c], row[c])
    BY <2>1, <2>2, <2>3, <2>4, <2>5, Kept DEF Changed
  <2> QED BY <2>1, <2>2, <2>3, <2>4, <2>5, <2>9, Kept, OneCall
<1>6. ASSUME NEW c \in Calls, Entries!TellGateway(c) PROVE EntryInv'
  <2>1. /\ entryCall[c].at = "telling" /\ ByGateway(entryCall[c])
        /\ UNCHANGED <<entryTask, box, row>> /\ told' = [told EXCEPT ![c] = "failed"]
        /\ Entries!Moved(c, "over")
    BY <1>6 DEF Entries!TellGateway
  <2>2. PICK call \in CallType :
          /\ entryCall' = [entryCall EXCEPT ![c] = call]
          /\ call.at = "over" /\ call.kind = entryCall[c].kind
          /\ call.result = entryCall[c].result
    BY <2>1, MovedCall DEF Places
  <2>3. CallKnown(call, entryTask[c], "failed", box[c], row[c])
    BY <2>1, <2>2, Kept DEF CallKnown, HasRun, BoxFits, Reported, TakenForSuccess
  <2>4. "failed" \in ToldType
    BY DEF ToldType
  <2>9. Changed(c, call, entryTask[c], "failed", box[c], row[c])
    BY <2>1, <2>2, <2>3, <2>4, Kept DEF Changed
  <2> QED BY <2>1, <2>2, <2>3, <2>4, <2>9, Kept, OneCall
<1>7. ASSUME NEW c \in Calls, Entries!RunEndpoint(c) PROVE EntryInv'
  <2>1. /\ entryCall[c].at = "ready" /\ ByEndpoint(entryCall[c]) /\ UNCHANGED <<told, row>>
        /\ entryTask[c] \in {"running", "cancelled"}
    BY <1>7, Kept DEF Entries!RunEndpoint, CallKnown
  <2>2. PICK outcome \in {"success", "error", "denied", "raised"} :
          /\ entryTask' = [entryTask EXCEPT ![c] = Entries!Left(outcome, @)]
          /\ box' = [box EXCEPT ![c] =
               IF @ = "none" THEN @
               ELSE IF Entries!Success(entryCall[c].kind, outcome) THEN "completed" ELSE "error"]
          /\ Entries!Ended(c, "telling", outcome)
    BY <1>7 DEF Entries!RunEndpoint
  <2> DEFINE s == Entries!Left(outcome, entryTask[c])
             b == IF box[c] = "none" THEN box[c]
                  ELSE IF Entries!Success(entryCall[c].kind, outcome)
                       THEN "completed" ELSE "error"
  <2>3. /\ s = CASE outcome = "raised" -> entryTask[c] [] outcome = "success" -> "completed"
                 [] OTHER -> "failed"
        /\ s \in TaskType /\ b \in BoxType
    BY <2>1, Kept DEF Entries!Left, Entries!Finishable, Entries!Settled, TaskType,
       Entries!Status, BoxType
  <2>4. PICK call \in CallType :
          /\ entryCall' = [entryCall EXCEPT ![c] = call]
          /\ call.at = "telling" /\ call.kind = entryCall[c].kind /\ call.result = outcome
    BY <2>2, EndedCall DEF Places, Results
  <2>5. entryTask' = [entryTask EXCEPT ![c] = s] /\ box' = [box EXCEPT ![c] = b]
    BY <2>2, Kept DEF EntryInv
  <2>6. CallKnown(call, s, told[c], b, row[c])
    <3> HIDE DEF s
    <3> QED BY <2>1, <2>3, <2>4, Kept DEF CallKnown, HasRun, BoxFits, TakenForSuccess
  <2> HIDE DEF s, b
  <2>9. Changed(c, call, s, told[c], b, row[c])
    BY <2>1, <2>3, <2>4, <2>5, <2>6, Kept DEF Changed
  <2> QED BY <2>1, <2>3, <2>4, <2>5, <2>6, <2>9, Kept, OneCall
<1>8. ASSUME NEW c \in Calls, Entries!TellEndpoint(c) PROVE EntryInv'
  <2> DEFINE s == IF entryCall[c].result = "raised" THEN "failed" ELSE entryTask[c]
             t == IF TakenForSuccess(entryCall[c]) THEN "completed" ELSE "failed"
             at == IF entryCall[c].kind = "async" THEN "saving" ELSE "over"
  <2>1. /\ entryCall[c].at = "telling" /\ ByEndpoint(entryCall[c])
        /\ UNCHANGED <<box, row>> /\ Entries!Moved(c, at)
        /\ told' = [told EXCEPT ![c] = t]
    BY <1>8 DEF Entries!TellEndpoint, TakenForSuccess
  <2>2. entryTask' = [entryTask EXCEPT ![c] = s]
    BY <1>8, <2>1, Kept DEF Entries!TellEndpoint, CallKnown, Entries!Finishable, Entries!Settled,
       EntryInv
  <2>3. PICK call \in CallType :
          /\ entryCall' = [entryCall EXCEPT ![c] = call]
          /\ call.at = at /\ call.kind = entryCall[c].kind /\ call.result = entryCall[c].result
    BY <2>1, MovedCall DEF Places
  <2>4. CallKnown(call, s, t, box[c], row[c])
    BY <2>1, <2>3, Kept DEF CallKnown, HasRun, BoxFits, Reported, TakenForSuccess
  <2>5. s \in TaskType /\ t \in ToldType
    BY Kept DEF TaskType, ToldType, Entries!Status
  <2> HIDE DEF s, t, at
  <2>9. Changed(c, call, s, t, box[c], row[c])
    BY <2>1, <2>2, <2>3, <2>4, <2>5, Kept DEF Changed
  <2> QED BY <2>1, <2>2, <2>3, <2>4, <2>5, <2>9, Kept, OneCall
<1>9. ASSUME NEW c \in Calls, Entries!SaveRow(c) PROVE EntryInv'
  <2>1. /\ entryCall[c].at = "saving" /\ UNCHANGED <<entryTask, told, box>>
        /\ Entries!Moved(c, "over")
        /\ row' \in {[row EXCEPT ![c] = told[c]], row}
    BY <1>9 DEF Entries!SaveRow
  <2>2. PICK call \in CallType :
          /\ entryCall' = [entryCall EXCEPT ![c] = call]
          /\ call.at = "over" /\ call.kind = entryCall[c].kind
          /\ call.result = entryCall[c].result
    BY <2>1, MovedCall DEF Places
  <2>3. PICK r \in {told[c], row[c]} : row' = [row EXCEPT ![c] = r]
    BY <2>1, Kept
  <2>4. CallKnown(call, entryTask[c], told[c], box[c], r)
    BY <2>1, <2>2, Kept DEF CallKnown, HasRun, BoxFits, Reported, TakenForSuccess
  <2>9. Changed(c, call, entryTask[c], told[c], box[c], r)
    BY <2>1, <2>2, <2>3, <2>4, Kept DEF Changed
  <2> QED BY <2>1, <2>2, <2>3, <2>4, <2>9, Kept, OneCall
<1>10. ASSUME NEW c \in Calls, Entries!Cancel(c) PROVE EntryInv'
  <2>1. /\ UNCHANGED <<entryCall, told, box, row>>
        /\ entryTask' = [entryTask EXCEPT ![c] = "cancelled"]
        /\ entryTask[c] \notin {"none", "completed", "failed", "cancelled"}
    BY <1>10 DEF Entries!Cancel, Entries!Cancellable, Entries!Terminal
  <2>2. CallKnown(entryCall[c], "cancelled", told[c], box[c], row[c])
    BY <2>1, Kept DEF CallKnown, HasRun, Reported, CallType, Places, Kinds, Results
  <2>3. "cancelled" \in TaskType
    BY DEF TaskType, Entries!Status
  <2>9. Changed(c, entryCall[c], "cancelled", told[c], box[c], row[c])
    BY <2>1, <2>2, <2>3, Kept DEF Changed
  <2> QED BY <2>1, <2>2, <2>3, <2>9, Kept, OneCall
<1>11. ASSUME NEW c \in Calls, Entries!DeleteBox(c) PROVE EntryInv'
  <2>1. UNCHANGED <<entryCall, entryTask, told, row>> /\ box' = [box EXCEPT ![c] = "none"]
    BY <1>11 DEF Entries!DeleteBox
  <2>2. CallKnown(entryCall[c], entryTask[c], told[c], "none", row[c])
    BY Kept DEF CallKnown, BoxFits, Reported
  <2>3. "none" \in BoxType
    BY DEF BoxType
  <2>9. Changed(c, entryCall[c], entryTask[c], told[c], "none", row[c])
    BY <2>1, <2>2, <2>3, Kept DEF Changed
  <2> QED BY <2>1, <2>2, <2>3, <2>9, Kept, OneCall
<1>12. ASSUME Entries!ClearSessions PROVE EntryInv'
  <2>1. /\ UNCHANGED <<entryTask, told, box, row>>
        /\ entryCall' = [c \in Calls |-> [entryCall[c] EXCEPT !.key = Entries!NoKey]]
    BY <1>12 DEF Entries!ClearSessions
  <2>2. ASSUME NEW c \in Calls
        PROVE  /\ entryCall'[c] \in CallType /\ entryCall'[c].at = entryCall[c].at
               /\ entryCall'[c].kind = entryCall[c].kind
               /\ entryCall'[c].result = entryCall[c].result
    BY <2>1, Kept DEF CallType
  <2>3. ASSUME NEW c \in Calls
        PROVE  CallKnown(entryCall'[c], entryTask[c], told[c], box[c], row[c])
    BY <2>2, Kept DEF CallKnown, HasRun, BoxFits, Reported, TakenForSuccess
  <2>4. entryCall' \in [Calls -> CallType]
    BY <2>1, <2>2
  <2> QED BY <2>1, <2>3, <2>4 DEF EntryInv
<1> QED BY <1>1, <1>2, <1>3, <1>4, <1>5, <1>6, <1>7, <1>8, <1>9, <1>10, <1>11, <1>12
        DEF Entries!EntryNext

\* The invariant of the entries holds, whatever service a behaviour exercises.
LEMMA EntryInvariant == ServicesSpec => []EntryInv
<1>1. ServicesInit => EntryInv
  <2> SUFFICES ASSUME Entries!EntryInit PROVE EntryInv
    BY DEF ServicesInit
  <2>1. Entries!New \in CallType /\ Entries!New.at = "new" /\ Entries!New.kind = "none"
    BY DEF Entries!New, CallType, Places, Kinds, Results
  <2>2. CallKnown(Entries!New, "none", "none", "none", "none")
    BY <2>1 DEF CallKnown
  <2> QED BY <2>1, <2>2 DEF Entries!EntryInit, EntryInv, TaskType, ToldType, BoxType
<1>2. EntryInv /\ [ServicesNext]_allVars => EntryInv'
  <2>1. UNCHANGED entryVars /\ EntryInv => EntryInv'
    BY DEF entryVars, EntryInv
  <2> QED BY <2>1, EntryStep DEF ServicesNext, Others, allVars
<1> QED BY <1>1, <1>2, PTL DEF ServicesSpec

\* A call that is over has settled its task and told it so, with the exceptions of
\* ToldAsSettled, for every number of calls, messages and bindings.
THEOREM CallsTellTheOutcome == ServicesSpec => []ToldAsSettled
<1>1. EntryInv => ToldAsSettled
  <2> SUFFICES ASSUME EntryInv, NEW c \in Calls,
                      entryCall[c].at = "over", entryCall[c].kind # "reset"
               PROVE  /\ entryTask[c] \in Entries!Settled
                      /\ told[c] = "none" <=> entryCall[c].result = "unpaid"
                      /\ told[c] \notin {"none", entryTask[c]} =>
                           \/ entryCall[c].result = "denied"
                           \/ entryCall[c].kind = "sync" /\ entryCall[c].result = "error"
                      /\ row[c] \in {"none", told[c]}
                      /\ box[c] # "none" => (box[c] = "completed" <=> told[c] = "completed")
    BY DEF ToldAsSettled, Entries!ToldAsSettled
  <2>1. CallKnown(entryCall[c], entryTask[c], told[c], box[c], row[c])
    BY Kept
  <2>2. CASE /\ ByGateway(entryCall[c]) /\ entryCall[c].result = "unpaid"
             /\ entryTask[c] = "failed" /\ told[c] = "none" /\ box[c] = "none"
             /\ row[c] = "none"
    BY <2>2 DEF Entries!Settled
  <2>3. CASE /\ ByGateway(entryCall[c]) \/ ByEndpoint(entryCall[c])
             /\ Reported(entryCall[c], entryTask[c], told[c], box[c])
             /\ row[c] \in {"none", told[c]}
    <3>1. entryTask[c] \in Entries!Settled /\ entryCall[c].result # "unpaid"
      BY <2>3 DEF Reported, HasRun, Entries!Settled
    <3>2. /\ told[c] # "none"
          /\ box[c] # "none" => (box[c] = "completed" <=> told[c] = "completed")
      BY <2>3 DEF Reported, BoxFits
    <3>3. CASE TakenForSuccess(entryCall[c])
      <4>1. /\ told[c] = "completed" /\ ByEndpoint(entryCall[c])
            /\ \/ entryCall[c].result \in {"success", "denied"}
               \/ entryCall[c].kind = "sync" /\ entryCall[c].result = "error"
        BY <2>3, <3>3 DEF Reported, TakenForSuccess, Entries!Success
      <4> QED BY <2>3, <3>1, <3>2, <4>1 DEF Reported, HasRun
    <3>4. CASE ~TakenForSuccess(entryCall[c])
      <4>1. /\ told[c] = "failed"
            /\ entryCall[c].result # "success" \/ ByGateway(entryCall[c])
        BY <2>3, <3>4 DEF Reported, TakenForSuccess, Entries!Success
      <4>2. entryCall[c].result = "success" => FALSE
        BY <2>3, <4>1 DEF Reported, HasRun
      <4> QED BY <2>3, <3>1, <3>2, <4>1, <4>2 DEF Reported, HasRun
    <3> QED BY <3>3, <3>4
  <2> QED BY <2>1, <2>2, <2>3 DEF CallKnown
<1> QED BY <1>1, EntryInvariant, PTL

-----------------------------------------------------------------------------
(* The transcripts of TaskEntry.                                             *)

Roles == {"user", "assistant"}
Said == Calls \X Roles

\* A call records its message as it comes in, and its answer at its end, a call of the
\* gateway before it tells the dashboard.
Spoken(e, calls) ==
  LET call == calls[e[1]]
  IN  /\ call.at # "new"
      /\ e[2] = "assistant" =>
           call.at = "over" \/ (call.at = "telling" /\ call.kind = "gateway")

\* A transcript holds each message once, no more than the limit, and none to come.
Talk(list, calls) ==
  /\ list \in Seq(Said) /\ Len(list) <= MaxHistory
  /\ \A i, j \in 1 .. Len(list) : list[i] = list[j] => i = j
  /\ \A i \in 1 .. Len(list) : Spoken(list[i], calls)

TalkInv == /\ EntryInv /\ unused \subseteq Calls
           /\ \A k \in Entries!Keys : Talk(transcript[k], entryCall)
           /\ DOMAIN transcript = Entries!Keys

\* An empty transcript.
LEMMA NoTalk == ASSUME NEW calls PROVE Talk(<<>>, calls)
<1>1. MaxHistory \in Nat \ {0}
  BY ServicesAssumption DEF ServicesAssumption, Entries!TaskEntryAssumption
<1> QED BY <1>1 DEF Talk

\* Recording a message that is not in the transcript.
LEMMA RecordedTalk ==
  ASSUME NEW list, NEW calls, Talk(list, calls), NEW c \in Calls, NEW role \in Roles,
         \A i \in 1 .. Len(list) : list[i] # <<c, role>>,
         Spoken(<<c, role>>, calls)
  PROVE  Talk(Entries!Recorded(list, c, role), calls)
<1> DEFINE e == <<c, role>>
           all == Append(list, e)
           from == IF Len(all) > MaxHistory THEN Len(all) - MaxHistory + 1 ELSE 1
           new == SubSeq(all, from, Len(all))
<1>0. MaxHistory \in Nat \ {0} /\ e \in Said /\ list \in Seq(Said)
  BY ServicesAssumption DEF ServicesAssumption, Entries!TaskEntryAssumption, Said, Talk
<1>1. Entries!Recorded(list, c, role) = new
  BY DEF Entries!Recorded
<1> HIDE DEF e
<1>2. /\ all \in Seq(Said) /\ Len(all) = Len(list) + 1 /\ all[Len(list) + 1] = e
      /\ \A i \in 1 .. Len(list) : all[i] = list[i]
      /\ Len(list) \in Nat
  BY <1>0
<1> HIDE DEF all
<1>3. \A i, j \in 1 .. Len(all) : all[i] = all[j] => i = j
  <2> SUFFICES ASSUME NEW i \in 1 .. Len(all), NEW j \in 1 .. Len(all), all[i] = all[j]
               PROVE  i = j
    OBVIOUS
  <2>1. \A k \in 1 .. Len(all) : k = Len(list) + 1 \/ (k \in 1 .. Len(list) /\ all[k] # e)
    BY <1>2 DEF e
  <2>2. CASE i = Len(list) + 1
    BY <1>2, <2>1, <2>2
  <2>3. CASE i # Len(list) + 1
    <3>1. i \in 1 .. Len(list) /\ j \in 1 .. Len(list)
      BY <1>2, <2>1, <2>3
    <3> QED BY <1>2, <3>1 DEF Talk
  <2> QED BY <2>2, <2>3
<1>4. \A i \in 1 .. Len(all) : Spoken(all[i], calls)
  <2>1. \A i \in 1 .. Len(all) : i = Len(list) + 1 \/ i \in 1 .. Len(list)
    BY <1>2
  <2> QED BY <1>2, <2>1 DEF Talk, e
<1>5. from \in 1 .. Len(all) /\ Len(all) - from + 1 <= MaxHistory
  <2>1. Len(all) \in Nat \ {0}
    BY <1>2
  <2> QED BY ONLY <1>0, <2>1
<1> HIDE DEF from
<1>6. /\ new \in Seq(Said) /\ Len(new) = Len(all) - from + 1
      /\ \A i \in 1 .. Len(new) : new[i] = all[from - 1 + i]
  <2>1. new \in Seq(Said) /\ Len(new) = Len(all) - from + 1
    BY <1>2, <1>5
  <2>2. \A i \in 1 .. Len(all) - from + 1 : new[i] = all[from - 1 + i]
    BY <1>2, <1>5
  <2> QED BY <2>1, <2>2
<1> HIDE DEF new
<1>7. \A i \in 1 .. Len(new) : from - 1 + i \in 1 .. Len(all)
  BY <1>2, <1>5, <1>6
<1>8. Len(new) <= MaxHistory
  BY <1>5, <1>6
<1>9. \A i, j \in 1 .. Len(new) : new[i] = new[j] => i = j
  <2> SUFFICES ASSUME NEW i \in 1 .. Len(new), NEW j \in 1 .. Len(new), new[i] = new[j]
               PROVE  i = j
    OBVIOUS
  <2>1. from - 1 + i = from - 1 + j
    BY <1>3, <1>6, <1>7
  <2> QED BY <1>5, <2>1
<1>10. \A i \in 1 .. Len(new) : Spoken(new[i], calls)
  BY <1>4, <1>6, <1>7
<1> QED BY <1>1, <1>6, <1>8, <1>9, <1>10 DEF Talk

\* A call that goes on leaves what was said as it is, unless it takes an answer back.
LEMMA TalkGoesOn ==
  ASSUME NEW list, NEW calls, Talk(list, calls), NEW next,
         \A e \in Said : Spoken(e, calls) => Spoken(e, next)
  PROVE  Talk(list, next)
<1>1. \A i \in 1 .. Len(list) : list[i] \in Said
  BY DEF Talk
<1> QED BY <1>1 DEF Talk

\* A call says a thing once: its message when it comes in, its answer at the end.
Answering(c) ==
  \/ entryCall[c].at = "payment" /\ entryCall'[c].at = "over"
  \/ /\ entryCall[c].at = "ready" /\ entryCall'[c].at = "telling"
     /\ entryCall[c].kind = "gateway" /\ entryCall'[c].kind = "gateway"
  \/ /\ entryCall[c].at = "telling" /\ entryCall'[c].at = "over"
     /\ entryCall[c].kind = "channel" /\ entryCall'[c].kind = "channel"

\* Replies are recorded once.
LEMMA ReplyTalk ==
  ASSUME TalkInv, EntryInv', NEW c \in Calls, NEW has, Entries!Reply(c, has),
         has \in BOOLEAN, has => Answering(c),
         \A e \in Said : Spoken(e, entryCall) => Spoken(e, entryCall'),
         UNCHANGED unused
  PROVE  TalkInv'
<1>1. \A k \in Entries!Keys : Talk(transcript[k], entryCall')
  <2> SUFFICES ASSUME NEW k \in Entries!Keys PROVE Talk(transcript[k], entryCall')
    OBVIOUS
  <2>1. Talk(transcript[k], entryCall)
    BY DEF TalkInv
  <2> QED BY <2>1, TalkGoesOn
<1> DEFINE key == entryCall[c].key
<1>2. CASE ~(has /\ key # Entries!NoKey)
  <2>1. UNCHANGED transcript
    BY <1>2 DEF Entries!Reply
  <2> QED BY <1>1, <2>1 DEF TalkInv
<1>3. CASE has /\ key # Entries!NoKey
  <2>1. key \in Entries!Keys
    BY <1>3 DEF TalkInv, EntryInv, CallType
  <2> DEFINE new == Entries!Recorded(transcript[key], c, "assistant")
  <2>2. transcript' = [transcript EXCEPT ![key] = new]
    BY <1>3 DEF Entries!Reply
  <2>3. Talk(new, entryCall')
    <3>1. Talk(transcript[key], entryCall) /\ Talk(transcript[key], entryCall')
      BY <1>1, <2>1 DEF TalkInv
    <3>2. \A i \in 1 .. Len(transcript[key]) : transcript[key][i] # <<c, "assistant">>
      <4>1. ~Spoken(<<c, "assistant">>, entryCall)
        BY <1>3 DEF Spoken, Answering
      <4> QED BY <3>1, <4>1 DEF Talk
    <3>3. Spoken(<<c, "assistant">>, entryCall')
      <4>1. \/ entryCall'[c].at = "over"
            \/ entryCall'[c].at = "telling" /\ entryCall'[c].kind = "gateway"
        BY <1>3 DEF Answering
      <4>2. <<c, "assistant">>[1] = c
        OBVIOUS
      <4> HIDE DEF key, new
      <4> QED BY ONLY <4>1, <4>2 DEF Spoken
    <3>4. "assistant" \in Roles
      BY DEF Roles
    <3> HIDE DEF key
    <3> QED BY <3>1, <3>2, <3>3, <3>4, RecordedTalk
  <2> HIDE DEF new, key
  <2> QED BY <1>1, <2>1, <2>2, <2>3 DEF TalkInv
<1> QED BY <1>2, <1>3

\* A call that moves on keeps what was said, unless it leaves the end.
LEMMA SpokenStays ==
  ASSUME EntryInv, NEW c \in Calls, NEW call,
         entryCall' = [entryCall EXCEPT ![c] = call],
         \/ entryCall[c].at = "new"
         \/ call.at # "new" /\ entryCall[c].at \in {"payment", "ready", "saving"}
         \/ call.at = "over"
         \/ call.at # "new" /\ entryCall[c].at = "telling" /\ entryCall[c].kind # "gateway"
  PROVE  \A e \in Said : Spoken(e, entryCall) => Spoken(e, entryCall')
<1> SUFFICES ASSUME NEW e \in Said, Spoken(e, entryCall) PROVE Spoken(e, entryCall')
  OBVIOUS
<1>1. e[1] \in Calls
  BY DEF Said
<1>2. CASE e[1] = c
  <2>1. entryCall'[e[1]] = call /\ entryCall[e[1]] = entryCall[c]
    BY <1>2 DEF EntryInv
  <2>2. /\ entryCall[c].at # "new"
        /\ e[2] = "assistant" =>
             \/ entryCall[c].at = "over"
             \/ entryCall[c].at = "telling" /\ entryCall[c].kind = "gateway"
    BY <2>1 DEF Spoken
  <2>3. call.at # "new" /\ (e[2] = "assistant" => call.at = "over")
    BY <2>2
  <2> QED BY <2>1, <2>3 DEF Spoken
<1>3. CASE e[1] # c
  <2>1. entryCall'[e[1]] = entryCall[e[1]]
    BY <1>1, <1>3 DEF EntryInv
  <2> QED BY <2>1 DEF Spoken
<1> QED BY <1>2, <1>3

\* A step that leaves the transcripts alone keeps them.
LEMMA QuietTalk ==
  ASSUME TalkInv, EntryInv', UNCHANGED transcript, unused' \subseteq Calls,
         \A e \in Said : Spoken(e, entryCall) => Spoken(e, entryCall')
  PROVE  TalkInv'
<1>1. ASSUME NEW k \in Entries!Keys PROVE Talk(transcript[k], entryCall')
  <2>1. Talk(transcript[k], entryCall)
    BY DEF TalkInv
  <2> QED BY <2>1, TalkGoesOn
<1> QED BY <1>1 DEF TalkInv

\* The message of a call that comes in.
LEMMA InboundTalk ==
  ASSUME TalkInv, EntryInv', NEW c \in Calls, NEW key \in Entries!Keys, NEW new,
         transcript' = [transcript EXCEPT ![key] = new], Talk(new, entryCall'),
         unused' \subseteq Calls,
         \A e \in Said : Spoken(e, entryCall) => Spoken(e, entryCall')
  PROVE  TalkInv'
<1>1. ASSUME NEW k \in Entries!Keys PROVE Talk(transcript'[k], entryCall')
  <2>1. Talk(transcript[k], entryCall)
    BY DEF TalkInv
  <2>2. Talk(transcript[k], entryCall')
    BY <2>1, TalkGoesOn
  <2>3. transcript'[k] = IF k = key THEN new ELSE transcript[k]
    BY DEF TalkInv
  <2> QED BY <2>2, <2>3
<1> QED BY <1>1 DEF TalkInv

\* What a call that comes in says is new.
LEMMA NewMessage ==
  ASSUME TalkInv, NEW c \in Calls, entryCall[c].at = "new", NEW key \in Entries!Keys,
         NEW list \in Entries!Opened(transcript[key]), entryCall'[c].at # "new",
         \A e \in Said : Spoken(e, entryCall) => Spoken(e, entryCall')
  PROVE  Talk(Entries!Recorded(list, c, "user"), entryCall')
<1>1. Talk(list, entryCall)
  BY NoTalk DEF TalkInv, Entries!Opened
<1>2. Talk(list, entryCall')
  BY <1>1, TalkGoesOn
<1>3. ~Spoken(<<c, "user">>, entryCall) /\ Spoken(<<c, "user">>, entryCall')
  BY DEF Spoken
<1>4. \A i \in 1 .. Len(list) : list[i] # <<c, "user">>
  BY <1>1, <1>3 DEF Talk
<1>5. "user" \in Roles
  BY DEF Roles
<1> QED BY <1>2, <1>3, <1>4, <1>5, RecordedTalk

\* Every step of the entries keeps the transcripts.
LEMMA TalkStep == TalkInv /\ Entries!EntryNext => TalkInv'
<1> SUFFICES ASSUME TalkInv, Entries!EntryNext PROVE TalkInv'
  OBVIOUS
<1>0. EntryInv /\ EntryInv' /\ unused \subseteq Calls
  BY EntryStep DEF TalkInv
<1> DEFINE Stays == \A e \in Said : Spoken(e, entryCall) => Spoken(e, entryCall')
<1>1. ASSUME NEW c \in Calls, Entries!Inbound(c) PROVE TalkInv'
  <2>1. entryCall[c].at = "new" /\ UNCHANGED unused
    BY <1>1 DEF Entries!Inbound
  <2>2. PICK m \in Messages : \E list \in Entries!Opened(transcript[Entries!Key(m)]) :
          \/ /\ transcript' = [transcript EXCEPT ![Entries!Key(m)] = <<>>]
             /\ Entries!Entered(c, "over", "reset", Entries!NoKey)
          \/ /\ transcript' = [transcript EXCEPT ![Entries!Key(m)] =
                                                  Entries!Recorded(list, c, "user")]
             /\ Entries!Entered(c, "payment", "channel", Entries!Key(m))
    BY <1>1 DEF Entries!Inbound
  <2> DEFINE key == Entries!Key(m)
  <2>3. key \in Entries!Keys
    BY DEF Entries!Keys
  <2>6. PICK list \in Entries!Opened(transcript[key]) :
          \/ /\ transcript' = [transcript EXCEPT ![key] = <<>>]
             /\ Entries!Entered(c, "over", "reset", Entries!NoKey)
          \/ /\ transcript' = [transcript EXCEPT ![key] = Entries!Recorded(list, c, "user")]
             /\ Entries!Entered(c, "payment", "channel", key)
    BY <2>2
  <2> HIDE DEF key
  <2>4. CASE /\ transcript' = [transcript EXCEPT ![key] = <<>>]
             /\ Entries!Entered(c, "over", "reset", Entries!NoKey)
    <3>1. PICK call \in CallType : entryCall' = [entryCall EXCEPT ![c] = call]
      BY <1>0, <2>4, EnteredCall DEF Places, Kinds
    <3>2. Stays
      BY <1>0, <2>1, <3>1, SpokenStays
    <3>3. Talk(<<>>, entryCall')
      BY NoTalk
    <3> HIDE DEF Stays
    <3> QED BY <1>0, <2>1, <2>3, <2>4, <3>2, <3>3, InboundTalk DEF Stays
  <2>5. CASE /\ transcript' = [transcript EXCEPT ![key] = Entries!Recorded(list, c, "user")]
             /\ Entries!Entered(c, "payment", "channel", key)
    <3>1. PICK call \in CallType :
            entryCall' = [entryCall EXCEPT ![c] = call] /\ call.at = "payment"
      BY <1>0, <2>3, <2>5, EnteredCall DEF Places, Kinds
    <3>2. Stays
      BY <1>0, <2>1, <3>1, SpokenStays
    <3>3. entryCall'[c].at # "new" /\ list \in Entries!Opened(transcript[key])
      BY <1>0, <3>1 DEF EntryInv
    <3>4. Talk(Entries!Recorded(list, c, "user"), entryCall')
      BY <2>1, <2>3, <3>2, <3>3, NewMessage
    <3> QED BY <1>0, <2>1, <2>3, <2>5, <3>2, <3>4, InboundTalk
  <2> QED BY <2>4, <2>5, <2>6
<1>2. ASSUME NEW c \in Calls, Entries!Execute(c) PROVE TalkInv'
  <2>1. entryCall[c].at = "new"
    BY <1>2 DEF Entries!Execute
  <2>2. PICK m \in Messages : \E list \in Entries!Opened(transcript[Entries!Key(m)]) :
          /\ transcript' = [transcript EXCEPT ![Entries!Key(m)] =
                                               Entries!Recorded(list, c, "user")]
          /\ Entries!Entered(c, "payment", "gateway", Entries!Key(m))
          /\ unused' \subseteq unused \cup {c}
    BY <1>2 DEF Entries!Execute
  <2> DEFINE key == Entries!Key(m)
  <2>3. key \in Entries!Keys
    BY DEF Entries!Keys
  <2>4. PICK list \in Entries!Opened(transcript[key]) :
          /\ transcript' = [transcript EXCEPT ![key] = Entries!Recorded(list, c, "user")]
          /\ Entries!Entered(c, "payment", "gateway", key)
          /\ unused' \subseteq Calls
    BY <1>0, <2>2
  <2> HIDE DEF key
  <2>5. PICK call \in CallType :
          entryCall' = [entryCall EXCEPT ![c] = call] /\ call.at = "payment"
    BY <1>0, <2>3, <2>4, EnteredCall DEF Places, Kinds
  <2>6. Stays
    BY <1>0, <2>1, <2>5, SpokenStays
  <2>7. entryCall'[c].at # "new"
    BY <1>0, <2>5 DEF EntryInv
  <2>8. Talk(Entries!Recorded(list, c, "user"), entryCall')
    BY <2>1, <2>3, <2>4, <2>6, <2>7, NewMessage
  <2> QED BY <1>0, <2>3, <2>4, <2>6, <2>8, InboundTalk
<1>3. ASSUME NEW c \in Calls, Entries!CheckPayment(c) PROVE TalkInv'
  <2>1. entryCall[c].at = "payment" /\ UNCHANGED unused
    BY <1>3 DEF Entries!CheckPayment
  <2>2. CASE Entries!Moved(c, "ready") /\ UNCHANGED transcript
    <3>1. PICK call \in CallType :
            entryCall' = [entryCall EXCEPT ![c] = call] /\ call.at = "ready"
      BY <1>0, <2>2, MovedCall DEF Places
    <3>2. Stays
      BY <1>0, <2>1, <3>1, SpokenStays
    <3> QED BY <1>0, <2>1, <2>2, <3>2, QuietTalk
  <2>3. CASE /\ Entries!Ended(c, "over", "unpaid")
             /\ Entries!Reply(c, entryCall[c].kind = "channel")
    <3>1. PICK call \in CallType :
            entryCall' = [entryCall EXCEPT ![c] = call] /\ call.at = "over"
      BY <1>0, <2>3, EndedCall DEF Places, Results
    <3>2. Stays
      BY <1>0, <2>1, <3>1, SpokenStays
    <3>3. Answering(c)
      BY <1>0, <2>1, <3>1 DEF Answering, EntryInv
    <3>4. PICK has \in BOOLEAN : has = (entryCall[c].kind = "channel")
      OBVIOUS
    <3>5. Entries!Reply(c, has)
      BY <2>3, <3>4
    <3> QED BY <1>0, <2>1, <3>2, <3>3, <3>5, ReplyTalk
  <2> QED BY <1>3, <2>2, <2>3 DEF Entries!CheckPayment
<1>4. ASSUME NEW c \in Calls, Entries!RunGateway(c) PROVE TalkInv'
  <2>1. /\ entryCall[c].at = "ready" /\ UNCHANGED unused
        /\ Entries!Ended(c, "telling", "raised")
        /\ Entries!Reply(c, entryCall[c].kind = "gateway")
    BY <1>4 DEF Entries!RunGateway
  <2>2. PICK call \in CallType :
          /\ entryCall' = [entryCall EXCEPT ![c] = call]
          /\ call.at = "telling" /\ call.kind = entryCall[c].kind
    BY <1>0, <2>1, EndedCall DEF Places, Results
  <2>3. Stays
    BY <1>0, <2>1, <2>2, SpokenStays
  <2>4. PICK has \in BOOLEAN : has = (entryCall[c].kind = "gateway")
    OBVIOUS
  <2>5. Entries!Reply(c, has)
    BY <2>1, <2>4
  <2>6. has => Answering(c)
    BY <1>0, <2>1, <2>2, <2>4 DEF Answering, EntryInv
  <2> QED BY <1>0, <2>1, <2>3, <2>5, <2>6, ReplyTalk
<1>5. ASSUME NEW c \in Calls, Entries!TellGateway(c) PROVE TalkInv'
  <2>1. /\ entryCall[c].at = "telling" /\ UNCHANGED unused /\ Entries!Moved(c, "over")
        /\ Entries!Reply(c, entryCall[c].kind = "channel")
    BY <1>5 DEF Entries!TellGateway
  <2>2. PICK call \in CallType :
          /\ entryCall' = [entryCall EXCEPT ![c] = call]
          /\ call.at = "over" /\ call.kind = entryCall[c].kind
    BY <1>0, <2>1, MovedCall DEF Places
  <2>3. Stays
    BY <1>0, <2>1, <2>2, SpokenStays
  <2>4. PICK has \in BOOLEAN : has = (entryCall[c].kind = "channel")
    OBVIOUS
  <2>5. Entries!Reply(c, has)
    BY <2>1, <2>4
  <2>6. has => Answering(c)
    BY <1>0, <2>1, <2>2, <2>4 DEF Answering, EntryInv
  <2> QED BY <1>0, <2>1, <2>3, <2>5, <2>6, ReplyTalk
<1>6. ASSUME NEW c \in Calls, Entries!Start(c) PROVE TalkInv'
  <2>1. /\ entryCall[c].at = "new" /\ UNCHANGED <<transcript, unused>>
        /\ \E kind \in {"async", "sync"} : Entries!Entered(c, "ready", kind, Entries!NoKey)
    BY <1>6 DEF Entries!Start
  <2>2. PICK call \in CallType : entryCall' = [entryCall EXCEPT ![c] = call]
    BY <1>0, <2>1, EnteredCall DEF Places, Kinds
  <2>3. Stays
    BY <1>0, <2>1, <2>2, SpokenStays
  <2> QED BY <1>0, <2>1, <2>3, QuietTalk
<1>7. ASSUME NEW c \in Calls, Entries!RunEndpoint(c) PROVE TalkInv'
  <2>1. /\ entryCall[c].at = "ready" /\ UNCHANGED <<transcript, unused>>
        /\ \E outcome \in {"success", "error", "denied", "raised"} :
             Entries!Ended(c, "telling", outcome)
    BY <1>7 DEF Entries!RunEndpoint
  <2>2. PICK call \in CallType :
          entryCall' = [entryCall EXCEPT ![c] = call] /\ call.at = "telling"
    BY <1>0, <2>1, EndedCall DEF Places, Results
  <2>3. Stays
    BY <1>0, <2>1, <2>2, SpokenStays
  <2> QED BY <1>0, <2>1, <2>3, QuietTalk
<1>8. ASSUME NEW c \in Calls, Entries!TellEndpoint(c) PROVE TalkInv'
  <2> DEFINE at == IF entryCall[c].kind = "async" THEN "saving" ELSE "over"
  <2>1. /\ entryCall[c].at = "telling" /\ entryCall[c].kind \in {"async", "sync"}
        /\ UNCHANGED <<transcript, unused>> /\ Entries!Moved(c, at)
    BY <1>8 DEF Entries!TellEndpoint
  <2>2. PICK call \in CallType : entryCall' = [entryCall EXCEPT ![c] = call] /\ call.at = at
    BY <1>0, <2>1, MovedCall DEF Places
  <2>3. Stays
    BY <1>0, <2>1, <2>2, SpokenStays
  <2> QED BY <1>0, <2>1, <2>3, QuietTalk
<1>9. ASSUME NEW c \in Calls, Entries!SaveRow(c) PROVE TalkInv'
  <2>1. /\ entryCall[c].at = "saving" /\ UNCHANGED <<transcript, unused>>
        /\ Entries!Moved(c, "over")
    BY <1>9 DEF Entries!SaveRow
  <2>2. PICK call \in CallType :
          entryCall' = [entryCall EXCEPT ![c] = call] /\ call.at = "over"
    BY <1>0, <2>1, MovedCall DEF Places
  <2>3. Stays
    BY <1>0, <2>1, <2>2, SpokenStays
  <2> QED BY <1>0, <2>1, <2>3, QuietTalk
<1>10. ASSUME NEW c \in Calls, Entries!Cancel(c) \/ Entries!DeleteBox(c) PROVE TalkInv'
  <2>1. UNCHANGED <<entryCall, transcript, unused>>
    BY <1>10 DEF Entries!Cancel, Entries!DeleteBox
  <2> QED BY <1>0, <2>1, QuietTalk
<1>11. ASSUME Entries!ClearSessions PROVE TalkInv'
  <2>1. transcript' = [k \in Entries!Keys |-> <<>>] /\ UNCHANGED unused
    BY <1>11 DEF Entries!ClearSessions
  <2>2. Talk(<<>>, entryCall')
    BY NoTalk
  <2> QED BY <1>0, <2>1, <2>2 DEF TalkInv
<1> QED BY <1>1, <1>2, <1>3, <1>4, <1>5, <1>6, <1>7, <1>8, <1>9, <1>10, <1>11
        DEF Entries!EntryNext

\* The invariant of calls and transcripts holds, whatever service a behaviour exercises.
LEMMA TalkInvariant == ServicesSpec => []TalkInv
<1>1. ServicesInit /\ EntryInv => TalkInv
  <2> SUFFICES ASSUME Entries!EntryInit, EntryInv PROVE TalkInv
    BY DEF ServicesInit
  <2>1. Talk(<<>>, entryCall)
    BY NoTalk
  <2> QED BY <2>1 DEF Entries!EntryInit, TalkInv
<1>2. TalkInv /\ [ServicesNext]_allVars => TalkInv'
  <2>1. UNCHANGED entryVars /\ TalkInv => TalkInv'
    BY DEF entryVars, TalkInv, EntryInv
  <2> QED BY <2>1, TalkStep DEF ServicesNext, Others, allVars
<1> QED BY <1>1, <1>2, EntryInvariant, PTL DEF ServicesSpec

\* The calls, what they left and the transcripts have their types.
LEMMA EntryTypes == TalkInv => Entries!EntryTypeOK
<1> SUFFICES ASSUME TalkInv PROVE Entries!EntryTypeOK
  OBVIOUS
<1>1. ASSUME NEW c \in Calls
      PROVE  /\ entryCall[c] \in CallType /\ entryTask[c] \in TaskType /\ told[c] \in ToldType
             /\ box[c] \in BoxType /\ row[c] \in ToldType
  BY Kept DEF TalkInv
<1>2. ASSUME NEW k \in Entries!Keys
      PROVE  Len(transcript[k]) <= MaxHistory /\ Entries!IsInjective(transcript[k])
  <2>1. Talk(transcript[k], entryCall)
    BY DEF TalkInv
  <2>2. DOMAIN transcript[k] = 1 .. Len(transcript[k])
    BY <2>1 DEF Talk
  <2> QED BY <2>1, <2>2 DEF Talk, Entries!IsInjective
<1> QED BY <1>1, <1>2 DEF TalkInv, Entries!EntryTypeOK, CallType, TaskType, ToldType, BoxType,
                         Places, Kinds

-----------------------------------------------------------------------------
(* LocalCrew.                                                                *)

\* A crew has a model for each worker: that of the worker's own row if the settings it
\* was built from, and has followed since, have one.
CrewMade(c) ==
  /\ c = [offline |-> c.offline, models |-> c.models, built |-> c.built]
  /\ c.built = [default |-> c.built.default, overrides |-> c.built.overrides]
  /\ DOMAIN c.models = Workers /\ DOMAIN c.built.overrides = OverrideKeys
  /\ \A w \in Workers : c.built.overrides[<<w, "id">>] # NoModel =>
                         c.models[w] = c.built.overrides[<<w, "id">>]

CrewInv == AdvertisedIsOnline /\ (crew # NoCrew => CrewMade(crew))

\* A crew that is built takes each worker's model from the overrides it is built with.
LEMMA BuildMakes ==
  ASSUME NEW model, NEW table
  PROVE  /\ CrewMade(Build(RuntimeSettings(model, table)))
         /\ Build(RuntimeSettings(model, table)).offline = {}
         /\ \A w \in Workers : table[w].model # NoModel =>
              Build(RuntimeSettings(model, table)).models[w] = table[w].model
         /\ \A w \in Workers :
              RuntimeSettings(model, table).overrides[<<w, "id">>] = table[w].model
<1> DEFINE rs == RuntimeSettings(model, table)
<1>1. /\ rs = [default |-> rs.default, overrides |-> rs.overrides]
      /\ DOMAIN rs.overrides = OverrideKeys
      /\ \A w \in Workers : rs.overrides[<<w, "id">>] = table[w].model
  BY DEF RuntimeSettings, OverrideKeys
<1> HIDE DEF rs
<1>2. \A w \in Workers : rs.overrides[<<w, "id">>] # NoModel =>
                          ModelOf(w, rs) = rs.overrides[<<w, "id">>]
  BY DEF ModelOf, OrElse
<1>3. CrewMade(Build(rs)) /\ Build(rs).offline = {}
  BY <1>1, <1>2 DEF CrewMade, Build
<1>4. \A w \in Workers : Build(rs).models[w] = ModelOf(w, rs)
  BY DEF Build
<1> QED BY <1>1, <1>2, <1>3, <1>4 DEF rs

\* A change of one worker's model is made in its override too.
LEMMA WithModelMakes ==
  ASSUME NEW c, NEW w \in Workers, NEW name, NEW m, CrewMade(c) \/ c = NoCrew
  PROVE  CrewMade(WithModel(c, w, name, m)) \/ WithModel(c, w, name, m) = NoCrew
<1>1. CASE c = NoCrew
  BY <1>1 DEF WithModel
<1>2. CASE c # NoCrew
  <2> DEFINE own == IF m = NoModel THEN Own ELSE m
             over == [k \in OverrideKeys |->
                        IF k \in {<<w, "id">>, <<w, name>>} THEN m ELSE c.built.overrides[k]]
             d == [offline |-> c.offline, models |-> [c.models EXCEPT ![w] = own],
                   built |-> [default |-> c.built.default, overrides |-> over]]
  <2>1. WithModel(c, w, name, m) = d
    BY <1>2 DEF WithModel, CrewMade
  <2>2. CrewMade(d)
    <3>1. ASSUME NEW v \in Workers, over[<<v, "id">>] # NoModel
          PROVE  [c.models EXCEPT ![w] = own][v] = over[<<v, "id">>]
      BY <1>2, <3>1 DEF CrewMade, OverrideKeys
    <3> QED BY <1>2, <3>1 DEF CrewMade
  <2> QED BY <2>1, <2>2
<1> QED BY <1>1, <1>2

\* Who is off line has no part in the models.
LEMMA WithStatusMakes ==
  ASSUME NEW c, NEW w \in Workers, NEW name, NEW status, CrewMade(c)
  PROVE  CrewMade(WithStatus(c, w, name, status))
<1> DEFINE off == IF status = "offline" THEN c.offline \union {<<w, name>>}
                  ELSE c.offline \ {<<w, name>>}
           d == [offline |-> off, models |-> c.models, built |-> c.built]
<1>1. WithStatus(c, w, name, status) = d
  BY DEF WithStatus, CrewMade
<1>2. CrewMade(d)
  BY DEF CrewMade
<1> QED BY <1>1, <1>2

\* A singleton that is kept, refreshed or built has models that follow its overrides.
LEMMA GotMakes ==
  ASSUME NEW c, NEW differs, NEW model, NEW table, CrewMade(c) \/ c = NoCrew
  PROVE  CrewMade(Got(c, differs, RuntimeSettings(model, table)))
<1> QED BY BuildMakes DEF Got, Fresh

\* An update leaves a crew that follows the rows, and advertises what it has online.
LEMMA UpdateFollows ==
  ASSUME CrewInv, NEW w \in Workers, NEW req \in Requests, UpdateAgent(w, req)
  PROVE  CrewInv'
<1> DEFINE q == Taken(w, req)
           known == rows[w] # NoRow
           found == IF known THEN crew ELSE Got(crew, changed, RuntimeSettings(default, rows))
           new == RowOf(w, q, found)
           table == [rows EXCEPT ![w] = new]
           rs == RuntimeSettings(default, table)
           live == IF q.model = Absent THEN found ELSE WithModel(found, w, new.name, q.model)
           differs == changed /\ known
           got == Got(live, differs, rs)
           old == IF known THEN rows[w].name ELSE "role"
<1>1. /\ crew' \in {WithStatus(got, w, old, q.status), got, live}
      /\ advertised' = IF crew' = crew THEN advertised ELSE OnlineOf(crew')
  BY DEF UpdateAgent
<1>2. CrewMade(crew) \/ crew = NoCrew
  BY DEF CrewInv
<1>3. CrewMade(found) \/ found = NoCrew
  BY <1>2, GotMakes
<1>4. CrewMade(live) \/ live = NoCrew
  <2> HIDE DEF found, q, new
  <2> QED BY <1>3, WithModelMakes
<1>5. CrewMade(got)
  <2> HIDE DEF live, differs, table
  <2> QED BY <1>4, GotMakes
<1>6. CrewMade(WithStatus(got, w, old, q.status))
  <2> HIDE DEF got, old, q
  <2> QED BY <1>5, WithStatusMakes
<1>7. CrewMade(crew') \/ crew' = NoCrew
  <2> HIDE DEF got, live, old, q
  <2> QED BY <1>1, <1>4, <1>5, <1>6
<1> HIDE DEF got, live, old, q
<1> QED BY <1>1, <1>7 DEF CrewInv, AdvertisedIsOnline, OnlineOf, CrewMade

\* Every step of the crew and the agents keeps the invariant.
LEMMA CrewStep == CrewInv /\ CrewNext => CrewInv'
<1> SUFFICES ASSUME CrewInv, CrewNext PROVE CrewInv'
  OBVIOUS
<1>1. ASSUME GetCrew PROVE CrewInv'
  <2>1. /\ crew' = Build(RuntimeSettings(default, rows)) /\ advertised' = OnlineOf(crew')
    BY <1>1 DEF GetCrew
  <2> QED BY <2>1, BuildMakes DEF CrewInv, AdvertisedIsOnline, OnlineOf
<1>2. ASSUME UNCHANGED <<crew, advertised>> PROVE CrewInv'
  BY <1>2 DEF CrewInv, AdvertisedIsOnline, OnlineOf, CrewMade
<1>3. ASSUME SetRoleModel PROVE CrewInv'
  BY <1>3 DEF SetRoleModel, CrewInv, AdvertisedIsOnline
<1>4. ASSUME Restart PROVE CrewInv'
  <2>1. crew' = Build(RuntimeSettings(default, rows)) /\ advertised' = Workers
    BY <1>4 DEF Restart
  <2>2. crew'.offline = {}
    BY <2>1, BuildMakes
  <2> QED BY <2>1, <2>2, BuildMakes DEF CrewInv, AdvertisedIsOnline, OnlineOf
<1> QED BY <1>1, <1>2, <1>3, <1>4, UpdateFollows
        DEF CrewNext, SetSetting, CreateAgent, DeleteAgent

\* The invariant of the crew holds, whatever service a behaviour exercises.
LEMMA CrewInvariant == ServicesSpec => []CrewInv
<1>1. ServicesInit => CrewInv
  <2> SUFFICES ASSUME CrewInit PROVE CrewInv
    BY DEF ServicesInit
  <2>1. crew = Build(RuntimeSettings(default, rows)) /\ advertised = Workers
    BY DEF CrewInit
  <2>2. crew.offline = {}
    BY <2>1, BuildMakes
  <2> QED BY <2>1, <2>2, BuildMakes DEF CrewInv, AdvertisedIsOnline, OnlineOf
<1>2. CrewInv /\ [ServicesNext]_allVars => CrewInv'
  <2>1. UNCHANGED crewVars /\ CrewInv => CrewInv'
    BY DEF crewVars, CrewInv, AdvertisedIsOnline, OnlineOf, CrewMade
  <2> QED BY <2>1, CrewStep DEF ServicesNext, Others, allVars
<1> QED BY <1>1, <1>2, PTL DEF ServicesSpec

\* The node advertises the workers that its crew has online, and whoever asks for the
\* crew gets workers with the models that their rows say, for every set of workers and
\* models and every configuration of the roster.
THEOREM CrewFollows == ServicesSpec => []CrewFollowsAgents
<1>1. CrewInv => CrewFollowsAgents
  <2> SUFFICES ASSUME CrewInv PROVE ModelsFollowRows
    BY DEF CrewInv, CrewFollowsAgents
  <2> DEFINE rs == RuntimeSettings(default, rows)
  <2> SUFFICES ASSUME NEW w \in Workers, rows[w].model # NoModel
               PROVE  Got(crew, changed, rs).models[w] = rows[w].model
    BY DEF ModelsFollowRows
  <2>1. CASE Fresh(crew, changed, rs)
    <3>1. Got(crew, changed, rs) = crew /\ crew # NoCrew /\ crew.built = rs
      BY <2>1 DEF Got, Fresh
    <3>2. rs.overrides[<<w, "id">>] = rows[w].model
      BY BuildMakes
    <3> QED BY <3>1, <3>2 DEF CrewInv, CrewMade
  <2>2. CASE ~Fresh(crew, changed, rs)
    <3>1. Got(crew, changed, rs) = Build(rs)
      BY <2>2 DEF Got
    <3> QED BY <3>1, BuildMakes
  <2> QED BY <2>1, <2>2
<1> QED BY <1>1, CrewInvariant, PTL

-----------------------------------------------------------------------------
(* The types of LocalCrew.                                                   *)

Named == Models \union {Own}
RowType == [name : RowNames \union {"none"}, model : Named]

\* A crew has a model for each worker, and workers off line under names of their rows.
CrewTyped(c) ==
  /\ c = [offline |-> c.offline, models |-> c.models, built |-> c.built]
  /\ c.offline \subseteq Workers \X RowNames /\ c.models \in [Workers -> Named]

\* A row that is there has one of the names it may have.
RowsTyped(table) ==
  /\ table \in [Workers -> RowType]
  /\ \A w \in Workers : table[w] # NoRow => table[w].name \in RowNames

CrewTypes ==
  /\ default \in Models /\ changed \in BOOLEAN /\ RowsTyped(rows)
  /\ crew = NoCrew \/ CrewTyped(crew)
  /\ advertised \subseteq Workers /\ marked \subseteq Workers

\* No model is one of the models.
LEMMA NoModelIn == NoModel \in Models
<1> QED BY ServicesAssumption DEF ServicesAssumption, CrewAssumption

\* A crew that is built has its types.
LEMMA BuildTyped ==
  ASSUME NEW model \in Models, NEW table \in [Workers -> RowType]
  PROVE  CrewTyped(Build(RuntimeSettings(model, table)))
<1> DEFINE rs == RuntimeSettings(model, table)
<1>1. rs.default \in Named /\ \A k \in OverrideKeys : rs.overrides[k] \in Named
  <2>1. \A k \in OverrideKeys : k[1] \in Workers
    BY DEF OverrideKeys
  <2>2. \A w \in Workers : table[w].model \in Named
    BY DEF RowType
  <2> QED BY <2>1, <2>2, NoModelIn DEF RuntimeSettings, Named
<1> HIDE DEF rs
<1>2. \A w \in Workers : ModelOf(w, rs) \in Named
  <2> SUFFICES ASSUME NEW w \in Workers PROVE ModelOf(w, rs) \in Named
    OBVIOUS
  <2>1. <<w, "id">> \in OverrideKeys /\ <<w, "role">> \in OverrideKeys
    BY DEF OverrideKeys, RowNames
  <2> QED BY <1>1, <2>1 DEF ModelOf, OrElse, Named
<1>3. CrewTyped([offline |-> {}, models |-> [w \in Workers |-> ModelOf(w, rs)], built |-> rs])
  BY <1>2 DEF CrewTyped
<1> QED BY <1>3 DEF Build, rs

\* So has one that is kept, refreshed or built.
LEMMA GotTyped ==
  ASSUME NEW c, NEW differs, NEW model \in Models, NEW table \in [Workers -> RowType],
         CrewTyped(c) \/ c = NoCrew
  PROVE  CrewTyped(Got(c, differs, RuntimeSettings(model, table)))
<1> QED BY BuildTyped DEF Got, Fresh

\* A live worker gets a model.
LEMMA WithModelTyped ==
  ASSUME NEW c, NEW w \in Workers, NEW name, NEW m \in Models, CrewTyped(c) \/ c = NoCrew
  PROVE  CrewTyped(WithModel(c, w, name, m)) \/ WithModel(c, w, name, m) = NoCrew
<1>1. CASE c = NoCrew
  BY <1>1 DEF WithModel
<1>2. CASE c # NoCrew
  <2> DEFINE own == IF m = NoModel THEN Own ELSE m
             d == WithModel(c, w, name, m)
  <2>1. own \in Named
    BY DEF Named
  <2>2. /\ d = [offline |-> d.offline, models |-> d.models, built |-> d.built]
        /\ d.offline = c.offline /\ d.models = [c.models EXCEPT ![w] = own]
    BY <1>2 DEF WithModel, CrewTyped
  <2> HIDE DEF own, d
  <2> QED BY <1>2, <2>1, <2>2 DEF CrewTyped, d
<1> QED BY <1>1, <1>2

\* A worker goes off line, or comes back.
LEMMA WithStatusTyped ==
  ASSUME NEW c, NEW w \in Workers, NEW name \in RowNames, NEW status, CrewTyped(c)
  PROVE  CrewTyped(WithStatus(c, w, name, status))
<1> DEFINE off == IF status = "offline" THEN c.offline \union {<<w, name>>}
                  ELSE c.offline \ {<<w, name>>}
           d == [offline |-> off, models |-> c.models, built |-> c.built]
<1>1. WithStatus(c, w, name, status) = d
  <2>1. c = [offline |-> c.offline, models |-> c.models, built |-> c.built]
    BY DEF CrewTyped
  <2> QED BY <2>1 DEF WithStatus
<1>2. off \subseteq Workers \X RowNames
  BY DEF CrewTyped
<1>3. CrewTyped(d)
  BY <1>2 DEF CrewTyped
<1> QED BY <1>1, <1>3

\* An update keeps the types.
LEMMA UpdateTyped ==
  ASSUME CrewTypes, NEW w \in Workers, NEW req \in Requests, UpdateAgent(w, req)
  PROVE  CrewTypes'
<1> DEFINE q == Taken(w, req)
           known == rows[w] # NoRow
           found == IF known THEN crew ELSE Got(crew, changed, RuntimeSettings(default, rows))
           new == RowOf(w, q, found)
           table == [rows EXCEPT ![w] = new]
           rs == RuntimeSettings(default, table)
           live == IF q.model = Absent THEN found ELSE WithModel(found, w, new.name, q.model)
           differs == changed /\ known
           got == Got(live, differs, rs)
           old == IF known THEN rows[w].name ELSE "role"
<1>1. /\ crew' \in {WithStatus(got, w, old, q.status), got, live}
      /\ advertised' = IF crew' = crew THEN advertised ELSE OnlineOf(crew')
      /\ rows' = table /\ UNCHANGED default
      /\ marked' \in {marked \union {w}, marked \ {w}, marked}
      /\ changed' \in BOOLEAN
  BY DEF UpdateAgent
<1>2. /\ q.status \in {"online", "offline", Absent} /\ q.model \in Models \union {Absent}
      /\ q.name \in {"other", Absent}
  BY DEF Taken, Requests
<1>3. CrewTyped(found) \/ found = NoCrew
  BY GotTyped DEF CrewTypes, RowsTyped
<1>4. ~known => CrewTyped(found)
  BY GotTyped DEF CrewTypes, RowsTyped
<1>5. new.name \in RowNames /\ new.model \in Named /\ new \in RowType
  <2> HIDE DEF q, found
  <2>1. CASE known
    <3>1. rows[w].name \in RowNames /\ rows[w].model \in Named
      BY <2>1 DEF CrewTypes, RowsTyped, RowType
    <3>2. new = [name |-> Field(q.name, rows[w].name), model |-> Field(q.model, rows[w].model)]
      BY <2>1 DEF RowOf
    <3> QED BY <1>2, <3>1, <3>2 DEF Field, RowNames, Named, RowType
  <2>2. CASE ~known
    <3>1. found.models[w] \in Named
      BY <1>4, <2>2 DEF CrewTyped
    <3>2. new = [name |-> Field(q.name, "role"), model |-> Field(q.model, found.models[w])]
      BY <2>2 DEF RowOf
    <3> QED BY <1>2, <3>1, <3>2 DEF Field, RowNames, Named, RowType
  <2> QED BY <2>1, <2>2
<1>6. CrewTyped(live) \/ live = NoCrew
  <2> HIDE DEF found, q, new
  <2> QED BY <1>2, <1>3, WithModelTyped
<1> HIDE DEF new
<1>7. RowsTyped(table)
  BY <1>5 DEF CrewTypes, RowsTyped
<1>8. CrewTyped(got)
  <2>1. table \in [Workers -> RowType] /\ default \in Models
    BY <1>7 DEF CrewTypes, RowsTyped
  <2> HIDE DEF live, differs, table
  <2> QED BY <1>6, <2>1, GotTyped
<1>9. old \in RowNames
  BY DEF CrewTypes, RowsTyped, RowNames
<1>10. CrewTyped(WithStatus(got, w, old, q.status))
  <2> HIDE DEF got, old, q
  <2> QED BY <1>8, <1>9, WithStatusTyped
<1>11. CrewTyped(crew') \/ crew' = NoCrew
  <2> HIDE DEF got, live, old, q
  <2> QED BY <1>1, <1>6, <1>8, <1>10
<1> HIDE DEF got, live, old, q, table
<1> QED BY <1>1, <1>7, <1>11 DEF CrewTypes, OnlineOf

\* Every step of the crew and the agents keeps the types.
LEMMA CrewTypesStep == CrewTypes /\ CrewNext => CrewTypes'
<1> SUFFICES ASSUME CrewTypes, CrewNext PROVE CrewTypes'
  OBVIOUS
<1>0. CrewTyped(Build(RuntimeSettings(default, rows)))
  BY BuildTyped DEF CrewTypes, RowsTyped
<1>1. ASSUME GetCrew PROVE CrewTypes'
  BY <1>0, <1>1 DEF GetCrew, CrewTypes, OnlineOf
<1>2. ASSUME SetSetting PROVE CrewTypes'
  BY <1>2 DEF SetSetting, CrewTypes
<1>3. ASSUME CreateAgent PROVE CrewTypes'
  BY <1>3 DEF CreateAgent, SetRoleModel, CrewTypes
<1>4. ASSUME NEW w \in Workers, DeleteAgent(w) PROVE CrewTypes'
  <2>1. NoRow \in RowType
    BY NoModelIn DEF NoRow, RowType, Named
  <2>2. RowsTyped(rows')
    BY <1>4, <2>1 DEF DeleteAgent, CrewTypes, RowsTyped
  <2> QED BY <1>4, <2>2 DEF DeleteAgent, CrewTypes
<1>5. ASSUME Restart PROVE CrewTypes'
  BY <1>0, <1>5 DEF Restart, CrewTypes
<1> QED BY <1>1, <1>2, <1>3, <1>4, <1>5, UpdateTyped DEF CrewNext

\* The types of the crew, whatever service a behaviour exercises.
LEMMA CrewTypesInvariant == ServicesSpec => []CrewTypes
<1>1. ServicesInit => CrewTypes
  <2> SUFFICES ASSUME CrewInit PROVE CrewTypes
    BY DEF ServicesInit
  <2>1. NoRow \in RowType
    BY NoModelIn DEF NoRow, RowType, Named
  <2>2. RowsTyped(rows) /\ default \in Models
    BY <2>1, NoModelIn DEF CrewInit, RowsTyped
  <2>3. CrewTyped(crew)
    BY <2>2, BuildTyped DEF CrewInit, RowsTyped
  <2> QED BY <2>2, <2>3 DEF CrewInit, CrewTypes
<1>2. CrewTypes /\ [ServicesNext]_allVars => CrewTypes'
  <2>1. UNCHANGED crewVars /\ CrewTypes => CrewTypes'
    BY DEF crewVars, CrewTypes
  <2> QED BY <2>1, CrewTypesStep DEF ServicesNext, Others, allVars
<1> QED BY <1>1, <1>2, PTL DEF ServicesSpec

-----------------------------------------------------------------------------
(* All services.                                                             *)

\* The variables of every service keep their types: the memory, the ledger, the
\* transcripts and the table of agents stay in their bounds, for every number of jobs,
\* savers, writers, calls, workers and addresses.
THEOREM ServicesTypes == ServicesSpec => []ServicesTypeOK
<1>1. /\ CrewTypes => CrewTypeOK
      /\ ScheduleInv => Schedule!TypeOK
      /\ SettingsInv => Settings!SettingsTypeOK
  BY DEF CrewTypes, CrewTyped, RowsTyped, RowType, Named, CrewTypeOK, ScheduleInv, SettingsInv
<1>2. /\ MemInv => Memory!MemTypeOK
      /\ WalletInv => Wallet!WalletTypeOK
      /\ TalkInv => Entries!EntryTypeOK
  BY MemoryKept, WalletTypes, EntryTypes
<1>3. /\ CrewTypes /\ ScheduleInv /\ MemInv /\ WalletInv /\ TalkInv /\ SettingsInv
      => ServicesTypeOK
  BY <1>1, <1>2 DEF ServicesTypeOK
<1> QED BY <1>3, CrewTypesInvariant, ScheduleInvariant, MemInvariant, WalletInvariant,
           TalkInvariant, SettingsInvariant, PTL

\* Compaction of a memory leaves a trace of all that was saved and keeps the newest entry,
\* and a restart leaves a wallet with all its rows as it is, for every budget, number of
\* threads and capacity.
THEOREM NothingIsLost == ServicesSpec => NothingLost
<1>1. MemInv => Memory!NothingLost
  BY MemoryKept
<1>2. WalletInv => [Wallet!Restart /\ counted = Wallet!ToSet(txRows) /\ Len(txRows) <= Capacity
                      => ledger' = ledger /\ balance' = balance]_(Wallet!walletVars)
  BY RestartRestores
<1>3. ServicesSpec => []Memory!NothingLost
  BY <1>1, MemInvariant, PTL
<1>4. ServicesSpec => Wallet!RestartKeepsSmallWallet
  BY <1>2, WalletInvariant, PTL DEF Wallet!RestartKeepsSmallWallet
<1> QED BY <1>3, <1>4 DEF NothingLost
=============================================================================
