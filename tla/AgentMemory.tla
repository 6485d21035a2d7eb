----------------------------- MODULE AgentMemory -----------------------------
(***************************************************************************)
(* The durable memory of one scope, an agent or a chat session              *)
(* (memory/manager.py, memory/store.py).  What a task learned and what its   *)
(* agents note down is saved by the event loop and by the threads of tools;  *)
(* whoever saved last compacts: while the entries exceed the budget, the     *)
(* older ones are replaced by a summary.  Entries, the vector index and the  *)
(* log are written one after the other without a common lock; the store is   *)
(* what counts here, and each of its statements is a transaction.            *)
(***************************************************************************)
EXTENDS Naturals, FiniteSets, FiniteSetsExt

CONSTANTS Savers,       \* threads that save
          NoteSizes,    \* possible sizes of an entry
          SummarySize,  \* persistent_summary_max_chars: the size of a summary
          MaxChars,     \* persistent_max_chars
          RecentChars,  \* persistent_recent_keep_chars
          MinRecent,    \* persistent_min_recent_entries
          MaxPasses,    \* persistent_compaction_max_passes
          MaxSaves      \* bound: entries ever saved

MemoryAssumption ==
  {SummarySize, MaxChars, RecentChars, MinRecent, MaxPasses, MaxSaves} \cup NoteSizes
    \subseteq Nat \ {0}

VARIABLES
  memory,    \* the entries of the store
  saver,     \* what each thread is doing
  lastId,    \* entries ever stored, summaries included: their identifiers
  saves,     \* history: entries saved so far, numbered
  forgotten  \* history: those that a reset deleted

memVars == <<memory, saver, lastId, saves, forgotten>>

\* An entry: its creation time, its size, and the saved entries it stands for: a
\* summary stands for those it replaced.  Saves are further apart than the milliseconds
\* by which summaries follow what they replace: entries are ordered by the number of a
\* save, and then by the milliseconds that were added.
Note(n, size) ==
  [id |-> lastId + 1, time |-> n, added |-> 0, kind |-> "note", size |-> size, of |-> {n}]

Idle == [at |-> "idle", pass |-> 0, old |-> {}]
Goes(s, at, old) == saver' = [saver EXCEPT ![s] = [at |-> at, pass |-> saver[s].pass, old |-> old]]

MemInit ==
  memory = {} /\ saver = [s \in Savers |-> Idle] /\ lastId = 0 /\ saves = 0 /\ forgotten = {}

-----------------------------------------------------------------------------
(* What is compacted (_select_compaction_candidates).                        *)

Chars(entries) == MapThenSumSet(LAMBDA e : e.size, entries)

\* Before: the order in which entries are listed.
Before(a, b) ==
  \/ a.time < b.time
  \/ a.time = b.time /\ a.added < b.added
  \/ a.time = b.time /\ a.added = b.added /\ a.id < b.id

Newer(e) == {f \in memory : Before(e, f)}

\* Kept: the recent entries that are kept, a few and then as many as fit.
Kept ==
  {e \in memory : Cardinality(Newer(e)) < MinRecent \/ Chars(Newer(e) \cup {e}) <= RecentChars}

\* Candidates: the older ones, or all but the last when every one would be kept.
Candidates == IF Kept # memory THEN memory \ Kept ELSE {e \in memory : Newer(e) # {}}

\* SummaryOf: the summary takes the place of the last entry it replaces.  Of a summary
\* among them it keeps no more than the number of entries that one stood for.
SummaryOf(old, last) ==
  [id |-> lastId + 1, time |-> last.time, added |-> last.added + 1, kind |-> "summary",
   size |-> SummarySize, of |-> UNION {e.of : e \in old}]

-----------------------------------------------------------------------------
(* A save (MemoryManager.save).                                              *)

Save(s) ==
  /\ saver[s].at = "idle" /\ saves < MaxSaves
  /\ \E size \in NoteSizes : memory' = memory \cup {Note(saves + 1, size)}
  /\ saves' = saves + 1 /\ lastId' = lastId + 1
  /\ saver' = [saver EXCEPT ![s] = [at |-> "measure", pass |-> 0, old |-> {}]]
  /\ UNCHANGED forgotten

\* Measure: what there is, and what to compact; nothing within the budget, after too
\* many passes, or when there is but one entry.
Measure(s) ==
  /\ saver[s].at = "measure"
  /\ saver' = [saver EXCEPT ![s] =
       IF Chars(memory) <= MaxChars \/ saver[s].pass = MaxPasses \/ Candidates = {} THEN Idle
       ELSE [at |-> "summarize", pass |-> saver[s].pass + 1, old |-> Candidates]]
  /\ UNCHANGED <<memory, lastId, saves, forgotten>>

\* Summarize, mutated form: the candidates are deleted first.
DeleteFirst(s) ==
  /\ saver[s].at = "summarize"
  /\ memory' = memory \ saver[s].old
  /\ Goes(s, "delete", saver[s].old)
  /\ UNCHANGED <<lastId, saves, forgotten>>

\* Summarize: the summary is stored.
Summarize(s) ==
  /\ saver[s].at = "summarize"
  /\ \E last \in saver[s].old :
       /\ \A e \in saver[s].old : ~Before(last, e)
       /\ memory' = memory \cup {SummaryOf(saver[s].old, last)}
  /\ lastId' = lastId + 1
  /\ Goes(s, "delete", saver[s].old)
  /\ UNCHANGED <<saves, forgotten>>

\* Delete: then the candidates go, one by one; after the last the sizes are looked at
\* again.
Delete(s) ==
  /\ saver[s].at = "delete"
  /\ \E first \in saver[s].old :
       /\ \A e \in saver[s].old : ~Before(e, first)
       /\ memory' = memory \ {first}
       /\ Goes(s, IF saver[s].old = {first} THEN "measure" ELSE "delete", saver[s].old \ {first})
  /\ UNCHANGED <<lastId, saves, forgotten>>

\* Fail: the compaction raises, which the save ignores; or the process ends.
Fail(s) ==
  /\ saver[s].at # "idle"
  /\ saver' = [saver EXCEPT ![s] = Idle]
  /\ UNCHANGED <<memory, lastId, saves, forgotten>>

\* ResetAll: all is deleted, whoever is compacting.
ResetAll ==
  /\ memory # {} /\ memory' = {}
  /\ forgotten' = 1 .. saves
  /\ UNCHANGED <<saver, lastId, saves>>

MemNext ==
  \/ \E s \in Savers : Save(s) \/ Measure(s) \/ Summarize(s) \/ Delete(s) \/ Fail(s)
  \/ ResetAll

-----------------------------------------------------------------------------
(* Properties.                                                               *)

MemTypeOK ==
  /\ saves \in 0 .. MaxSaves /\ forgotten \subseteq 1 .. saves
  /\ \A e \in memory : /\ {e.time, e.added} \subseteq Nat /\ e.kind \in {"note", "summary"}
                       /\ e.size \in NoteSizes \cup {SummarySize}
                       /\ e.of # {} /\ e.of \subseteq 1 .. saves
  /\ \A s \in Savers : /\ saver[s].at \in {"idle", "measure", "summarize", "delete"}
                       /\ saver[s].pass \in 0 .. MaxPasses
                       /\ saver[s].at = "delete" => saver[s].old # {}

\* However saves, compactions that fail or the process that ends in the middle of one
\* interleave, nothing goes without a trace: every entry that was saved is in the store
\* or accounted for by a summary of the store, and the newest one is still there itself
\* (memory/manager.py:142 "Persist a memory entry and update all indexes").
NothingLost ==
  /\ 1 .. saves \ forgotten \subseteq UNION {e.of : e \in memory}
  /\ saves \notin {0} \cup forgotten =>
       \E e \in memory : e.kind = "note" /\ e.of = {saves}
=============================================================================
