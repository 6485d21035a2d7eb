------------------------------ MODULE MCServices ------------------------------
(***************************************************************************)
(* Six services of a node that share no state: the scheduler, the local crew,  *)
(* the memory of one scope, the wallet, the entries to the execution of a task, *)
(* and the settings with the payment gate.  A behaviour exercises one of them,   *)
(* chosen at the start; as they share nothing, the product of them would show     *)
(* no more.                                                                   *)
(***************************************************************************)
EXTENDS LocalCrew

CONSTANTS j1, l1, l2, s1, s2, w1, w2, c1, c2

\* Scheduler.
CONSTANTS Jobs, Loops, Sleep, Interval, MaxErrors, MaxTime, MaxActive
MCJobs == {j1}
MCLoops == {l1, l2}

\* LocalCrew: two workers, named twice in a group with a name nobody bears.
MCDevWorkers == <<"a">>
MCGroups == [g \in {"1"} |-> <<"a", "b", "a", "unknown">>]

\* AgentMemory.
CONSTANTS Savers, NoteSizes, SummarySize, MaxChars, RecentChars, MinRecent, MaxPasses,
          MaxSaves
MCSavers == {s1, s2}
MCNoteSizes == {1, 3}

\* WalletLedger.
CONSTANTS Writers, Amounts, Initial, Capacity, MaxBooked
MCWriters == {w1, w2}
MCAmounts == {1, 2}

\* TaskEntry: a peer and a group of one channel; two bindings match a message of the
\* group.
CONSTANTS Calls, Messages, Bindings, Scope, MaxHistory
MCCalls == {c1, c2}
MCMessages ==
  {[channel |-> "telegram", account |-> "a", kind |-> "direct", peer |-> "p"],
   [channel |-> "telegram", account |-> "a", kind |-> "group", peer |-> "g"]}
Binding(agent, channel, account, kind, peer) ==
  [agent |-> agent,
   match |-> [channel |-> channel, account |-> account, kind |-> kind, peer |-> peer]]
MCBindings ==
  <<Binding("one", "telegram", "", "", ""), Binding("two", "telegram", "", "group", "")>>

\* NodeSettings: two tasks of a requester, two addresses.
CONSTANTS Parents, Addresses, Exported
MCParents == {"p", "q"}
MCAddresses == {"a", "b"}

VARIABLES part,
          now, running, alive, wake, jobs, ready, active, began, doubled,
          memory, saver, lastId, saves, forgotten,
          ledger, balance, txRows, unsaved, clearing, time, counted,
          entryCall, entryTask, told, box, row, transcript, unused,
          file, dotenv, environ, start, reloaded, wallet, x402, gate, paid, charges

schedulerVars == <<now, running, alive, wake, jobs, ready, active, began, doubled>>
memoryVars == <<memory, saver, lastId, saves, forgotten>>
walletVars == <<ledger, balance, txRows, unsaved, clearing, time, counted>>
entryVars == <<entryCall, entryTask, told, box, row, transcript, unused>>
settingsVars == <<file, dotenv, environ, start, reloaded, wallet, x402, gate, paid, charges>>

Schedule == INSTANCE Scheduler
Memory == INSTANCE AgentMemory
Wallet == INSTANCE WalletLedger WITH rows <- txRows
Entries == INSTANCE TaskEntry
Settings == INSTANCE NodeSettings

ASSUME ServicesAssumption ==
  /\ Schedule!SchedulerAssumption /\ Memory!MemoryAssumption
  /\ Wallet!WalletAssumption /\ Settings!NodeSettingsAssumption
  /\ Entries!TaskEntryAssumption /\ CrewAssumption

ServicesInit ==
  /\ part \in {"scheduler", "crew", "memory", "wallet", "entries", "settings"}
  /\ CrewInit /\ Schedule!Init /\ Memory!MemInit /\ Wallet!WalletInit /\ Entries!EntryInit
  /\ Settings!SettingsInit
  /\ part # "settings" => ~file.enabled

Others(p) ==
  /\ p # "scheduler" => UNCHANGED schedulerVars
  /\ p # "crew" => UNCHANGED crewVars
  /\ p # "memory" => UNCHANGED memoryVars
  /\ p # "wallet" => UNCHANGED walletVars
  /\ p # "entries" => UNCHANGED entryVars
  /\ p # "settings" => UNCHANGED settingsVars

ServicesNext ==
  /\ UNCHANGED part
  /\ \/ part = "scheduler" /\ Schedule!Next /\ Others("scheduler")
     \/ part = "crew" /\ CrewNext /\ Others("crew")
     \/ part = "memory" /\ Memory!MemNext /\ Others("memory")
     \/ part = "wallet" /\ Wallet!WalletNext /\ Others("wallet")
     \/ part = "entries" /\ Entries!EntryNext /\ Others("entries")
     \/ part = "settings" /\ Settings!SettingsNext /\ Others("settings")

allVars ==
  <<part, crewVars, schedulerVars, memoryVars, walletVars, entryVars, settingsVars>>

ServicesSpec == ServicesInit /\ [][ServicesNext]_allVars

\* The variables of every service have their types.
ServicesTypeOK ==
  /\ CrewTypeOK /\ Schedule!TypeOK /\ Memory!MemTypeOK /\ Wallet!WalletTypeOK
  /\ Entries!EntryTypeOK /\ Settings!SettingsTypeOK

\* The properties of the other services, stated in their modules: starts of a job are
\* spaced (Scheduler).
RunsAreSpaced == Schedule!RunsAreSpaced

\* Compaction of a memory and restarts of a small wallet lose nothing (AgentMemory,
\* WalletLedger).
NothingLost == []Memory!NothingLost /\ Wallet!RestartKeepsSmallWallet

\* "Restore wallet transactions from DB" (server.py:8457): a restart leaves the wallet as
\* it is when every transaction that it accounts for has its row and no other has one,
\* however many there are.
RestartKeepsWallet ==
  [][Wallet!Restart /\ counted = Wallet!ToSet(txRows)
       => ledger' = ledger /\ balance' = balance]_walletVars

\* A call that is over has settled its task and told it so (TaskEntry).
ToldAsSettled == Entries!ToldAsSettled

\* Tasks are charged once, by the mode in force, to the wallet shown (NodeSettings).
PaymentsFollowSettings == Settings!PaymentsFollowSettings
=============================================================================
