------------------------------ MODULE LocalCrew ------------------------------
(***************************************************************************)
(* The local crew of a node: the workers it creates (agent/core.py), the     *)
(* singleton that the API keeps of it and rebuilds when the settings change  *)
(* (api/server.py), the agents table, and the endpoints that create, update, *)
(* delete and list agents.                                                 *)
(*                                                                         *)
(* A framework is available and creating a crew succeeds.  No handler waits   *)
(* between reading its request and answering it (no WebSocket client is       *)
(* connected), so a request is one step.                                     *)
(***************************************************************************)
EXTENDS Naturals, Sequences, Functions

CONSTANTS Registry,     \* the workers that have a blueprint
          Dev,          \* system.dev_mode.enabled
          DevWorkers,   \* agents.dev_workers, and so on, in the YAML file
          ProdWorkers,
          Group,        \* agents.demo_active_group_id, or NoGroup
          NoGroup,
          Groups,       \* agents.simulation_worker_groups
          Legacy,       \* what the legacy scenario or agents.workers has
          Models,       \* the models a user can choose; "" leaves it to the defaults
          Own           \* the model a worker has by itself

NoModel == ""

CrewAssumption == NoModel \in Models

-----------------------------------------------------------------------------
(* The workers that are loaded.                                              *)

Known(names) == SelectSeq(names, LAMBDA n : n \in Registry)

\* The names of a demo group, each once.
Once(names) ==
  SelectSeq([i \in DOMAIN names |-> [name |-> names[i], at |-> i]],
            LAMBDA e : \A j \in 1 .. e.at - 1 : names[j] # e.name)

GroupNames ==
  IF Group \in DOMAIN Groups
  THEN LET once == Once(Groups[Group]) IN [i \in DOMAIN once |-> once[i].name]
  ELSE <<>>

Names == IF ~Dev THEN ProdWorkers
         ELSE IF GroupNames # <<>> THEN GroupNames ELSE DevWorkers

\* _create_agents: names without a blueprint are skipped; without any worker the
\* legacy ones are created.
Roster == IF Known(Names) # <<>> THEN Known(Names) ELSE Legacy
Workers == Range(Roster)

-----------------------------------------------------------------------------
VARIABLES
  default,     \* the setting workerDefaultModel
  changed,     \* do other settings differ from what the crew was built from: the models of
               \* the other roles and of workers that a user made, keys, CrewAI options?
  rows,        \* the agents table: the rows of built-in workers
  crew,        \* the singleton, or NoCrew
  advertised,  \* the workers the network manager advertises
  marked       \* history: the workers a user took offline, and not back

crewVars == <<default, changed, rows, crew, advertised, marked>>

NoCrew == [offline |-> {}, models |-> <<>>, built |-> <<>>]
NoRow == [name |-> "none", model |-> NoModel]

\* A row may get another name than the role of its worker.
RowNames == {"role", "other"}
OverrideKeys == Workers \X ({"id"} \union RowNames)

\* get_agent_runtime_settings: the settings, and the models of the rows under the id and
\* the name of each.
RuntimeSettings(model, table) ==
  [default |-> model,
   overrides |-> [k \in OverrideKeys |->
                    IF k[2] \in {"id", table[k[1]].name} THEN table[k[1]].model ELSE NoModel]]

OrElse(model, other) == IF model # NoModel THEN model ELSE other

\* The most specific model that is set.  (The mutated form takes the default first.)
ModelOfDefault(w, rs) ==
  OrElse(rs.default, OrElse(rs.overrides[<<w, "id">>], OrElse(rs.overrides[<<w, "role">>], Own)))

ModelOf(w, rs) ==
  OrElse(rs.overrides[<<w, "id">>], OrElse(rs.overrides[<<w, "role">>], OrElse(rs.default, Own)))

Build(rs) == [offline |-> {}, models |-> [w \in Workers |-> ModelOf(w, rs)], built |-> rs]

OnlineOf(c) == {w \in Workers : <<w, "role">> \notin c.offline}

CrewInit ==
  /\ default = NoModel /\ changed = FALSE
  /\ rows = [w \in Workers |-> NoRow]
  /\ crew = Build(RuntimeSettings(default, rows))
  /\ advertised = Workers
  /\ marked = {}

-----------------------------------------------------------------------------
(* The singleton.                                                            *)

\* get_local_crew_singleton: it is rebuilt when it was dropped or the settings are not
\* those it was built from, and advertises its workers then.
Fresh(c, differs, rs) == c # NoCrew /\ ~differs /\ c.built = rs
Got(c, differs, rs) == IF Fresh(c, differs, rs) THEN c ELSE Build(rs)

\* A request that only reads: the list of the agents, the status, the event stream, a
\* task that is executed.  (The mutated form advertises nothing new.)
GetCrewSilently ==
  LET rs == RuntimeSettings(default, rows) IN
    /\ ~Fresh(crew, changed, rs)
    /\ crew' = Build(rs) /\ changed' = FALSE
    /\ UNCHANGED <<default, rows, advertised, marked>>

GetCrew ==
  LET rs == RuntimeSettings(default, rows) IN
    /\ ~Fresh(crew, changed, rs)
    /\ crew' = Build(rs) /\ changed' = FALSE
    /\ advertised' = OnlineOf(crew')
    /\ UNCHANGED <<default, rows, marked>>

\* The settings page.
SetSetting ==
  /\ \/ default' \in Models /\ UNCHANGED changed
     \/ changed' \in BOOLEAN /\ UNCHANGED default
  /\ UNCHANGED <<rows, crew, advertised, marked>>

-----------------------------------------------------------------------------
(* The agents endpoints.                                                     *)

\* A model for the organizer or the coordinator drops the singleton.
SetRoleModel ==
  /\ crew' = NoCrew /\ changed' = FALSE
  /\ UNCHANGED <<default, rows, advertised, marked>>

\* An agent that a user makes is a row; a worker among them counts in the settings.
CreateAgent ==
  \/ SetRoleModel
  \/ /\ changed' \in BOOLEAN
     /\ UNCHANGED <<default, rows, crew, advertised, marked>>

DeleteAgent(w) ==
  /\ rows[w] # NoRow
  /\ rows' = [rows EXCEPT ![w] = NoRow]
  /\ UNCHANGED <<default, changed, crew, advertised, marked>>

\* The fields of an update: each may be absent.
Absent == "absent"
Requests == [status : {"online", "offline", Absent}, model : Models \union {Absent},
             name : {"other", Absent}]
Field(value, old) == IF value = Absent THEN old ELSE value

\* What the first update of a built-in worker takes: its status and its model, the rest
\* of the row coming from the crew.  Later ones take everything.
Taken(w, q) == IF rows[w] = NoRow THEN [q EXCEPT !.name = Absent] ELSE q

RowOf(w, q, c) ==
  LET old == IF rows[w] # NoRow THEN rows[w]
             ELSE [name |-> "role", model |-> c.models[w]]
  IN  [name |-> Field(q.name, old.name), model |-> Field(q.model, old.model)]

\* The model of a live worker, and the overrides the crew was built from, follow.
WithModel(c, w, name, m) ==
  IF c = NoCrew THEN c
  ELSE [c EXCEPT !.models[w] = IF m = NoModel THEN Own ELSE m,
                 !.built.overrides = [k \in OverrideKeys |->
                    IF k \in {<<w, "id">>, <<w, name>>} THEN m ELSE @[k]]]

\* set_worker_offline and set_worker_online take what the row was named so far.
WithStatus(c, w, name, status) ==
  [c EXCEPT !.offline = IF status = "offline" THEN @ \union {<<w, name>>} ELSE @ \ {<<w, name>>}]

UpdateAgent(w, req) ==
  LET q == Taken(w, req)
      known == rows[w] # NoRow
      found == IF known THEN crew ELSE Got(crew, changed, RuntimeSettings(default, rows))
      row == RowOf(w, q, found)
      table == [rows EXCEPT ![w] = row]
      rs == RuntimeSettings(default, table)
      live == IF q.model = Absent THEN found ELSE WithModel(found, w, row.name, q.model)
      told == q.status # Absent
      differs == changed /\ known
      set == WithStatus(Got(live, differs, rs), w, IF known THEN rows[w].name ELSE "role", q.status)
  IN  /\ rows' = table
      /\ crew' = CASE told -> set
                   [] ~told /\ q.model # Absent -> Got(live, differs, rs)
                   [] OTHER -> live
      /\ changed' = (differs /\ ~told /\ q.model = Absent)
      /\ advertised' = IF crew' = crew THEN advertised ELSE OnlineOf(crew')
      /\ marked' = CASE q.status = "offline" -> marked \union {w}
                     [] q.status = "online" -> marked \ {w}
                     [] OTHER -> marked
      /\ UNCHANGED default

\* A restart: the lifespan builds a crew and advertises it.
Restart ==
  /\ crew' = Build(RuntimeSettings(default, rows)) /\ changed' = FALSE
  /\ advertised' = Workers /\ marked' = {}
  /\ UNCHANGED <<default, rows>>

CrewNext ==
  \/ GetCrew \/ SetSetting \/ CreateAgent
  \/ \E w \in Workers : DeleteAgent(w) \/ \E q \in Requests : UpdateAgent(w, q)
  \/ Restart

CrewSpec == CrewInit /\ [][CrewNext]_crewVars

-----------------------------------------------------------------------------
CrewTypeOK ==
  /\ default \in Models /\ changed \in BOOLEAN
  /\ rows \in [Workers -> [name : RowNames \union {"none"}, model : Models \union {Own}]]
  /\ crew = NoCrew \/ crew.offline \subseteq Workers \X RowNames
  /\ advertised \subseteq Workers /\ marked \subseteq Workers

\* The node advertises what its crew has online.
AdvertisedIsOnline == crew # NoCrew => advertised = OnlineOf(crew)

\* Whoever asks for the crew gets workers with the models that their rows say, however
\* the rows, the settings and the live workers were changed before.
ModelsFollowRows ==
  LET rs == RuntimeSettings(default, rows) IN
    \A w \in Workers : rows[w].model # NoModel => Got(crew, changed, rs).models[w] = rows[w].model

\* Both.
CrewFollowsAgents == AdvertisedIsOnline /\ ModelsFollowRows

\* "The singleton preserves worker online/offline state across requests."
OfflineIsKept == crew # NoCrew => marked \cap OnlineOf(crew) = {}
=============================================================================
