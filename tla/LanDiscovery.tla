----------------------------- MODULE LanDiscovery -----------------------------
(***************************************************************************)
(* LAN discovery (communication/discovery.py), the endpoints under          *)
(* /api/network/lan that start, stop and configure it, and the toggles of   *)
(* the dashboard (gui store networkStore.ts) that call them.                *)
(*                                                                         *)
(* A node that scans broadcasts a discover request in every interval; a     *)
(* node that is visible answers with what it is, to the sender or, without a *)
(* route, by a broadcast that all nodes hear.  Nodes that are not heard of   *)
(* for some time are forgotten unless they are connected.  UDP loses        *)
(* messages.  Stopping the service awaits its tasks, so that other calls    *)
(* are handled in the middle of it.  Links to peers change at will here; they *)
(* are the subject of PeerNetwork.                                          *)
(***************************************************************************)
EXTENDS Naturals, FiniteSets, Functions

CONSTANTS Nodes,
          Users,        \* bound: nodes whose dashboard is used
          MaxLan,       \* max_lan_nodes
          Expiry,       \* node_expiry_seconds, in scan intervals
          LanPreferred, \* the setting lanDiscoverable
          MayLink,      \* bound: who connects to whom
          MaxCalls,     \* bound: calls under way from one dashboard
          MaxRestarts   \* bound, per node: crashes

ASSUME DiscoveryAssumption ==
  /\ IsFiniteSet(Nodes) /\ Users \subseteq Nodes
  /\ MaxLan \in Nat \ {0}
  /\ Expiry \in Nat
  /\ LanPreferred \in BOOLEAN
  /\ MayLink \subseteq Nodes \X Nodes
  /\ MaxCalls \in Nat /\ MaxRestarts \in [Nodes -> Nat]

VARIABLES up,           \* per node: is its backend there?
          running,      \* running
          socket,       \* is the UDP socket open?
          discoverable, \* "LAN Visible"
          scanning,     \* "Scan"
          known,        \* known_nodes, with the age of what was heard last
          linked,       \* the peers it is connected to
          msgs,         \* datagrams on their way
          due,          \* nodes whose scan loop has not woken up since the tick
          gui,          \* per node: what the toggles of the dashboard show
          call,         \* per node and kind: how far a call of the dashboard is
          restarts      \* per node: number of crashes

service == <<running, socket, discoverable, scanning, known>>
dashboard == <<gui, call>>
vars == <<up, service, linked, msgs, due, dashboard, restarts>>

Kinds == {"scan", "unscan", "show", "hide", "online", "offline"}

\* Where a call is: not under way, on its way to the backend, in the middle of
\* a stop there, answered, and for "hide" and "online" the same for a second
\* request.
Phases == {"idle", "sent", "stopping", "answered", "sent2", "stopping2"}

Old == Expiry + 1

\* A node that starts is online at once (network.auto_online) and visible.
Init ==
  /\ up = [n \in Nodes |-> TRUE]
  /\ running = [n \in Nodes |-> TRUE]
  /\ socket = [n \in Nodes |-> TRUE]
  /\ discoverable = [n \in Nodes |-> TRUE]
  /\ scanning = [n \in Nodes |-> FALSE]
  /\ known = [n \in Nodes |-> <<>>]
  /\ linked = [n \in Nodes |-> {}]
  /\ msgs = {}
  /\ due = {}
  /\ gui = [n \in Nodes |-> [online |-> FALSE, scan |-> FALSE, visible |-> TRUE]]
  /\ call = [n \in Nodes |-> [k \in Kinds |-> "idle"]]
  /\ restarts = [n \in Nodes |-> 0]

Others(n) == Nodes \ {n}

Listens(n) == running[n] /\ socket[n]

\* A broadcast; nodes ignore their own.  (The mutated form does not.)
ToAllAndSelf(kind, n) == {[kind |-> kind, from |-> n, to |-> m] : m \in Nodes}

ToAll(kind, n) == {[kind |-> kind, from |-> n, to |-> m] : m \in Others(n)}

-----------------------------------------------------------------------------
(* Scanning, answering and forgetting.                                       *)

\* discover_once: nothing is sent while the service is off.
Discover(n) == IF Listens(n) THEN msgs \cup ToAll("discover", n) ELSE msgs

\* The scan loop wakes up.
ScanRound(n) ==
  /\ n \in due
  /\ due' = due \ {n}
  /\ msgs' = IF scanning[n] THEN Discover(n) ELSE msgs
  /\ UNCHANGED <<up, service, linked, dashboard, restarts>>

\* A discover request is answered by a visible node, by unicast or, when there
\* is no route or has been none a moment ago, by a broadcast.  (The mutated form
\* answers those it knows only.)
AnswerKnown(m) ==
  \E reply \in {{[kind |-> "info", from |-> m.to, to |-> m.from]}, ToAll("info", m.to)} :
    msgs' = (msgs \ {m}) \cup IF discoverable[m.to] /\ m.from \in DOMAIN known[m.to]
                              THEN reply ELSE {}

Answer(m) ==
  \E reply \in {{[kind |-> "info", from |-> m.to, to |-> m.from]}, ToAll("info", m.to)} :
    msgs' = (msgs \ {m}) \cup IF discoverable[m.to] THEN reply ELSE {}

HearDiscover(m) ==
  /\ m \in msgs /\ m.kind = "discover" /\ Listens(m.to)
  /\ Answer(m)
  /\ UNCHANGED <<up, service, linked, due, dashboard, restarts>>

\* What a node says of itself is stored, unless the table is full.
Store(n, m) == m \in DOMAIN known[n] \/ Cardinality(DOMAIN known[n]) < MaxLan

\* A table with an entry added or replaced.
With(f, b, value) == [c \in DOMAIN f \cup {b} |-> IF c = b THEN value ELSE f[c]]

HearInfo(m) ==
  /\ m \in msgs /\ m.kind = "info" /\ Listens(m.to)
  /\ msgs' = msgs \ {m}
  /\ known' = IF Store(m.to, m.from)
              THEN [known EXCEPT ![m.to] = With(@, m.from, 0)]
              ELSE known
  /\ UNCHANGED <<up, running, socket, discoverable, scanning, linked, due, dashboard, restarts>>

\* A datagram is lost, or reaches a node that does not listen.
Lose(m) ==
  /\ m \in msgs
  /\ msgs' = msgs \ {m}
  /\ UNCHANGED <<up, service, linked, due, dashboard, restarts>>

\* The clean-up loop.  (The mutated form forgets who is connected.)
Stale(n) == {m \in DOMAIN known[n] : known[n][m] > Expiry}

StaleAndLinked(n) == Stale(n) \cap linked[n]

Expired(n) == Stale(n) \ linked[n]

Cleanup(n) ==
  /\ running[n] /\ Expired(n) # {}
  /\ known' = [known EXCEPT ![n] = Restrict(@, DOMAIN @ \ Expired(n))]
  /\ UNCHANGED <<up, running, socket, discoverable, scanning, linked, msgs, due, dashboard, restarts>>

\* Time is counted in scan intervals, long against the way of a datagram.  The
\* loops of nodes that do not scan wake up for nothing.
Tick ==
  /\ msgs = {} /\ due = {}
  /\ due' = {n \in Nodes : running[n] /\ scanning[n]}
  /\ known' = [n \in Nodes |-> [m \in DOMAIN known[n] |->
                 IF known[n][m] < Old THEN known[n][m] + 1 ELSE Old]]
  /\ UNCHANGED <<up, running, socket, discoverable, scanning, linked, msgs, dashboard, restarts>>

\* Peers connect and disconnect.
SetLinks(n, s) ==
  /\ up[n] /\ {n} \X s \subseteq MayLink
  /\ linked' = [linked EXCEPT ![n] = s]
  /\ UNCHANGED <<up, service, msgs, due, dashboard, restarts>>

-----------------------------------------------------------------------------
(* Starting and stopping the service.                                        *)

\* start returns early if the service runs; else it opens the socket, which may
\* fail.
Start(n) ==
  IF running[n] THEN UNCHANGED <<running, socket>>
  ELSE \E ok \in BOOLEAN : /\ running' = [running EXCEPT ![n] = ok]
                           /\ socket' = [socket EXCEPT ![n] = ok]

\* stop up to its first await ...
StopBegin(n) == running' = [running EXCEPT ![n] = FALSE]

\* ... and from there on: the socket that is open now is closed, and what was
\* heard is forgotten.  (The mutated form keeps it.)
StopKeeping(n) ==
  /\ socket' = [socket EXCEPT ![n] = FALSE]
  /\ UNCHANGED known

StopEnd(n) ==
  /\ socket' = [socket EXCEPT ![n] = FALSE]
  /\ known' = [known EXCEPT ![n] = <<>>]

-----------------------------------------------------------------------------
(* The dashboard, and the endpoints it calls.                                *)

UnderWay(n) == {k \in Kinds : call[n][k] # "idle"}

Go(n, k, phase) == call' = [call EXCEPT ![n][k] = phase]

\* A click.  The toggles of scan and visibility need to be online; going online
\* and offline shows at once.
Click(n, k) ==
  /\ n \in Users
  /\ call[n][k] = "idle" /\ Cardinality(UnderWay(n)) < MaxCalls
  /\ CASE k = "scan"    -> gui[n].online /\ ~gui[n].scan
       [] k = "unscan"  -> gui[n].online /\ gui[n].scan
       [] k = "show"    -> gui[n].online /\ ~gui[n].visible
       [] k = "hide"    -> gui[n].online /\ gui[n].visible
       [] k = "online"  -> ~gui[n].online /\ call[n]["offline"] = "idle"
       [] k = "offline" -> gui[n].online
  /\ gui' = CASE k = "online" -> [gui EXCEPT ![n].online = TRUE]
              [] k = "offline" -> [gui EXCEPT ![n].online = FALSE]
              [] OTHER -> gui
  /\ Go(n, k, "sent")
  /\ UNCHANGED <<up, service, linked, msgs, due, restarts>>

\* /lan/scan/start.
ScanStart(n) ==
  /\ call[n]["scan"] = "sent"
  /\ Go(n, "scan", "answered")
  /\ Start(n)
  /\ scanning' = [scanning EXCEPT ![n] = TRUE]
  /\ discoverable' = [discoverable EXCEPT ![n] = TRUE]
  /\ msgs' = IF running'[n] /\ socket'[n] THEN msgs \cup ToAll("discover", n) ELSE msgs
  /\ UNCHANGED <<up, known, linked, due, gui, restarts>>

\* /lan/scan/stop: the service goes on while the node is visible.
ScanStop(n) ==
  /\ call[n]["unscan"] = "sent"
  /\ scanning' = [scanning EXCEPT ![n] = FALSE]
  /\ IF discoverable[n]
     THEN Go(n, "unscan", "answered") /\ UNCHANGED running
     ELSE Go(n, "unscan", "stopping") /\ StopBegin(n)
  /\ UNCHANGED <<up, socket, discoverable, known, linked, msgs, due, gui, restarts>>

\* /lan/discoverable.
SetVisible(n, k, on) ==
  /\ \/ on /\ call[n][k] = (IF k = "show" THEN "sent" ELSE "sent2") /\ k \in {"show", "online"}
     \/ ~on /\ call[n][k] = "sent" /\ k = "hide"
  /\ Go(n, k, "answered")
  /\ IF on THEN Start(n) ELSE UNCHANGED <<running, socket>>
  /\ discoverable' = [discoverable EXCEPT ![n] = on]
  /\ UNCHANGED <<up, scanning, known, linked, msgs, due, gui, restarts>>

\* /lan/start, called on going online; visibility is set next if it is preferred.
LanStart(n) ==
  /\ call[n]["online"] = "sent"
  /\ Go(n, "online", IF LanPreferred THEN "sent2" ELSE "idle")
  /\ Start(n)
  /\ UNCHANGED <<up, discoverable, scanning, known, linked, msgs, due, gui, restarts>>

\* /lan/stop, called on going offline and after hiding.
LanStop(n, k) ==
  /\ \/ k = "offline" /\ call[n][k] = "sent" /\ Go(n, k, "stopping")
     \/ k = "hide" /\ call[n][k] = "sent2" /\ Go(n, k, "stopping2")
  /\ scanning' = [scanning EXCEPT ![n] = FALSE]
  /\ StopBegin(n)
  /\ UNCHANGED <<up, socket, discoverable, known, linked, msgs, due, gui, restarts>>

\* The tasks have ended and the call goes on.
LanStopped(n, k) ==
  /\ \/ call[n][k] = "stopping" /\ Go(n, k, "answered")
     \/ call[n][k] = "stopping2" /\ Go(n, k, "idle")
  /\ StopEnd(n)
  /\ UNCHANGED <<up, running, discoverable, scanning, linked, msgs, due, gui, restarts>>

\* The answer arrives.  After hiding, the service is stopped unless the toggle
\* says that it scans.
Answered(n, k) ==
  /\ call[n][k] = "answered"
  /\ Go(n, k, IF k = "hide" /\ ~gui[n].scan THEN "sent2" ELSE "idle")
  /\ gui' = CASE k = "scan" -> [gui EXCEPT ![n].scan = TRUE]
              [] k \in {"unscan", "offline"} -> [gui EXCEPT ![n].scan = FALSE]
              [] k \in {"show", "online"} -> [gui EXCEPT ![n].visible = TRUE]
              [] k = "hide" -> [gui EXCEPT ![n].visible = FALSE]
  /\ UNCHANGED <<up, service, linked, msgs, due, restarts>>

\* /lan/status, and the toggles follow it.
Sync(n) ==
  /\ n \in Users
  /\ gui' = [gui EXCEPT ![n].scan = scanning[n], ![n].visible = discoverable[n]]
  /\ UNCHANGED <<up, service, linked, msgs, due, call, restarts>>

\* A request fails, any that a node that is down has not answered: the toggles
\* stay, but going offline is completed anyway.
CallFails(n, k) ==
  /\ call[n][k] \in {"sent", "sent2"} \cup IF up[n] THEN {} ELSE {"stopping", "stopping2"}
  /\ Go(n, k, "idle")
  /\ gui' = IF k = "offline" THEN [gui EXCEPT ![n].scan = FALSE] ELSE gui
  /\ UNCHANGED <<up, service, linked, msgs, due, restarts>>

\* The backend ends ...
Crash(n) ==
  /\ up[n] /\ restarts[n] < MaxRestarts[n]
  /\ up' = [up EXCEPT ![n] = FALSE]
  /\ restarts' = [restarts EXCEPT ![n] = @ + 1]
  /\ running' = [running EXCEPT ![n] = FALSE]
  /\ socket' = [socket EXCEPT ![n] = FALSE]
  /\ scanning' = [scanning EXCEPT ![n] = FALSE]
  /\ known' = [known EXCEPT ![n] = <<>>]
  /\ linked' = [linked EXCEPT ![n] = {}]
  /\ due' = due \ {n}
  /\ UNCHANGED <<discoverable, msgs, dashboard>>

\* ... and starts again, online at once.
Restart(n) ==
  /\ ~up[n]
  /\ up' = [up EXCEPT ![n] = TRUE]
  /\ Start(n)
  /\ discoverable' = [discoverable EXCEPT ![n] = TRUE]
  /\ UNCHANGED <<scanning, known, linked, msgs, due, dashboard, restarts>>

Endpoints(n) ==
  /\ up[n]
  /\ \/ ScanStart(n) \/ ScanStop(n) \/ LanStart(n) \/ Sync(n)
     \/ \E k \in Kinds : \/ \E on \in BOOLEAN : SetVisible(n, k, on)
                         \/ LanStop(n, k) \/ LanStopped(n, k)

Next ==
  \/ Tick
  \/ \E m \in msgs : HearDiscover(m) \/ HearInfo(m) \/ Lose(m)
  \/ \E n \in Nodes :
       \/ ScanRound(n) \/ Cleanup(n) \/ Crash(n) \/ Restart(n) \/ Endpoints(n)
       \/ \E s \in SUBSET Others(n) : SetLinks(n, s)
       \/ \E k \in Kinds : Click(n, k) \/ Answered(n, k) \/ CallFails(n, k)

\* Loops go on and datagrams arrive or get lost; a datagram that is sent again and
\* again arrives at some time.  A node without a dashboard never scans.
Fairness ==
  /\ SF_vars(Tick)
  /\ WF_vars(\E m \in msgs : HearDiscover(m) \/ HearInfo(m) \/ Lose(m))
  /\ \A n \in Users :
       /\ WF_vars(ScanRound(n)) /\ WF_vars(Cleanup(n))
       /\ \A o \in Others(n) :
            /\ SF_vars(HearDiscover([kind |-> "discover", from |-> n, to |-> o]))
            /\ SF_vars(HearInfo([kind |-> "info", from |-> o, to |-> n]))

Spec == Init /\ [][Next]_vars /\ Fairness

-----------------------------------------------------------------------------
(* Properties.                                                               *)

Message == [kind : {"discover", "info"}, from : Nodes, to : Nodes]

\* The variables have their types: the table of nodes never exceeds its limit, and
\* a node never knows itself.
TypeOK ==
  /\ up \in [Nodes -> BOOLEAN] /\ running \in [Nodes -> BOOLEAN]
  /\ socket \in [Nodes -> BOOLEAN]
  /\ discoverable \in [Nodes -> BOOLEAN] /\ scanning \in [Nodes -> BOOLEAN]
  /\ \A n \in Nodes : /\ DOMAIN known[n] \subseteq Others(n)
                      /\ \A m \in DOMAIN known[n] : known[n][m] \in 0 .. Old
                      /\ Cardinality(DOMAIN known[n]) <= MaxLan
                      /\ linked[n] \subseteq Others(n)
  /\ msgs \subseteq Message /\ due \subseteq Nodes
  /\ gui \in [Nodes -> [online : BOOLEAN, scan : BOOLEAN, visible : BOOLEAN]]
  /\ call \in [Nodes -> [Kinds -> Phases]]
  /\ \A n \in Nodes : restarts[n] \in 0 .. MaxRestarts[n]

StopUnderWay(n) == \E k \in Kinds : call[n][k] \in {"stopping", "stopping2"}

\* A service whose socket is closed knows nobody once no stop is under way, in
\* whatever order starts and stops overlap: the workforce pool is not offered
\* nodes that nobody can refresh or forget.
OffKnowsNobody == \A n \in Nodes : ~socket[n] /\ ~StopUnderWay(n) => known[n] = <<>>

\* A node that scans hears again and again of a node that is visible, whatever
\* gets lost.
ScanFinds ==
  \A a \in Users : \A b \in Others(a) :
    <>[](Listens(a) /\ scanning[a] /\ Listens(b) /\ discoverable[b])
      => []<>(b \in DOMAIN known[a] /\ known[a][b] = 0)

\* A node that is gone or hidden is forgotten by all that are not connected to it.
GoneForgotten ==
  \A a \in Users : \A b \in Others(a) :
    <>[](~(Listens(b) /\ discoverable[b]) /\ b \notin linked[a] /\ running[a])
      => <>[](b \notin DOMAIN known[a])

\* Both: who is known comes to be who is there.
PoolCatchesUp == ScanFinds /\ GoneForgotten
=============================================================================
