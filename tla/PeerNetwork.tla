----------------------------- MODULE PeerNetwork -----------------------------
(***************************************************************************)
(* Links between Agentic Nodes: the network manager                        *)
(* (communication/manager.py) and the handshake, disconnect and            *)
(* peer-disconnect endpoints and the peer health loop of api/server.py.     *)
(*                                                                         *)
(* A link is an entry in wan_nodes on the side that connected and in        *)
(* inbound_peers on the other.  Requests and replies may get lost; a node   *)
(* may restart and forgets both tables.  One call of each kind is under way *)
(* between two nodes at a time.  Of LAN discovery only the refresh of an    *)
(* inbound peer is modelled; passwords are accepted.                        *)
(***************************************************************************)
EXTENDS Naturals, FiniteSets, Functions

CONSTANTS Nodes,
          MaxWan,       \* max_wan_nodes
          MaxFailures,  \* outbound_max_failures
          VerifyAfter,  \* the age of 120 s above which links are verified
          StaleAfter,   \* inbound_stale_timeout
          Checkers,     \* bound: nodes that check health and hear LAN
          MaxRestarts   \* bound: restarts of each node

ASSUME PeerAssumption ==
  /\ IsFiniteSet(Nodes) /\ Checkers \subseteq Nodes
  /\ MaxWan \in Nat \ {0}
  /\ MaxFailures \in Nat \ {0}
  /\ VerifyAfter \in Nat /\ StaleAfter \in Nat /\ VerifyAfter < StaleAfter
  /\ MaxRestarts \in Nat

VARIABLES wan,       \* wan_nodes: outbound peers and their status
          inbound,   \* inbound_peers
          since,     \* _inbound_connected_since, as ages
          fails,     \* _peer_failure_counts of outbound peers
          conn,      \* connect calls
          disc,      \* disconnect calls
          lan,       \* does the node hear LAN messages?
          round,     \* what is left of the health loop's round
          probe,     \* its request under way and the reply
          due,       \* nodes whose loop has not woken up since the last tick
          restarts,  \* number of restarts
          noticed    \* history: outbound peers whose disconnect was notified

tables == <<wan, inbound, since, fails>>
calls == <<conn, disc>>
health == <<round, probe, due>>
vars == <<tables, calls, lan, health, restarts, noticed>>

NoProbe == [kind |-> "none"]

Init ==
  /\ wan = [a \in Nodes |-> <<>>]
  /\ inbound = [a \in Nodes |-> {}]
  /\ since = [a \in Nodes |-> <<>>]
  /\ fails = [a \in Nodes |-> [b \in Nodes |-> 0]]
  /\ conn = [a \in Nodes |-> [b \in Nodes |-> "idle"]]
  /\ disc = [a \in Nodes |-> [b \in Nodes |-> "idle"]]
  /\ lan = [a \in Nodes |-> FALSE]
  /\ round = [a \in Nodes |-> {}]
  /\ probe = [a \in Nodes |-> NoProbe]
  /\ due = {}
  /\ restarts = [a \in Nodes |-> 0]
  /\ noticed = [a \in Nodes |-> {}]

With(f, b, value) == [c \in DOMAIN f \cup {b} |-> IF c = b THEN value ELSE f[c]]

Without(f, b) == Restrict(f, DOMAIN f \ {b})

\* The answer of the links endpoint.
Links(a) == DOMAIN wan[a] \cup inbound[a]

-----------------------------------------------------------------------------
(* Connecting: a's call, and the handshake endpoint of b.                    *)

\* The capacity is checked before the request.
ConnectSend(a, b) ==
  /\ a # b /\ conn[a][b] = "idle"
  /\ Cardinality(DOMAIN wan[a]) < MaxWan
  /\ conn' = [conn EXCEPT ![a][b] = "sent"]
  /\ UNCHANGED <<tables, disc, lan, health, restarts, noticed>>

Handshake(a, b) ==
  /\ conn[a][b] = "sent"
  /\ inbound' = [inbound EXCEPT ![b] = @ \cup {a}]
  /\ since' = [since EXCEPT ![b] = With(@, a, 0)]
  /\ conn' = [conn EXCEPT ![a][b] = "accepted"]
  /\ UNCHANGED <<wan, fails, disc, lan, health, restarts, noticed>>

\* The entry is a new object: a probe of the former one has no effect on it.
Replaced(a, b) ==
  /\ round' = [round EXCEPT ![a] = @ \ {<<"outbound", b>>}]
  /\ probe' = [probe EXCEPT ![a] = IF @.kind = "outbound" /\ @.peer = b
                                   THEN [kind |-> "replaced", peer |-> b, reply |-> @.reply]
                                   ELSE @]

ConnectDone(a, b) ==
  /\ conn[a][b] = "accepted"
  /\ conn' = [conn EXCEPT ![a][b] = "idle"]
  /\ wan' = [wan EXCEPT ![a] = With(@, b, "online")]
  /\ noticed' = [noticed EXCEPT ![a] = @ \ {b}]
  /\ Replaced(a, b)
  /\ UNCHANGED <<inbound, since, fails, disc, lan, due, restarts>>

\* The request is lost, or its reply is.
ConnectFail(a, b) ==
  /\ conn[a][b] # "idle"
  /\ conn' = [conn EXCEPT ![a][b] = "idle"]
  /\ UNCHANGED <<tables, disc, lan, health, restarts, noticed>>

-----------------------------------------------------------------------------
(* Disconnecting: a's call, and the peer-disconnect endpoint of b.           *)

DisconnectSend(a, b) ==
  /\ b \in DOMAIN wan[a] /\ disc[a][b] = "idle"
  /\ disc' = [disc EXCEPT ![a][b] = "sent"]
  /\ UNCHANGED <<tables, conn, lan, health, restarts, noticed>>

\* (The mutated form forgets the time but not the peer.)
ForgetTimeOnly(b, a) ==
  /\ since' = [since EXCEPT ![b] = Without(@, a)]
  /\ UNCHANGED inbound

ForgetInbound(b, a) ==
  /\ since' = [since EXCEPT ![b] = Without(@, a)]
  /\ inbound' = [inbound EXCEPT ![b] = @ \ {a}]

\* mark_node_offline returns early if there is no such outbound peer.
MarkOffline(b, a) ==
  IF a \in DOMAIN wan[b]
  THEN /\ wan' = [wan EXCEPT ![b][a] = "offline"]
       /\ noticed' = [noticed EXCEPT ![b] = @ \cup {a}]
  ELSE UNCHANGED <<wan, noticed>>

PeerDisconnect(a, b) ==
  /\ disc[a][b] = "sent"
  /\ disc' = [disc EXCEPT ![a][b] = "notified"]
  /\ ForgetInbound(b, a)
  /\ MarkOffline(b, a)
  /\ UNCHANGED <<fails, conn, lan, health, restarts>>

\* Whether the notification arrived or not, the outbound entry is removed; an
\* inbound entry of the same peer is not.
DisconnectDone(a, b) ==
  /\ disc[a][b] # "idle"
  /\ disc' = [disc EXCEPT ![a][b] = "idle"]
  /\ wan' = [wan EXCEPT ![a] = Without(@, b)]
  /\ noticed' = [noticed EXCEPT ![a] = @ \ {b}]
  /\ Replaced(a, b)
  /\ UNCHANGED <<inbound, since, fails, conn, lan, due, restarts>>

-----------------------------------------------------------------------------
(* The health loop: a round over the peers of a moment, one by one.          *)

RoundStart(a) ==
  /\ a \in Checkers
  /\ round[a] = {} /\ probe[a] = NoProbe
  /\ round' = [round EXCEPT ![a] = {<<"outbound", b>> : b \in DOMAIN wan[a]}
                                     \cup {<<"inbound", b>> : b \in inbound[a]}]
  /\ due' = due \ {a}
  /\ UNCHANGED <<tables, calls, lan, probe, restarts, noticed>>

\* Without a time the peer counts as not seen since the epoch.
Age(a, b) == IF b \in DOMAIN since[a] THEN since[a][b] ELSE StaleAfter

\* What the loop asks of an inbound peer.  (The mutated form never verifies.)
NeverVerified(a, b) == IF Age(a, b) >= StaleAfter THEN "stale" ELSE "none"

InboundCheck(a, b) ==
  IF Age(a, b) >= StaleAfter THEN "stale"
  ELSE IF Age(a, b) > VerifyAfter THEN "links" ELSE "none"

\* The outbound peers come first.
Probe(a, b) ==
  /\ probe[a] = NoProbe
  /\ \/ /\ <<"outbound", b>> \in round[a]
        /\ round' = [round EXCEPT ![a] = @ \ {<<"outbound", b>>}]
        /\ probe' = [probe EXCEPT ![a] = [kind |-> "outbound", peer |-> b, reply |-> "none"]]
     \/ /\ <<"inbound", b>> \in round[a]
        /\ \A c \in Nodes : <<"outbound", c>> \notin round[a]
        /\ round' = [round EXCEPT ![a] = @ \ {<<"inbound", b>>}]
        /\ probe' = [probe EXCEPT ![a] =
                       IF InboundCheck(a, b) = "none" THEN NoProbe
                       ELSE [kind |-> InboundCheck(a, b), peer |-> b, reply |-> "none"]]
  /\ UNCHANGED <<tables, calls, lan, due, restarts, noticed>>

Asking(a) == probe[a].kind # "none" /\ probe[a].reply = "none"

\* The peer answers; to a request for its links, what they are now.
Reply(a) ==
  /\ Asking(a)
  /\ probe' = [probe EXCEPT ![a].reply =
                 IF probe[a].kind = "links" /\ a \notin Links(probe[a].peer)
                 THEN "unlinked" ELSE "ok"]
  /\ UNCHANGED <<tables, calls, lan, round, due, restarts, noticed>>

NoReply(a) ==
  /\ Asking(a)
  /\ probe' = [probe EXCEPT ![a].reply = "failed"]
  /\ UNCHANGED <<tables, calls, lan, round, due, restarts, noticed>>

Answered(a, kind, b, reply) ==
  /\ probe[a].kind = kind /\ probe[a].peer = b /\ probe[a].reply = reply
  /\ probe' = [probe EXCEPT ![a] = NoProbe]
  /\ UNCHANGED <<calls, lan, round, due, restarts>>

OutboundOk(a, b) ==
  \/ /\ Answered(a, "outbound", b, "ok")
     /\ fails' = [fails EXCEPT ![a][b] = 0]
     /\ wan' = [wan EXCEPT ![a][b] = "online"]
     /\ noticed' = [noticed EXCEPT ![a] = @ \ {b}]
     /\ UNCHANGED <<inbound, since>>
  \/ /\ Answered(a, "replaced", b, "ok")
     /\ fails' = [fails EXCEPT ![a][b] = 0]
     /\ UNCHANGED <<wan, inbound, since, noticed>>

\* (The mutated form counts to one less.)
EarlyOffline(failures) == failures + 1 >= MaxFailures

TooManyFailures(failures) == failures >= MaxFailures

OutboundFailed(a, b) ==
  LET failures == IF fails[a][b] = MaxFailures THEN MaxFailures ELSE fails[a][b] + 1
  IN  /\ fails' = [fails EXCEPT ![a][b] = failures]
      /\ \/ /\ Answered(a, "outbound", b, "failed")
            /\ wan' = IF TooManyFailures(failures)
                      THEN [wan EXCEPT ![a][b] = "offline"] ELSE wan
         \/ /\ Answered(a, "replaced", b, "failed")
            /\ UNCHANGED wan
      /\ UNCHANGED <<inbound, since, noticed>>

\* The last seen time is set, also if the peer has been removed meanwhile.
InboundSeen(a, b) ==
  /\ Answered(a, "stale", b, "ok") \/ Answered(a, "links", b, "ok")
  /\ since' = [since EXCEPT ![a] = With(@, b, 0)]
  /\ UNCHANGED <<wan, inbound, fails, noticed>>

InboundIgnored(a, b) ==
  /\ Answered(a, "links", b, "failed")
  /\ UNCHANGED <<tables, noticed>>

\* Removal, on what was found when the request was sent or answered.
RemoveInbound(a, b) ==
  /\ Answered(a, "stale", b, "failed") \/ Answered(a, "links", b, "unlinked")
  /\ since' = [since EXCEPT ![a] = Without(@, b)]
  /\ inbound' = [inbound EXCEPT ![a] = @ \ {b}]
  /\ UNCHANGED <<wan, fails, noticed>>

-----------------------------------------------------------------------------
(* LAN discovery, time and restarts.                                         *)

SetLan(a) ==
  /\ a \in Checkers
  /\ lan' = [lan EXCEPT ![a] = ~@]
  /\ UNCHANGED <<tables, calls, health, restarts, noticed>>

\* A known LAN node is heard of again: an inbound peer counts as seen.
NodeSeen(a, b) ==
  /\ lan[a] /\ b \in inbound[a] /\ b \in DOMAIN since[a]
  /\ since' = [since EXCEPT ![a][b] = 0]
  /\ UNCHANGED <<wan, inbound, fails, calls, lan, health, restarts, noticed>>

\* The loops wake up, and rounds and calls to connect to them end, more often than
\* time is counted: the interval and the time-outs are short against the thresholds.
Tick ==
  /\ due = {}
  /\ \A a \in Nodes, b \in Checkers : conn[a][b] = "idle"
  /\ \A a \in Checkers : round[a] = {} /\ probe[a] = NoProbe
  /\ due' = Checkers
  /\ since' = [a \in Nodes |-> [b \in DOMAIN since[a] |->
                 IF since[a][b] < StaleAfter THEN since[a][b] + 1 ELSE StaleAfter]]
  /\ UNCHANGED <<wan, inbound, fails, calls, lan, round, probe, restarts, noticed>>

Restart(a) ==
  /\ restarts[a] < MaxRestarts
  /\ restarts' = [restarts EXCEPT ![a] = @ + 1]
  /\ wan' = [wan EXCEPT ![a] = <<>>]
  /\ inbound' = [inbound EXCEPT ![a] = {}]
  /\ since' = [since EXCEPT ![a] = <<>>]
  /\ fails' = [fails EXCEPT ![a] = [b \in Nodes |-> 0]]
  /\ conn' = [conn EXCEPT ![a] = [b \in Nodes |-> "idle"]]
  /\ disc' = [disc EXCEPT ![a] = [b \in Nodes |-> "idle"]]
  /\ lan' = [lan EXCEPT ![a] = FALSE]
  /\ round' = [round EXCEPT ![a] = {}]
  /\ probe' = [probe EXCEPT ![a] = NoProbe]
  /\ noticed' = [noticed EXCEPT ![a] = {}]
  /\ UNCHANGED due

Finish(a, b) == \/ OutboundOk(a, b) \/ OutboundFailed(a, b) \/ InboundSeen(a, b)
                \/ InboundIgnored(a, b) \/ RemoveInbound(a, b)

Next ==
  \/ Tick
  \/ \E a \in Nodes :
       \/ RoundStart(a) \/ Reply(a) \/ NoReply(a) \/ SetLan(a) \/ Restart(a)
       \/ \E b \in Nodes :
            \/ ConnectSend(a, b) \/ Handshake(a, b) \/ ConnectDone(a, b) \/ ConnectFail(a, b)
            \/ DisconnectSend(a, b) \/ PeerDisconnect(a, b) \/ DisconnectDone(a, b)
            \/ Probe(a, b) \/ Finish(a, b) \/ NodeSeen(a, b)

\* Time passes between the rounds, calls time out and the loops go on; a peer that
\* is asked for its links again and again answers at some time.
Fairness ==
  /\ SF_vars(Tick)
  /\ \A a, b \in Nodes : WF_vars(ConnectFail(a, b))
  /\ \A a \in Checkers :
       /\ WF_vars(RoundStart(a))
       /\ WF_vars(\E b \in Nodes : Probe(a, b))
       /\ WF_vars(Reply(a) \/ NoReply(a))
       /\ WF_vars(\E b \in Nodes : Finish(a, b))
       /\ SF_vars(Reply(a) /\ probe[a].kind = "links")

Spec == Init /\ [][Next]_vars /\ Fairness

-----------------------------------------------------------------------------
(* Properties.                                                               *)

ProbeType == [kind : {"outbound", "replaced", "stale", "links"}, peer : Nodes,
              reply : {"none", "ok", "unlinked", "failed"}]

\* The tables have their types, and an inbound peer has a last seen time: without
\* it the next health check would take it for a peer that was last seen at the
\* epoch, and remove it if a single back-connection fails.
TypeOK ==
  /\ \A a \in Nodes :
       /\ DOMAIN wan[a] \subseteq Nodes \ {a}
       /\ \A b \in DOMAIN wan[a] : wan[a][b] \in {"online", "offline"}
       /\ inbound[a] \subseteq Nodes \ {a} /\ inbound[a] \subseteq DOMAIN since[a]
       /\ DOMAIN since[a] \subseteq Nodes \ {a}
       /\ \A b \in DOMAIN since[a] : since[a][b] \in 0 .. StaleAfter
       /\ round[a] \subseteq {"outbound", "inbound"} \X Nodes
       /\ probe[a] \in ProbeType \cup {NoProbe}
       /\ noticed[a] \subseteq DOMAIN wan[a]
  /\ fails \in [Nodes -> [Nodes -> 0 .. MaxFailures]]
  /\ conn \in [Nodes -> [Nodes -> {"idle", "sent", "accepted"}]]
  /\ disc \in [Nodes -> [Nodes -> {"idle", "sent", "notified"}]]
  /\ lan \in [Nodes -> BOOLEAN] /\ due \subseteq Checkers
  /\ restarts \in [Nodes -> 0 .. MaxRestarts]

\* An outbound peer is shown offline only after that many failures in a row, or
\* because it told us that it disconnected: never because of a probe of an entry
\* that has been replaced meanwhile.
OfflineHasCause ==
  \A a \in Nodes : \A b \in DOMAIN wan[a] :
    wan[a][b] = "offline" => fails[a][b] = MaxFailures \/ b \in noticed[a]

\* Half a link does not stay: when b has lost its side of a link to a, by a
\* restart, a disconnect whose notification was lost or a handshake whose reply
\* was lost, a drops the inbound peer in the end, unless LAN messages keep
\* refreshing it.
HalfLinksLeave ==
  \A a \in Checkers : \A b \in Nodes \ {a} :
    <>[](a \notin Links(b) /\ conn[b][a] = "idle" /\ ~lan[a]) => <>[](b \notin inbound[a])
=============================================================================
