------------------------------ MODULE NodeProofs ------------------------------
(***************************************************************************)
(* Proofs about what a node keeps with its peers (PeerNetwork) and what its *)
(* executions rest on (MCExecution), for any values of the constants.  The   *)
(* two share nothing but this module.                                       *)
(*                                                                         *)
(* What endangers OfflineHasCause is a probe that is answered after its     *)
(* entry was replaced: it resets the count of failures that the new entry   *)
(* might be offline for.  But the loop of a node has one probe at a time,   *)
(* so while that one is under way nothing but a notification takes the new  *)
(* entry offline (ReplacedIsFresh).  TypeOK needs that nobody connects to,  *)
(* or asks, itself.                                                         *)
(*                                                                         *)
(* Each part of an execution has an invariant of its own.  A sandbox is     *)
(* started by the holder of the lock, for a key without one (StarterHolds). *)
(* The lock is held exactly by who works under it, and a free lock has      *)
(* called the first who waits (LockIsPassedOn, inductive with the types).   *)
(* The registry counts the wrappers that hold the manager's tools           *)
(* (HoldersCounted).  A call of a tool has its reply or is among the last    *)
(* ones pending (RepliesFollow).  Another round begins only after a text     *)
(* that could be better (RoundsGoOn).  What is shown of an agent, and what is *)
(* before it in the log, is numbered no further than its entry says was read, *)
(* which is a number shown (ReadInOrder).                                   *)
(***************************************************************************)
EXTENDS PeerNetwork, MCExecution, FiniteSetTheorems, SequenceTheorems,
        WellFoundedInduction, TLAPS

-----------------------------------------------------------------------------
(* The inductive invariant.                                                  *)

\* Every table has an entry for each node.
PerNode ==
  /\ DOMAIN wan = Nodes /\ DOMAIN inbound = Nodes /\ DOMAIN since = Nodes
  /\ DOMAIN round = Nodes /\ DOMAIN probe = Nodes /\ DOMAIN noticed = Nodes

\* No node connects to, or asks, itself.
NotItself ==
  \A a \in Nodes :
    /\ conn[a][a] = "idle"
    /\ \A way \in {"outbound", "inbound"} : <<way, a>> \notin round[a]
    /\ probe[a].kind # "none" => probe[a].peer # a

\* An entry that replaced one under a probe is offline only by notification: the
\* loop counts no failure of another probe meanwhile.
ReplacedIsFresh ==
  \A a \in Nodes : \A b \in DOMAIN wan[a] :
    probe[a].kind = "replaced" /\ probe[a].peer = b /\ wan[a][b] = "offline"
      => b \in noticed[a]

IInv == TypeOK /\ PerNode /\ NotItself /\ OfflineHasCause /\ ReplacedIsFresh
-----------------------------------------------------------------------------
(* The theorems.                                                             *)

\* IInv holds initially and every step keeps it.
THEOREM Inductive == Spec => []IInv
<1> USE PeerAssumption DEF PeerAssumption
<1>1. Init => IInv
  <2> SUFFICES ASSUME Init PROVE IInv
    OBVIOUS
  <2>1. TypeOK
    BY DEF Init, TypeOK
  <2>2. PerNode /\ NotItself /\ OfflineHasCause /\ ReplacedIsFresh
    BY DEF Init, PerNode, NotItself, OfflineHasCause, ReplacedIsFresh, NoProbe
  <2> QED BY <2>1, <2>2 DEF IInv
<1>2. IInv /\ [Next]_vars => IInv'
  <2> SUFFICES ASSUME IInv, [Next]_vars PROVE IInv'
    OBVIOUS
  <2> USE DEF IInv
  <2>1. ASSUME Tick PROVE IInv'
    <3> USE <2>1 DEF Tick, tables, calls, health
    <3>1. TypeOK'
      BY DEF TypeOK, ProbeType, NoProbe, PerNode, NotItself
    <3>2. PerNode' /\ NotItself'
      BY DEF TypeOK, ProbeType, NoProbe, PerNode, NotItself
    <3>3. OfflineHasCause'
      BY DEF TypeOK, PerNode, OfflineHasCause, ReplacedIsFresh
    <3>4. ReplacedIsFresh'
      BY DEF TypeOK, ProbeType, NoProbe, PerNode, ReplacedIsFresh
    <3> QED BY <3>1, <3>2, <3>3, <3>4
  <2>2. ASSUME NEW a \in Nodes, RoundStart(a) PROVE IInv'
    <3> USE <2>2 DEF RoundStart, tables, calls, health
    <3>1. TypeOK'
      BY DEF TypeOK, ProbeType, NoProbe, PerNode, NotItself
    <3>2. PerNode' /\ NotItself'
      <4>1. DOMAIN round' = Nodes /\ \A c \in Nodes \ {a} : round'[c] = round[c]
        BY DEF PerNode
      <4>2. \A way \in {"outbound", "inbound"} : <<way, a>> \notin round'[a]
        BY DEF PerNode, TypeOK
      <4> QED BY <4>1, <4>2 DEF PerNode, NotItself
    <3>3. OfflineHasCause'
      BY DEF TypeOK, PerNode, OfflineHasCause, ReplacedIsFresh
    <3>4. ReplacedIsFresh'
      BY DEF TypeOK, ProbeType, NoProbe, PerNode, ReplacedIsFresh
    <3> QED BY <3>1, <3>2, <3>3, <3>4
  <2>3. ASSUME NEW a \in Nodes, Reply(a) PROVE IInv'
    <3>a. probe[a] \in ProbeType
      BY <2>3 DEF Reply, Asking, TypeOK, NoProbe
    <3>b. /\ probe'[a] \in ProbeType /\ DOMAIN probe' = Nodes
          /\ probe'[a].kind = probe[a].kind /\ probe'[a].peer = probe[a].peer
          /\ \A c \in Nodes \ {a} : probe'[c] = probe[c]
      <4>1. PICK r \in {"ok", "unlinked", "failed"} : probe' = [probe EXCEPT ![a].reply = r]
        BY <2>3 DEF Reply
      <4>2. probe'[a] = [probe[a] EXCEPT !.reply = r]
        BY <4>1 DEF PerNode
      <4>3. /\ probe'[a] \in ProbeType /\ probe'[a].kind = probe[a].kind
            /\ probe'[a].peer = probe[a].peer
        BY <3>a, <4>2 DEF ProbeType
      <4> QED BY <4>1, <4>3 DEF PerNode
    <3>c. UNCHANGED <<tables, calls, lan, round, due, restarts, noticed>>
      BY <2>3 DEF Reply
    <3> USE <3>a, <3>b, <3>c DEF tables, calls
    <3>1. TypeOK'
      BY DEF TypeOK
    <3>2. PerNode' /\ NotItself'
      BY DEF PerNode, NotItself
    <3>3. OfflineHasCause'
      BY DEF OfflineHasCause, ReplacedIsFresh, TypeOK
    <3>4. ReplacedIsFresh'
      <4>1. UNCHANGED <<wan, noticed>>
        OBVIOUS
      <4> QED BY ONLY <3>b, <4>1, ReplacedIsFresh DEF ReplacedIsFresh
    <3> QED BY <3>1, <3>2, <3>3, <3>4
  <2>4. ASSUME NEW a \in Nodes, NoReply(a) PROVE IInv'
    <3>a. probe[a] \in ProbeType
      BY <2>4 DEF NoReply, Asking, TypeOK, NoProbe
    <3>b. /\ probe'[a] \in ProbeType /\ DOMAIN probe' = Nodes
          /\ probe'[a].kind = probe[a].kind /\ probe'[a].peer = probe[a].peer
          /\ \A c \in Nodes \ {a} : probe'[c] = probe[c]
      <4>1. PICK r \in {"ok", "unlinked", "failed"} : probe' = [probe EXCEPT ![a].reply = r]
        BY <2>4 DEF NoReply
      <4>2. probe'[a] = [probe[a] EXCEPT !.reply = r]
        BY <4>1 DEF PerNode
      <4>3. /\ probe'[a] \in ProbeType /\ probe'[a].kind = probe[a].kind
            /\ probe'[a].peer = probe[a].peer
        BY <3>a, <4>2 DEF ProbeType
      <4> QED BY <4>1, <4>3 DEF PerNode
    <3>c. UNCHANGED <<tables, calls, lan, round, due, restarts, noticed>>
      BY <2>4 DEF NoReply
    <3> USE <3>a, <3>b, <3>c DEF tables, calls
    <3>1. TypeOK'
      BY DEF TypeOK
    <3>2. PerNode' /\ NotItself'
      BY DEF PerNode, NotItself
    <3>3. OfflineHasCause'
      BY DEF OfflineHasCause, ReplacedIsFresh, TypeOK
    <3>4. ReplacedIsFresh'
      <4>1. UNCHANGED <<wan, noticed>>
        OBVIOUS
      <4> QED BY ONLY <3>b, <4>1, ReplacedIsFresh DEF ReplacedIsFresh
    <3> QED BY <3>1, <3>2, <3>3, <3>4
  <2>5. ASSUME NEW a \in Nodes, SetLan(a) PROVE IInv'
    <3> USE <2>5 DEF SetLan, tables, calls, health
    <3>1. TypeOK'
      BY DEF TypeOK, ProbeType, NoProbe, PerNode, NotItself
    <3>2. PerNode' /\ NotItself'
      BY DEF TypeOK, ProbeType, NoProbe, PerNode, NotItself
    <3>3. OfflineHasCause'
      BY DEF TypeOK, PerNode, OfflineHasCause, ReplacedIsFresh
    <3>4. ReplacedIsFresh'
      BY DEF TypeOK, ProbeType, NoProbe, PerNode, ReplacedIsFresh
    <3> QED BY <3>1, <3>2, <3>3, <3>4
  <2>6. ASSUME NEW a \in Nodes, Restart(a) PROVE IInv'
    <3> USE <2>6 DEF Restart, tables, calls, health
    <3>1. TypeOK'
      <4>1. \A c \in Nodes :
              /\ DOMAIN wan'[c] \subseteq Nodes \ {c}
              /\ \A d \in DOMAIN wan'[c] : wan'[c][d] \in {"online", "offline"}
              /\ noticed'[c] \subseteq DOMAIN wan'[c]
        BY DEF TypeOK, PerNode, NotItself
      <4>2. \A c \in Nodes :
              /\ inbound'[c] \subseteq Nodes \ {c} /\ inbound'[c] \subseteq DOMAIN since'[c]
              /\ DOMAIN since'[c] \subseteq Nodes \ {c}
              /\ \A d \in DOMAIN since'[c] : since'[c][d] \in 0 .. StaleAfter
        BY DEF TypeOK, PerNode, NotItself
      <4>3. \A c \in Nodes : round'[c] \subseteq {"outbound", "inbound"} \X Nodes
        BY DEF TypeOK, PerNode
      <4>4. \A c \in Nodes : probe'[c] \in ProbeType \cup {NoProbe}
        BY DEF TypeOK, PerNode, ProbeType, NoProbe
      <4>5. /\ fails' \in [Nodes -> [Nodes -> 0 .. MaxFailures]]
            /\ conn' \in [Nodes -> [Nodes -> {"idle", "sent", "accepted"}]]
            /\ disc' \in [Nodes -> [Nodes -> {"idle", "sent", "notified"}]]
            /\ lan' \in [Nodes -> BOOLEAN] /\ due' \subseteq Checkers
            /\ restarts' \in [Nodes -> 0 .. MaxRestarts]
        BY DEF TypeOK
      <4> QED BY <4>1, <4>2, <4>3, <4>4, <4>5 DEF TypeOK
    <3>2. PerNode' /\ NotItself'
      BY DEF TypeOK, ProbeType, NoProbe, PerNode, NotItself
    <3>3. OfflineHasCause'
      BY DEF TypeOK, PerNode, OfflineHasCause, ReplacedIsFresh
    <3>4. ReplacedIsFresh'
      BY DEF TypeOK, ProbeType, NoProbe, PerNode, ReplacedIsFresh
    <3> QED BY <3>1, <3>2, <3>3, <3>4
  <2>7. ASSUME NEW a \in Nodes, NEW b \in Nodes, ConnectSend(a, b) PROVE IInv'
    <3> USE <2>7 DEF ConnectSend, tables, calls, health
    <3>1. TypeOK'
      BY DEF TypeOK, ProbeType, NoProbe, PerNode, NotItself
    <3>2. PerNode' /\ NotItself'
      <4>1. \A c \in Nodes : conn'[c][c] = "idle"
        <5> SUFFICES ASSUME NEW c \in Nodes PROVE conn'[c][c] = conn[c][c]
          BY DEF NotItself
        <5> QED BY DEF TypeOK
      <4> QED BY <4>1 DEF PerNode, NotItself
    <3>3. OfflineHasCause'
      BY DEF TypeOK, PerNode, OfflineHasCause, ReplacedIsFresh
    <3>4. ReplacedIsFresh'
      BY DEF TypeOK, ProbeType, NoProbe, PerNode, ReplacedIsFresh
    <3> QED BY <3>1, <3>2, <3>3, <3>4
  <2>8. ASSUME NEW a \in Nodes, NEW b \in Nodes, Handshake(a, b) PROVE IInv'
    <3> USE <2>8 DEF Handshake, With, tables, calls, health
    <3>1. TypeOK'
      <4>1. \A c \in Nodes :
              /\ DOMAIN wan'[c] \subseteq Nodes \ {c}
              /\ \A d \in DOMAIN wan'[c] : wan'[c][d] \in {"online", "offline"}
              /\ noticed'[c] \subseteq DOMAIN wan'[c]
        BY DEF TypeOK, PerNode, NotItself
      <4>2. \A c \in Nodes :
              /\ inbound'[c] \subseteq Nodes \ {c} /\ inbound'[c] \subseteq DOMAIN since'[c]
              /\ DOMAIN since'[c] \subseteq Nodes \ {c}
              /\ \A d \in DOMAIN since'[c] : since'[c][d] \in 0 .. StaleAfter
        <5>1. a # b
          BY DEF NotItself
        <5>2. /\ \A c \in Nodes \ {b} : inbound'[c] = inbound[c] /\ since'[c] = since[c]
              /\ inbound'[b] = inbound[b] \cup {a}
              /\ DOMAIN since'[b] = DOMAIN since[b] \cup {a}
              /\ \A c \in DOMAIN since'[b] : \/ since'[b][c] = 0
                                            \/ /\ c \in DOMAIN since[b]
                                               /\ since'[b][c] = since[b][c]
          BY DEF PerNode
        <5> QED BY <5>1, <5>2 DEF TypeOK
      <4>3. \A c \in Nodes : round'[c] \subseteq {"outbound", "inbound"} \X Nodes
        BY DEF TypeOK, PerNode
      <4>4. \A c \in Nodes : probe'[c] \in ProbeType \cup {NoProbe}
        BY DEF TypeOK, PerNode, ProbeType, NoProbe
      <4>5. /\ fails' \in [Nodes -> [Nodes -> 0 .. MaxFailures]]
            /\ conn' \in [Nodes -> [Nodes -> {"idle", "sent", "accepted"}]]
            /\ disc' \in [Nodes -> [Nodes -> {"idle", "sent", "notified"}]]
            /\ lan' \in [Nodes -> BOOLEAN] /\ due' \subseteq Checkers
            /\ restarts' \in [Nodes -> 0 .. MaxRestarts]
        BY DEF TypeOK
      <4> QED BY <4>1, <4>2, <4>3, <4>4, <4>5 DEF TypeOK
    <3>2. PerNode' /\ NotItself'
      <4>1. PerNode'
        BY DEF PerNode
      <4>2. \A c \in Nodes : conn'[c][c] = "idle"
        <5>1. a # b /\ \A c \in Nodes : conn[c][c] = "idle"
          BY DEF NotItself
        <5>2. conn' = [conn EXCEPT ![a] = [conn[a] EXCEPT ![b] = "accepted"]]
          OBVIOUS
        <5>3. conn \in [Nodes -> [Nodes -> {"idle", "sent", "accepted"}]]
          BY DEF TypeOK
        <5> QED BY ONLY a \in Nodes, <5>1, <5>2, <5>3
      <4>3. \A c \in Nodes : \A way \in {"outbound", "inbound"} : <<way, c>> \notin round'[c]
        BY DEF TypeOK, PerNode, NotItself
      <4>4. \A c \in Nodes : probe'[c].kind # "none" => probe'[c].peer # c
        BY DEF TypeOK, ProbeType, NoProbe, PerNode, NotItself
      <4> QED BY <4>1, <4>2, <4>3, <4>4 DEF NotItself
    <3>3. OfflineHasCause'
      BY DEF TypeOK, PerNode, OfflineHasCause, ReplacedIsFresh
    <3>4. ReplacedIsFresh'
      BY DEF TypeOK, ProbeType, NoProbe, PerNode, ReplacedIsFresh
    <3> QED BY <3>1, <3>2, <3>3, <3>4
  <2>9. ASSUME NEW a \in Nodes, NEW b \in Nodes, ConnectDone(a, b) PROVE IInv'
    <3> USE <2>9 DEF ConnectDone, With, Replaced, tables, calls, health
    <3>1. TypeOK'
      <4>1. \A c \in Nodes :
              /\ DOMAIN wan'[c] \subseteq Nodes \ {c}
              /\ \A d \in DOMAIN wan'[c] : wan'[c][d] \in {"online", "offline"}
              /\ noticed'[c] \subseteq DOMAIN wan'[c]
        <5>1. a # b
          BY DEF NotItself
        <5>2. /\ \A c \in Nodes \ {a} : wan'[c] = wan[c] /\ noticed'[c] = noticed[c]
              /\ DOMAIN wan'[a] = DOMAIN wan[a] \cup {b} /\ noticed'[a] \subseteq noticed[a]
              /\ \A d \in DOMAIN wan'[a] : \/ wan'[a][d] = "online"
                                           \/ d \in DOMAIN wan[a] /\ wan'[a][d] = wan[a][d]
          BY DEF PerNode
        <5> QED BY <5>1, <5>2 DEF TypeOK
      <4>2. \A c \in Nodes :
              /\ inbound'[c] \subseteq Nodes \ {c} /\ inbound'[c] \subseteq DOMAIN since'[c]
              /\ DOMAIN since'[c] \subseteq Nodes \ {c}
              /\ \A d \in DOMAIN since'[c] : since'[c][d] \in 0 .. StaleAfter
        BY DEF TypeOK, PerNode, NotItself
      <4>3. \A c \in Nodes : round'[c] \subseteq {"outbound", "inbound"} \X Nodes
        BY DEF TypeOK, PerNode
      <4>4. \A c \in Nodes : probe'[c] \in ProbeType \cup {NoProbe}
        BY DEF TypeOK, PerNode, ProbeType, NoProbe
      <4>5. /\ fails' \in [Nodes -> [Nodes -> 0 .. MaxFailures]]
            /\ conn' \in [Nodes -> [Nodes -> {"idle", "sent", "accepted"}]]
            /\ disc' \in [Nodes -> [Nodes -> {"idle", "sent", "notified"}]]
            /\ lan' \in [Nodes -> BOOLEAN] /\ due' \subseteq Checkers
            /\ restarts' \in [Nodes -> 0 .. MaxRestarts]
        BY DEF TypeOK
      <4> QED BY <4>1, <4>2, <4>3, <4>4, <4>5 DEF TypeOK
    <3>2. PerNode' /\ NotItself'
      <4>1. PerNode'
        BY DEF PerNode
      <4>2. \A c \in Nodes : conn'[c][c] = "idle"
        <5> SUFFICES ASSUME NEW c \in Nodes
                     PROVE  conn'[c][c] = "idle" \/ conn'[c][c] = conn[c][c]
          BY DEF NotItself
        <5> QED BY DEF TypeOK
      <4>3. \A c \in Nodes : round'[c] \subseteq round[c]
        BY DEF PerNode
      <4>4. \A c \in Nodes : /\ probe'[c].kind # "none" => probe[c].kind # "none"
                             /\ probe'[c].kind # "none" => probe'[c].peer = probe[c].peer
        BY DEF PerNode
      <4> QED BY <4>1, <4>2, <4>3, <4>4 DEF NotItself
    <3>3. OfflineHasCause'
      BY DEF TypeOK, PerNode, OfflineHasCause, ReplacedIsFresh
    <3>4. ReplacedIsFresh'
      BY DEF TypeOK, ProbeType, NoProbe, PerNode, ReplacedIsFresh
    <3> QED BY <3>1, <3>2, <3>3, <3>4
  <2>10. ASSUME NEW a \in Nodes, NEW b \in Nodes, ConnectFail(a, b) PROVE IInv'
    <3> USE <2>10 DEF ConnectFail, tables, calls, health
    <3>1. TypeOK'
      BY DEF TypeOK, ProbeType, NoProbe, PerNode, NotItself
    <3>2. PerNode' /\ NotItself'
      BY DEF TypeOK, ProbeType, NoProbe, PerNode, NotItself
    <3>3. OfflineHasCause'
      BY DEF TypeOK, PerNode, OfflineHasCause, ReplacedIsFresh
    <3>4. ReplacedIsFresh'
      BY DEF TypeOK, ProbeType, NoProbe, PerNode, ReplacedIsFresh
    <3> QED BY <3>1, <3>2, <3>3, <3>4
  <2>11. ASSUME NEW a \in Nodes, NEW b \in Nodes, DisconnectSend(a, b) PROVE IInv'
    <3> USE <2>11 DEF DisconnectSend, tables, calls, health
    <3>1. TypeOK'
      BY DEF TypeOK, ProbeType, NoProbe, PerNode, NotItself
    <3>2. PerNode' /\ NotItself'
      BY DEF TypeOK, ProbeType, NoProbe, PerNode, NotItself
    <3>3. OfflineHasCause'
      BY DEF TypeOK, PerNode, OfflineHasCause, ReplacedIsFresh
    <3>4. ReplacedIsFresh'
      BY DEF TypeOK, ProbeType, NoProbe, PerNode, ReplacedIsFresh
    <3> QED BY <3>1, <3>2, <3>3, <3>4
  <2>12. ASSUME NEW a \in Nodes, NEW b \in Nodes, PeerDisconnect(a, b) PROVE IInv'
    <3> USE <2>12 DEF PeerDisconnect, ForgetInbound, MarkOffline, Without, Restrict,
                      tables, calls, health
    <3>a. /\ DOMAIN wan' = Nodes /\ DOMAIN noticed' = Nodes
          /\ \A c \in Nodes \ {b} : wan'[c] = wan[c] /\ noticed'[c] = noticed[c]
          /\ DOMAIN wan'[b] = DOMAIN wan[b] /\ noticed[b] \subseteq noticed'[b]
          /\ noticed'[b] \subseteq noticed[b] \cup (DOMAIN wan[b] \cap {a})
          /\ \A c \in DOMAIN wan[b] : \/ wan'[b][c] = wan[b][c]
                                      \/ wan'[b][c] = "offline" /\ c \in noticed'[b]
      BY DEF PerNode
    <3>b. UNCHANGED <<probe, fails>>
      OBVIOUS
    <3>1. TypeOK'
      <4>1. \A c \in Nodes :
              /\ DOMAIN wan'[c] \subseteq Nodes \ {c}
              /\ \A d \in DOMAIN wan'[c] : wan'[c][d] \in {"online", "offline"}
              /\ noticed'[c] \subseteq DOMAIN wan'[c]
        BY <3>a DEF TypeOK
      <4>2. \A c \in Nodes :
              /\ inbound'[c] \subseteq Nodes \ {c} /\ inbound'[c] \subseteq DOMAIN since'[c]
              /\ DOMAIN since'[c] \subseteq Nodes \ {c}
              /\ \A d \in DOMAIN since'[c] : since'[c][d] \in 0 .. StaleAfter
        BY DEF TypeOK, PerNode, NotItself
      <4>3. \A c \in Nodes : round'[c] \subseteq {"outbound", "inbound"} \X Nodes
        BY DEF TypeOK, PerNode
      <4>4. \A c \in Nodes : probe'[c] \in ProbeType \cup {NoProbe}
        BY DEF TypeOK, PerNode, ProbeType, NoProbe
      <4>5. /\ fails' \in [Nodes -> [Nodes -> 0 .. MaxFailures]]
            /\ conn' \in [Nodes -> [Nodes -> {"idle", "sent", "accepted"}]]
            /\ disc' \in [Nodes -> [Nodes -> {"idle", "sent", "notified"}]]
            /\ lan' \in [Nodes -> BOOLEAN] /\ due' \subseteq Checkers
            /\ restarts' \in [Nodes -> 0 .. MaxRestarts]
        BY DEF TypeOK
      <4> QED BY <4>1, <4>2, <4>3, <4>4, <4>5 DEF TypeOK
    <3>2. PerNode' /\ NotItself'
      BY DEF TypeOK, ProbeType, NoProbe, PerNode, NotItself
    <3>3. OfflineHasCause'
      BY ONLY <3>a, <3>b, OfflineHasCause DEF OfflineHasCause
    <3>4. ReplacedIsFresh'
      BY ONLY <3>a, <3>b, ReplacedIsFresh DEF ReplacedIsFresh
    <3> QED BY <3>1, <3>2, <3>3, <3>4
  <2>13. ASSUME NEW a \in Nodes, NEW b \in Nodes, DisconnectDone(a, b) PROVE IInv'
    <3> USE <2>13 DEF DisconnectDone, Without, Restrict, Replaced, tables, calls, health
    <3>1. TypeOK'
      BY DEF TypeOK, ProbeType, NoProbe, PerNode, NotItself
    <3>2. PerNode' /\ NotItself'
      BY DEF TypeOK, ProbeType, NoProbe, PerNode, NotItself
    <3>3. OfflineHasCause'
      BY DEF TypeOK, PerNode, OfflineHasCause, ReplacedIsFresh
    <3>4. ReplacedIsFresh'
      BY DEF TypeOK, ProbeType, NoProbe, PerNode, ReplacedIsFresh
    <3> QED BY <3>1, <3>2, <3>3, <3>4
  <2>14. ASSUME NEW a \in Nodes, NEW b \in Nodes, Probe(a, b) PROVE IInv'
    <3>a. \E way \in {"outbound", "inbound"} :
            /\ <<way, b>> \in round[a]
            /\ round' = [round EXCEPT ![a] = @ \ {<<way, b>>}]
      BY <2>14 DEF Probe
    <3>b. \/ probe' = [probe EXCEPT ![a] = NoProbe]
          \/ \E way \in {"outbound", "stale", "links"} :
               probe' = [probe EXCEPT ![a] = [kind |-> way, peer |-> b, reply |-> "none"]]
      BY <2>14 DEF Probe, InboundCheck
    <3>c. UNCHANGED <<tables, calls, lan, due, restarts, noticed>>
      BY <2>14 DEF Probe
    <3>d. b # a
      BY <3>a DEF NotItself
    <3>e. /\ DOMAIN probe' = Nodes /\ \A c \in Nodes \ {a} : probe'[c] = probe[c]
          /\ probe'[a] \in ProbeType \cup {NoProbe} /\ probe'[a].kind # "replaced"
          /\ probe'[a].kind # "none" => probe'[a].peer = b
      <4>1. CASE probe' = [probe EXCEPT ![a] = NoProbe]
        BY <4>1 DEF PerNode, NoProbe
      <4>2. ASSUME NEW way \in {"outbound", "stale", "links"},
                   probe' = [probe EXCEPT ![a] = [kind |-> way, peer |-> b,
                   reply |-> "none"]]
            PROVE  <3>e!:
        BY <4>2 DEF PerNode, ProbeType
      <4> QED BY <3>b, <4>1, <4>2
    <3>f. DOMAIN round' = Nodes /\ \A c \in Nodes : round'[c] \subseteq round[c]
      BY <3>a DEF PerNode
    <3> USE <3>c, <3>d, <3>e, <3>f DEF tables, calls
    <3>1. TypeOK'
      BY DEF TypeOK
    <3>2. PerNode' /\ NotItself'
      BY DEF PerNode, NotItself
    <3>3. OfflineHasCause'
      BY DEF OfflineHasCause, ReplacedIsFresh, TypeOK
    <3>4. ReplacedIsFresh'
      BY DEF ReplacedIsFresh, TypeOK
    <3> QED BY <3>1, <3>2, <3>3, <3>4
  <2>15. ASSUME NEW a \in Nodes, NEW b \in Nodes, OutboundOk(a, b) PROVE IInv'
    <3>a. /\ probe[a].kind \in {"outbound", "replaced"} /\ probe[a].peer = b
          /\ probe' = [probe EXCEPT ![a] = NoProbe]
          /\ UNCHANGED <<calls, lan, round, due, restarts>>
      BY <2>15 DEF OutboundOk, Answered
    <3>b. /\ probe'[a] = NoProbe /\ DOMAIN probe' = Nodes /\ probe'[a].kind = "none"
          /\ \A c \in Nodes \ {a} : probe'[c] = probe[c]
      BY <3>a DEF PerNode, NoProbe
    <3>c. /\ fails' = [fails EXCEPT ![a][b] = 0] /\ UNCHANGED <<inbound, since>>
          /\ \/ /\ wan' = [wan EXCEPT ![a][b] = "online"]
                /\ noticed' = [noticed EXCEPT ![a] = @ \ {b}]
             \/ /\ probe[a].kind = "replaced" /\ UNCHANGED <<wan, noticed>>
      BY <2>15 DEF OutboundOk, Answered
    <3>d. /\ DOMAIN wan' = Nodes /\ DOMAIN noticed' = Nodes
          /\ \A c \in Nodes \ {a} : wan'[c] = wan[c] /\ noticed'[c] = noticed[c]
          /\ DOMAIN wan'[a] = DOMAIN wan[a] /\ noticed'[a] \subseteq noticed[a]
          /\ \A c \in DOMAIN wan[a] : /\ wan'[a][c] = wan[a][c] \/ wan'[a][c] = "online"
                                      /\ c # b /\ c \in noticed[a] => c \in noticed'[a]
          /\ \/ b \in DOMAIN wan[a] => wan'[a][b] = "online"
             \/ /\ probe[a].kind = "replaced" /\ wan'[a] = wan[a]
                /\ noticed'[a] = noticed[a]
      BY <3>c DEF PerNode
    <3>e. /\ fails' \in [Nodes -> [Nodes -> 0 .. MaxFailures]]
          /\ \A c, d \in Nodes : c # a \/ d # b => fails'[c][d] = fails[c][d]
      BY <3>c DEF TypeOK
    <3>f. UNCHANGED <<inbound, since>>
      BY <3>c
    <3>g. UNCHANGED <<calls, lan, round, due, restarts>>
      BY <3>a
    <3>1. TypeOK'
      <4>1. ASSUME NEW c \in Nodes
            PROVE  /\ DOMAIN wan'[c] \subseteq Nodes \ {c} /\ noticed'[c] \subseteq DOMAIN wan'[c]
                   /\ \A d \in DOMAIN wan'[c] : wan'[c][d] \in {"online", "offline"}
                   /\ probe'[c] \in ProbeType \cup {NoProbe}
        <5>1. CASE c = a
          BY <3>b, <3>d, <5>1 DEF TypeOK
        <5>2. CASE c # a
          BY <3>b, <3>d, <5>2 DEF TypeOK
        <5> QED BY <5>1, <5>2
      <4> QED BY <3>e, <3>f, <3>g, <4>1 DEF TypeOK, calls
    <3>2. PerNode' /\ NotItself'
      BY <3>b, <3>d, <3>f, <3>g DEF PerNode, NotItself, calls
    <3>3. OfflineHasCause'
      <4> SUFFICES ASSUME NEW c \in Nodes, NEW d \in DOMAIN wan'[c], wan'[c][d] = "offline"
                   PROVE  fails'[c][d] = MaxFailures \/ d \in noticed'[c]
        BY DEF OfflineHasCause
      <4>1. d \in Nodes /\ d \in DOMAIN wan[c]
        BY <3>d DEF TypeOK
      <4>2. CASE c # a \/ d # b
        <5>1. wan[c][d] = "offline"
          BY <3>d, <4>1, <4>2
        <5> QED BY <3>d, <3>e, <4>1, <4>2, <5>1 DEF OfflineHasCause
      <4>3. CASE c = a /\ d = b
        BY <3>a, <3>d, <4>1, <4>3 DEF ReplacedIsFresh
      <4> QED BY <4>2, <4>3
    <3>4. ReplacedIsFresh'
      BY <3>b, <3>d DEF ReplacedIsFresh
    <3> QED BY <3>1, <3>2, <3>3, <3>4
  <2>16. ASSUME NEW a \in Nodes, NEW b \in Nodes, OutboundFailed(a, b) PROVE IInv'
    <3>a. /\ probe[a].kind \in {"outbound", "replaced"} /\ probe[a].peer = b
          /\ probe' = [probe EXCEPT ![a] = NoProbe]
          /\ UNCHANGED <<calls, lan, round, due, restarts>>
      BY <2>16 DEF OutboundFailed, Answered
    <3>b. /\ probe'[a] = NoProbe /\ DOMAIN probe' = Nodes /\ probe'[a].kind = "none"
          /\ \A c \in Nodes \ {a} : probe'[c] = probe[c]
      BY <3>a DEF PerNode, NoProbe
    <3> DEFINE failures == IF fails[a][b] = MaxFailures THEN MaxFailures
                           ELSE fails[a][b] + 1
    <3>c. /\ fails' = [fails EXCEPT ![a][b] = failures]
          /\ UNCHANGED <<inbound, since, noticed>>
          /\ \/ /\ wan' = [wan EXCEPT ![a][b] = "offline"]
                /\ TooManyFailures(failures)
             \/ UNCHANGED wan
      BY <2>16 DEF OutboundFailed, Answered
    <3>e. /\ failures \in 0 .. MaxFailures
          /\ TooManyFailures(failures) => failures = MaxFailures
          /\ fails[a][b] = MaxFailures => failures = MaxFailures
      <4>1. fails[a][b] \in 0 .. MaxFailures
        BY DEF TypeOK
      <4> QED BY <4>1 DEF TooManyFailures
    <3>h. /\ fails' \in [Nodes -> [Nodes -> 0 .. MaxFailures]] /\ fails'[a][b] = failures
          /\ \A c, d \in Nodes : c # a \/ d # b => fails'[c][d] = fails[c][d]
      BY <3>c, <3>e DEF TypeOK
    <3> HIDE DEF failures
    <3>d. /\ DOMAIN wan' = Nodes /\ \A c \in Nodes \ {a} : wan'[c] = wan[c]
          /\ DOMAIN wan'[a] = DOMAIN wan[a]
          /\ \A c \in DOMAIN wan[a] : \/ wan'[a][c] = wan[a][c]
                                      \/ /\ c = b /\ failures = MaxFailures
                                         /\ wan'[a][c] = "offline"
      BY <3>c, <3>e DEF PerNode
    <3>f. UNCHANGED <<inbound, since, noticed>>
      BY <3>c
    <3>g. UNCHANGED <<calls, lan, round, due, restarts>>
      BY <3>a
    <3>1. TypeOK'
      <4>1. \A c \in Nodes : /\ DOMAIN wan'[c] = DOMAIN wan[c]
                             /\ \A d \in DOMAIN wan'[c] : wan'[c][d] \in {"online",
                                "offline"}
        BY <3>d DEF TypeOK
      <4> QED BY <3>b, <3>h, <3>f, <3>g, <4>1 DEF TypeOK, calls
    <3>2. PerNode' /\ NotItself'
      BY <3>b, <3>d, <3>f, <3>g DEF PerNode, NotItself, calls
    <3>3. OfflineHasCause'
      <4> SUFFICES ASSUME NEW c \in Nodes, NEW d \in DOMAIN wan'[c], wan'[c][d] = "offline"
                   PROVE  fails'[c][d] = MaxFailures \/ d \in noticed'[c]
        BY DEF OfflineHasCause
      <4>1. d \in Nodes /\ d \in DOMAIN wan[c]
        BY <3>d DEF TypeOK
      <4>2. CASE c # a \/ d # b
        BY <3>d, <3>f, <3>h, <4>1, <4>2 DEF OfflineHasCause
      <4>3. CASE c = a /\ d = b
        BY <3>d, <3>e, <3>f, <3>h, <4>1, <4>3 DEF OfflineHasCause
      <4> QED BY <4>2, <4>3
    <3>4. ReplacedIsFresh'
      BY <3>b, <3>d, <3>f DEF ReplacedIsFresh
    <3> QED BY <3>1, <3>2, <3>3, <3>4
  <2>17. ASSUME NEW a \in Nodes, NEW b \in Nodes, InboundSeen(a, b) PROVE IInv'
    <3>a. /\ probe[a].kind \in {"stale", "links"} /\ probe[a].peer = b
          /\ probe' = [probe EXCEPT ![a] = NoProbe]
          /\ UNCHANGED <<calls, lan, round, due, restarts>>
      BY <2>17 DEF InboundSeen, Answered
    <3>b. /\ probe'[a] = NoProbe /\ DOMAIN probe' = Nodes /\ probe'[a].kind = "none"
          /\ \A c \in Nodes \ {a} : probe'[c] = probe[c]
      BY <3>a DEF PerNode, NoProbe
    <3>c. /\ since' = [since EXCEPT ![a] = With(@, b, 0)]
          /\ UNCHANGED <<wan, inbound, fails, noticed>>
      BY <2>17 DEF InboundSeen
    <3>d. b # a
      BY <3>a DEF NotItself
    <3>e. /\ DOMAIN since' = Nodes /\ \A c \in Nodes \ {a} : since'[c] = since[c]
          /\ DOMAIN since'[a] = DOMAIN since[a] \cup {b}
          /\ \A c \in DOMAIN since'[a] : \/ since'[a][c] = 0
                                        \/ /\ c \in DOMAIN since[a]
                                           /\ since'[a][c] = since[a][c]
      <4>1. since'[a] = With(since[a], b, 0)
        BY <3>c DEF PerNode
      <4>2. DOMAIN since' = Nodes /\ \A c \in Nodes \ {a} : since'[c] = since[c]
        BY <3>c DEF PerNode
      <4> QED BY <4>1, <4>2 DEF With
    <3>f. UNCHANGED <<wan, inbound, fails, noticed>> /\ UNCHANGED <<calls, lan, round, due,
    restarts>>
      BY <3>a, <3>c
    <3>1. TypeOK'
      <4>1. \A c \in Nodes : /\ inbound'[c] \subseteq DOMAIN since'[c]
                             /\ DOMAIN since'[c] \subseteq Nodes \ {c}
                             /\ \A d \in DOMAIN since'[c] : since'[c][d] \in 0 .. StaleAfter
        <5>1. ASSUME NEW c \in Nodes, c # a
              PROVE  /\ inbound'[c] \subseteq DOMAIN since'[c]
                     /\ DOMAIN since'[c] \subseteq Nodes \ {c}
                     /\ \A d \in DOMAIN since'[c] : since'[c][d] \in 0 .. StaleAfter
          BY <5>1, <3>e, <3>f DEF TypeOK
        <5>2. /\ inbound'[a] \subseteq DOMAIN since'[a]
              /\ DOMAIN since'[a] \subseteq Nodes \ {a}
          BY <3>d, <3>e, <3>f DEF TypeOK
        <5>3. \A d \in DOMAIN since'[a] : since'[a][d] \in 0 .. StaleAfter
          <6>1. \A d \in DOMAIN since[a] : since[a][d] \in 0 .. StaleAfter
            BY DEF TypeOK
          <6>2. 0 \in 0 .. StaleAfter
            OBVIOUS
          <6> QED BY ONLY <3>e, <6>1, <6>2
        <5> QED BY <5>1, <5>2, <5>3
      <4>2. \A c \in Nodes : probe'[c] \in ProbeType \cup {NoProbe}
        BY <3>b DEF TypeOK
      <4> QED BY <3>f, <4>1, <4>2 DEF TypeOK, calls
    <3>2. PerNode' /\ NotItself'
      BY <3>b, <3>e, <3>f DEF PerNode, NotItself, calls
    <3>3. OfflineHasCause'
      BY <3>f DEF OfflineHasCause
    <3>4. ReplacedIsFresh'
      BY <3>b, <3>f DEF ReplacedIsFresh
    <3> QED BY <3>1, <3>2, <3>3, <3>4
  <2>18. ASSUME NEW a \in Nodes, NEW b \in Nodes, InboundIgnored(a, b) PROVE IInv'
    <3> USE <2>18 DEF InboundIgnored, Answered, tables, calls, health
    <3>1. TypeOK'
      BY DEF TypeOK, ProbeType, NoProbe, PerNode, NotItself
    <3>2. PerNode' /\ NotItself'
      BY DEF TypeOK, ProbeType, NoProbe, PerNode, NotItself
    <3>3. OfflineHasCause'
      BY DEF TypeOK, PerNode, OfflineHasCause, ReplacedIsFresh
    <3>4. ReplacedIsFresh'
      BY DEF TypeOK, ProbeType, NoProbe, PerNode, ReplacedIsFresh
    <3> QED BY <3>1, <3>2, <3>3, <3>4
  <2>19. ASSUME NEW a \in Nodes, NEW b \in Nodes, RemoveInbound(a, b) PROVE IInv'
    <3>a. /\ probe[a].kind \in {"stale", "links"} /\ probe[a].peer = b
          /\ probe' = [probe EXCEPT ![a] = NoProbe]
          /\ UNCHANGED <<calls, lan, round, due, restarts>>
      BY <2>19 DEF RemoveInbound, Answered
    <3>b. /\ probe'[a] = NoProbe /\ DOMAIN probe' = Nodes /\ probe'[a].kind = "none"
          /\ \A c \in Nodes \ {a} : probe'[c] = probe[c]
      BY <3>a DEF PerNode, NoProbe
    <3>c. /\ since' = [since EXCEPT ![a] = Without(@, b)]
          /\ inbound' = [inbound EXCEPT ![a] = @ \ {b}]
          /\ UNCHANGED <<wan, fails, noticed>>
      BY <2>19 DEF RemoveInbound
    <3>e. /\ DOMAIN since' = Nodes /\ DOMAIN inbound' = Nodes
          /\ \A c \in Nodes \ {a} : since'[c] = since[c] /\ inbound'[c] = inbound[c]
          /\ DOMAIN since'[a] = DOMAIN since[a] \ {b} /\ inbound'[a] = inbound[a] \ {b}
          /\ \A c \in DOMAIN since'[a] : since'[a][c] = since[a][c]
      BY <3>c DEF PerNode, Without, Restrict
    <3>f. UNCHANGED <<wan, fails, noticed>> /\ UNCHANGED <<calls, lan, round, due,
    restarts>>
      BY <3>a, <3>c
    <3>1. TypeOK'
      <4>1. ASSUME NEW c \in Nodes
            PROVE  /\ inbound'[c] \subseteq Nodes \ {c} /\ inbound'[c] \subseteq DOMAIN since'[c]
                   /\ DOMAIN since'[c] \subseteq Nodes \ {c}
                   /\ \A d \in DOMAIN since'[c] : since'[c][d] \in 0 .. StaleAfter
                   /\ probe'[c] \in ProbeType \cup {NoProbe}
        <5>1. CASE c = a
          BY <3>b, <3>e, <5>1 DEF TypeOK
        <5>2. CASE c # a
          BY <3>b, <3>e, <5>2 DEF TypeOK
        <5> QED BY <5>1, <5>2
      <4> QED BY <3>f, <4>1 DEF TypeOK, calls
    <3>2. PerNode' /\ NotItself'
      BY <3>b, <3>e, <3>f DEF PerNode, NotItself, calls
    <3>3. OfflineHasCause'
      BY <3>f DEF OfflineHasCause
    <3>4. ReplacedIsFresh'
      BY <3>b, <3>f DEF ReplacedIsFresh
    <3> QED BY <3>1, <3>2, <3>3, <3>4
  <2>20. ASSUME NEW a \in Nodes, NEW b \in Nodes, NodeSeen(a, b) PROVE IInv'
    <3> USE <2>20 DEF NodeSeen, tables, calls, health
    <3>1. TypeOK'
      <4>1. \A c \in Nodes :
              /\ DOMAIN wan'[c] \subseteq Nodes \ {c}
              /\ \A d \in DOMAIN wan'[c] : wan'[c][d] \in {"online", "offline"}
              /\ noticed'[c] \subseteq DOMAIN wan'[c]
        BY DEF TypeOK, PerNode, NotItself
      <4>2. \A c \in Nodes :
              /\ inbound'[c] \subseteq Nodes \ {c} /\ inbound'[c] \subseteq DOMAIN since'[c]
              /\ DOMAIN since'[c] \subseteq Nodes \ {c}
              /\ \A d \in DOMAIN since'[c] : since'[c][d] \in 0 .. StaleAfter
        BY DEF TypeOK, PerNode, NotItself
      <4>3. \A c \in Nodes : round'[c] \subseteq {"outbound", "inbound"} \X Nodes
        BY DEF TypeOK, PerNode
      <4>4. \A c \in Nodes : probe'[c] \in ProbeType \cup {NoProbe}
        BY DEF TypeOK, PerNode, ProbeType, NoProbe
      <4>5. /\ fails' \in [Nodes -> [Nodes -> 0 .. MaxFailures]]
            /\ conn' \in [Nodes -> [Nodes -> {"idle", "sent", "accepted"}]]
            /\ disc' \in [Nodes -> [Nodes -> {"idle", "sent", "notified"}]]
            /\ lan' \in [Nodes -> BOOLEAN] /\ due' \subseteq Checkers
            /\ restarts' \in [Nodes -> 0 .. MaxRestarts]
        BY DEF TypeOK
      <4> QED BY <4>1, <4>2, <4>3, <4>4, <4>5 DEF TypeOK
    <3>2. PerNode' /\ NotItself'
      BY DEF TypeOK, ProbeType, NoProbe, PerNode, NotItself
    <3>3. OfflineHasCause'
      BY DEF TypeOK, PerNode, OfflineHasCause, ReplacedIsFresh
    <3>4. ReplacedIsFresh'
      BY DEF TypeOK, ProbeType, NoProbe, PerNode, ReplacedIsFresh
    <3> QED BY <3>1, <3>2, <3>3, <3>4
  <2>21. CASE UNCHANGED vars
    BY <2>21 DEF vars, tables, calls, health, TypeOK, PerNode, NotItself, OfflineHasCause,
                 ReplacedIsFresh
  <2> HIDE DEF IInv
  <2> QED BY <2>1, <2>2, <2>3, <2>4, <2>5, <2>6, <2>7, <2>8, <2>9, <2>10, <2>11, <2>12,
             <2>13, <2>14, <2>15, <2>16, <2>17, <2>18, <2>19, <2>20, <2>21 DEF Next, Finish
<1> QED BY <1>1, <1>2, PTL DEF Spec

\* The tables of every node keep their shape, for any number of nodes and any capacity: an
\* inbound peer has a last seen time, whatever calls, probes and restarts overlap.
THEOREM TypeCorrect == Spec => []TypeOK
<1>1. IInv => TypeOK
  BY DEF IInv
<1> QED BY <1>1, Inductive, PTL

\* An outbound peer is shown offline for a cause: max_failures probes of this very entry
\* in a row, or the peer's own word (_peer_health_loop, mark_node_offline).
THEOREM OfflineForACause == Spec => []OfflineHasCause
<1>1. IInv => OfflineHasCause
  BY DEF IInv
<1> QED BY <1>1, Inductive, PTL

-----------------------------------------------------------------------------
(* The pool of sandboxes.                                                    *)

Places == {"idle", "acquire", "wait", "hold", "starting", "unpooled", "ready",
           "running", "failed", "openhands", "local", "over"}

\* Who starts a sandbox has the lock, and has found none for its key.
StarterHolds ==
  /\ at \in [Actors -> Places] /\ queue \in Seq(Actors)
  /\ \A a \in Actors : at[a] \in {"hold", "starting"} => holder = a
  /\ \A a \in Actors : at[a] = "starting" => a \in Calls /\ Key(a) \notin boxes

\* How often a call was started: once more with each fall-back, of which there is one
\* that makes its code a command and one that is the last.
Tries(c) == (IF c \in IsCode \ asCode THEN 1 ELSE 0) + (IF c \in nested THEN 1 ELSE 0)

StartsBounded ==
  \A c \in Calls :
    /\ at[c] \in {"idle", "local"} => runs[c] = 0 /\ c \in asCode \cup (Calls \ IsCode)
    /\ at[c] \in {"acquire", "wait", "hold", "starting", "unpooled", "ready", "openhands"}
         => runs[c] <= Tries(c)
    /\ at[c] \in {"running", "failed"} => runs[c] <= Tries(c) + 1
    /\ at[c] \notin {"openhands", "over"} => c \notin nested

PoolInv ==
  /\ PoolTypeOK /\ StarterHolds /\ StartsBounded /\ PoolLosesNone

\* What is known of the pool holds at its start.
LEMMA PoolBegins == PoolInit => PoolInv
<1> USE PoolAssumption DEF PoolAssumption, PoolInit
<1> SUFFICES ASSUME PoolInit PROVE PoolInv
  OBVIOUS
<1>0. Cardinality(Calls) \in Nat
  BY FS_CardinalityType
<1>1. PoolTypeOK
  BY <1>0 DEF PoolTypeOK, Actors
<1>2. StarterHolds
  BY DEF StarterHolds, Places
<1>3. StartsBounded
  BY DEF StartsBounded, Actors, Tries
<1>4. PoolLosesNone
  BY DEF PoolLosesNone
<1> QED BY <1>1, <1>2, <1>3, <1>4 DEF PoolInv

\* A key with a sandbox has one call at least.
LEMMA OneAtLeast == ASSUME NEW c \in Calls PROVE 1 \in 0 .. Cardinality(Calls)
<1>1. Cardinality(Calls) \in Nat /\ Cardinality(Calls) # 0
  BY PoolAssumption, FS_CardinalityType, FS_EmptySet DEF PoolAssumption
<1> QED BY <1>1

\* The lock that is released is nobody's; who is called waits.
LEMMA UnlockKeeps ==
  ASSUME NEW a \in Actors, Unlock(a), PoolTypeOK, queue \in Seq(Actors)
  PROVE  /\ holder' = Nobody /\ queue' = queue
         /\ called' \subseteq Actors /\ deaf' \subseteq called'
<1>1. queue # <<>> => Head(queue) \in Actors
  BY HeadTailProperties
<1> QED BY <1>1 DEF Unlock, PoolTypeOK

\* Every step of the pool keeps it: only the one who starts a sandbox adds one.
LEMMA PoolStep == PoolInv /\ PoolNext => PoolInv'
<1> USE PoolAssumption DEF PoolAssumption, poolVars, lockVars, callVars
<1> SUFFICES ASSUME PoolInv, PoolNext PROVE PoolInv'
  OBVIOUS
<1> USE DEF PoolInv
<1>0. Calls \subseteq Actors /\ Tasks \subseteq Actors /\ \A c \in Calls : Key(c) \in Keys
  BY DEF Actors, Key
<1>a. \A a \in Actors : at[a] \in Places
  BY DEF StarterHolds
<1>1. CASE CacheExpires
  BY <1>1 DEF CacheExpires, PoolTypeOK, StarterHolds, StartsBounded, Tries, PoolLosesNone, Key
<1>2. CASE Exit
  <2> USE <1>2 DEF Exit
  <2>1. PoolTypeOK'
    <3>1. \A k \in boxes : running[k] = 1
      BY DEF PoolLosesNone, PoolTypeOK
    <3>2. /\ Cardinality(Calls) \in Nat
          /\ \A n \in 0 .. Cardinality(Calls) : n = 1 => n - 1 \in 0 .. Cardinality(Calls)
      BY FS_CardinalityType
    <3>3. running' \in [Keys -> 0 .. Cardinality(Calls)]
      <4>1. running \in [Keys -> 0 .. Cardinality(Calls)]
        BY DEF PoolTypeOK
      <4>2. CASE Free
        <5>1. running' = [k \in Keys |-> IF k \in boxes THEN running[k] - 1 ELSE running[k]]
          BY <4>2
        <5>2. \A k \in Keys : running'[k] \in 0 .. Cardinality(Calls)
          BY <3>1, <3>2, <4>1, <5>1
        <5> QED BY <5>1, <5>2
      <4>3. CASE ~Free
        BY <4>1, <4>3
      <4> QED BY <4>2, <4>3
    <3> QED BY <3>3 DEF PoolTypeOK
  <2>2. StarterHolds'
    BY DEF StarterHolds, Key
  <2>3. StartsBounded'
    BY DEF StartsBounded, Tries
  <2>4. PoolLosesNone'
    BY DEF PoolLosesNone
  <2> QED BY <2>1, <2>2, <2>3, <2>4
<1>3. ASSUME NEW c \in Calls, Call(c) PROVE PoolInv'
  <2> USE <1>3, <1>0 DEF Call, Goto
  <2>1. PoolTypeOK'
    BY DEF PoolTypeOK
  <2>2. StarterHolds'
    BY DEF StarterHolds, Key, Places
  <2>3. StartsBounded'
    BY <1>a DEF StartsBounded, Tries, StarterHolds, PoolTypeOK
  <2>4. PoolLosesNone'
    BY DEF PoolLosesNone
  <2> QED BY <2>1, <2>2, <2>3, <2>4
<1>4. ASSUME NEW c \in Calls, Found(c) PROVE PoolInv'
  <2> USE <1>4, <1>0, UnlockKeeps DEF Found, Goto
  <2>0. StarterHolds
    OBVIOUS
  <2>1. PoolTypeOK'
    BY DEF PoolTypeOK, StarterHolds
  <2>2. StarterHolds'
    BY DEF StarterHolds, Key, Places
  <2>3. StartsBounded'
    BY DEF StartsBounded, Tries, StarterHolds, PoolTypeOK
  <2>4. PoolLosesNone'
    BY DEF PoolLosesNone
  <2> QED BY <2>1, <2>2, <2>3, <2>4
<1>5. ASSUME NEW c \in Calls, CheckDocker(c) PROVE PoolInv'
  <2> USE <1>5, <1>0, UnlockKeeps DEF CheckDocker, Goto
  <2>1. PoolTypeOK'
    BY DEF PoolTypeOK, StarterHolds, Answers
  <2>2. StarterHolds'
    BY DEF StarterHolds, Key, Places
  <2>3. StartsBounded'
    BY DEF StartsBounded, Tries, StarterHolds, PoolTypeOK
  <2>4. PoolLosesNone'
    BY DEF PoolLosesNone
  <2> QED BY <2>1, <2>2, <2>3, <2>4
<1>6. ASSUME NEW c \in Calls, StartPooled(c) PROVE PoolInv'
  <2> USE <1>6, <1>0, UnlockKeeps DEF StartPooled, Goto
  <2>0. Key(c) \in Keys /\ Key(c) \notin boxes /\ running[Key(c)] = 0
    BY DEF StarterHolds, PoolLosesNone
  <2>a. 1 \in 0 .. Cardinality(Calls)
    BY OneAtLeast
  <2>b. /\ boxes' \subseteq Keys /\ inUse' \subseteq Keys /\ known' = known
        /\ running' \in [Keys -> 0 .. Cardinality(Calls)]
    BY <2>0, <2>a DEF PoolTypeOK
  <2>c. /\ queue' = queue /\ holder' = Nobody
        /\ called' \subseteq Actors /\ deaf' \subseteq called'
    <3>1. c \in Actors /\ Unlock(c)
      OBVIOUS
    <3>2. PoolTypeOK /\ queue \in Seq(Actors)
      BY DEF StarterHolds
    <3> QED BY ONLY <3>1, <3>2, UnlockKeeps
  <2>1. PoolTypeOK'
    BY <2>b, <2>c DEF PoolTypeOK
  <2>2. StarterHolds'
    BY DEF StarterHolds, Key, Places
  <2>3. StartsBounded'
    BY DEF StartsBounded, Tries, StarterHolds, PoolTypeOK
  <2>4. PoolLosesNone'
    BY <2>0 DEF PoolLosesNone, PoolTypeOK
  <2> QED BY <2>1, <2>2, <2>3, <2>4
<1>7. ASSUME NEW c \in Calls,
             Unpooled(c) \/ NoOpenHands(c) \/ RunOpenHands(c) \/ RunLocal(c)
               \/ RunInSandbox(c) \/ Ends(c) \/ TimesOut(c) \/ CodeEnds(c) \/ FallBack(c)
      PROVE  PoolInv'
  <2> USE <1>7, <1>0 DEF Unpooled, NoOpenHands, RunOpenHands, RunLocal, RunInSandbox,
                         Ends, TimesOut, CodeEnds, FallBack, Goto, Started
  <2>0. runs[c] \in Nat /\ Tries(c) \in 0 .. 2 /\ (c \notin nested => Tries(c) \in 0 .. 1)
    BY DEF PoolTypeOK, Tries
  <2>1. PoolTypeOK'
    <3>1. /\ known' \in {"none", "up", "down"} /\ asCode' \subseteq IsCode
          /\ nested' \subseteq Calls
      BY DEF PoolTypeOK, Answers
    <3>2. at' \in [Actors -> Places]
      BY DEF StarterHolds, Places
    <3>3. runs[c] + 1 \in 0 .. 3 \/ runs' = runs
      BY <2>0 DEF StartsBounded
    <3>4. runs' \in [Calls -> 0 .. 3]
      BY <3>3 DEF PoolTypeOK
    <3> QED BY <3>1, <3>2, <3>4 DEF PoolTypeOK, Places
  <2>2. StarterHolds'
    BY DEF StarterHolds, Key, Places
  <2>3. StartsBounded'
    <3>1. \A d \in Calls \ {c} : at'[d] = at[d] /\ runs'[d] = runs[d] /\ Tries(d)' = Tries(d)
                                /\ (d \in nested' <=> d \in nested)
                                /\ (d \in asCode' <=> d \in asCode)
      BY DEF StarterHolds, PoolTypeOK, Tries
    <3>2. runs'[c] \in {runs[c], runs[c] + 1} /\ at'[c] \in Places
      BY DEF StarterHolds, PoolTypeOK, Places
    <3> QED BY <3>1, <3>2, <2>0 DEF StartsBounded, StarterHolds, PoolTypeOK, Tries
  <2>4. PoolLosesNone'
    BY DEF PoolLosesNone
  <2> QED BY <2>1, <2>2, <2>3, <2>4
<1>8. ASSUME NEW a \in Actors, TakeLock(a) PROVE PoolInv'
  <2> USE <1>8, <1>0 DEF TakeLock, Goto, Free
  <2>1. PoolTypeOK'
    BY DEF PoolTypeOK
  <2>2. StarterHolds'
    BY AppendProperties DEF StarterHolds, Key, Places
  <2>3. StartsBounded'
    BY DEF StartsBounded, Tries, StarterHolds, PoolTypeOK
  <2>4. PoolLosesNone'
    BY DEF PoolLosesNone
  <2> QED BY <2>1, <2>2, <2>3, <2>4
<1>9. ASSUME NEW a \in Actors, GetLock(a) PROVE PoolInv'
  <2> USE <1>9, <1>0 DEF GetLock, Goto
  <2>1. PoolTypeOK'
    BY DEF PoolTypeOK
  <2>2. StarterHolds'
    <3>1. queue' \in Seq(Actors)
      <4>1. PICK i \in DOMAIN queue :
              queue' = SubSeq(queue, 1, i - 1) \o SubSeq(queue, i + 1, Len(queue))
        OBVIOUS
      <4>2. SubSeq(queue, 1, i - 1) \in Seq(Actors) /\ SubSeq(queue, i + 1, Len(queue)) \in Seq(Actors)
        BY SubSeqProperties DEF StarterHolds
      <4> QED BY <4>1, <4>2, ConcatProperties
    <3> QED BY <3>1 DEF StarterHolds, Key, Places
  <2>3. StartsBounded'
    BY DEF StartsBounded, Tries, StarterHolds, PoolTypeOK
  <2>4. PoolLosesNone'
    BY DEF PoolLosesNone
  <2> QED BY <2>1, <2>2, <2>3, <2>4
<1>10. ASSUME NEW t \in Tasks, Release(t) \/ TaskEnds(t) PROVE PoolInv'
  <2> USE <1>10, <1>0, UnlockKeeps DEF Release, TaskEnds, Goto
  <2>1. PoolTypeOK'
    BY DEF PoolTypeOK, StarterHolds
  <2>2. StarterHolds'
    BY DEF StarterHolds, Key, Places
  <2>3. StartsBounded'
    BY DEF StartsBounded, Tries, StarterHolds, PoolTypeOK
  <2>4. PoolLosesNone'
    BY DEF PoolLosesNone
  <2> QED BY <2>1, <2>2, <2>3, <2>4
<1> QED
  <2>1. \A a \in Actors : Release(a) => a \in Tasks
    BY DEF Release
  <2> QED BY <1>1, <1>2, <1>3, <1>4, <1>5, <1>6, <1>7, <1>8, <1>9, <1>10, <2>1
          DEF PoolNext, CallStep, LockStep

-----------------------------------------------------------------------------
(* The lock of the pool.                                                     *)

\* Where an actor has the lock, or waits for it.
LockPlaces == {"hold", "starting", "wait"}

\* Nobody wants the lock at the start.
LEMMA LockBegins == PoolInit => LockIsPassedOn
BY PoolAssumption DEF PoolAssumption, PoolInit, LockIsPassedOn, Actors

\* A step that leaves the lock alone takes nobody to it or away from it.
LEMMA LockStays ==
  ASSUME LockIsPassedOn, UNCHANGED <<holder, queue, called>>,
         \A a \in Actors : /\ at'[a] \in {"hold", "starting"} <=> at[a] \in {"hold", "starting"}
                           /\ at'[a] = "wait" <=> at[a] = "wait"
  PROVE  LockIsPassedOn'
BY DEF LockIsPassedOn

\* Of a queue with someone in it the head is the first.
LEMMA FirstInQueue ==
  ASSUME queue \in Seq(Actors), queue # <<>>
  PROVE  Len(queue) \in Nat \ {0} /\ 1 \in DOMAIN queue /\ Head(queue) = queue[1]
BY EmptySeq, HeadTailProperties

\* Whoever ends its work under the lock passes it on.
LEMMA LockIsPassed ==
  ASSUME PoolInv, LockIsPassedOn, NEW a \in Actors, at[a] \in {"hold", "starting"}, Unlock(a),
         NEW there, there \notin LockPlaces, Goto(a, there)
  PROVE  LockIsPassedOn'
<1> USE DEF LockPlaces
<1>0. /\ at \in [Actors -> Places] /\ Nobody \notin Actors /\ holder = a
      /\ holder' = Nobody /\ queue' = queue
  BY PoolAssumption DEF PoolAssumption, PoolInv, StarterHolds, LockIsPassedOn, Unlock
<1>1. /\ at'[a] = there
      /\ \A b \in Actors \ {a} : at'[b] = at[b] /\ at[b] \notin {"hold", "starting"}
  BY <1>0 DEF Goto, LockIsPassedOn
<1>2. \A b \in Actors : at'[b] \in {"hold", "starting"} <=> holder' = b
  BY <1>0, <1>1
<1>3. \A b \in Actors : at'[b] = "wait" <=> at[b] = "wait"
  BY <1>0, <1>1
<1>4. called' \subseteq (IF queue = <<>> THEN {} ELSE {Head(queue)})
  BY DEF Unlock, LockIsPassedOn
<1>5. queue # <<>> => Head(queue) \in called'
  BY DEF Unlock
<1> QED BY <1>0, <1>2, <1>3, <1>4, <1>5 DEF LockIsPassedOn

\* Who takes the lock has it, or is the last of the queue.
LEMMA LockIsTaken ==
  ASSUME PoolInv, LockIsPassedOn, NEW a \in Actors, TakeLock(a)
  PROVE  LockIsPassedOn'
<1>0. /\ at \in [Actors -> Places] /\ Nobody \notin Actors /\ at[a] = "acquire"
      /\ queue \in Seq(Actors) /\ a # holder
  BY PoolAssumption DEF PoolAssumption, PoolInv, StarterHolds, LockIsPassedOn, TakeLock
<1>1. \A b \in Actors \ {a} : at'[b] = at[b]
  BY <1>0 DEF TakeLock, Goto
<1>2. CASE Free /\ holder' = a /\ Goto(a, "hold") /\ UNCHANGED <<lockLoop, queue, called, deaf>>
  <2>1. at'[a] = "hold"
    BY <1>0, <1>2 DEF Goto
  <2> QED BY <1>0, <1>1, <1>2, <2>1 DEF LockIsPassedOn, Free
<1>3. CASE /\ ~Free /\ queue' = Append(queue, a) /\ Goto(a, "wait")
           /\ UNCHANGED <<holder, called, deaf>>
  <2>1. at'[a] = "wait"
    BY <1>0, <1>3 DEF Goto
  <2>2. /\ Len(queue) \in Nat /\ DOMAIN queue = 1 .. Len(queue)
        /\ DOMAIN queue' = 1 .. Len(queue) + 1
        /\ queue'[Len(queue) + 1] = a /\ \A i \in DOMAIN queue : queue'[i] = queue[i]
    BY <1>0, <1>3, AppendProperties
  <2>3. \A b \in Actors : at'[b] \in {"hold", "starting"} <=> holder' = b
    BY <1>0, <1>1, <1>3, <2>1 DEF LockIsPassedOn
  <2>4. \A i \in DOMAIN queue : queue[i] \in Actors /\ queue[i] # a
    BY <1>0 DEF LockIsPassedOn
  <2>5. \A b \in Actors : at'[b] = "wait" <=> \E i \in DOMAIN queue' : queue'[i] = b
    <3>1. \A b \in Actors \ {a} : at[b] = "wait" <=> \E i \in DOMAIN queue : queue[i] = b
      BY DEF LockIsPassedOn
    <3>2. \A i : i \in DOMAIN queue' <=> i \in DOMAIN queue \/ i = Len(queue) + 1
      BY <2>2
    <3> QED BY <1>1, <2>1, <2>2, <3>1, <3>2
  <2>6. \A i, j \in DOMAIN queue' : queue'[i] = queue'[j] => i = j
    <3>1. \A i, j \in DOMAIN queue : queue[i] = queue[j] => i = j
      BY DEF LockIsPassedOn
    <3>2. \A i : i \in DOMAIN queue' <=> i \in DOMAIN queue \/ i = Len(queue) + 1
      BY <2>2
    <3> QED BY <2>2, <2>4, <3>1, <3>2
  <2>7. queue' # <<>>
    BY <2>2, EmptySeq
  <2>8. CASE queue = <<>>
    <3>1. called = {} /\ holder # Nobody
      BY <1>3, <2>8 DEF LockIsPassedOn, Free
    <3> QED BY <1>3, <2>3, <2>5, <2>6, <2>7, <3>1 DEF LockIsPassedOn
  <2>9. CASE queue # <<>>
    <3>1. Head(queue') = Head(queue)
      <4>1. 1 \in DOMAIN queue /\ Head(queue) = queue[1]
        BY <1>0, <2>9, FirstInQueue
      <4>2. queue' \in Seq(Actors)
        BY <1>0, <1>3, AppendProperties
      <4>3. Head(queue') = queue'[1]
        BY <4>2, <2>7, HeadTailProperties
      <4> QED BY <2>2, <4>1, <4>3
    <3> QED BY <1>3, <2>3, <2>5, <2>6, <2>7, <2>9, <3>1 DEF LockIsPassedOn
  <2> QED BY <2>8, <2>9
<1>4. CASE /\ at' = [at EXCEPT ![a] = IF a \in Calls THEN "unpooled" ELSE "over"]
           /\ UNCHANGED lockVars
  <2>1. at'[a] \in {"unpooled", "over"}
    BY <1>0, <1>4
  <2> QED BY <1>0, <1>1, <1>4, <2>1, LockStays DEF lockVars
<1> QED BY <1>2, <1>3, <1>4 DEF TakeLock, Goto

\* The first of the queue gets the lock, and the others move up.
LEMMA LockIsGot ==
  ASSUME PoolInv, LockIsPassedOn, NEW a \in Actors, GetLock(a)
  PROVE  LockIsPassedOn'
<1>0. /\ at \in [Actors -> Places] /\ Nobody \notin Actors /\ at[a] = "wait" /\ a \in called
      /\ queue \in Seq(Actors) /\ holder = Nobody /\ holder' = a /\ called' = called \ {a}
  BY PoolAssumption DEF PoolAssumption, PoolInv, StarterHolds, GetLock
<1>1. at'[a] = "hold" /\ \A b \in Actors \ {a} : at'[b] = at[b]
  BY <1>0 DEF GetLock, Goto
<1>2. queue # <<>> /\ a = Head(queue) /\ called = {a}
  BY <1>0 DEF LockIsPassedOn
<1>3. Len(queue) \in Nat \ {0} /\ DOMAIN queue = 1 .. Len(queue) /\ queue[1] = a
  BY <1>0, <1>2, FirstInQueue
<1>4. \A i, j \in DOMAIN queue : queue[i] = queue[j] => i = j
  BY DEF LockIsPassedOn
<1>5. queue' = SubSeq(queue, 1, 0) \o SubSeq(queue, 2, Len(queue))
  <2>1. PICK i \in DOMAIN queue :
           /\ queue[i] = a
           /\ queue' = SubSeq(queue, 1, i - 1) \o SubSeq(queue, i + 1, Len(queue))
    BY DEF GetLock
  <2>2. i = 1
    <3>1. 1 \in DOMAIN queue /\ queue[i] = queue[1]
      BY <1>3, <2>1
    <3> QED BY <1>4, <3>1
  <2> QED BY <2>1, <2>2
<1>6. /\ DOMAIN queue' = 1 .. Len(queue) - 1
      /\ \A i \in 1 .. Len(queue) - 1 : queue'[i] = queue[i + 1]
  <2>1. SubSeq(queue, 1, 0) \in Seq(Actors) /\ Len(SubSeq(queue, 1, 0)) = 0
    BY <1>0, <1>3, SubSeqProperties
  <2>2. /\ SubSeq(queue, 2, Len(queue)) \in Seq(Actors)
        /\ Len(SubSeq(queue, 2, Len(queue))) = Len(queue) - 1
        /\ \A i \in 1 .. Len(queue) - 1 : SubSeq(queue, 2, Len(queue))[i] = queue[i + 1]
    BY <1>0, <1>3, SubSeqProperties
  <2> QED BY <1>3, <1>5, <2>1, <2>2, ConcatProperties
<1>7. \A b \in Actors : at'[b] \in {"hold", "starting"} <=> holder' = b
  BY <1>0, <1>1 DEF LockIsPassedOn
<1>8. \A b \in Actors : at'[b] = "wait" <=> \E i \in DOMAIN queue' : queue'[i] = b
  <2>1. \A b \in Actors : at[b] = "wait" <=> \E i \in DOMAIN queue : queue[i] = b
    BY DEF LockIsPassedOn
  <2>2. ASSUME NEW i \in DOMAIN queue' PROVE queue'[i] # a
    <3>1. i + 1 \in DOMAIN queue /\ 1 \in DOMAIN queue /\ i + 1 # 1 /\ queue'[i] = queue[i + 1]
      BY <1>3, <1>6
    <3> QED BY <1>3, <1>4, <3>1
  <2>3. ASSUME NEW b \in Actors \ {a}, NEW i \in DOMAIN queue, queue[i] = b
        PROVE  \E j \in DOMAIN queue' : queue'[j] = b
    <3>1. i # 1
      BY <1>3, <2>3
    <3>2. i - 1 \in 1 .. Len(queue) - 1 /\ (i - 1) + 1 = i
      BY <1>3, <3>1
    <3> QED BY <1>6, <2>3, <3>2
  <2>4. ASSUME NEW b \in Actors \ {a}, NEW j \in DOMAIN queue', queue'[j] = b
        PROVE  \E i \in DOMAIN queue : queue[i] = b
    BY <1>3, <1>6, <2>4
  <2> QED BY <1>1, <2>1, <2>2, <2>3, <2>4
<1>9. \A i, j \in DOMAIN queue' : queue'[i] = queue'[j] => i = j
  <2> SUFFICES ASSUME NEW i \in DOMAIN queue', NEW j \in DOMAIN queue', queue'[i] = queue'[j]
               PROVE  i = j
    OBVIOUS
  <2>1. /\ i + 1 \in DOMAIN queue /\ j + 1 \in DOMAIN queue /\ i \in Int /\ j \in Int
        /\ queue[i + 1] = queue[j + 1]
    BY <1>3, <1>6
  <2>2. i + 1 = j + 1
    BY <1>4, <2>1
  <2> QED BY <2>1, <2>2
<1> QED BY <1>0, <1>2, <1>7, <1>8, <1>9 DEF LockIsPassedOn

\* Every step of the pool passes the lock on.
LEMMA LockKept == PoolInv /\ LockIsPassedOn /\ PoolNext => LockIsPassedOn'
<1> USE DEF poolVars, lockVars, callVars
<1> SUFFICES ASSUME PoolInv, LockIsPassedOn, PoolNext PROVE LockIsPassedOn'
  OBVIOUS
<1>0. Calls \subseteq Actors /\ Tasks \subseteq Actors /\ at \in [Actors -> Places]
  BY DEF Actors, PoolInv, StarterHolds
<1>1. ASSUME CacheExpires \/ Exit PROVE LockIsPassedOn'
  BY <1>1, LockStays DEF CacheExpires, Exit
<1>2. ASSUME NEW c \in Calls,
             Call(c) \/ Unpooled(c) \/ NoOpenHands(c) \/ RunOpenHands(c) \/ RunLocal(c)
               \/ RunInSandbox(c) \/ Ends(c) \/ TimesOut(c) \/ CodeEnds(c) \/ FallBack(c)
      PROVE  LockIsPassedOn'
  <2>1. /\ UNCHANGED <<holder, queue, called>>
        /\ at[c] \notin LockPlaces /\ at'[c] \notin LockPlaces
        /\ \A a \in Actors \ {c} : at'[a] = at[a]
    BY <1>0, <1>2, PoolAssumption
       DEF Call, Unpooled, NoOpenHands, RunOpenHands, RunLocal, RunInSandbox, Ends,
           TimesOut, CodeEnds, FallBack, LockPlaces, PoolAssumption, Goto
  <2>2. \A a \in Actors : at'[a] = at[a] \/ (at[a] \notin LockPlaces /\ at'[a] \notin LockPlaces)
    BY <2>1
  <2> QED BY <2>1, <2>2, LockStays DEF LockPlaces
<1>3. ASSUME NEW c \in Calls, Found(c) \/ StartPooled(c) PROVE LockIsPassedOn'
  BY <1>0, <1>3, LockIsPassed DEF Found, StartPooled, LockPlaces
<1>4. ASSUME NEW c \in Calls, CheckDocker(c) PROVE LockIsPassedOn'
  <2>1. CASE known' = "up" /\ Goto(c, "starting") /\ UNCHANGED lockVars
    <3>1. at[c] = "hold"
      BY <1>4 DEF CheckDocker
    <3> QED BY <1>0, <2>1, <3>1, LockStays DEF Goto
  <2>2. CASE Goto(c, "unpooled") /\ Unlock(c)
    BY <1>0, <1>4, <2>2, LockIsPassed DEF CheckDocker, LockPlaces
  <2> QED BY <1>4, <2>1, <2>2 DEF CheckDocker
<1>5. ASSUME NEW t \in Tasks, Release(t) PROVE LockIsPassedOn'
  BY <1>0, <1>5, LockIsPassed DEF Release, LockPlaces
<1>6. ASSUME NEW t \in Tasks, TaskEnds(t) PROVE LockIsPassedOn'
  BY <1>0, <1>6, LockStays DEF TaskEnds, Goto
<1> QED
  <2>1. \A a \in Actors : Release(a) => a \in Tasks
    BY DEF Release
  <2> QED BY <1>1, <1>2, <1>3, <1>4, <1>5, <1>6, LockIsTaken, LockIsGot, <2>1
          DEF PoolNext, CallStep, LockStep

-----------------------------------------------------------------------------
(* Crews that share a manager.                                               *)

Holders == {w \in Wrappers : holds[w]}

\* The registry counts those who hold the tools, and nobody holds them before it took them.
HoldersCounted ==
  /\ registry.count = Cardinality(Holders)
  /\ \A w \in Wrappers : place[w] \in {"idle", "build", "clear"} => ~holds[w]

CrewInv == Crews!ToolsTypeOK /\ HoldersCounted /\ Crews!ManagerKeepsTools

\* The instance counts as this module does.
LEMMA CrewsCount == \A S : Crews!Cardinality(S) = Cardinality(S)
BY DEF Crews!Cardinality, Cardinality

\* There are finitely many wrappers, so their holders can be counted.
LEMMA WrappersFinite == IsFiniteSet(Wrappers) /\ IsFiniteSet(Holders)
<1>1. IsFiniteSet(Wrappers)
  BY ExecutionAssumption DEF ExecutionAssumption, Crews!CrewToolsAssumption,
                             Crews!IsFiniteSet, IsFiniteSet
<1> QED BY <1>1, FS_Subset DEF Holders

\* Nobody holds the tools at the start.
LEMMA CrewsBegin == Crews!ToolsInit => CrewInv
<1> SUFFICES ASSUME Crews!ToolsInit PROVE CrewInv
  OBVIOUS
<1> USE DEF Crews!ToolsInit, Crews!NoEntry
<1>1. Holders = {} /\ Cardinality(Holders) = 0
  BY FS_EmptySet DEF Holders
<1>2. Cardinality(Wrappers) \in Nat
  BY WrappersFinite, FS_CardinalityType
<1>3. Crews!ToolsTypeOK
  BY <1>2, CrewsCount DEF Crews!ToolsTypeOK
<1> QED BY <1>1, <1>3 DEF CrewInv, HoldersCounted, Crews!ManagerKeepsTools

\* The first wrapper takes the tools away, the last gives them back, and the others count.
LEMMA CrewsStep == CrewInv /\ Crews!ToolsNext => CrewInv'
<1> SUFFICES ASSUME CrewInv, NEW w \in Wrappers,
                    \/ Crews!Begin(w)
                    \/ \E ok \in BOOLEAN :
                         Crews!CreateTasks(w, ok) \/ Crews!CreateCrew(w, ok) \/ Crews!Kickoff(w, ok)
                    \/ Crews!ClearTools(w)
                    \/ Crews!RestoreTools(w)
                    \/ Crews!FailTask(w)
                    \/ Crews!CompleteTask(w)
                    \/ Crews!CancelTask(w)
             PROVE CrewInv'
  BY DEF Crews!ToolsNext
<1> USE DEF CrewInv
<1>0. /\ Cardinality(Wrappers) \in Nat /\ Cardinality(Holders) \in Nat
      /\ \A n \in Nat : n <= Cardinality(Wrappers) => n \in 0 .. Cardinality(Wrappers)
  BY WrappersFinite, FS_CardinalityType
<1>1. CASE Crews!ClearTools(w)
  <2> USE <1>1 DEF Crews!ClearTools, Crews!Goes, Crews!NoEntry
  <2>1. w \notin Holders /\ Holders' = Holders \cup {w} /\ Holders' \subseteq Wrappers
    BY DEF Holders, HoldersCounted, Crews!ToolsTypeOK
  <2>2. /\ Cardinality(Holders') = Cardinality(Holders) + 1
        /\ Cardinality(Holders') <= Cardinality(Wrappers)
    BY <2>1, WrappersFinite, FS_AddElement, FS_Subset
  <2>3. /\ registry'.count = Cardinality(Holders') /\ registry'.saved = "own"
        /\ registry' = [count |-> registry'.count, saved |-> registry'.saved]
        /\ manager' = "none"
    <3>1. CASE registry = Crews!NoEntry
      <4>1. manager = "own"
        BY <3>1 DEF Crews!ManagerKeepsTools
      <4> QED BY <3>1, <4>1, <2>2 DEF HoldersCounted
    <3>2. CASE registry # Crews!NoEntry
      <4>1. manager = "none" /\ registry.saved = "own"
        BY <3>2 DEF Crews!ManagerKeepsTools
      <4> QED BY <3>2, <4>1, <2>2 DEF HoldersCounted, Crews!ToolsTypeOK
    <3> QED BY <3>1, <3>2
  <2>4. Crews!ToolsTypeOK'
    BY <2>2, <2>3, <1>0, CrewsCount DEF Crews!ToolsTypeOK
  <2>5. HoldersCounted' /\ Crews!ManagerKeepsTools'
    BY <2>3 DEF HoldersCounted, Crews!ToolsTypeOK, Crews!ManagerKeepsTools
  <2> QED BY <2>4, <2>5
<1>2. CASE Crews!RestoreTools(w) /\ holds[w]
  <2> USE <1>2 DEF Crews!RestoreTools, Crews!Goes, Crews!NoEntry
  <2>0. registry.count = Cardinality(Holders)
    BY DEF HoldersCounted
  <2>1. w \in Holders /\ Holders' = Holders \ {w} /\ Holders' \subseteq Wrappers
    BY DEF Holders, Crews!ToolsTypeOK
  <2>2. /\ Cardinality(Holders') = Cardinality(Holders) - 1
        /\ Cardinality(Holders') \in Nat
        /\ Cardinality(Holders) <= Cardinality(Wrappers)
        /\ (Cardinality(Holders') = 0 <=> Holders' = {})
    BY <2>1, <1>0, WrappersFinite, FS_RemoveElement, FS_Subset, FS_EmptySet, FS_CardinalityType
  <2>3. manager = "none" /\ registry.saved = "own" /\ registry # Crews!NoEntry
    BY DEF Crews!ManagerKeepsTools
  <2>4. /\ registry'.count = Cardinality(Holders')
        /\ registry' = [count |-> registry'.count, saved |-> registry'.saved]
        /\ IF Holders' = {} THEN manager' = "own" /\ registry' = Crews!NoEntry
                            ELSE manager' = "none" /\ registry'.saved = "own"
    <3>1. CASE registry.count = 1
      <4>1. manager' = registry.saved /\ registry' = Crews!NoEntry
        BY <3>1, <2>3
      <4>2. Cardinality(Holders') = 0
        BY ONLY <3>1, <2>0, <2>2
      <4> QED BY <4>1, <4>2, <2>2, <2>3
    <3>2. CASE registry.count # 1
      BY <3>2, <2>2, <2>3, <1>0 DEF HoldersCounted, Crews!ToolsTypeOK
    <3> QED BY <3>1, <3>2
  <2>5. Crews!ToolsTypeOK'
    BY <2>2, <2>4, <1>0, CrewsCount DEF Crews!ToolsTypeOK
  <2>6. HoldersCounted'
    BY <2>4 DEF HoldersCounted, Crews!ToolsTypeOK
  <2>7. Crews!ManagerKeepsTools'
    BY <2>4 DEF Holders, Crews!ManagerKeepsTools
  <2> QED BY <2>5, <2>6, <2>7
<1>3. CASE /\ ~Crews!ClearTools(w) /\ ~(Crews!RestoreTools(w) /\ holds[w])
  <2> USE <1>3 DEF Crews!Begin, Crews!CreateTasks, Crews!CreateCrew, Crews!Kickoff, Crews!RestoreTools,
                   Crews!FailTask, Crews!CompleteTask, Crews!CancelTask, Crews!Goes
  <2>1. holds' = holds /\ manager' = manager /\ registry' = registry
    <3>1. CASE Crews!RestoreTools(w)
      <4>1. ~holds[w] /\ holds' = [holds EXCEPT ![w] = FALSE]
        BY <3>1
      <4>2. holds \in [Wrappers -> BOOLEAN]
        BY DEF Crews!ToolsTypeOK
      <4>3. holds' = holds
        BY <4>1, <4>2
      <4> QED BY <3>1, <4>1, <4>3
    <3>2. CASE ~Crews!RestoreTools(w)
      BY <3>2
    <3> QED BY <3>1, <3>2
  <2>2. Crews!ToolsTypeOK'
    BY <2>1 DEF Crews!ToolsTypeOK, Crews!Status
  <2>3. HoldersCounted'
    BY <2>1 DEF HoldersCounted, Holders, Crews!ToolsTypeOK
  <2>4. Crews!ManagerKeepsTools'
    BY <2>1 DEF Crews!ManagerKeepsTools
  <2> QED BY <2>2, <2>3, <2>4
<1> QED BY <1>1, <1>2, <1>3

-----------------------------------------------------------------------------
(* The run of an agent.                                                      *)

Pending == IF phase = "tools" THEN left ELSE 0

\* Each call has its reply, or is among those still pending, which come last; so what
\* compaction keeps, an end of the conversation, has the replies of its calls.
RepliesFollow ==
  /\ Len(messages) >= 1 /\ messages[1].calls = 0
  /\ phase = "tools" => left >= 1
  /\ \A i \in 1 .. Len(messages) : \A k \in 1 .. messages[i].calls :
       /\ i + k <= Len(messages) + Pending
       /\ i + k <= Len(messages) => messages[i + k].role = "tool"

LoopInv == Loop!LoopTypeOK /\ RepliesFollow

MessageType == [role : {"system", "user", "assistant", "tool"}, calls : 0 .. MaxToolCalls, size : Nat]

\* The bounds of a run are numbers.
LEMMA LoopNumbers ==
  /\ MaxIterations \in Nat \ {0} /\ MaxToolCalls \in Nat \ {0} /\ SummarySize \in Nat \ {0}
  /\ ReplySizes \subseteq Nat \ {0}
BY ExecutionAssumption DEF ExecutionAssumption, Loop!AgentLoopAssumption

\* The first messages ask for no tool.
LEMMA LoopBegins == Loop!LoopInit => LoopInv
<1> SUFFICES ASSUME Loop!LoopInit PROVE LoopInv
  OBVIOUS
<1> USE LoopNumbers DEF Loop!LoopInit, Loop!Message
<1>1. /\ messages \in Seq(MessageType) /\ Len(messages) = 2
      /\ messages[1].calls = 0 /\ messages[2].calls = 0
  BY DEF MessageType
<1> QED BY <1>1 DEF LoopInv, Loop!LoopTypeOK, RepliesFollow, Pending, MessageType

\* Compaction keeps the first message and an end of the others, after a summary.
LEMMA CompactedAnswers ==
  ASSUME LoopInv, phase = "ask"
  PROVE  LET ms == Loop!Compacted(messages)
         IN  /\ ms \in Seq(MessageType) /\ Len(ms) >= 1 /\ ms[1].calls = 0
             /\ \A i \in 1 .. Len(ms) : \A k \in 1 .. ms[i].calls :
                  i + k <= Len(ms) /\ ms[i + k].role = "tool"
<1> DEFINE n == Len(messages)
           ms == Loop!Compacted(messages)
<1> USE LoopNumbers
<1>1. /\ messages \in Seq(MessageType) /\ n \in Nat /\ n >= 1 /\ messages[1].calls = 0
      /\ \A i \in 1 .. n : messages[i] \in MessageType
      /\ \A i \in 1 .. n : \A k \in 1 .. messages[i].calls :
           i + k <= n /\ messages[i + k].role = "tool"
  <2>1. messages \in Seq(MessageType)
    BY DEF LoopInv, Loop!LoopTypeOK, MessageType
  <2>2. n \in Nat /\ \A i \in 1 .. n : messages[i] \in MessageType
    BY <2>1
  <2>3. Pending = 0
    BY DEF Pending
  <2>4. /\ n >= 1 /\ messages[1].calls = 0
        /\ \A i \in 1 .. n : \A k \in 1 .. messages[i].calls :
             /\ i + k <= n + Pending
             /\ i + k <= n => messages[i + k].role = "tool"
    BY DEF LoopInv, RepliesFollow
  <2> QED BY <2>1, <2>2, <2>3, <2>4
<1>2. CASE n <= 6
  <2>1. ms = messages
    BY <1>2 DEF Loop!Compacted
  <2> QED BY <1>1, <2>1
<1>3. CASE n > 6
  <2> DEFINE start == <<Head(messages), [role |-> "system", calls |-> 0, size |-> SummarySize]>>
             end   == SubSeq(messages, n - 3, n)
  <2>1. ms = start \o end
    BY <1>1, <1>3 DEF Loop!Compacted, Loop!Message
  <2>2. start \in Seq(MessageType) /\ Len(start) = 2 /\ start[1].calls = 0 /\ start[2].calls = 0
    BY <1>1, <1>3 DEF MessageType
  <2>3. end \in Seq(MessageType) /\ Len(end) = 4 /\ \A i \in 1 .. 4 : end[i] = messages[n - 4 + i]
    BY <1>1, <1>3
  <2> HIDE DEF start, end
  <2>4. /\ ms \in Seq(MessageType) /\ Len(ms) = 6
        /\ ms[1] = start[1] /\ ms[2] = start[2]
        /\ \A i \in 3 .. 6 : ms[i] = messages[n - 6 + i]
    <3>1. /\ ms \in Seq(MessageType) /\ Len(ms) = 6
          /\ \A i \in 1 .. 6 : ms[i] = IF i <= 2 THEN start[i] ELSE end[i - 2]
      <4>1. /\ start \o end \in Seq(MessageType) /\ Len(start \o end) = 6
            /\ \A i \in 1 .. 6 : (start \o end)[i] = IF i <= 2 THEN start[i] ELSE end[i - 2]
        <5>1. ASSUME NEW s \in Seq(MessageType), NEW t \in Seq(MessageType), Len(s) = 2, Len(t) = 4
              PROVE  /\ s \o t \in Seq(MessageType) /\ Len(s \o t) = 6
                     /\ \A i \in 1 .. 6 : (s \o t)[i] = IF i <= 2 THEN s[i] ELSE t[i - 2]
          <6>1. s \o t \in Seq(MessageType) /\ Len(s \o t) = Len(s) + Len(t)
            BY ONLY s \in Seq(MessageType), t \in Seq(MessageType), ConcatProperties
          <6>2. \A i \in 1 .. Len(s) + Len(t) :
                  (s \o t)[i] = IF i <= Len(s) THEN s[i] ELSE t[i - Len(s)]
            BY ONLY s \in Seq(MessageType), t \in Seq(MessageType), ConcatProperties
          <6> QED BY ONLY <5>1, <6>1, <6>2
        <5> QED BY ONLY <5>1, <2>2, <2>3
      <4> HIDE DEF ms
      <4> QED BY <2>1, <4>1
    <3>2. \A i \in 3 .. 6 : i - 2 \in 1 .. 4 /\ n - 4 + (i - 2) = n - 6 + i /\ ~(i <= 2)
      BY <1>1
    <3> HIDE DEF ms
    <3> QED BY <2>3, <3>1, <3>2
  <2>5. ASSUME NEW i \in 1 .. 6, NEW k \in 1 .. ms[i].calls
        PROVE  i + k <= 6 /\ ms[i + k].role = "tool"
    <3>1. i \in 3 .. 6
      BY <2>2, <2>4
    <3>2. ms[i] = messages[n - 6 + i] /\ n - 6 + i \in 1 .. n
      <4>1. ms[i] = messages[n - 6 + i]
        BY <3>1, <2>4
      <4>2. n \in Nat /\ n > 6
        BY <1>1, <1>3
      <4>3. n - 6 + i \in 1 .. n
        BY ONLY <3>1, <4>2
      <4> QED BY <4>1, <4>3
    <3>3. (n - 6 + i) + k <= n /\ messages[(n - 6 + i) + k].role = "tool"
      BY <3>2, <1>1
    <3>4. ms[i].calls \in Nat
      <4>1. messages[n - 6 + i] \in MessageType
        BY <3>2, <1>1
      <4> QED BY <3>2, <4>1 DEF MessageType
    <3>5. i + k \in 3 .. 6
      BY <3>1, <3>3, <3>4, <1>1
    <3>6. ms[i + k] = messages[n - 6 + (i + k)] /\ n - 6 + (i + k) = (n - 6 + i) + k
      <4>1. ms[i + k] = messages[n - 6 + (i + k)]
        BY <3>5, <2>4
      <4>2. k \in Nat /\ i \in Nat
        BY <3>1, <3>4
      <4>3. n - 6 + (i + k) = (n - 6 + i) + k
        BY <4>2, <1>1
      <4> QED BY <4>1, <4>3
    <3> QED BY <3>3, <3>5, <3>6
  <2> QED BY <2>2, <2>4, <2>5
<1> QED BY <1>1, <1>2, <1>3

\* Every step of a run keeps calls and replies together.
LEMMA LoopStep == LoopInv /\ Loop!LoopNext => LoopInv'
<1> SUFFICES ASSUME LoopInv, Loop!LoopNext PROVE LoopInv'
  OBVIOUS
<1> USE LoopNumbers
<1>0. /\ messages \in Seq(MessageType) /\ Len(messages) \in Nat
      /\ \A i \in 1 .. Len(messages) : messages[i] \in MessageType
  <2>1. messages \in Seq(MessageType)
    BY DEF LoopInv, Loop!LoopTypeOK, MessageType
  <2> QED BY <2>1
<1>1. CASE Loop!Ask
  <2> DEFINE ms == Loop!Compacted(messages)
  <2>1. messages' = ms \/ messages' = messages
    BY <1>1 DEF Loop!Ask
  <2>2. /\ messages' \in Seq(MessageType) /\ Len(messages') >= 1 /\ messages'[1].calls = 0
        /\ \A i \in 1 .. Len(messages') : \A k \in 1 .. messages'[i].calls :
             i + k <= Len(messages') /\ messages'[i + k].role = "tool"
    <3>1. CASE messages' = ms
      BY <1>1, <3>1, CompactedAnswers DEF Loop!Ask
    <3>2. CASE messages' = messages
      <4>1. Pending = 0
        BY <1>1 DEF Pending, Loop!Ask
      <4> QED BY <1>0, <3>2, <4>1 DEF LoopInv, RepliesFollow, MessageType
    <3> QED BY <2>1, <3>1, <3>2
  <2>3. Loop!LoopTypeOK'
    BY <1>1, <2>2 DEF Loop!Ask, LoopInv, Loop!LoopTypeOK, MessageType
  <2>4. RepliesFollow'
    BY <1>1, <2>2 DEF Loop!Ask, RepliesFollow, Pending
  <2> QED BY <2>3, <2>4 DEF LoopInv
<1>2. CASE Loop!LLMFails \/ Loop!FinalAnswer \/ Loop!OutOfIterations
  BY <1>2 DEF Loop!LLMFails, Loop!FinalAnswer, Loop!OutOfIterations, LoopInv, Loop!LoopTypeOK,
              RepliesFollow, Pending
<1>3. ASSUME NEW n \in 1 .. MaxToolCalls, Loop!CallTools(n) PROVE LoopInv'
  <2> DEFINE m == [role |-> "assistant", calls |-> n, size |-> 1]
  <2>1. /\ messages' = Append(messages, m) /\ phase = "wait" /\ phase' = "tools" /\ left' = n
        /\ UNCHANGED <<iteration, outcome>>
    BY <1>3 DEF Loop!CallTools, Loop!Message
  <2>2. m \in MessageType /\ m.calls = n
    BY DEF MessageType
  <2> HIDE DEF m
  <2>3. /\ messages' \in Seq(MessageType) /\ Len(messages') = Len(messages) + 1
        /\ messages'[Len(messages) + 1] = m
        /\ \A i \in 1 .. Len(messages) : messages'[i] = messages[i]
    BY <1>0, <2>1, <2>2
  <2>4. Loop!LoopTypeOK'
    BY <2>1, <2>3 DEF LoopInv, Loop!LoopTypeOK, MessageType
  <2>5. RepliesFollow'
    <3>1. Pending = 0 /\ Pending' = n
      BY <2>1 DEF Pending
    <3> QED BY SMTT(30), <1>0, <2>1, <2>2, <2>3, <3>1 DEF LoopInv, RepliesFollow, MessageType
  <2> QED BY <2>4, <2>5 DEF LoopInv
<1>4. ASSUME NEW s \in ReplySizes, Loop!ToolReplies(s) PROVE LoopInv'
  <2> DEFINE m == [role |-> "tool", calls |-> 0, size |-> s]
  <2>1. /\ messages' = Append(messages, m) /\ phase = "tools" /\ left' = left - 1
        /\ phase' = IF left = 1 THEN "ask" ELSE "tools"
        /\ UNCHANGED <<iteration, outcome>>
    BY <1>4 DEF Loop!ToolReplies, Loop!Message
  <2>2. m \in MessageType /\ m.calls = 0 /\ m.role = "tool"
    BY DEF MessageType
  <2> HIDE DEF m
  <2>3. /\ messages' \in Seq(MessageType) /\ Len(messages') = Len(messages) + 1
        /\ messages'[Len(messages) + 1] = m
        /\ \A i \in 1 .. Len(messages) : messages'[i] = messages[i]
    BY <1>0, <2>1, <2>2
  <2>4. left \in 1 .. MaxToolCalls
    BY <2>1 DEF LoopInv, Loop!LoopTypeOK, RepliesFollow
  <2>5. Loop!LoopTypeOK'
    BY <2>1, <2>3, <2>4 DEF LoopInv, Loop!LoopTypeOK, MessageType
  <2>6. RepliesFollow'
    <3>1. Pending = left /\ Pending' = left - 1
      BY <2>1, <2>4 DEF Pending
    <3>2. Len(messages') >= 1 /\ messages'[1].calls = 0 /\ (phase' = "tools" => left' >= 1)
      BY <1>0, <2>1, <2>3, <2>4 DEF LoopInv, RepliesFollow
    <3>3. ASSUME NEW i \in 1 .. Len(messages'), NEW k \in 1 .. messages'[i].calls
          PROVE  /\ i + k <= Len(messages') + Pending'
                 /\ i + k <= Len(messages') => messages'[i + k].role = "tool"
      <4>1. i \in 1 .. Len(messages) /\ messages'[i] = messages[i]
        BY <1>0, <2>2, <2>3
      <4>2. messages[i].calls \in Nat /\ k \in Nat
        BY <1>0, <4>1 DEF MessageType
      <4>3. /\ i + k <= Len(messages) + left
            /\ i + k <= Len(messages) => messages[i + k].role = "tool"
        BY <3>1, <4>1 DEF LoopInv, RepliesFollow
      <4>4. i + k \in 1 .. Len(messages) \/ i + k = Len(messages) + 1 \/ i + k > Len(messages')
        BY <1>0, <4>1, <4>2, <2>3
      <4> QED BY <1>0, <2>2, <2>3, <2>4, <3>1, <4>2, <4>3, <4>4
    <3> QED BY <3>2, <3>3 DEF RepliesFollow
  <2> QED BY <2>5, <2>6 DEF LoopInv
<1> QED BY <1>1, <1>2, <1>3, <1>4 DEF Loop!LoopNext

-----------------------------------------------------------------------------
(* The coordinator and its workers.                                          *)

Refining == pc \in {"plan", "work", "aggregate"}

\* Another round begins only after a text that could be better, with rounds left.
RoundsGoOn ==
  /\ pc \in {"receive", "crew"} => answers = <<>>
  /\ pc = "crew" => backend = "crewai"
  /\ Refining => Len(answers) < MaxLocalRounds
  /\ pc \in {"receive", "crew", "plan", "work"} => DOMAIN results = {}
  /\ pc = "judge" => Len(answers) >= 1
  /\ pc \notin {"judge", "ml", "settle", "ended"} => stagnated = 0
  /\ pc = "judge" /\ stagnated = 1 =>
       Len(answers) > 1 /\ answers[Len(answers)] = answers[Len(answers) - 1]

\* A report comes at the end, and a remote task is not settled before.
ReportedAtEnd ==
  /\ report \in [status : {"none", "success", "error", "raised"}, text : Run!Texts]
  /\ pc \notin {"ml", "settle", "ended"} => report.status = "none"
  /\ pc \in {"ml", "settle"} => calledBy = "remote" /\ report.status \in {"success", "error"}
  /\ calledBy = "remote" /\ pc # "ended" => status = "running"

RunInv == Run!RunTypeOK /\ RoundsGoOn /\ ReportedAtEnd /\ Run!LocalOutcomeJustified

\* What is known of a coordinator holds at the start of its execution.
LEMMA RunBegins == Run!RunInit => RunInv
<1> SUFFICES ASSUME Run!RunInit PROVE RunInv
  OBVIOUS
<1> USE ExecutionAssumption DEF ExecutionAssumption, Run!CoordinatorRunAssumption, Run!RunInit,
        Run!NoReport, Run!Texts
<1>1. Run!RunTypeOK
  BY DEF Run!RunTypeOK, Run!Range, Run!Status
<1>2. RoundsGoOn /\ ReportedAtEnd
  BY DEF RoundsGoOn, ReportedAtEnd, Refining
<1>3. Run!LocalOutcomeJustified
  BY DEF Run!LocalOutcomeJustified
<1> QED BY <1>1, <1>2, <1>3 DEF RunInv

\* Every step of the coordinator keeps it.
LEMMA RunStep == RunInv /\ Run!RunNext => RunInv'
<1> SUFFICES ASSUME RunInv, Run!RunNext PROVE RunInv'
  OBVIOUS
<1> USE DEF RunInv
<1>0. /\ MaxLocalRounds \in Nat \ {0} /\ answers \in Seq(Run!Texts) /\ Len(answers) \in Nat
      /\ Len(answers) <= MaxLocalRounds /\ {"empty", "poor", "other"} \subseteq Run!Texts
  BY ExecutionAssumption DEF ExecutionAssumption, Run!CoordinatorRunAssumption, Run!RunTypeOK,
     Run!Texts
<1> USE DEF Run!Finishable, Run!Settled, Run!Report
<1>1. ASSUME NEW online \in SUBSET Run!Range(Workers), Run!Receive(online) PROVE RunInv'
  <2> USE <1>1, <1>0 DEF Run!Receive, Run!Fails, Run!HasAdapter
  <2>1. Run!RunTypeOK'
    BY DEF Run!RunTypeOK, Run!Status
  <2>2. RoundsGoOn'
    BY DEF RoundsGoOn, Refining, Run!RunTypeOK
  <2>3. ReportedAtEnd'
    BY DEF ReportedAtEnd, Run!RunTypeOK
  <2>4. Run!LocalOutcomeJustified'
    BY DEF Run!LocalOutcomeJustified, ReportedAtEnd, Run!RunTypeOK
  <2> QED BY <2>1, <2>2, <2>3, <2>4
<1>2. CASE Run!NoCoordinator
  <2> USE <1>2, <1>0 DEF Run!NoCoordinator, Run!Fails
  <2>1. Run!RunTypeOK'
    BY DEF Run!RunTypeOK, Run!Status
  <2>2. RoundsGoOn'
    BY DEF RoundsGoOn, Refining, Run!RunTypeOK
  <2>3. ReportedAtEnd'
    BY DEF ReportedAtEnd, Run!RunTypeOK
  <2>4. Run!LocalOutcomeJustified'
    BY DEF Run!LocalOutcomeJustified, ReportedAtEnd, Run!RunTypeOK
  <2> QED BY <2>1, <2>2, <2>3, <2>4
<1>3. ASSUME NEW s \in {"success", "error"}, NEW t \in Run!Texts, Run!CrewEnds(s, t) PROVE RunInv'
  <2> USE <1>3, <1>0 DEF Run!CrewEnds, Run!Ends
  <2>1. Run!RunTypeOK'
    BY DEF Run!RunTypeOK
  <2>2. RoundsGoOn'
    BY DEF RoundsGoOn, Refining
  <2>3. ReportedAtEnd'
    BY DEF ReportedAtEnd, Run!RunTypeOK
  <2>4. Run!LocalOutcomeJustified'
    BY DEF Run!LocalOutcomeJustified, ReportedAtEnd, RoundsGoOn, Run!RunTypeOK
  <2> QED BY <2>1, <2>2, <2>3, <2>4
<1>4. CASE Run!CrewMissing
  <2> USE <1>4, <1>0 DEF Run!CrewMissing
  <2>1. Run!RunTypeOK'
    BY DEF Run!RunTypeOK
  <2>2. RoundsGoOn' /\ ReportedAtEnd'
    BY DEF RoundsGoOn, ReportedAtEnd, Refining
  <2>4. Run!LocalOutcomeJustified'
    BY DEF Run!LocalOutcomeJustified, ReportedAtEnd
  <2> QED BY <2>1, <2>2, <2>4
<1>5. ASSUME NEW a \in Assignments \cup {{}}, Run!Plan(a) PROVE RunInv'
  <2> USE <1>5, <1>0 DEF Run!Plan
  <2>1. Run!RunTypeOK'
    BY DEF Run!RunTypeOK, RoundsGoOn
  <2>2. RoundsGoOn' /\ ReportedAtEnd'
    BY DEF RoundsGoOn, ReportedAtEnd, Refining
  <2>4. Run!LocalOutcomeJustified'
    BY DEF Run!LocalOutcomeJustified, ReportedAtEnd
  <2> QED BY <2>1, <2>2, <2>4
<1>6. CASE Run!PlanRaises
  <2> USE <1>6, <1>0 DEF Run!PlanRaises, Run!Ends
  <2>0. (IF answers = <<>> THEN "empty" ELSE Run!Last(answers)) \in Run!Texts
    BY DEF Run!Last
  <2>1. Run!RunTypeOK'
    BY DEF Run!RunTypeOK
  <2>2. RoundsGoOn'
    BY DEF RoundsGoOn, Refining
  <2>3. ReportedAtEnd'
    BY <2>0 DEF ReportedAtEnd, Run!RunTypeOK
  <2>4. Run!LocalOutcomeJustified'
    BY DEF Run!LocalOutcomeJustified, ReportedAtEnd, RoundsGoOn, Run!RunTypeOK
  <2> QED BY <2>1, <2>2, <2>3, <2>4
<1>7. ASSUME NEW texts \in [assigned -> Run!Texts], Run!WorkersEnd(texts) PROVE RunInv'
  <2> USE <1>7, <1>0 DEF Run!WorkersEnd
  <2>1. Run!RunTypeOK'
    BY DEF Run!RunTypeOK, Run!Range
  <2>2. RoundsGoOn' /\ ReportedAtEnd'
    BY DEF RoundsGoOn, ReportedAtEnd, Refining
  <2>4. Run!LocalOutcomeJustified'
    BY DEF Run!LocalOutcomeJustified, ReportedAtEnd
  <2> QED BY <2>1, <2>2, <2>4
<1>8. ASSUME NEW t \in Run!Texts, Run!Aggregate(t) PROVE RunInv'
  <2>1. /\ pc = "aggregate" /\ pc' = "judge" /\ answers' = Append(answers, t)
        /\ stagnated' = IF answers # <<>> /\ t = answers[Len(answers)] THEN 1 ELSE 0
        /\ UNCHANGED <<calledBy, backend, ml, team, assigned, results, report, status>>
    BY <1>8 DEF Run!Aggregate, Run!Last, RoundsGoOn, Run!RunTypeOK
  <2>2. /\ answers' \in Seq(Run!Texts) /\ Len(answers') = Len(answers) + 1
        /\ answers'[Len(answers) + 1] = t
        /\ \A i \in 1 .. Len(answers) : answers'[i] = answers[i]
        /\ answers # <<>> => Len(answers) >= 1
    BY <2>1, <1>0
  <2>3. Run!RunTypeOK'
    BY <2>1, <2>2, <1>0 DEF Run!RunTypeOK, RoundsGoOn, Refining
  <2>4. RoundsGoOn' /\ ReportedAtEnd'
    BY <2>1, <2>2, <1>0 DEF RoundsGoOn, ReportedAtEnd, Refining
  <2>5. Run!LocalOutcomeJustified'
    BY <2>1 DEF Run!LocalOutcomeJustified, ReportedAtEnd
  <2> QED BY <2>3, <2>4, <2>5
<1>9. CASE Run!Judge
  <2>1. /\ pc = "judge" /\ Len(answers) >= 1 /\ Run!Last(answers) = answers[Len(answers)]
        /\ Run!Last(answers) \in Run!Texts
        /\ UNCHANGED <<calledBy, backend, ml, team, answers, stagnated, status>>
        /\ assigned' = {} /\ results' = <<>>
    BY <1>9, <1>0 DEF Run!Judge, Run!Last, RoundsGoOn
  <2>2. CASE Run!Acceptable(Run!Last(answers)) \/ stagnated >= 1 \/ Len(answers) = MaxLocalRounds
    <3>1. /\ pc' = IF calledBy = "remote" THEN "ml" ELSE "ended"
          /\ report'.status = "success"
          /\ report' \in [status : {"none", "success", "error", "raised"}, text : Run!Texts]
      <4>1. PICK t \in Run!Texts : Run!Ends("success", t)
        BY <1>9, <1>0, <2>1, <2>2 DEF Run!Judge, Run!NoSatisfactoryResult
      <4> QED BY <4>1 DEF Run!Ends
    <3>2. Run!RunTypeOK'
      BY <2>1, <3>1 DEF Run!RunTypeOK, Run!Range
    <3>3. RoundsGoOn' /\ ReportedAtEnd'
      BY <2>1, <3>1 DEF RoundsGoOn, ReportedAtEnd, Refining, Run!RunTypeOK
    <3>4. Run!LocalOutcomeJustified'
      BY <1>0, <2>1, <2>2, <3>1 DEF Run!LocalOutcomeJustified, RoundsGoOn, ReportedAtEnd, Run!RunTypeOK,
         Run!Last
    <3> QED BY <3>2, <3>3, <3>4
  <2>3. CASE ~(Run!Acceptable(Run!Last(answers)) \/ stagnated >= 1 \/ Len(answers) = MaxLocalRounds)
    <3>1. pc' = "plan" /\ report' = report /\ stagnated = 0 /\ Len(answers) < MaxLocalRounds
      BY <1>9, <1>0, <2>3 DEF Run!Judge, Run!RunTypeOK
    <3>2. Run!RunTypeOK'
      BY <2>1, <3>1 DEF Run!RunTypeOK, Run!Range
    <3>3. RoundsGoOn' /\ ReportedAtEnd'
      BY <2>1, <3>1 DEF RoundsGoOn, ReportedAtEnd, Refining, Run!RunTypeOK
    <3>4. Run!LocalOutcomeJustified'
      BY <2>1, <3>1 DEF Run!LocalOutcomeJustified, ReportedAtEnd
    <3> QED BY <3>2, <3>3, <3>4
  <2> QED BY <2>2, <2>3
<1>10. CASE Run!MlExperiment \/ Run!MlRaises
  <2> USE <1>10, <1>0 DEF Run!MlExperiment, Run!MlRaises
  <2>1. /\ pc = "ml" /\ pc' \in {"settle", "ended"}
        /\ report' \in [status : {"none", "success", "error", "raised"}, text : Run!Texts]
        /\ pc' = "settle" => report'.status = report.status
        /\ pc' = "ended" => report'.status = "raised"
        /\ UNCHANGED <<calledBy, backend, ml, team, assigned, results, answers, stagnated, status>>
    BY DEF ReportedAtEnd
  <2>2. Run!RunTypeOK'
    BY <2>1 DEF Run!RunTypeOK
  <2>3. RoundsGoOn' /\ ReportedAtEnd'
    BY <2>1 DEF RoundsGoOn, ReportedAtEnd, Refining
  <2>4. Run!LocalOutcomeJustified'
    BY <2>1 DEF Run!LocalOutcomeJustified, ReportedAtEnd
  <2> QED BY <2>2, <2>3, <2>4
<1>11. CASE Run!Settle
  <2> USE <1>11, <1>0 DEF Run!Settle
  <2>1. Run!RunTypeOK'
    BY DEF Run!RunTypeOK, Run!Status
  <2>2. RoundsGoOn' /\ ReportedAtEnd'
    BY DEF RoundsGoOn, ReportedAtEnd, Refining
  <2>4. Run!LocalOutcomeJustified'
    BY DEF Run!LocalOutcomeJustified, ReportedAtEnd
  <2> QED BY <2>1, <2>2, <2>4
<1> QED BY <1>1, <1>2, <1>3, <1>4, <1>5, <1>6, <1>7, <1>8, <1>9, <1>10, <1>11 DEF Run!RunNext

-----------------------------------------------------------------------------
(* The OpenHands runtimes and what is shown of them.                         *)

EntryType == [state : Runtimes!States, seq : 0 .. MaxCommands] \cup {Runtimes!NoEntry}
SyncType ==
  {Runtimes!Idle} \cup [at : {"metrics"}, agent : Agents, runtime : 1 .. made,
                        todo : SUBSET Agents, seen : SUBSET Agents]
ToolType ==
  {Runtimes!Idle} \cup [at : {"connecting"}, agent : Agents, runtime : 1 .. made]
                  \cup [at : {"ready", "numbered"}, runtime : 1 .. made]
                  \cup [at : {"noted"}, runtime : 1 .. made, number : 1 .. MaxCommands]
ReadingsOf(m) == [runtime : 1 .. m, places : SUBSET Nat]

RuntimesTyped ==
  /\ pool \in [Agents -> 0 .. made] /\ made \in 0 .. MaxRuntimes
  /\ connected \subseteq 1 .. made /\ closing \subseteq 1 .. made
  /\ counter \in [1 .. MaxRuntimes -> 0 .. MaxCommands]
  /\ logs \in [1 .. MaxRuntimes -> Seq(1 .. MaxCommands)] /\ stopped \in BOOLEAN
  /\ tool \in [Tools -> ToolType] /\ sync \in [Syncs -> SyncType]
  /\ entry \in [Agents -> EntryType] /\ events \in [Agents -> Seq(ReadingsOf(made))]

\* A number that is noted or logged was given out.
NumbersGiven ==
  /\ \A t \in Tools :
       /\ tool[t].at = "numbered" => counter[tool[t].runtime] # 0
       /\ tool[t].at = "noted" => tool[t].number <= counter[tool[t].runtime]
  /\ \A r \in 1 .. MaxRuntimes : \A k \in DOMAIN logs[r] : logs[r][k] <= counter[r]

\* What is shown of an agent is in the log, with what comes before it there numbered no
\* further than its entry says was read, and that number is one of those shown; without
\* an entry nothing is shown.
ReadOf(a) ==
  /\ entry[a] = Runtimes!NoEntry => events[a] = <<>>
  /\ \A y \in DOMAIN events[a] : \A k \in events[a][y].places :
       /\ k \in DOMAIN logs[events[a][y].runtime]
       /\ \A j \in 1 .. k : logs[events[a][y].runtime][j] <= entry[a].seq
  /\ \/ entry[a].seq = 0
     \/ \E y \in DOMAIN events[a] : \E k \in events[a][y].places :
          logs[events[a][y].runtime][k] = entry[a].seq

ReadInOrder == \A a \in Agents : ReadOf(a)

\* The entry at place j of the log read by reading y of the agent was shown by then, or
\* one with its number or a larger one was shown before.
Cause(a, y, j) ==
  \/ \E x \in 1 .. y : events[a][x].runtime = events[a][y].runtime /\ j \in events[a][x].places
  \/ \E x \in 1 .. y - 1 : \E i \in events[a][x].places :
       logs[events[a][x].runtime][i] >= logs[events[a][y].runtime][j]

Caused(a) ==
  \A y \in DOMAIN events[a] : \A k \in events[a][y].places : \A j \in 1 .. k : Cause(a, y, j)

ShownRight == ReadInOrder /\ Runtimes!ShownOnceInOrder /\ Runtimes!PassedOverForACause

RuntimesInv == RuntimesTyped /\ NumbersGiven /\ ShownRight

\* The bounds of the runtimes are numbers.
LEMMA RuntimesNumbers == MaxRuntimes \in Nat \ {0} /\ MaxCommands \in Nat
BY ExecutionAssumption DEF ExecutionAssumption, Runtimes!RuntimesAssumption

\* There are no runtimes and no entries at the start.
LEMMA RuntimesBegin == Runtimes!Init => RuntimesInv
<1> SUFFICES ASSUME Runtimes!Init PROVE RuntimesInv
  OBVIOUS
<1> USE RuntimesNumbers DEF Runtimes!Init
<1>1. RuntimesTyped
  <2>1. /\ events \in [Agents -> Seq(ReadingsOf(made))]
        /\ logs \in [1 .. MaxRuntimes -> Seq(1 .. MaxCommands)]
        /\ counter \in [1 .. MaxRuntimes -> 0 .. MaxCommands]
    BY DEF Runtimes!Runtimes
  <2>2. sync \in [Syncs -> SyncType] /\ tool \in [Tools -> ToolType]
    BY DEF ToolType, SyncType
  <2>3. entry \in [Agents -> EntryType] /\ pool \in [Agents -> 0 .. made] /\ made \in 0 .. MaxRuntimes
    BY DEF EntryType, Runtimes!NoRuntime
  <2> QED BY <2>1, <2>2, <2>3 DEF RuntimesTyped
<1>2. NumbersGiven
  BY DEF NumbersGiven, Runtimes!Idle, Runtimes!Runtimes
<1>3. \A a \in Agents : events[a] = <<>> /\ entry[a].seq = 0
  BY DEF Runtimes!NoEntry
<1>4. ShownRight
  BY ONLY <1>3 DEF ShownRight, ReadInOrder, ReadOf, Runtimes!ShownOnceInOrder, Runtimes!PassedOverForACause
<1> QED BY <1>1, <1>2, <1>4 DEF RuntimesInv

\* More runtimes have room for what there was.
LEMMA MoreRuntimes ==
  ASSUME NEW m \in Nat, NEW n \in Nat, m <= n
  PROVE  /\ 1 .. m \subseteq 1 .. n /\ 0 .. m \subseteq 0 .. n
         /\ \A s \in Seq(ReadingsOf(m)) : s \in Seq(ReadingsOf(n))
<1>1. 1 .. m \subseteq 1 .. n /\ 0 .. m \subseteq 0 .. n
  OBVIOUS
<1>2. ReadingsOf(m) \subseteq ReadingsOf(n)
  BY <1>1 DEF ReadingsOf
<1> QED BY <1>1, <1>2

\* A synchronisation goes on to a runtime of the pool, and ends without touching what
\* was read.
LEMMA AdvanceKeeps ==
  ASSUME NEW s \in Syncs, NEW e \in [Agents -> EntryType],
         NEW todo \in SUBSET Agents, NEW seen \in SUBSET Agents,
         RuntimesTyped, Runtimes!Advance(s, e, todo, seen)
  PROVE  /\ sync' \in [Syncs -> SyncType]
         /\ entry' \in [Agents -> EntryType]
         /\ \A a \in Agents : entry'[a].seq = e[a].seq
                              /\ (entry'[a] = Runtimes!NoEntry <=> e[a] = Runtimes!NoEntry)
<1>1. CASE sync' = [sync EXCEPT ![s] = Runtimes!Idle] /\ entry' = Runtimes!Marked(e, seen)
  <2>1. sync' \in [Syncs -> SyncType]
    BY <1>1 DEF RuntimesTyped, SyncType
  <2>2. ASSUME NEW a \in Agents
        PROVE  /\ entry'[a] \in EntryType /\ entry'[a].seq = e[a].seq
               /\ (entry'[a] = Runtimes!NoEntry <=> e[a] = Runtimes!NoEntry)
    <3>1. entry'[a] = IF a \notin seen /\ e[a].state = "running"
                      THEN [e[a] EXCEPT !.state = "stopped"] ELSE e[a]
      BY <1>1 DEF Runtimes!Marked
    <3>2. CASE a \notin seen /\ e[a].state = "running"
      <4>1. e[a] \in [state : Runtimes!States, seq : 0 .. MaxCommands]
        BY <3>2 DEF EntryType, Runtimes!NoEntry
      <4>2. entry'[a] = [state |-> "stopped", seq |-> e[a].seq]
        BY <3>1, <3>2, <4>1
      <4> QED BY <3>2, <4>1, <4>2 DEF EntryType, Runtimes!NoEntry, Runtimes!States
    <3>3. CASE ~(a \notin seen /\ e[a].state = "running")
      BY <3>1, <3>3
    <3> QED BY <3>2, <3>3
  <2>3. entry' = [a \in Agents |-> entry'[a]]
    BY <1>1 DEF Runtimes!Marked
  <2> QED BY <2>1, <2>2, <2>3
<1>2. ASSUME NEW a \in Runtimes!Pooled(todo),
             sync' = [sync EXCEPT ![s] = [at |-> "metrics", agent |-> a, runtime |-> pool[a],
                                          todo |-> Runtimes!Pooled(todo) \ {a},
                                          seen |-> seen \cup {a}]],
             entry' = e
      PROVE  /\ sync' \in [Syncs -> SyncType]
             /\ entry' \in [Agents -> EntryType]
             /\ \A b \in Agents : entry'[b].seq = e[b].seq
                                  /\ (entry'[b] = Runtimes!NoEntry <=> e[b] = Runtimes!NoEntry)
  <2> DEFINE waits == [at |-> "metrics", agent |-> a, runtime |-> pool[a],
                       todo |-> Runtimes!Pooled(todo) \ {a}, seen |-> seen \cup {a}]
  <2>1. a \in Agents /\ Runtimes!Pooled(todo) \ {a} \subseteq Agents /\ pool[a] \in 1 .. made
    BY DEF Runtimes!Pooled, Runtimes!NoRuntime, RuntimesTyped
  <2>2. waits \in SyncType
    BY <2>1 DEF SyncType
  <2> HIDE DEF waits
  <2>3. sync' = [sync EXCEPT ![s] = waits]
    BY <1>2 DEF waits
  <2> QED BY <1>2, <2>2, <2>3 DEF RuntimesTyped
<1> QED BY <1>1, <1>2 DEF Runtimes!Advance

\* The places of a sequence are numbers from one, and its elements are of its set.
LEMMA SeqPlaces ==
  ASSUME NEW S, NEW q \in Seq(S)
  PROVE  /\ Len(q) \in Nat /\ DOMAIN q = 1 .. Len(q)
         /\ \A k \in DOMAIN q : q[k] \in S /\ k \in Nat /\ k >= 1 /\ 1 .. k \subseteq DOMAIN q
OBVIOUS

\* The entries of a log are numbers within the bound.
LEMMA LogPlaces ==
  ASSUME RuntimesTyped, NEW r \in 1 .. MaxRuntimes
  PROVE  /\ Len(logs[r]) \in Nat /\ DOMAIN logs[r] = 1 .. Len(logs[r])
         /\ \A k \in DOMAIN logs[r] : /\ logs[r][k] \in 1 .. MaxCommands
                                     /\ k \in Nat /\ k >= 1 /\ 1 .. k \subseteq DOMAIN logs[r]
<1>1. logs[r] \in Seq(1 .. MaxCommands)
  BY DEF RuntimesTyped
<1> QED BY <1>1, SeqPlaces

\* A set of natural numbers has a least element, if any.
LEMMA LeastNat ==
  ASSUME NEW T, T \subseteq Nat, T # {}
  PROVE  \E n \in T : \A m \in T : n <= m
<1> DEFINE R == {ss \in Nat \X Nat : ss[1] < ss[2]}
<1>1. IsWellFoundedOn(R, Nat)
  BY NatLessThanWellFounded DEF OpToRel
<1> HIDE DEF R
<1>2. PICK n \in T : \A y \in T : ~(<<y, n>> \in R)
  BY <1>1, WFMin
<1>3. \A m \in T : ~(m < n)
  BY <1>2 DEF R
<1> QED BY <1>3

\* A reading goes as far as the largest number it finds, and stays where it was when it
\* finds nothing new.
LEMMA FarthestRead ==
  ASSUME RuntimesTyped, NEW r \in 1 .. MaxRuntimes, NEW n \in 0 .. MaxCommands
  PROVE  LET new == Runtimes!NewLogs(r, n)
             m == Runtimes!Farthest(r, n)
         IN  /\ m \in 0 .. MaxCommands /\ n <= m
             /\ \A k \in DOMAIN logs[r] : logs[r][k] <= m
             /\ IF new = {} THEN m = n ELSE \E k \in new : logs[r][k] = m
<1> DEFINE new == Runtimes!NewLogs(r, n)
           m == Runtimes!Farthest(r, n)
           S == {n} \cup {logs[r][k] : k \in new}
           T == {MaxCommands - q : q \in S}
<1>1. \A k \in DOMAIN logs[r] : logs[r][k] \in 1 .. MaxCommands
  BY LogPlaces
<1>2. new = {k \in DOMAIN logs[r] : logs[r][k] > n}
  BY DEF Runtimes!NewLogs
<1>3. m = CHOOSE q \in S : \A k \in new : logs[r][k] <= q
  BY DEF Runtimes!Farthest
<1> HIDE DEF m, new
<1>4. S \subseteq 0 .. MaxCommands /\ S # {}
  BY <1>1, <1>2
<1>5. \E q \in S : \A k \in new : logs[r][k] <= q
  <2>1. T \subseteq Nat /\ T # {}
    BY <1>4, RuntimesNumbers
  <2>2. PICK p \in T : \A z \in T : p <= z
    <3> HIDE DEF T
    <3> QED BY <2>1, LeastNat
  <2>3. PICK q \in S : p = MaxCommands - q
    BY <2>2
  <2>4. \A k \in new : MaxCommands - q <= MaxCommands - logs[r][k]
    BY <2>2, <2>3
  <2>5. \A k \in new : logs[r][k] \in 1 .. MaxCommands
    BY <1>1, <1>2
  <2>6. q \in 0 .. MaxCommands
    BY <1>4
  <2> QED BY <2>4, <2>5, <2>6, RuntimesNumbers
<1>6. m \in S /\ \A k \in new : logs[r][k] <= m
  BY <1>3, <1>5
<1>7. m \in 0 .. MaxCommands
  BY <1>4, <1>6
<1>8. n <= m /\ IF new = {} THEN m = n ELSE \E k \in new : logs[r][k] = m
  <2>1. CASE new = {}
    BY <2>1, <1>6, <1>7
  <2>2. CASE new # {}
    <3>1. PICK k \in new : logs[r][k] <= m /\ logs[r][k] > n /\ logs[r][k] \in 1 .. MaxCommands
      BY <2>2, <1>1, <1>2, <1>6
    <3>2. m > n
      BY <3>1, <1>7
    <3> QED BY <2>2, <3>2, <1>6, <1>7
  <2> QED BY <2>1, <2>2
<1>9. \A k \in DOMAIN logs[r] : logs[r][k] <= m
  <2> SUFFICES ASSUME NEW k \in DOMAIN logs[r], k \notin new PROVE logs[r][k] <= m
    BY <1>6
  <2>1. logs[r][k] <= n
    BY <1>1, <1>2
  <2> QED BY <2>1, <1>1, <1>7, <1>8
<1> QED BY <1>7, <1>8, <1>9 DEF m, new

\* What is shown stays right while logs grow, and entries go with what was shown of them.
LEMMA ShownStays ==
  ASSUME RuntimesTyped, ShownRight,
         \A r \in 1 .. MaxRuntimes :
           DOMAIN logs[r] \subseteq DOMAIN logs'[r] /\ \A k \in DOMAIN logs[r] : logs'[r][k] = logs[r][k],
         \A a \in Agents :
           \/ /\ events'[a] = events[a] /\ entry'[a].seq = entry[a].seq
              /\ entry'[a] = Runtimes!NoEntry => entry[a] = Runtimes!NoEntry
           \/ events'[a] = <<>> /\ entry'[a].seq = 0
  PROVE  ShownRight'
<1> SUFFICES ASSUME NEW a \in Agents, events'[a] = events[a], entry'[a].seq = entry[a].seq,
                    entry'[a] = Runtimes!NoEntry => entry[a] = Runtimes!NoEntry
             PROVE  /\ entry'[a] = Runtimes!NoEntry => events'[a] = <<>>
                    /\ \A y \in DOMAIN events'[a] : \A k \in events'[a][y].places :
                         /\ k \in DOMAIN logs'[events'[a][y].runtime]
                         /\ \A j \in 1 .. k : logs'[events'[a][y].runtime][j] <= entry'[a].seq
                    /\ \/ entry'[a].seq = 0
                       \/ \E y \in DOMAIN events'[a] : \E k \in events'[a][y].places :
                            logs'[events'[a][y].runtime][k] = entry'[a].seq
                    /\ \A x, y \in DOMAIN events'[a] :
                         x < y /\ events'[a][x].runtime = events'[a][y].runtime =>
                           \A j \in events'[a][x].places, k \in events'[a][y].places : j < k
                    /\ \A y \in DOMAIN events'[a] : \A k \in events'[a][y].places : \A j \in 1 .. k :
                         \/ \E x \in 1 .. y : /\ events'[a][x].runtime = events'[a][y].runtime
                                              /\ j \in events'[a][x].places
                         \/ \E x \in 1 .. y - 1 : \E i \in events'[a][x].places :
                              logs'[events'[a][x].runtime][i] >= logs'[events'[a][y].runtime][j]
  <2>1. \A a \in Agents : events'[a] = <<>> => DOMAIN events'[a] = {}
    OBVIOUS
  <2> QED BY <2>1 DEF ShownRight, ReadInOrder, ReadOf, Runtimes!ShownOnceInOrder, Runtimes!PassedOverForACause
<1>1. /\ events[a] \in Seq(ReadingsOf(made)) /\ DOMAIN events[a] = 1 .. Len(events[a])
      /\ Len(events[a]) \in Nat /\ made \in 0 .. MaxRuntimes
  BY DEF RuntimesTyped
<1>2. \A y \in DOMAIN events[a] : events[a][y].runtime \in 1 .. MaxRuntimes
  <2> SUFFICES ASSUME NEW y \in DOMAIN events[a] PROVE events[a][y].runtime \in 1 .. MaxRuntimes
    OBVIOUS
  <2>1. events[a][y] \in ReadingsOf(made)
    BY <1>1
  <2> QED BY <2>1, <1>1, RuntimesNumbers DEF ReadingsOf
<1>3. \A y \in DOMAIN events[a] : \A k \in events[a][y].places : \A j \in 1 .. k :
        /\ k \in DOMAIN logs[events[a][y].runtime] /\ j \in DOMAIN logs[events[a][y].runtime]
        /\ k \in Nat
  <2> SUFFICES ASSUME NEW y \in DOMAIN events[a], NEW k \in events[a][y].places, NEW j \in 1 .. k
               PROVE  /\ k \in DOMAIN logs[events[a][y].runtime]
                      /\ j \in DOMAIN logs[events[a][y].runtime] /\ k \in Nat
    OBVIOUS
  <2>1. logs[events[a][y].runtime] \in Seq(1 .. MaxCommands)
    BY <1>2 DEF RuntimesTyped
  <2>2. k \in DOMAIN logs[events[a][y].runtime]
    BY DEF ShownRight, ReadInOrder, ReadOf
  <2> QED BY <2>1, <2>2
<1>4. \A y \in DOMAIN events[a] : \A k \in DOMAIN logs[events[a][y].runtime] :
        /\ logs'[events[a][y].runtime][k] = logs[events[a][y].runtime][k]
        /\ k \in DOMAIN logs'[events[a][y].runtime]
  BY <1>2
<1>5. \A y \in DOMAIN events[a] : \A k \in events[a][y].places :
        /\ k \in DOMAIN logs[events[a][y].runtime]
        /\ \A j \in 1 .. k : logs[events[a][y].runtime][j] <= entry[a].seq
  BY DEF ShownRight, ReadInOrder, ReadOf
<1>6. \A y \in DOMAIN events[a] : 1 .. y \subseteq DOMAIN events[a] /\ 1 .. y - 1 \subseteq DOMAIN events[a]
  BY <1>1
<1>7. \A y \in DOMAIN events[a] : \A k \in events[a][y].places : \A j \in 1 .. k :
        \/ \E x \in 1 .. y : /\ events[a][x].runtime = events[a][y].runtime
                             /\ j \in events[a][x].places
        \/ \E x \in 1 .. y - 1 : \E i \in events[a][x].places :
             logs'[events[a][x].runtime][i] >= logs'[events[a][y].runtime][j]
  <2> SUFFICES ASSUME NEW y \in DOMAIN events[a], NEW k \in events[a][y].places, NEW j \in 1 .. k,
                      NEW x \in 1 .. y - 1, NEW i \in events[a][x].places,
                      logs[events[a][x].runtime][i] >= logs[events[a][y].runtime][j]
               PROVE  logs'[events[a][x].runtime][i] >= logs'[events[a][y].runtime][j]
    BY DEF ShownRight, Runtimes!PassedOverForACause
  <2>1. x \in DOMAIN events[a] /\ i \in DOMAIN logs[events[a][x].runtime]
    BY <1>5, <1>6
  <2>2. j \in DOMAIN logs[events[a][y].runtime]
    BY <1>3
  <2> QED BY <2>1, <2>2, <1>4
<1>8. \/ entry[a].seq = 0
      \/ \E y \in DOMAIN events[a] : \E k \in events[a][y].places :
           logs'[events[a][y].runtime][k] = entry[a].seq
  BY <1>4, <1>5 DEF ShownRight, ReadInOrder, ReadOf
<1>9. \A y \in DOMAIN events[a] : \A k \in events[a][y].places :
        /\ k \in DOMAIN logs'[events[a][y].runtime]
        /\ \A j \in 1 .. k : logs'[events[a][y].runtime][j] <= entry[a].seq
  BY <1>3, <1>4, <1>5
<1> QED BY <1>7, <1>8, <1>9 DEF ShownRight, ReadInOrder, ReadOf, Runtimes!ShownOnceInOrder

\* A reading shows what is new in the log of its runtime after what was shown before.
LEMMA ReadingShown ==
  ASSUME RuntimesTyped, ShownRight, NEW b \in Agents, NEW r \in 1 .. made, logs' = logs,
         LET new == Runtimes!NewLogs(r, entry[b].seq)
         IN  events'[b] = IF new = {} THEN events[b]
                                      ELSE Append(events[b], [runtime |-> r, places |-> new]),
         entry'[b] # Runtimes!NoEntry, entry'[b].seq = Runtimes!Farthest(r, entry[b].seq),
         \A a \in Agents \ {b} :
           /\ events'[a] = events[a] /\ entry'[a].seq = entry[a].seq
           /\ entry'[a] = Runtimes!NoEntry => entry[a] = Runtimes!NoEntry
  PROVE  ShownRight'
<1> DEFINE n == entry[b].seq
           m == entry'[b].seq
           new == Runtimes!NewLogs(r, n)
           L == Len(events[b])
           rd == [runtime |-> r, places |-> new]
<1>1. /\ r \in 1 .. MaxRuntimes /\ n \in 0 .. MaxCommands /\ logs[r] \in Seq(1 .. MaxCommands)
      /\ events[b] \in Seq(ReadingsOf(made)) /\ L \in Nat /\ DOMAIN events[b] = 1 .. L
  <2>1. entry[b] \in EntryType /\ events[b] \in Seq(ReadingsOf(made)) /\ made \in 0 .. MaxRuntimes
    BY DEF RuntimesTyped
  <2>2. n \in 0 .. MaxCommands
    BY <2>1, RuntimesNumbers DEF EntryType, Runtimes!NoEntry
  <2>3. r \in 1 .. MaxRuntimes
    BY <2>1, RuntimesNumbers
  <2>4. logs[r] \in Seq(1 .. MaxCommands)
    BY <2>3 DEF RuntimesTyped
  <2> QED BY <2>1, <2>2, <2>3, <2>4
<1>2. /\ m \in 0 .. MaxCommands /\ n <= m
      /\ \A k \in DOMAIN logs[r] : logs[r][k] <= m
      /\ IF new = {} THEN m = n ELSE \E k \in new : logs[r][k] = m
  BY <1>1, FarthestRead
<1>3. CASE new = {}
  <2>1. events'[b] = events[b] /\ entry'[b].seq = entry[b].seq
    BY <1>2, <1>3
  <2> QED BY <2>1, ShownStays
<1>4. CASE new # {}
  <2>1. events'[b] = Append(events[b], rd)
    BY <1>4
  <2>2. /\ DOMAIN events'[b] = 1 .. L + 1 /\ events'[b][L + 1] = rd
        /\ \A y \in 1 .. L : events'[b][y] = events[b][y]
    BY <2>1, <1>1, AppendProperties
  <2>3. /\ DOMAIN logs[r] = 1 .. Len(logs[r]) /\ Len(logs[r]) \in Nat
        /\ \A k \in DOMAIN logs[r] : /\ logs[r][k] \in 1 .. MaxCommands
                                    /\ k \in Nat /\ k >= 1 /\ 1 .. k \subseteq DOMAIN logs[r]
    BY ONLY <1>1, RuntimesTyped, LogPlaces
  <2>4. new = {k \in DOMAIN logs[r] : logs[r][k] > n}
    BY DEF Runtimes!NewLogs
  <2> HIDE DEF new, m, n, L
  <2>5. rd.runtime = r /\ rd.places = new
    OBVIOUS
  <2>6. \A y \in 1 .. L : events[b][y].runtime \in 1 .. MaxRuntimes
    <3> SUFFICES ASSUME NEW y \in 1 .. L PROVE events[b][y].runtime \in 1 .. MaxRuntimes
      OBVIOUS
    <3>1. events[b][y] \in ReadingsOf(made) /\ made \in 0 .. MaxRuntimes
      BY <1>1 DEF RuntimesTyped
    <3> QED BY <3>1, RuntimesNumbers DEF ReadingsOf
  <2>7. \A y \in 1 .. L : \A k \in events[b][y].places :
          /\ k \in DOMAIN logs[events[b][y].runtime]
          /\ \A j \in 1 .. k : /\ logs[events[b][y].runtime][j] <= n
                               /\ logs[events[b][y].runtime][j] \in Nat
    <3> SUFFICES ASSUME NEW y \in 1 .. L, NEW k \in events[b][y].places
                 PROVE  /\ k \in DOMAIN logs[events[b][y].runtime]
                        /\ \A j \in 1 .. k : /\ logs[events[b][y].runtime][j] <= n
                                             /\ logs[events[b][y].runtime][j] \in Nat
      OBVIOUS
    <3>1. k \in DOMAIN logs[events[b][y].runtime]
          /\ \A j \in 1 .. k : logs[events[b][y].runtime][j] <= n
      BY <1>1 DEF ShownRight, ReadInOrder, ReadOf, n
    <3>2. events[b][y].runtime \in 1 .. MaxRuntimes
      BY <2>6
    <3>3. \A j \in 1 .. k : logs[events[b][y].runtime][j] \in 1 .. MaxCommands
      BY ONLY <3>1, <3>2, RuntimesTyped, LogPlaces
    <3> QED BY <3>1, <3>3
  <2>8. \A y \in 1 .. L + 1 : \A k \in events'[b][y].places :
          /\ k \in DOMAIN logs[events'[b][y].runtime]
          /\ \A j \in 1 .. k : logs[events'[b][y].runtime][j] <= m
    <3> SUFFICES ASSUME NEW y \in 1 .. L + 1, NEW k \in events'[b][y].places
                 PROVE  /\ k \in DOMAIN logs[events'[b][y].runtime]
                        /\ \A j \in 1 .. k : logs[events'[b][y].runtime][j] <= m
      OBVIOUS
    <3>1. CASE y = L + 1
      <4>1. k \in new /\ events'[b][y].runtime = r
        BY <3>1, <2>2, <2>5
      <4>2. \A j \in 1 .. k : j \in DOMAIN logs[r]
        BY <4>1, <2>3, <2>4
      <4> QED BY <4>1, <4>2, <2>4, <1>2
    <3>2. CASE y \in 1 .. L
      <4>1. events'[b][y] = events[b][y]
        BY <3>2, <2>2
      <4>2. \A j \in 1 .. k : /\ logs[events[b][y].runtime][j] <= n
                              /\ logs[events[b][y].runtime][j] \in Nat
        BY <4>1, <3>2, <2>7
      <4> QED BY <4>1, <4>2, <3>2, <2>7, <1>1, <1>2
    <3> QED BY SMTT(30), <3>1, <3>2, <1>1
  <2>9. \E y \in 1 .. L + 1 : \E k \in events'[b][y].places :
          logs[events'[b][y].runtime][k] = m
    <3>1. PICK k \in new : logs[r][k] = m
      BY <1>2, <1>4
    <3>2. /\ L + 1 \in 1 .. L + 1 /\ k \in events'[b][L + 1].places
          /\ events'[b][L + 1].runtime = r
      BY <1>1, <2>2, <2>5, <3>1
    <3> QED BY <3>1, <3>2
  <2>10. ReadInOrder'
    <3>1. \A a \in Agents \ {b} :
            /\ logs' = logs /\ events'[a] = events[a] /\ entry'[a].seq = entry[a].seq
            /\ entry'[a] = Runtimes!NoEntry => entry[a] = Runtimes!NoEntry
      OBVIOUS
    <3>2. \A a \in Agents \ {b} : ReadOf(a)'
      BY <3>1 DEF ShownRight, ReadInOrder, ReadOf
    <3>3. ReadOf(b)'
      BY <2>2, <2>8, <2>9 DEF ReadOf, m
    <3> QED BY <3>2, <3>3 DEF ReadInOrder
  <2>11. Runtimes!ShownOnceInOrder'
    <3> SUFFICES ASSUME NEW x \in 1 .. L + 1, NEW y \in 1 .. L + 1, x < y,
                        events'[b][x].runtime = events'[b][y].runtime,
                        NEW j \in events'[b][x].places, NEW k \in events'[b][y].places
                 PROVE  j < k
      BY ZenonT(40), <2>2 DEF ShownRight, Runtimes!ShownOnceInOrder
    <3>1. x \in 1 .. L /\ events'[b][x] = events[b][x]
      BY <2>2, <1>1
    <3>2. CASE y \in 1 .. L
      BY <3>1, <3>2, <2>2, <1>1 DEF ShownRight, Runtimes!ShownOnceInOrder
    <3>3. CASE y = L + 1
      <4>1. /\ k \in new /\ k \in Nat /\ logs[r][k] \in 1 .. MaxCommands /\ logs[r][k] > n /\ k >= 1
            /\ events[b][x].runtime = r
        BY <3>1, <3>3, <2>2, <2>3, <2>4, <2>5
      <4>2. j \in DOMAIN logs[r] /\ j \in Nat /\ \A i \in 1 .. j : logs[r][i] <= n
        BY <3>1, <4>1, <2>3, <2>7
      <4>3. ~(k \in 1 .. j)
        BY <4>1, <4>2, <1>1
      <4> QED BY <4>1, <4>2, <4>3
    <3> QED BY <3>2, <3>3, <1>1
  <2>12. Runtimes!PassedOverForACause'
    <3>1. \A a \in Agents : Caused(a)
      BY DEF ShownRight, Runtimes!PassedOverForACause, Caused, Cause
    <3>2. ASSUME NEW a \in Agents \ {b} PROVE Caused(a)'
      <4>1. events'[a] = events[a] /\ logs' = logs
        OBVIOUS
      <4> QED BY <3>1, <4>1 DEF Caused, Cause
    <3>3. ASSUME NEW y \in 1 .. L + 1, NEW k \in events'[b][y].places, NEW j \in 1 .. k
          PROVE  Cause(b, y, j)'
      <4>1. CASE y \in 1 .. L
        <5>1. /\ y \in 1 .. y /\ \A x \in 1 .. y : x \in 1 .. L /\ events'[b][x] = events[b][x]
              /\ \A x \in 1 .. y - 1 : x \in 1 .. y
          BY <4>1, <2>2, <1>1
        <5>2. events'[b][y] = events[b][y] /\ k \in events[b][y].places
          BY <5>1
        <5>3. Cause(b, y, j)
          BY <3>1, <4>1, <5>2, <1>1 DEF Caused
        <5> QED BY <5>1, <5>2, <5>3 DEF Cause
      <4>2. CASE y = L + 1
        <5>1. /\ k \in new /\ events'[b][y] = rd /\ j \in DOMAIN logs[r]
              /\ logs[r][j] \in 1 .. MaxCommands
          BY <4>2, <2>2, <2>3, <2>4, <2>5
        <5>2. CASE j \in new
          <6>1. y \in 1 .. y /\ j \in events'[b][y].places
            BY <4>2, <5>1, <5>2, <2>5, <1>1
          <6> QED BY <6>1 DEF Cause
        <5>3. CASE j \notin new
          <6>1. logs[r][j] <= n /\ n # 0
            BY <5>1, <5>3, <2>4, <1>1
          <6>2. PICK x \in 1 .. L : \E i \in events[b][x].places : logs[events[b][x].runtime][i] = n
            BY <6>1, <1>1 DEF ShownRight, ReadInOrder, ReadOf, n
          <6>3. PICK i \in events[b][x].places : logs[events[b][x].runtime][i] = n
            BY <6>2
          <6>4. x \in 1 .. y - 1 /\ events'[b][x] = events[b][x]
            BY <6>2, <4>2, <2>2, <1>1
          <6>5. /\ i \in events'[b][x].places
                /\ logs'[events'[b][x].runtime][i] >= logs'[events'[b][y].runtime][j]
            BY <6>1, <6>3, <6>4, <5>1, <2>5
          <6> QED BY <6>4, <6>5 DEF Cause
        <5> QED BY <5>2, <5>3
      <4> QED BY <4>1, <4>2, <1>1
    <3>4. Caused(b)'
      BY <3>3, <2>2 DEF Caused
    <3>5. \A a \in Agents : Caused(a)'
      BY <3>2, <3>4
    <3>6. SUFFICES ASSUME NEW a \in Agents, NEW y \in DOMAIN events'[a],
                          NEW k \in events'[a][y].places, NEW j \in 1 .. k
                   PROVE  Cause(a, y, j)'
      BY DEF Runtimes!PassedOverForACause, Cause
    <3> QED BY <3>5 DEF Caused
  <2> QED BY <2>10, <2>11, <2>12 DEF ShownRight
<1> QED BY <1>3, <1>4

\* A step that leaves counters, logs and tools alone leaves the numbers.
LEMMA NumbersStay ==
  NumbersGiven /\ UNCHANGED <<counter, logs, tool>> => NumbersGiven'
BY DEF NumbersGiven

\* Every step of tools, synchronisations and endpoints keeps types and order.
LEMMA RuntimesStep == RuntimesInv /\ Runtimes!Next => RuntimesInv'
<1> SUFFICES ASSUME RuntimesInv, Runtimes!Next PROVE RuntimesInv'
  OBVIOUS
<1> USE RuntimesNumbers DEF RuntimesInv, Runtimes!pools, Runtimes!registry
<1>0. made \in Nat /\ made \in 0 .. MaxRuntimes
  BY DEF RuntimesTyped
<1>s. ASSUME UNCHANGED <<logs, entry, events>> PROVE ShownRight'
  <2>1. \A r \in 1 .. MaxRuntimes :
          DOMAIN logs[r] \subseteq DOMAIN logs'[r] /\ \A k \in DOMAIN logs[r] : logs'[r][k] = logs[r][k]
    BY <1>s
  <2> QED BY <1>s, <2>1, ShownStays
<1>1. CASE Runtimes!Shutdown
  <2>0. /\ UNCHANGED <<made, closing, counter, logs, tool, entry, events>> /\ stopped' \in BOOLEAN
        /\ connected' \subseteq connected
        /\ pool' = [a \in Agents |-> Runtimes!NoRuntime] /\ sync' = [s \in Syncs |-> Runtimes!Idle]
    BY <1>1 DEF Runtimes!Shutdown
  <2>1. RuntimesTyped'
    <3>1. pool' \in [Agents -> 0 .. made]
      BY <2>0, <1>0 DEF Runtimes!NoRuntime
    <3>2. sync' \in [Syncs -> SyncType]
      BY <2>0 DEF SyncType
    <3> QED BY <2>0, <3>1, <3>2 DEF RuntimesTyped, SyncType, ToolType
  <2> QED BY <2>0, <2>1, <1>s, NumbersStay
<1>2. ASSUME NEW t \in Tools, NEW a \in Agents, Runtimes!AllocateNew(t, a) PROVE RuntimesInv'
  <2> USE <1>2 DEF Runtimes!AllocateNew
  <2>1. /\ made' = made + 1 /\ made' \in 0 .. MaxRuntimes
        /\ 1 .. made \subseteq 1 .. made' /\ 0 .. made \subseteq 0 .. made'
        /\ \A q \in Seq(ReadingsOf(made)) : q \in Seq(ReadingsOf(made'))
    BY <1>0, MoreRuntimes
  <2>2. ToolType \subseteq ToolType' /\ SyncType \subseteq SyncType'
    BY <2>1 DEF ToolType, SyncType
  <2>3. tool' \in [Tools -> ToolType']
    <3>1. [at |-> "connecting", agent |-> a, runtime |-> made + 1] \in ToolType'
      BY <1>0, <2>1 DEF ToolType
    <3> QED BY <2>2, <3>1 DEF RuntimesTyped
  <2>4. pool' \in [Agents -> 0 .. made'] /\ connected' \subseteq 1 .. made' /\ closing' \subseteq 1 .. made'
    BY <1>0, <2>1 DEF RuntimesTyped, Runtimes!NoRuntime
  <2>5. sync' \in [Syncs -> SyncType'] /\ events' \in [Agents -> Seq(ReadingsOf(made'))]
    BY <2>1, <2>2 DEF RuntimesTyped
  <2>6. RuntimesTyped'
    BY <2>1, <2>3, <2>4, <2>5 DEF RuntimesTyped, EntryType
  <2>7. NumbersGiven'
    <3>1. /\ UNCHANGED <<counter, logs>> /\ \A u \in Tools \ {t} : tool'[u] = tool[u]
          /\ tool'[t].at = "connecting"
      BY DEF RuntimesTyped
    <3> QED BY <3>1 DEF NumbersGiven
  <2> QED BY <2>6, <2>7, <1>s
<1>3. ASSUME NEW t \in Tools,
             \/ Runtimes!Allocated(t) \/ Runtimes!AllocateFails(t)
             \/ Runtimes!Command(t) \/ Runtimes!Reconnect(t) \/ Runtimes!Note(t)
             \/ \E a \in Agents : Runtimes!AllocateExisting(t, a)
      PROVE  RuntimesInv'
  <2>0. tool[t] \in ToolType
    BY DEF RuntimesTyped
  <2>1. /\ tool[t].at = "connecting" => tool[t].agent \in Agents /\ tool[t].runtime \in 1 .. made
        /\ tool[t].at \in {"ready", "numbered"} =>
             tool[t].runtime \in 1 .. made /\ tool[t] \in [at : {"ready", "numbered"}, runtime : 1 .. made]
    BY <2>0 DEF ToolType, Runtimes!Idle
  <2>2. Runtimes!Idle \in ToolType /\ \A q \in 1 .. made : Runtimes!Use(q) \in ToolType
    BY DEF ToolType, Runtimes!Use
  <2>3. \A q \in 1 .. made : q \in 1 .. MaxRuntimes /\ counter[q] \in 0 .. MaxCommands
    BY <1>0 DEF RuntimesTyped
  <2> DEFINE u == tool'[t]
  <2>4. /\ UNCHANGED <<made, closing, logs, stopped, entry, events, sync>>
        /\ pool' \in [Agents -> 0 .. made] /\ connected' \subseteq 1 .. made
        /\ u \in ToolType /\ tool' = [tool EXCEPT ![t] = u]
        /\ \/ /\ u.at = "numbered" /\ u.runtime \in 1 .. made
              /\ counter' = [counter EXCEPT ![u.runtime] = @ + 1]
              /\ counter[u.runtime] + 1 \in 0 .. MaxCommands
           \/ UNCHANGED counter /\ u.at = "noted" /\ u.number <= counter[u.runtime]
           \/ UNCHANGED counter /\ u.at \notin {"numbered", "noted"}
    <3>1. CASE Runtimes!Allocated(t)
      <4> DEFINE a == tool[t].agent
                 q == tool[t].runtime
      <4>1. /\ a \in Agents /\ q \in 1 .. made /\ q \in 0 .. made /\ Runtimes!Use(q) \in ToolType
            /\ Runtimes!Use(q).at = "ready"
        BY <3>1, <2>1, <2>2, <1>0 DEF Runtimes!Allocated, Runtimes!Use
      <4>2. /\ connected' = connected \cup {q} /\ pool' = [pool EXCEPT ![a] = q]
            /\ tool' = [tool EXCEPT ![t] = Runtimes!Use(q)]
            /\ UNCHANGED <<made, closing, counter, logs, stopped, entry, events, sync>>
        BY <3>1 DEF Runtimes!Allocated
      <4> HIDE DEF a, q
      <4> QED BY <4>1, <4>2 DEF RuntimesTyped
    <3>2. CASE Runtimes!AllocateFails(t)
      BY <3>2, <2>2 DEF Runtimes!AllocateFails, RuntimesTyped, Runtimes!Idle
    <3>3. CASE Runtimes!Reconnect(t)
      <4>1. /\ tool[t].at = "ready" /\ connected' \subseteq connected \cup {tool[t].runtime}
            /\ tool' = tool \/ tool' = [tool EXCEPT ![t] = Runtimes!Idle]
            /\ UNCHANGED <<pool, made, closing, counter, logs, stopped, entry, events, sync>>
        BY <3>3 DEF Runtimes!Reconnect
      <4>2. u \in {tool[t], Runtimes!Idle} /\ tool' = [tool EXCEPT ![t] = u]
        BY <4>1 DEF RuntimesTyped
      <4> QED BY <4>1, <4>2, <2>0, <2>1, <2>2 DEF RuntimesTyped, Runtimes!Idle
    <3>4. CASE Runtimes!Command(t)
      <4> DEFINE q == tool[t].runtime
                 next == [at |-> "numbered", runtime |-> q]
      <4>1. /\ tool[t].at = "ready" /\ counter[q] + q <= MaxCommands
            /\ counter' = [counter EXCEPT ![q] = counter[q] + 1]
            /\ tool' = [tool EXCEPT ![t].at = "numbered"]
            /\ UNCHANGED <<pool, made, connected, closing, logs, stopped, entry, events, sync>>
        BY <3>4 DEF Runtimes!Command, Runtimes!NextNumber
      <4>2. q \in 1 .. made /\ tool[t] = [at |-> "ready", runtime |-> q]
        BY <4>1, <2>1
      <4>3. [tool[t] EXCEPT !.at = "numbered"] = next /\ next \in ToolType
        BY <4>2 DEF ToolType
      <4>4. tool' = [tool EXCEPT ![t] = next] /\ u = next
        BY <4>1, <4>3 DEF RuntimesTyped
      <4>5. counter[q] + 1 \in 0 .. MaxCommands
        BY <4>1, <4>2, <2>3, <1>0
      <4>6. u.at = "numbered" /\ u.runtime = q
        BY <4>4
      <4> HIDE DEF q, next, u
      <4> QED BY <4>1, <4>2, <4>3, <4>4, <4>5, <4>6 DEF RuntimesTyped
    <3>5. CASE Runtimes!Note(t)
      <4> DEFINE q == tool[t].runtime
                 next == [at |-> "noted", runtime |-> q, number |-> counter[q]]
      <4>1. /\ tool[t].at = "numbered" /\ tool' = [tool EXCEPT ![t] = next]
            /\ UNCHANGED <<pool, made, connected, closing, counter, logs, stopped, entry, events, sync>>
        BY <3>5 DEF Runtimes!Note
      <4>2. q \in 1 .. made /\ counter[q] \in 0 .. MaxCommands /\ counter[q] # 0
        BY <4>1, <2>1, <2>3 DEF NumbersGiven
      <4>3. next \in ToolType /\ counter[q] <= counter[q]
        BY <4>2 DEF ToolType
      <4> QED BY <4>1, <4>2, <4>3 DEF RuntimesTyped
    <3>6. ASSUME NEW a \in Agents, Runtimes!AllocateExisting(t, a)
          PROVE  /\ UNCHANGED <<pool, made, connected, closing, counter, logs, stopped, entry, events, sync>>
                 /\ u \in ToolType /\ tool' = [tool EXCEPT ![t] = u] /\ u.at = "ready"
      BY <3>6, <2>2 DEF Runtimes!AllocateExisting, RuntimesTyped, Runtimes!Use
    <3>7. pool \in [Agents -> 0 .. made] /\ connected \subseteq 1 .. made
      BY DEF RuntimesTyped
    <3> HIDE DEF u
    <3> QED BY <1>3, <3>1, <3>2, <3>3, <3>4, <3>5, <3>6, <3>7
  <2> HIDE DEF u
  <2>5. RuntimesTyped'
    <3>1. counter' \in [1 .. MaxRuntimes -> 0 .. MaxCommands] /\ tool' \in [Tools -> ToolType]
      BY <2>3, <2>4 DEF RuntimesTyped
    <3> QED BY <3>1, <2>4 DEF RuntimesTyped, ToolType, SyncType
  <2>6. NumbersGiven'
    <3>1. \A q \in 1 .. MaxRuntimes : /\ counter[q] <= counter'[q] /\ counter[q] \in Nat
                                      /\ counter'[q] \in Nat
      <4>1. ASSUME NEW p \in 1 .. made, counter' = [counter EXCEPT ![p] = @ + 1],
                   NEW q \in 1 .. MaxRuntimes
            PROVE  counter[q] <= counter'[q] /\ counter[q] \in Nat /\ counter'[q] \in Nat
        <5>1. counter[q] \in Nat /\ counter'[q] = IF q = p THEN counter[q] + 1 ELSE counter[q]
          BY <4>1 DEF RuntimesTyped
        <5> QED BY <5>1
      <4>2. CASE UNCHANGED counter
        BY <4>2 DEF RuntimesTyped
      <4> QED BY <4>1, <4>2, <2>4
    <3>2. ASSUME NEW q \in 1 .. MaxRuntimes, NEW k \in DOMAIN logs[q] PROVE logs[q][k] <= counter'[q]
      <4>1. logs[q][k] \in Nat
        BY DEF RuntimesTyped
      <4> QED BY <4>1, <3>1 DEF NumbersGiven
    <3>3. ASSUME NEW v \in Tools \ {t}
          PROVE  /\ tool'[v].at = "numbered" => counter'[tool'[v].runtime] # 0
                 /\ tool'[v].at = "noted" => tool'[v].number <= counter'[tool'[v].runtime]
      <4>1. tool'[v] = tool[v] /\ tool[v] \in ToolType
        BY <2>4 DEF RuntimesTyped
      <4>2. /\ tool[v].at \in {"numbered", "noted"} => tool[v].runtime \in 1 .. MaxRuntimes
            /\ tool[v].at = "noted" => tool[v].number \in Nat
        BY <4>1, <2>3 DEF ToolType, Runtimes!Idle
      <4> QED BY <4>1, <4>2, <3>1 DEF NumbersGiven
    <3>4. /\ u.at = "numbered" => counter'[u.runtime] # 0
          /\ u.at = "noted" => u.number <= counter'[u.runtime]
      <4>1. CASE u.at = "numbered"
        <5>1. /\ u.runtime \in 1 .. made /\ u.runtime \in 1 .. MaxRuntimes
              /\ counter' = [counter EXCEPT ![u.runtime] = counter[u.runtime] + 1]
              /\ counter[u.runtime] \in Nat
          BY <4>1, <2>3, <2>4
        <5>2. counter'[u.runtime] = counter[u.runtime] + 1
          BY <5>1 DEF RuntimesTyped
        <5> QED BY <4>1, <5>1, <5>2
      <4>2. CASE u.at # "numbered"
        BY <4>2, <2>4
      <4> QED BY <4>1, <4>2
    <3> QED BY <3>2, <3>3, <3>4, <2>4 DEF NumbersGiven, u
  <2> QED BY <2>4, <2>5, <2>6, <1>s
<1>4. ASSUME NEW t \in Tools, Runtimes!Log(t) PROVE RuntimesInv'
  <2> DEFINE q == tool[t].runtime
             n == tool[t].number
  <2>1. /\ tool[t].at = "noted" /\ logs' = [logs EXCEPT ![q] = Append(logs[q], n)]
        /\ tool' = [tool EXCEPT ![t] = Runtimes!Idle]
        /\ UNCHANGED <<pool, made, connected, closing, counter, stopped, entry, events, sync>>
    BY <1>4 DEF Runtimes!Log
  <2>2. q \in 1 .. MaxRuntimes /\ n \in 1 .. MaxCommands /\ n <= counter[q]
    <3>1. tool[t] \in ToolType
      BY DEF RuntimesTyped
    <3>2. q \in 1 .. made /\ n \in 1 .. MaxCommands
      BY <3>1, <2>1 DEF ToolType, Runtimes!Idle
    <3>3. n <= counter[q]
      BY <2>1 DEF NumbersGiven
    <3> QED BY <3>2, <3>3, <1>0
  <2>3. logs \in [1 .. MaxRuntimes -> Seq(1 .. MaxCommands)] /\ logs[q] \in Seq(1 .. MaxCommands)
    BY <2>2 DEF RuntimesTyped
  <2> HIDE DEF q, n
  <2>4. /\ logs'[q] \in Seq(1 .. MaxCommands) /\ DOMAIN logs'[q] = 1 .. Len(logs[q]) + 1
        /\ Len(logs[q]) \in Nat /\ DOMAIN logs[q] = 1 .. Len(logs[q])
        /\ logs'[q][Len(logs[q]) + 1] = n
        /\ \A k \in DOMAIN logs[q] : logs'[q][k] = logs[q][k]
        /\ \A r \in (1 .. MaxRuntimes) \ {q} : logs'[r] = logs[r]
    BY <2>1, <2>2, <2>3, AppendProperties
  <2>5. logs' \in [1 .. MaxRuntimes -> Seq(1 .. MaxCommands)]
    BY <2>1, <2>3, <2>4
  <2>6. RuntimesTyped'
    <3>1. Runtimes!Idle \in ToolType
      BY DEF ToolType
    <3> QED BY <3>1, <2>1, <2>5 DEF RuntimesTyped, SyncType, ToolType
  <2>7. NumbersGiven'
    <3>1. \A r \in 1 .. MaxRuntimes : \A k \in DOMAIN logs'[r] : logs'[r][k] <= counter[r]
      <4>1. ASSUME NEW r \in (1 .. MaxRuntimes) \ {q}, NEW k \in DOMAIN logs'[r]
            PROVE  logs'[r][k] <= counter[r]
        BY <2>4 DEF NumbersGiven
      <4>2. ASSUME NEW k \in DOMAIN logs'[q] PROVE logs'[q][k] <= counter[q]
        <5>1. CASE k \in DOMAIN logs[q]
          BY <5>1, <2>2, <2>4 DEF NumbersGiven
        <5>2. CASE k = Len(logs[q]) + 1
          BY <5>2, <2>2, <2>4
        <5> QED BY <5>1, <5>2, <2>4
      <4> QED BY <4>1, <4>2
    <3>2. /\ \A u \in Tools \ {t} : tool'[u] = tool[u]
          /\ tool'[t].at = "idle"
      BY <2>1 DEF RuntimesTyped, Runtimes!Idle
    <3> QED BY <3>1, <3>2, <2>1 DEF NumbersGiven
  <2>8. ShownRight'
    <3>1. \A r \in 1 .. MaxRuntimes :
            DOMAIN logs[r] \subseteq DOMAIN logs'[r] /\ \A k \in DOMAIN logs[r] : logs'[r][k] = logs[r][k]
      <4>1. \A r \in (1 .. MaxRuntimes) \ {q} : logs'[r] = logs[r]
        BY <2>4
      <4>2. DOMAIN logs[q] \subseteq DOMAIN logs'[q] /\ \A k \in DOMAIN logs[q] : logs'[q][k] = logs[q][k]
        BY <2>4
      <4> QED BY <4>1, <4>2
    <3> QED BY <3>1, <2>1, ShownStays
  <2> QED BY <2>6, <2>7, <2>8
<1>5. ASSUME NEW s \in Syncs, Runtimes!SyncStart(s) PROVE RuntimesInv'
  <2>1. /\ UNCHANGED <<pool, made, connected, closing, counter, logs, stopped, tool, events>>
        /\ Runtimes!Advance(s, entry, Runtimes!Pooled(Agents), {})
    BY <1>5 DEF Runtimes!SyncStart
  <2> DEFINE todo == Runtimes!Pooled(Agents)
             seen == {}
  <2>2. entry \in [Agents -> EntryType] /\ todo \in SUBSET Agents /\ seen \in SUBSET Agents
    BY DEF RuntimesTyped, Runtimes!Pooled
  <2>3. /\ sync' \in [Syncs -> SyncType]
        /\ entry' \in [Agents -> EntryType]
        /\ \A a \in Agents : entry'[a].seq = entry[a].seq
                             /\ (entry'[a] = Runtimes!NoEntry <=> entry[a] = Runtimes!NoEntry)
    <3>1. RuntimesTyped /\ Runtimes!Advance(s, entry, todo, seen)
      BY <2>1
    <3> HIDE DEF todo, seen
    <3> QED BY ONLY <2>2, <3>1, AdvanceKeeps
  <2>4. RuntimesTyped'
    BY <2>1, <2>3 DEF RuntimesTyped, SyncType, ToolType
  <2>5. ShownRight'
    <3>1. \A r \in 1 .. MaxRuntimes :
            DOMAIN logs[r] \subseteq DOMAIN logs'[r] /\ \A k \in DOMAIN logs[r] : logs'[r][k] = logs[r][k]
      BY <2>1
    <3> QED BY <3>1, <2>1, <2>3, ShownStays
  <2> QED BY <2>1, <2>4, <2>5, NumbersStay
<1>6. ASSUME NEW s \in Syncs, Runtimes!SyncRecord(s) PROVE RuntimesInv'
  <2> DEFINE b == sync[s].agent
             q == sync[s].runtime
             st == IF q \in connected THEN "running" ELSE "disconnected"
             n == entry[b].seq
             m == Runtimes!Farthest(q, n)
             e == [entry EXCEPT ![b] = [state |-> st, seq |-> m]]
             new == Runtimes!NewLogs(q, n)
             shown == IF entry[b] = Runtimes!NoEntry THEN <<>> ELSE events[b]
             more == IF new = {} THEN shown ELSE Append(shown, [runtime |-> q, places |-> new])
  <2>1. /\ sync[s].at = "metrics"
        /\ events' = [events EXCEPT ![b] = more]
        /\ Runtimes!Advance(s, e, sync[s].todo, sync[s].seen)
        /\ UNCHANGED <<pool, made, connected, closing, counter, logs, stopped, tool>>
    BY <1>6 DEF Runtimes!SyncRecord, Runtimes!ReadTo
  <2>2. /\ b \in Agents /\ q \in 1 .. made /\ q \in 1 .. MaxRuntimes
        /\ sync[s].todo \in SUBSET Agents /\ sync[s].seen \in SUBSET Agents
    <3>1. sync[s] \in SyncType /\ sync[s].at = "metrics"
      BY <2>1 DEF RuntimesTyped
    <3> QED BY <3>1, <1>0 DEF SyncType, Runtimes!Idle
  <2>3. n \in 0 .. MaxCommands /\ m \in 0 .. MaxCommands
    <3>1. entry[b] \in EntryType
      BY <2>2 DEF RuntimesTyped
    <3>2. n \in 0 .. MaxCommands
      BY <3>1 DEF EntryType, Runtimes!NoEntry
    <3> HIDE DEF n
    <3> QED BY <3>2, <2>2, FarthestRead
  <2>4. e \in [Agents -> EntryType] /\ e[b].seq = m /\ e[b] # Runtimes!NoEntry
        /\ \A a \in Agents \ {b} : e[a] = entry[a]
    <3>1. [state |-> st, seq |-> m] \in EntryType /\ [state |-> st, seq |-> m] # Runtimes!NoEntry
      BY <2>3 DEF EntryType, Runtimes!States, Runtimes!NoEntry
    <3> HIDE DEF st, m
    <3> QED BY <2>2, <3>1 DEF RuntimesTyped
  <2>5. shown = events[b] /\ events[b] \in Seq(ReadingsOf(made))
    BY <2>2 DEF ShownRight, ReadInOrder, ReadOf, RuntimesTyped
  <2>6. /\ sync' \in [Syncs -> SyncType]
        /\ entry' \in [Agents -> EntryType]
        /\ \A a \in Agents : entry'[a].seq = e[a].seq
                             /\ (entry'[a] = Runtimes!NoEntry <=> e[a] = Runtimes!NoEntry)
    <3> HIDE DEF e
    <3> QED BY <2>1, <2>2, <2>4, AdvanceKeeps
  <2>7. new \subseteq Nat
    <3>1. logs[q] \in Seq(1 .. MaxCommands)
      BY <2>2 DEF RuntimesTyped
    <3> QED BY <3>1 DEF Runtimes!NewLogs
  <2>8. RuntimesTyped'
    <3>1. [runtime |-> q, places |-> new] \in ReadingsOf(made)
      BY <2>2, <2>7 DEF ReadingsOf
    <3>2. more \in Seq(ReadingsOf(made))
      <4> HIDE DEF new, shown, q
      <4> QED BY <3>1, <2>5, AppendProperties
    <3> HIDE DEF more, b
    <3>3. events' \in [Agents -> Seq(ReadingsOf(made))]
      BY <2>1, <2>2, <3>2 DEF RuntimesTyped
    <3> QED BY <3>3, <2>1, <2>6 DEF RuntimesTyped, SyncType, ToolType
  <2>9. ShownRight'
    <3>1. events'[b] = IF new = {} THEN events[b] ELSE Append(events[b], [runtime |-> q, places |-> new])
      BY <2>1, <2>2, <2>5 DEF RuntimesTyped
    <3>2. entry'[b] # Runtimes!NoEntry /\ entry'[b].seq = m
      BY <2>2, <2>4, <2>6
    <3>3. \A a \in Agents \ {b} :
            /\ events'[a] = events[a] /\ entry'[a].seq = entry[a].seq
            /\ entry'[a] = Runtimes!NoEntry => entry[a] = Runtimes!NoEntry
      BY <2>1, <2>4, <2>6 DEF RuntimesTyped
    <3>4. RuntimesTyped /\ ShownRight /\ logs' = logs
      BY <2>1
    <3> QED BY ONLY <3>1, <3>2, <3>3, <3>4, <2>2, ReadingShown
  <2> QED BY <2>1, <2>8, <2>9, NumbersStay
<1>7. ASSUME NEW q \in 1 .. MaxRuntimes, Runtimes!Released(q) PROVE RuntimesInv'
  <2>0. /\ UNCHANGED <<pool, made, counter, logs, stopped, tool, entry, events, sync>>
        /\ connected' \subseteq connected /\ closing' \subseteq closing
    BY <1>7 DEF Runtimes!Released
  <2>1. RuntimesTyped'
    BY <2>0 DEF RuntimesTyped, SyncType, ToolType
  <2> QED BY <2>0, <2>1, <1>s, NumbersStay
<1>8. ASSUME NEW a \in Agents, Runtimes!StopSandbox(a) \/ Runtimes!DeleteSandbox(a) PROVE RuntimesInv'
  <2>1. /\ UNCHANGED <<made, connected, counter, logs, stopped, tool, sync>>
        /\ pool' \in [Agents -> 0 .. made] /\ closing' \subseteq 1 .. made
    <3>1. /\ pool' = [pool EXCEPT ![a] = Runtimes!NoRuntime]
          /\ closing' = {pool[c] : c \in Runtimes!Pooled({a})}
          /\ UNCHANGED <<made, connected, counter, logs, stopped, tool, sync>>
      BY <1>8 DEF Runtimes!StopSandbox, Runtimes!DeleteSandbox, Runtimes!Release
    <3>2. \A c \in Runtimes!Pooled({a}) : pool[c] \in 1 .. made
      BY <1>0 DEF Runtimes!Pooled, Runtimes!NoRuntime, RuntimesTyped
    <3>3. pool \in [Agents -> 0 .. made] /\ Runtimes!NoRuntime \in 0 .. made
      BY <1>0 DEF RuntimesTyped, Runtimes!NoRuntime
    <3> QED BY <3>1, <3>2, <3>3
  <2>2. \A r \in 1 .. MaxRuntimes :
          DOMAIN logs[r] \subseteq DOMAIN logs'[r] /\ \A k \in DOMAIN logs[r] : logs'[r][k] = logs[r][k]
    BY <2>1
  <2>3. CASE Runtimes!StopSandbox(a)
    <3>1. entry' = [entry EXCEPT ![a].state = "stopped"] /\ events' = events
          /\ entry[a].state # "none"
      BY <2>3 DEF Runtimes!StopSandbox
    <3>2. entry[a] \in [state : Runtimes!States, seq : 0 .. MaxCommands]
      BY <3>1 DEF RuntimesTyped, EntryType, Runtimes!NoEntry
    <3>3. entry'[a] = [state |-> "stopped", seq |-> entry[a].seq]
      BY <3>1, <3>2 DEF RuntimesTyped
    <3>4. entry' \in [Agents -> EntryType] /\ \A c \in Agents \ {a} : entry'[c] = entry[c]
      <4>1. [state |-> "stopped", seq |-> entry[a].seq] \in EntryType
        BY <3>2 DEF EntryType, Runtimes!States
      <4>2. entry' = [entry EXCEPT ![a] = [state |-> "stopped", seq |-> entry[a].seq]]
        BY <3>1, <3>2, <3>3 DEF RuntimesTyped
      <4> QED BY <4>1, <4>2 DEF RuntimesTyped
    <3>5. RuntimesTyped'
      BY <2>1, <3>1, <3>4 DEF RuntimesTyped, SyncType, ToolType
    <3>6. entry'[a].seq = entry[a].seq /\ entry'[a] # Runtimes!NoEntry
      BY <3>3 DEF Runtimes!NoEntry
    <3>7. ShownRight'
      BY <2>2, <3>1, <3>4, <3>6, ShownStays
    <3> QED BY <3>5, <3>7, <2>1, NumbersStay
  <2>4. CASE Runtimes!DeleteSandbox(a)
    <3>1. entry' = [entry EXCEPT ![a] = Runtimes!NoEntry] /\ events' = [events EXCEPT ![a] = <<>>]
      BY <2>4 DEF Runtimes!DeleteSandbox
    <3>2. entry' \in [Agents -> EntryType] /\ events' \in [Agents -> Seq(ReadingsOf(made))]
      BY <3>1 DEF RuntimesTyped, EntryType
    <3>3. RuntimesTyped'
      BY <2>1, <3>2 DEF RuntimesTyped, SyncType, ToolType
    <3>4. events'[a] = <<>> /\ entry'[a].seq = 0
      BY <3>1 DEF RuntimesTyped, Runtimes!NoEntry
    <3>5. \A c \in Agents \ {a} : events'[c] = events[c] /\ entry'[c] = entry[c]
      BY <3>1 DEF RuntimesTyped
    <3>6. ShownRight'
      BY <2>2, <3>4, <3>5, ShownStays
    <3> QED BY <3>3, <3>6, <2>1, NumbersStay
  <2> QED BY <1>8, <2>3, <2>4
<1>9. ASSUME NEW a \in Agents, NEW st \in {"paused", "completed"}, Runtimes!UpdateState(a, st)
      PROVE  RuntimesInv'
  <2>1. /\ entry[a] # Runtimes!NoEntry /\ entry' = [entry EXCEPT ![a].state = st]
        /\ UNCHANGED <<pool, made, connected, closing, counter, logs, stopped, tool, events, sync>>
    BY <1>9 DEF Runtimes!UpdateState
  <2>2. entry[a] \in [state : Runtimes!States, seq : 0 .. MaxCommands]
    BY <2>1 DEF RuntimesTyped, EntryType
  <2>3. entry' = [entry EXCEPT ![a] = [state |-> st, seq |-> entry[a].seq]]
    <3>1. [entry[a] EXCEPT !.state = st] = [state |-> st, seq |-> entry[a].seq]
      BY <2>2
    <3>2. entry' = [entry EXCEPT ![a] = [entry[a] EXCEPT !.state = st]]
      BY <2>1
    <3> QED BY <3>1, <3>2
  <2>4. [state |-> st, seq |-> entry[a].seq] \in EntryType
    BY <2>2 DEF EntryType, Runtimes!States
  <2>5. RuntimesTyped'
    <3>1. entry' \in [Agents -> EntryType]
      BY <2>3, <2>4 DEF RuntimesTyped
    <3> QED BY <2>1, <3>1 DEF RuntimesTyped, SyncType, ToolType
  <2>6. ShownRight'
    <3>1. /\ entry'[a].seq = entry[a].seq /\ \A c \in Agents \ {a} : entry'[c] = entry[c]
          /\ entry'[a] # Runtimes!NoEntry
      BY <2>3 DEF RuntimesTyped, Runtimes!NoEntry
    <3>2. \A r \in 1 .. MaxRuntimes :
            DOMAIN logs[r] \subseteq DOMAIN logs'[r] /\ \A k \in DOMAIN logs[r] : logs'[r][k] = logs[r][k]
      BY <2>1
    <3> QED BY <2>1, <3>1, <3>2, ShownStays
  <2> QED BY <2>1, <2>5, <2>6, NumbersStay
<1> HIDE DEF RuntimesInv
<1> QED BY ONLY Runtimes!Next, <1>1, <1>2, <1>3, <1>4, <1>5, <1>6, <1>7, <1>8, <1>9
        DEF Runtimes!Next, Runtimes!Runtimes

\* What the module says of its types and of the commands shown follows.
LEMMA RuntimesImplied ==
  RuntimesInv => Runtimes!TypeOK /\ Runtimes!ShownOnceInOrder /\ Runtimes!PassedOverForACause
<1> SUFFICES ASSUME RuntimesInv PROVE Runtimes!TypeOK
  BY DEF RuntimesInv, ShownRight
<1> USE DEF RuntimesInv, RuntimesTyped
<1>1. \A t \in Tools :
        /\ tool[t].at \in {"idle", "connecting", "ready", "numbered", "noted"}
        /\ tool[t] # Runtimes!Idle => tool[t].runtime \in 1 .. made
  BY DEF ToolType, Runtimes!Idle
<1>2. \A s \in Syncs : /\ sync[s].at \in {"idle", "metrics"}
                       /\ sync[s] # Runtimes!Idle => sync[s].runtime \in 1 .. made
  BY DEF SyncType, Runtimes!Idle
<1>3. \A a \in Agents :
        /\ entry[a] \in [state : Runtimes!States, seq : 0 .. MaxCommands] \cup {Runtimes!NoEntry}
        /\ entry[a] = Runtimes!NoEntry => events[a] = <<>>
        /\ events[a] \in Seq(Runtimes!Readings)
  BY DEF EntryType, ReadingsOf, Runtimes!Readings, ShownRight, ReadInOrder, ReadOf
<1>4. ASSUME NEW r \in 1 .. MaxRuntimes PROVE logs[r] \in Seq(1 .. counter[r])
  <2>1. logs[r] \in Seq(1 .. MaxCommands) /\ counter[r] \in 0 .. MaxCommands
    OBVIOUS
  <2>2. \A k \in DOMAIN logs[r] : logs[r][k] \in 1 .. counter[r]
    <3>1. \A k \in DOMAIN logs[r] : logs[r][k] \in 1 .. MaxCommands
      BY LogPlaces
    <3>2. \A k \in DOMAIN logs[r] : logs[r][k] <= counter[r]
      BY DEF NumbersGiven
    <3> QED BY <2>1, <3>1, <3>2, RuntimesNumbers
  <2>3. /\ Len(logs[r]) \in Nat /\ DOMAIN logs[r] = 1 .. Len(logs[r])
        /\ logs[r] = [k \in DOMAIN logs[r] |-> logs[r][k]]
    BY <2>1, SeqPlaces
  <2>4. logs[r] \in [1 .. Len(logs[r]) -> 1 .. counter[r]]
    BY <2>2, <2>3
  <2>5. \A n \in Nat : \A f \in [1 .. n -> 1 .. counter[r]] : f \in Seq(1 .. counter[r])
    <3> SUFFICES ASSUME NEW n \in Nat, NEW f \in [1 .. n -> 1 .. counter[r]]
                 PROVE  f \in Seq(1 .. counter[r])
      OBVIOUS
    <3> QED BY ONLY SeqDef
  <2> QED BY <2>3, <2>4, <2>5
<1> QED BY <1>1, <1>2, <1>3, <1>4 DEF Runtimes!TypeOK, Runtimes!Runtimes

-----------------------------------------------------------------------------
(* All parts together.                                                       *)

ExecInv == PoolInv /\ LockIsPassedOn /\ CrewInv /\ LoopInv /\ RunInv /\ RuntimesInv

\* Each part keeps its invariant, and the others do not move meanwhile.
LEMMA ExecutionsInvariant == ExecutionSpec => []ExecInv
<1>1. ExecutionInit => ExecInv
  BY PoolBegins, LockBegins, CrewsBegin, LoopBegins, RunBegins, RuntimesBegin DEF ExecutionInit, ExecInv
<1>2. PoolInv /\ LockIsPassedOn /\ UNCHANGED spVars => PoolInv' /\ LockIsPassedOn'
  BY DEF spVars, poolVars, lockVars, callVars, PoolInv, PoolTypeOK, StarterHolds, StartsBounded,
         Tries, PoolLosesNone, Key, LockIsPassedOn
<1>3. CrewInv /\ UNCHANGED crewVars => CrewInv'
  BY DEF crewVars, CrewInv, Crews!ToolsTypeOK, HoldersCounted, Holders, Crews!ManagerKeepsTools
<1>4. LoopInv /\ UNCHANGED loopVars => LoopInv'
  BY DEF loopVars, LoopInv, Loop!LoopTypeOK, RepliesFollow, Pending
<1>5. RunInv /\ UNCHANGED runVars => RunInv'
  BY DEF runVars, RunInv, Run!RunTypeOK, RoundsGoOn, ReportedAtEnd, Refining,
         Run!LocalOutcomeJustified
<1>6. RuntimesInv /\ UNCHANGED runtimesVars => RuntimesInv'
  BY DEF runtimesVars, RuntimesInv, RuntimesTyped, NumbersGiven, ShownRight, ReadInOrder, ReadOf, ToolType,
         SyncType, Runtimes!ShownOnceInOrder, Runtimes!PassedOverForACause
<1>7. ExecInv /\ [ExecutionNext]_<<part, spVars, runtimesVars, loopVars, runVars, crewVars>> => ExecInv'
  <2> SUFFICES ASSUME ExecInv,
                      [ExecutionNext]_<<part, spVars, runtimesVars, loopVars, runVars, crewVars>>
               PROVE  ExecInv'
    OBVIOUS
  <2>1. PoolInv' /\ LockIsPassedOn'
    BY <1>2, PoolStep, LockKept DEF ExecInv, ExecutionNext, Others
  <2>2. CrewInv'
    BY <1>3, CrewsStep DEF ExecInv, ExecutionNext, Others
  <2>3. LoopInv'
    BY <1>4, LoopStep DEF ExecInv, ExecutionNext, Others
  <2>4. RunInv'
    BY <1>5, RunStep DEF ExecInv, ExecutionNext, Others
  <2>5. RuntimesInv'
    BY <1>6, RuntimesStep DEF ExecInv, ExecutionNext, Others
  <2> QED BY <2>1, <2>2, <2>3, <2>4, <2>5 DEF ExecInv
<1> QED BY <1>1, <1>7, PTL DEF ExecutionSpec

\* In each request to the LLM every call of a tool is followed by its replies, wherever
\* compaction cut the conversation; for any numbers of iterations and calls and any
\* sizes.
THEOREM CallsAnswered == ExecutionSpec => []CallsAreAnswered
<1>1. LoopInv => CallsAreAnswered
  <2> SUFFICES ASSUME LoopInv, phase = "wait",
                      NEW i \in DOMAIN messages, NEW k \in 1 .. messages[i].calls
               PROVE  i + k \in DOMAIN messages /\ messages[i + k].role = "tool"
    BY DEF CallsAreAnswered, Loop!CallsAreAnswered
  <2>1. /\ messages \in Seq(MessageType) /\ DOMAIN messages = 1 .. Len(messages)
        /\ Len(messages) \in Nat
    BY DEF LoopInv, Loop!LoopTypeOK, MessageType
  <2>2. messages[i].calls \in Nat
    <3>1. messages[i] \in MessageType
      BY <2>1
    <3> QED BY <3>1 DEF MessageType
  <2>3. i + k <= Len(messages) /\ messages[i + k].role = "tool"
    <3>1. Pending = 0
      BY DEF Pending
    <3> QED BY <2>1, <2>2, <3>1 DEF LoopInv, RepliesFollow
  <2> QED BY <2>1, <2>2, <2>3
<1> QED BY <1>1, ExecutionsInvariant, PTL DEF ExecInv

\* A success with a text that could be better comes after two equal rounds or the last
\* one, and a remote task ends as its result says; for any workers, plans and rounds.
THEOREM LocalOutcomes == ExecutionSpec => []LocalOutcomeJustified
<1>1. RunInv => LocalOutcomeJustified
  BY DEF RunInv, LocalOutcomeJustified
<1> QED BY <1>1, ExecutionsInvariant, PTL DEF ExecInv

\* The pool stops each sandbox it started and that it still has, its lock goes round, and
\* a manager has its own tools when no crew of it runs; for any calls, tasks, loops and
\* wrappers.
THEOREM SharedReturned == ExecutionSpec => []SharedIsReturned
<1>1. PoolInv /\ LockIsPassedOn /\ CrewInv => SharedIsReturned
  BY DEF PoolInv, CrewInv, SharedIsReturned
<1> QED BY <1>1, ExecutionsInvariant, PTL DEF ExecInv

\* No entry of a log is shown twice or before an earlier one, and none is passed over
\* without an entry shown before that has its number or a larger one, however commands
\* are numbered and logged at once and synchronisations, stops and deletions overlap: the
\* safety part of CommandsAreShown.
THEOREM ShownInOrder ==
  ExecutionSpec => []Runtimes!ShownOnceInOrder /\ []Runtimes!PassedOverForACause
BY RuntimesImplied, ExecutionsInvariant, PTL DEF ExecInv

\* The variables of all parts have their types.
THEOREM ExecutionTypes == ExecutionSpec => []ExecutionTypeOK
<1>1. ExecInv => ExecutionTypeOK
  BY RuntimesImplied DEF ExecInv, PoolInv, CrewInv, LoopInv, RunInv, ExecutionTypeOK
<1> QED BY <1>1, ExecutionsInvariant, PTL
=============================================================================
