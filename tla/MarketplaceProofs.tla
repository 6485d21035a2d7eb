--------------------------- MODULE MarketplaceProofs ---------------------------
(***************************************************************************)
(* Proofs about Marketplace, and the CentralServer in it, for any number of *)
(* users, nodes and tokens, and any intervals and thresholds that           *)
(* CentralAssumption and HeartbeatAssumption allow.                         *)
(*                                                                         *)
(* The argument has three parts.  Tokens have ids of their own, so a user   *)
(* who is deleted takes no node of somebody else along.  The age of a row   *)
(* is the time since the last heartbeat that arrived, at most an interval   *)
(* for each that did not and for the one that is due: less than the         *)
(* threshold, so the check finds nothing to do.  And a leave that nobody    *)
(* disturbed leaves no call behind that could list the node again.          *)
(***************************************************************************)
EXTENDS Marketplace, TLAPS

-----------------------------------------------------------------------------
(* The inductive invariant.                                                  *)

\* No two tokens have the same id.
TokensDiffer ==
  \A n \in DOMAIN token :
    /\ token[n].id <= issued
    /\ \A m \in DOMAIN token : token[n].id = token[m].id => n = m

\* The time without a heartbeat, when k of them failed in a row and one more is due.
Silence(k) == (k + 1) * HeartbeatEvery

\* A node whose heartbeats arrived but for missed[n] in a row has a row that is no
\* older than that.
HeardOf ==
  \A n \in Nodes :
    loop[n] = "running" /\ missed[n] <= Tolerated
      => /\ Listed(n) /\ node[n].status = "online"
         /\ node[n].age + due[n] <= Silence(missed[n])

\* After a leave that nobody disturbed, no call is under way that will list the node.
StaysLeft ==
  \A n \in Nodes :
    /\ left[n] # "no" => ~Listed(n) /\ join[n] = "idle" /\ ~late[n] /\ status[n] # "listed"
    /\ left[n] = "calm" => /\ leave[n] \in {"verified", "stopping"} /\ status[n] = "idle"
                           /\ leave[n] = "stopping" => ~registered[n]
    /\ left[n] = "yes" => ~registered[n]

IInv == TypeOK /\ TokensDiffer /\ HeardOf /\ StaysLeft

-----------------------------------------------------------------------------
(* The server.                                                               *)

\* What the central server does.
CentralNext ==
  \/ \E u \in Users : \/ Login(u) \/ Suspend(u) \/ Unsuspend(u) \/ DeleteUser(u)
                      \/ \E n \in Nodes, asked \in Lives : CreateToken(u, n, asked)
  \/ \E n \in Nodes : \/ RefreshToken(n) \/ RevokeToken(n) \/ AdminDeleteNode(n)
                      \/ Register(n) \/ Heartbeat(n) \/ Unlist(n)
  \/ ResetAllData \/ HealthCheck \/ CentralTick

Tables == CentralTypeOK /\ TokensDiffer

\* Every operation of the server keeps its tables consistent: a node has the very token
\* it was registered with, and tokens differ.
LEMMA TablesKept ==
  ASSUME Tables, CentralNext \/ UNCHANGED central
  PROVE  Tables'
<1> USE CentralAssumption DEF CentralAssumption, Tables
<1>1. ASSUME NEW u \in Users, Login(u) \/ Suspend(u) \/ Unsuspend(u) PROVE Tables'
  BY <1>1 DEF Login, Suspend, Unsuspend, CentralTypeOK, TokensDiffer, Put
<1>2. ASSUME NEW u \in Users, DeleteUser(u) PROVE Tables'
  BY <1>2 DEF DeleteUser, CentralTypeOK, TokensDiffer, Drop, Restrict, TokensOf
<1>3. ASSUME NEW u \in Users, NEW n \in Nodes, NEW asked \in Lives, CreateToken(u, n, asked)
      PROVE Tables'
  BY <1>3 DEF CreateToken, CentralTypeOK, TokensDiffer, Put, Row, Life, InSession
<1>4. ASSUME NEW n \in Nodes, RefreshToken(n) PROVE Tables'
  <2>1. token[n] \in Row /\ n \in DOMAIN token
    BY <1>4 DEF RefreshToken, CentralTypeOK
  <2>2. /\ DOMAIN token' = DOMAIN token
        /\ \A m \in DOMAIN token : /\ token'[m] \in Row /\ token'[m].id = token[m].id
                                   /\ token'[m].owner = token[m].owner
    <3>1. CASE ConfigLife > 0
      <4>1. token' = [token EXCEPT ![n].life = Life(ConfigLife)]
        BY <1>4, <3>1 DEF RefreshToken
      <4>2. Life(ConfigLife) \in [expires : BOOLEAN, left : Nat]
        BY DEF Life
      <4> QED BY <2>1, <4>1, <4>2 DEF CentralTypeOK, Row
    <3>2. CASE ~(ConfigLife > 0)
      BY <1>4, <3>2 DEF RefreshToken, CentralTypeOK
    <3> QED BY <3>1, <3>2
  <2>3. CentralTypeOK'
    BY <1>4, <2>2 DEF RefreshToken, CentralTypeOK, Put
  <2>4. TokensDiffer'
    BY <1>4, <2>2 DEF RefreshToken, TokensDiffer
  <2> QED BY <2>3, <2>4
<1>5. ASSUME NEW n \in Nodes, RevokeToken(n) \/ AdminDeleteNode(n) PROVE Tables'
  BY <1>5 DEF RevokeToken, NodesAfterRevoke, AdminDeleteNode, CentralTypeOK, TokensDiffer,
              Put, Drop, Restrict
<1>6. ASSUME NEW n \in Nodes, Register(n) PROVE Tables'
  BY <1>6 DEF Register, Authorised, CentralTypeOK, TokensDiffer, Put, Row, NodeRow
<1>7. ASSUME NEW n \in Nodes, Heartbeat(n) \/ Unlist(n) PROVE Tables'
  <2>1. CASE n \notin DOMAIN node
    <3>1. UNCHANGED central
      BY <1>7, <2>1 DEF Heartbeat, AcceptsHeartbeat, Listed, Unlist, central
    <3> QED BY <3>1 DEF central, CentralTypeOK, TokensDiffer
  <2>2. CASE n \in DOMAIN node
    <3>1. node[n] \in NodeRow
      BY <2>2 DEF CentralTypeOK
    <3>2. \/ node' = [node EXCEPT ![n].status = "online", ![n].age = 0] /\ node[n].is_listed
          \/ node' = [node EXCEPT ![n].is_listed = FALSE, ![n].status = "offline",
             ![n].age = 0]
      BY <1>7, <2>2 DEF Heartbeat, AcceptsHeartbeat, Listed, Seen, Unlist, Unlisted
    <3>3. /\ DOMAIN node' = DOMAIN node
          /\ \A m \in DOMAIN node : m # n => node'[m] = node[m]
          /\ node'[n] \in NodeRow /\ node'[n].token_id = node[n].token_id
          /\ ~node'[n].is_listed => node'[n].status = "offline"
      <4>1. CASE node' = [node EXCEPT ![n].status = "online",
      ![n].age = 0] /\ node[n].is_listed
        <5>1. node'[n] = [node[n] EXCEPT !.status = "online", !.age = 0]
          BY <2>2, <4>1
        <5> QED BY <2>2, <3>1, <4>1, <5>1 DEF NodeRow
      <4>2. CASE node' = [node EXCEPT ![n].is_listed = FALSE, ![n].status = "offline",
                                      ![n].age = 0]
        <5>1. node'[n] = [token_id |-> node[n].token_id, is_listed |-> FALSE,
                          status |-> "offline", age |-> 0]
          BY <2>2, <3>1, <4>2 DEF NodeRow
        <5>2. DOMAIN node' = DOMAIN node /\ \A m \in DOMAIN node : m # n => node'[m] = node[m]
          BY <4>2
        <5>3. node'[n] \in NodeRow
          BY <3>1, <5>1 DEF NodeRow
        <5> QED BY <5>1, <5>2, <5>3
      <4> QED BY <3>2, <4>1, <4>2
    <3>4. UNCHANGED <<user, token, revoked, issued>>
      BY <1>7 DEF Heartbeat, Unlist
    <3> QED BY <2>2, <3>3, <3>4 DEF CentralTypeOK, TokensDiffer
  <2> QED BY <2>1, <2>2
<1>8. ASSUME ResetAllData PROVE Tables'
  BY <1>8 DEF ResetAllData, CentralTypeOK, TokensDiffer
<1>9. ASSUME HealthCheck PROVE Tables'
  <2>1. DOMAIN node' \subseteq DOMAIN node
    BY <1>9 DEF HealthCheck
  <2>2. ASSUME NEW n \in DOMAIN node'
        PROVE  /\ node'[n] \in NodeRow /\ node'[n].token_id = node[n].token_id
               /\ ~node'[n].is_listed => node'[n].status = "offline"
    <3>1. node'[n] = [node[n] EXCEPT !.status = StatusAfterCheck(n),
                                     !.is_listed = ListedAfterCheck(n)]
      BY <1>9, <2>2 DEF HealthCheck
    <3>2. node[n] \in NodeRow /\ (~node[n].is_listed => node[n].status = "offline")
      BY <2>1, <2>2 DEF CentralTypeOK
    <3>3. /\ StatusAfterCheck(n) \in {"online", "offline"}
          /\ ListedAfterCheck(n) \in BOOLEAN
          /\ ~ListedAfterCheck(n) => StatusAfterCheck(n) = "offline"
      BY <3>2 DEF StatusAfterCheck, ListedAfterCheck, NodeRow
    <3> QED BY <3>1, <3>2, <3>3 DEF NodeRow
  <2>3. /\ UNCHANGED <<user, token, issued>>
        /\ revoked' = Drop(revoked, {n \in DOMAIN revoked : revoked[n] > PurgeAfter})
    BY <1>9 DEF HealthCheck
  <2> QED BY <2>1, <2>2, <2>3 DEF CentralTypeOK, TokensDiffer, Drop, Restrict
<1>10. ASSUME CentralTick PROVE Tables'
  <2>1. /\ DOMAIN token' = DOMAIN token
        /\ \A n \in DOMAIN token : /\ token'[n] \in Row /\ token'[n].id = token[n].id
                                   /\ token'[n].owner = token[n].owner
    <3> SUFFICES ASSUME NEW n \in DOMAIN token
                 PROVE  /\ token'[n] \in Row /\ token'[n].id = token[n].id
                        /\ token'[n].owner = token[n].owner
      BY <1>10 DEF CentralTick
    <3>1. token[n] \in Row
      BY DEF CentralTypeOK
    <3>2. token'[n] = [token[n] EXCEPT !.life.left = IF @ = 0 THEN 0 ELSE @ - 1]
      BY <1>10 DEF CentralTick
    <3> QED BY <3>1, <3>2 DEF Row
  <2>2. /\ DOMAIN node' = DOMAIN node
        /\ \A n \in DOMAIN node : /\ node'[n] \in NodeRow
                                  /\ node'[n].token_id = node[n].token_id
                                  /\ node'[n].is_listed = node[n].is_listed
                                  /\ node'[n].status = node[n].status
    <3> SUFFICES ASSUME NEW n \in DOMAIN node
                 PROVE  /\ node'[n] \in NodeRow
                        /\ node'[n].token_id = node[n].token_id
                        /\ node'[n].is_listed = node[n].is_listed
                        /\ node'[n].status = node[n].status
      BY <1>10 DEF CentralTick
    <3>1. node[n] \in NodeRow
      BY DEF CentralTypeOK
    <3>2. node'[n] = [node[n] EXCEPT !.age = Older(@)]
      BY <1>10 DEF CentralTick
    <3> QED BY <3>1, <3>2 DEF NodeRow, Older
  <2>3. /\ DOMAIN revoked' = DOMAIN revoked
        /\ \A n \in DOMAIN revoked : revoked'[n] \in 0 .. PurgeAfter + 1
    BY <1>10 DEF CentralTick, Older, CentralTypeOK
  <2>4. UNCHANGED <<user, issued>>
    BY <1>10 DEF CentralTick
  <2> QED BY <2>1, <2>2, <2>3, <2>4 DEF CentralTypeOK, TokensDiffer
<1>11. ASSUME UNCHANGED central PROVE Tables'
  BY <1>11 DEF central, CentralTypeOK, TokensDiffer
<1> QED BY <1>1, <1>2, <1>3, <1>4, <1>5, <1>6, <1>7, <1>8, <1>9, <1>10,
           <1>11 DEF CentralNext
-----------------------------------------------------------------------------
(* The theorems.                                                             *)

\* Each failed heartbeat adds an interval, and as many as are tolerated are not enough
\* to be taken for offline.
LEMMA SilenceIsBounded ==
  /\ Silence(0) = HeartbeatEvery
  /\ \A k \in 0 .. Tolerated : /\ Silence(k) \in Nat /\ Silence(k) < OfflineAfter
                               /\ HeartbeatEvery <= Silence(k)
                               /\ Silence(k + 1) = Silence(k) + HeartbeatEvery
<1> USE CentralAssumption, HeartbeatAssumption DEF CentralAssumption, HeartbeatAssumption
<1>1. ASSUME NEW k \in 0 .. Tolerated
      PROVE  /\ Silence(k) \in Nat /\ Silence(k + 1) = Silence(k) + HeartbeatEvery
             /\ HeartbeatEvery <= Silence(k)
             /\ Silence(k) <= (Tolerated + 1) * HeartbeatEvery
  BY DEF Silence
<1>2. Silence(0) = HeartbeatEvery
  BY DEF Silence
<1> QED BY <1>1, <1>2

\* IInv holds initially and every step keeps it.
THEOREM Inductive == Spec => []IInv
<1> USE CentralAssumption, HeartbeatAssumption DEF CentralAssumption, HeartbeatAssumption
<1>1. Init => IInv
  <2> SUFFICES ASSUME Init PROVE IInv
    OBVIOUS
  <2>1. CentralTypeOK /\ TokensDiffer
    BY DEF Init, CentralInit, CentralTypeOK, TokensDiffer
  <2>2. TypeOK
    BY <2>1 DEF Init, TypeOK, Lost
  <2>3. HeardOf /\ StaysLeft
    BY DEF Init, CentralInit, HeardOf, StaysLeft
  <2> QED BY <2>1, <2>2, <2>3 DEF IInv
<1>2. IInv /\ [Next]_vars => IInv'
  <2> SUFFICES ASSUME IInv, [Next]_vars PROVE IInv'
    OBVIOUS
  <2> USE DEF IInv
  <2>1. ASSUME Account PROVE IInv'
    <3> USE <2>1 DEF Account, client
    <3>1. CentralTypeOK' /\ TokensDiffer'
      BY TablesKept DEF Tables, TypeOK, CentralNext
    <3>2. TypeOK'
      BY <3>1 DEF TypeOK
    <3>3. HeardOf'
      BY DEF HeardOf, Listed, TypeOK, Login, Suspend, Unsuspend, CreateToken
    <3>4. StaysLeft'
      BY DEF StaysLeft, Listed, TypeOK, Login, Suspend, Unsuspend, CreateToken
    <3> QED BY <3>1, <3>2, <3>3, <3>4
  <2>2. ASSUME Revocation PROVE IInv'
    <3> USE <2>2 DEF Revocation, Stale, Removed, calls, central
    <3>1. CentralTypeOK' /\ TokensDiffer'
      BY TablesKept DEF Tables, TypeOK, CentralNext
    <3>2. TypeOK'
      BY <3>1 DEF TypeOK, Lost
    <3> DEFINE Follow ==
           /\ \A m \in DOMAIN node' : m \in DOMAIN node /\ node'[m] = node[m]
           /\ \A m \in Nodes : \/ missed'[m] = Lost
                              \/ /\ missed'[m] = missed[m]
                                 /\ m \in DOMAIN node => m \in DOMAIN node'
    <3>a. Follow
      <4>0. CentralTypeOK
        BY DEF TypeOK
      <4>1. ASSUME NEW u \in Users, DeleteUser(u), Removed(TokensOf(u)) PROVE Follow
        <5>1. /\ \A m \in DOMAIN node' : m \in DOMAIN node /\ node'[m] = node[m]
              /\ \A m \in DOMAIN node \ DOMAIN node' : m \in TokensOf(u)
          BY ONLY <4>1, <4>0, TokensDiffer
             DEF DeleteUser, Drop, Restrict, TokensOf, CentralTypeOK, TokensDiffer
        <5>2. missed' = [m \in Nodes |-> IF m \in TokensOf(u) THEN Lost ELSE missed[m]]
          BY ONLY <4>1 DEF Removed
        <5> QED BY ONLY <5>1, <5>2
      <4>2. ASSUME NEW n \in Nodes, RevokeToken(n) \/ AdminDeleteNode(n), Removed({n})
            PROVE Follow
        <5>1. node' = Drop(node, {n})
          BY ONLY <4>2 DEF RevokeToken, NodesAfterRevoke, AdminDeleteNode
        <5>2. missed' = [m \in Nodes |-> IF m \in {n} THEN Lost ELSE missed[m]]
          BY ONLY <4>2 DEF Removed
        <5> QED BY ONLY <5>1, <5>2 DEF Drop, Restrict
      <4>3. ASSUME NEW n \in Nodes, RefreshToken(n), UNCHANGED missed PROVE Follow
        BY ONLY <4>3 DEF RefreshToken
      <4>4. ASSUME ResetAllData, Removed(Nodes) PROVE Follow
        BY ONLY <4>4 DEF ResetAllData, Removed
      <4> QED BY <4>1, <4>2, <4>3, <4>4
    <3>3. HeardOf'
      BY <3>a DEF HeardOf, Listed, TypeOK, Lost
    <3>4. StaysLeft'
      BY <3>a DEF StaysLeft, Listed
    <3> QED BY <3>1, <3>2, <3>3, <3>4
  <2>3. ASSUME NEW n \in Nodes, Configure(n) PROVE IInv'
    <3> USE <2>3 DEF Configure, calls, central
    <3>1. CentralTypeOK' /\ TokensDiffer'
      BY TablesKept DEF Tables, TypeOK
    <3>2. TypeOK'
      BY <3>1 DEF TypeOK
    <3>3. HeardOf'
      BY DEF HeardOf, Listed, TypeOK
    <3>4. StaysLeft'
      BY DEF StaysLeft, Listed, TypeOK
    <3> QED BY <3>1, <3>2, <3>3, <3>4
  <2>4. ASSUME NEW n \in Nodes, Beat(n) PROVE IInv'
    <3> USE <2>4 DEF Beat, BeatDue, calls, central
    <3>1. CentralTypeOK' /\ TokensDiffer'
      BY TablesKept DEF Tables, TypeOK, CentralNext
    <3>2. TypeOK'
      <4>1. due' \in [Nodes -> 0 .. HeartbeatEvery] /\ missed' \in [Nodes -> 0 .. Lost]
        BY DEF TypeOK, Lost
      <4> QED BY <3>1, <4>1 DEF TypeOK
    <3>3. HeardOf'
      <4>1. CASE Heartbeat(n) /\ missed' = [missed EXCEPT ![n] = 0]
        <5>1. /\ node' = [node EXCEPT ![n].status = "online", ![n].age = 0]
              /\ n \in DOMAIN node /\ node[n] \in NodeRow /\ node[n].is_listed
          BY <4>1 DEF Heartbeat, AcceptsHeartbeat, Seen, Listed, CentralTypeOK, TypeOK
        <5>2. /\ node'[n].is_listed /\ node'[n].status = "online" /\ node'[n].age = 0
              /\ DOMAIN node' = DOMAIN node
              /\ \A m \in DOMAIN node \ {n} : node'[m] = node[m]
          BY <5>1 DEF NodeRow
        <5>3. missed'[n] = 0 /\ due'[n] = HeartbeatEvery
          BY <4>1 DEF TypeOK
        <5>4. \A m \in Nodes \ {n} : missed'[m] = missed[m] /\ due'[m] = due[m]
          BY <4>1 DEF TypeOK
        <5> QED BY <5>1, <5>2, <5>3, <5>4, SilenceIsBounded DEF HeardOf, Listed
      <4>2. CASE /\ missed' = [missed EXCEPT ![n] = IF @ = Lost THEN @ ELSE @ + 1]
                 /\ UNCHANGED central
        <5>1. missed'[n] = IF missed[n] = Lost THEN Lost ELSE missed[n] + 1
          BY <4>2 DEF TypeOK
        <5>2. due[n] = 0 /\ due'[n] = HeartbeatEvery /\ loop[n] = "running"
          BY DEF TypeOK
        <5>3. \A m \in Nodes \ {n} : missed'[m] = missed[m] /\ due'[m] = due[m]
          BY <4>2 DEF TypeOK
        <5>4. ASSUME missed'[n] <= Tolerated
              PROVE  /\ Listed(n) /\ node[n].status = "online"
                     /\ node[n].age + due'[n] <= Silence(missed'[n])
          <6>1. missed[n] \in 0 .. Tolerated /\ missed'[n] = missed[n] + 1
            BY <5>1, <5>4 DEF TypeOK, Lost
          <6>2. /\ Listed(n) /\ node[n].status = "online"
                /\ node[n].age + due[n] <= Silence(missed[n])
            BY <5>2, <6>1 DEF HeardOf
          <6>3. node[n].age \in Nat
            BY <6>2 DEF CentralTypeOK, NodeRow, Listed, TypeOK
          <6> QED BY <5>2, <6>1, <6>2, <6>3, SilenceIsBounded
        <5> QED BY <4>2, <5>3, <5>4 DEF HeardOf, Listed
      <4> QED BY <4>1, <4>2
    <3>4. StaysLeft'
      <4>1. /\ DOMAIN node' = DOMAIN node
            /\ \A m \in DOMAIN node : node'[m].is_listed = node[m].is_listed
        <5>1. CASE Heartbeat(n)
          <6>1. /\ node' = [node EXCEPT ![n].status = "online", ![n].age = 0]
                /\ n \in DOMAIN node /\ node[n] \in NodeRow
            BY <5>1 DEF Heartbeat, AcceptsHeartbeat, Seen, Listed, CentralTypeOK, TypeOK
          <6> QED BY <6>1 DEF NodeRow
        <5>2. CASE UNCHANGED node
          BY <5>2
        <5> QED BY <5>1, <5>2
      <4> QED BY <4>1 DEF StaysLeft, Listed, TypeOK
    <3> QED BY <3>1, <3>2, <3>3, <3>4
  <2>5. ASSUME Tick PROVE IInv'
    <3> USE <2>5 DEF Tick, BeatDue, calls, central
    <3>1. CentralTypeOK' /\ TokensDiffer'
      BY TablesKept DEF Tables, TypeOK, CentralNext
    <3>2. TypeOK'
      <4>1. due' \in [Nodes -> 0 .. HeartbeatEvery]
        BY DEF TypeOK
      <4> QED BY <3>1, <4>1 DEF TypeOK
    <3>3. HeardOf'
      <4> SUFFICES ASSUME NEW n \in Nodes, loop[n] = "running", missed[n] <= Tolerated
                   PROVE  /\ Listed(n)' /\ node'[n].status = "online"
                          /\ node'[n].age + due'[n] <= Silence(missed[n])
        BY DEF HeardOf
      <4>1. /\ Listed(n) /\ node[n].status = "online" /\ node[n].age \in Nat
            /\ node[n].age + due[n] <= Silence(missed[n])
        BY DEF HeardOf, Listed, CentralTypeOK, NodeRow, TypeOK
      <4>2. due[n] \in Nat /\ due[n] # 0 /\ due'[n] = due[n] - 1
        BY DEF TypeOK
      <4>3. node'[n] = [node[n] EXCEPT !.age = Older(@)] /\ DOMAIN node' = DOMAIN node
        BY <4>1 DEF CentralTick, Listed
      <4>4. node[n] \in NodeRow
        BY <4>1 DEF Listed, CentralTypeOK, TypeOK
      <4>5. /\ node'[n].is_listed = node[n].is_listed /\ node'[n].status = node[n].status
            /\ node'[n].age \in Nat /\ node'[n].age <= node[n].age + 1
        BY <4>1, <4>3, <4>4 DEF NodeRow, Older
      <4>6. Silence(missed[n]) \in Nat
        BY SilenceIsBounded DEF TypeOK
      <4> QED BY <4>1, <4>2, <4>3, <4>5, <4>6 DEF Listed
    <3>4. StaysLeft'
      BY DEF StaysLeft, Listed, TypeOK, CentralTick
    <3> QED BY <3>1, <3>2, <3>3, <3>4
  <2>6. ASSUME Check PROVE IInv'
    <3> USE <2>6 DEF Check, client
    <3>1. CentralTypeOK' /\ TokensDiffer'
      BY TablesKept DEF Tables, TypeOK, CentralNext
    <3>2. TypeOK'
      BY <3>1 DEF TypeOK
    <3>3. HeardOf'
      <4> SUFFICES ASSUME NEW n \in Nodes, loop[n] = "running", missed[n] <= Tolerated
                   PROVE  n \in DOMAIN node' /\ node'[n] = node[n]
        BY DEF HeardOf, Listed
      <4>1. /\ Listed(n) /\ node[n].status = "online" /\ node[n] \in NodeRow
            /\ node[n].age + due[n] <= Silence(missed[n])
        BY DEF HeardOf, Listed, CentralTypeOK, TypeOK
      <4>2. due[n] \in Nat /\ missed[n] \in 0 .. Tolerated
        BY DEF TypeOK
      <4>3. node[n].age < OfflineAfter
        BY <4>1, <4>2, SilenceIsBounded DEF NodeRow
      <4>4. StatusAfterCheck(n) = "online" /\ ListedAfterCheck(n)
        BY <4>1, <4>3 DEF StatusAfterCheck, ListedAfterCheck, Listed, NodeRow
      <4>5. /\ n \in DOMAIN node'
            /\ node'[n] = [node[n] EXCEPT !.status = StatusAfterCheck(n),
                                          !.is_listed = ListedAfterCheck(n)]
        BY <4>1, <4>4 DEF HealthCheck, PurgedByCheck, Listed
      <4> QED BY <4>1, <4>4, <4>5 DEF Listed, NodeRow
    <3>4. StaysLeft'
      <4>1. \A m \in DOMAIN node' : /\ m \in DOMAIN node
                                    /\ node'[m].is_listed => node[m].is_listed
        <5> SUFFICES ASSUME NEW m \in DOMAIN node', node'[m].is_listed
                     PROVE  m \in DOMAIN node /\ node[m].is_listed
          BY DEF HealthCheck
        <5>1. /\ m \in DOMAIN node
              /\ node'[m] = [node[m] EXCEPT !.status = StatusAfterCheck(m),
                                            !.is_listed = ListedAfterCheck(m)]
          BY DEF HealthCheck
        <5>2. node[m] \in NodeRow
          BY <5>1 DEF CentralTypeOK, TypeOK
        <5> QED BY <5>1, <5>2 DEF ListedAfterCheck, NodeRow
      <4>2. \A m \in Nodes : Listed(m)' => Listed(m)
        BY <4>1 DEF Listed
      <4> QED BY <4>2 DEF StaysLeft
    <3> QED BY <3>1, <3>2, <3>3, <3>4
  <2>7. ASSUME NEW n \in Nodes, JoinSend(n) PROVE IInv'
    <3> USE <2>7 DEF JoinSend, calls, central, Disturb
    <3>1. CentralTypeOK' /\ TokensDiffer'
      BY TablesKept DEF Tables, TypeOK
    <3>2. TypeOK'
      BY <3>1 DEF TypeOK
    <3>3. HeardOf'
      BY DEF HeardOf, Listed, TypeOK
    <3>4. StaysLeft'
      BY DEF StaysLeft, Listed, TypeOK
    <3> QED BY <3>1, <3>2, <3>3, <3>4
  <2>8. ASSUME NEW n \in Nodes, JoinHandle(n) PROVE IInv'
    <3> USE <2>8 DEF JoinHandle, calls, central, Register, Put
    <3>1. CentralTypeOK' /\ TokensDiffer'
      BY TablesKept DEF Tables, TypeOK, CentralNext
    <3>2. TypeOK'
      BY <3>1 DEF TypeOK
    <3>3. HeardOf'
      <4>1. /\ node'[n].is_listed /\ node'[n].status = "online" /\ node'[n].age = 0
            /\ n \in DOMAIN node' /\ DOMAIN node \subseteq DOMAIN node'
            /\ \A m \in DOMAIN node \ {n} : node'[m] = node[m]
        OBVIOUS
      <4>2. due[n] <= HeartbeatEvery /\ (missed[n] <= Tolerated => missed[n] \in 0 .. Tolerated)
        BY DEF TypeOK
      <4> QED BY <4>1, <4>2, SilenceIsBounded DEF HeardOf, Listed, TypeOK
    <3>4. StaysLeft'
      BY DEF StaysLeft, Listed, TypeOK
    <3> QED BY <3>1, <3>2, <3>3, <3>4
  <2>9. ASSUME NEW n \in Nodes, JoinFail(n) PROVE IInv'
    <3> USE <2>9 DEF JoinFail, calls, central
    <3>1. CentralTypeOK' /\ TokensDiffer'
      BY TablesKept DEF Tables, TypeOK
    <3>2. TypeOK'
      BY <3>1 DEF TypeOK
    <3>3. HeardOf'
      BY DEF HeardOf, Listed, TypeOK
    <3>4. StaysLeft'
      BY DEF StaysLeft, Listed, TypeOK
    <3> QED BY <3>1, <3>2, <3>3, <3>4
  <2>10. ASSUME NEW n \in Nodes, JoinDone(n) PROVE IInv'
    <3> USE <2>10 DEF JoinDone, calls, central, StartLoop
    <3>1. CentralTypeOK' /\ TokensDiffer'
      BY TablesKept DEF Tables, TypeOK
    <3>2. TypeOK'
      BY <3>1 DEF TypeOK, Lost
    <3>3. HeardOf'
      BY DEF HeardOf, Listed, TypeOK, Lost
    <3>4. StaysLeft'
      BY DEF StaysLeft, Listed, TypeOK
    <3> QED BY <3>1, <3>2, <3>3, <3>4
  <2>11. ASSUME NEW n \in Nodes, JoinLate(n) PROVE IInv'
    <3> USE <2>11 DEF JoinLate, calls, central, Register, Put
    <3>1. CentralTypeOK' /\ TokensDiffer'
      BY TablesKept DEF Tables, TypeOK, CentralNext
    <3>2. TypeOK'
      BY <3>1 DEF TypeOK
    <3>3. HeardOf'
      <4>1. CASE UNCHANGED node
        BY <2>11, <4>1 DEF HeardOf, Listed
      <4>2. CASE Register(n)
        <5>1. /\ node'[n].is_listed /\ node'[n].status = "online" /\ node'[n].age = 0
              /\ n \in DOMAIN node' /\ DOMAIN node \subseteq DOMAIN node'
              /\ \A m \in DOMAIN node \ {n} : node'[m] = node[m]
          BY <4>2
        <5>2. due[n] <= HeartbeatEvery /\ (missed[n] <= Tolerated => missed[n] \in 0 .. Tolerated)
          BY DEF TypeOK
        <5> QED BY <2>11, <5>1, <5>2, SilenceIsBounded DEF HeardOf, Listed, TypeOK
      <4> QED BY <2>11, <4>1, <4>2
    <3>4. StaysLeft'
      BY DEF StaysLeft, Listed, TypeOK
    <3> QED BY <3>1, <3>2, <3>3, <3>4
  <2>12. ASSUME NEW n \in Nodes, LeaveSend(n) PROVE IInv'
    <3> USE <2>12 DEF LeaveSend, calls, central, Disturb
    <3>1. CentralTypeOK' /\ TokensDiffer'
      BY TablesKept DEF Tables, TypeOK
    <3>2. TypeOK'
      BY <3>1 DEF TypeOK
    <3>3. HeardOf'
      BY DEF HeardOf, Listed, TypeOK
    <3>4. StaysLeft'
      BY DEF StaysLeft, Listed, TypeOK
    <3> QED BY <3>1, <3>2, <3>3, <3>4
  <2>13. ASSUME NEW n \in Nodes, LeaveUnlist(n) PROVE IInv'
    <3> USE <2>13 DEF LeaveUnlist, calls, central, Unlist, Unlisted
    <3>1. CentralTypeOK' /\ TokensDiffer'
      BY TablesKept DEF Tables, TypeOK, CentralNext
    <3>2. TypeOK'
      BY <3>1 DEF TypeOK, Lost
    <3>3. HeardOf'
      BY DEF HeardOf, Listed, TypeOK, Lost
    <3>4. StaysLeft'
      BY DEF StaysLeft, Listed, TypeOK
    <3> QED BY <3>1, <3>2, <3>3, <3>4
  <2>14. ASSUME NEW n \in Nodes, LeaveVerify(n) PROVE IInv'
    <3> USE <2>14 DEF LeaveVerify, calls, central, Verified, Quiet
    <3>1. CentralTypeOK' /\ TokensDiffer'
      BY TablesKept DEF Tables, TypeOK
    <3>2. TypeOK'
      BY <3>1 DEF TypeOK
    <3>3. HeardOf'
      BY DEF HeardOf, Listed, TypeOK
    <3>4. StaysLeft'
      BY DEF StaysLeft, Listed, TypeOK
    <3> QED BY <3>1, <3>2, <3>3, <3>4
  <2>15. ASSUME NEW n \in Nodes, LeaveFail(n) PROVE IInv'
    <3> USE <2>15 DEF LeaveFail, calls, central, Disturb
    <3>1. CentralTypeOK' /\ TokensDiffer'
      BY TablesKept DEF Tables, TypeOK
    <3>2. TypeOK'
      BY <3>1 DEF TypeOK
    <3>3. HeardOf'
      BY DEF HeardOf, Listed, TypeOK
    <3>4. StaysLeft'
      BY DEF StaysLeft, Listed, TypeOK
    <3> QED BY <3>1, <3>2, <3>3, <3>4
  <2>16. ASSUME NEW n \in Nodes, LeaveStopLoop(n) PROVE IInv'
    <3> USE <2>16 DEF LeaveStopLoop, calls, central
    <3>1. CentralTypeOK' /\ TokensDiffer'
      BY TablesKept DEF Tables, TypeOK
    <3>2. TypeOK'
      BY <3>1 DEF TypeOK
    <3>3. HeardOf'
      BY DEF HeardOf, Listed, TypeOK
    <3>4. StaysLeft'
      BY DEF StaysLeft, Listed, TypeOK
    <3> QED BY <3>1, <3>2, <3>3, <3>4
  <2>17. ASSUME NEW n \in Nodes, LeaveDone(n) PROVE IInv'
    <3> USE <2>17 DEF LeaveDone, calls, central
    <3>1. CentralTypeOK' /\ TokensDiffer'
      BY TablesKept DEF Tables, TypeOK
    <3>2. TypeOK'
      BY <3>1 DEF TypeOK
    <3>3. HeardOf'
      BY DEF HeardOf, Listed, TypeOK
    <3>4. StaysLeft'
      BY DEF StaysLeft, Listed, TypeOK
    <3> QED BY <3>1, <3>2, <3>3, <3>4
  <2>18. ASSUME NEW n \in Nodes, LeaveLocally(n) PROVE IInv'
    <3> USE <2>18 DEF LeaveLocally, calls, central
    <3>1. CentralTypeOK' /\ TokensDiffer'
      BY TablesKept DEF Tables, TypeOK
    <3>2. TypeOK'
      BY <3>1 DEF TypeOK
    <3>3. HeardOf'
      BY DEF HeardOf, Listed, TypeOK
    <3>4. StaysLeft'
      BY DEF StaysLeft, Listed, TypeOK
    <3> QED BY <3>1, <3>2, <3>3, <3>4
  <2>19. ASSUME NEW n \in Nodes, StatusSend(n) PROVE IInv'
    <3> USE <2>19 DEF StatusSend, calls, central
    <3>1. CentralTypeOK' /\ TokensDiffer'
      BY TablesKept DEF Tables, TypeOK
    <3>2. TypeOK'
      BY <3>1 DEF TypeOK
    <3>3. HeardOf'
      BY DEF HeardOf, Listed, TypeOK
    <3>4. StaysLeft'
      BY DEF StaysLeft, Listed, TypeOK
    <3> QED BY <3>1, <3>2, <3>3, <3>4
  <2>20. ASSUME NEW n \in Nodes, StatusReply(n) PROVE IInv'
    <3> USE <2>20 DEF StatusReply, calls, central
    <3>1. CentralTypeOK' /\ TokensDiffer'
      BY TablesKept DEF Tables, TypeOK
    <3>2. TypeOK'
      BY <3>1 DEF TypeOK
    <3>3. HeardOf'
      BY DEF HeardOf, Listed, TypeOK
    <3>4. StaysLeft'
      BY DEF StaysLeft, Listed, TypeOK
    <3> QED BY <3>1, <3>2, <3>3, <3>4
  <2>21. ASSUME NEW n \in Nodes, StatusFail(n) PROVE IInv'
    <3> USE <2>21 DEF StatusFail, calls, central
    <3>1. CentralTypeOK' /\ TokensDiffer'
      BY TablesKept DEF Tables, TypeOK
    <3>2. TypeOK'
      BY <3>1 DEF TypeOK
    <3>3. HeardOf'
      BY DEF HeardOf, Listed, TypeOK
    <3>4. StaysLeft'
      BY DEF StaysLeft, Listed, TypeOK
    <3> QED BY <3>1, <3>2, <3>3, <3>4
  <2>22. ASSUME NEW n \in Nodes, StatusAbsent(n) PROVE IInv'
    <3> USE <2>22 DEF StatusAbsent, calls, central
    <3>1. CentralTypeOK' /\ TokensDiffer'
      BY TablesKept DEF Tables, TypeOK
    <3>2. TypeOK'
      BY <3>1 DEF TypeOK
    <3>3. HeardOf'
      BY DEF HeardOf, Listed, TypeOK
    <3>4. StaysLeft'
      BY DEF StaysLeft, Listed, TypeOK
    <3> QED BY <3>1, <3>2, <3>3, <3>4
  <2>23. ASSUME NEW n \in Nodes, StatusNode(n) PROVE IInv'
    <3> USE <2>23 DEF StatusNode, calls, central, StartLoop
    <3>1. CentralTypeOK' /\ TokensDiffer'
      BY TablesKept DEF Tables, TypeOK
    <3>2. TypeOK'
      BY <3>1 DEF TypeOK, Lost
    <3>3. HeardOf'
      BY DEF HeardOf, Listed, TypeOK, Lost
    <3>4. StaysLeft'
      BY DEF StaysLeft, Listed, TypeOK
    <3> QED BY <3>1, <3>2, <3>3, <3>4
  <2>24. ASSUME NEW n \in Nodes, Restart(n) PROVE IInv'
    <3> USE <2>24 DEF Restart, calls, central
    <3>1. CentralTypeOK' /\ TokensDiffer'
      BY TablesKept DEF Tables, TypeOK
    <3>2. TypeOK'
      BY <3>1 DEF TypeOK
    <3>3. HeardOf'
      BY DEF HeardOf, Listed, TypeOK
    <3>4. StaysLeft'
      BY DEF StaysLeft, Listed, TypeOK
    <3> QED BY <3>1, <3>2, <3>3, <3>4
  <2>25. CASE UNCHANGED vars
    <3>1. CentralTypeOK' /\ TokensDiffer'
      BY <2>25, TablesKept DEF vars, Tables, TypeOK
    <3> QED BY <2>25, <3>1 DEF vars, central, client, TypeOK, HeardOf, StaysLeft, Listed
  <2> HIDE DEF IInv
  <2>26. ASSUME NEW n \in Nodes, Join(n) \/ Leave(n) \/ AskStatus(n) PROVE IInv'
    BY <2>26, <2>7, <2>8, <2>9, <2>10, <2>11, <2>12, <2>13, <2>14, <2>15, <2>16, <2>17,
       <2>18, <2>19, <2>20, <2>21, <2>22, <2>23
       DEF Join, Leave, AskStatus
  <2> QED BY <2>1, <2>2, <2>3, <2>4, <2>5, <2>6, <2>24, <2>25, <2>26 DEF Next
<1> QED BY <1>1, <1>2, PTL DEF Spec

\* The tables of the server stay consistent, whatever accounts, tokens, nodes and the
\* check do in any order: a node is in the marketplace only while the very token it was
\* registered with exists, and one that is not listed is not online.
THEOREM TypeCorrect == Spec => []TypeOK
<1>1. IInv => TypeOK
  BY DEF IInv
<1> QED BY <1>1, Inductive, PTL

\* A node whose heartbeats arrive, but for as many in a row as are tolerated, is listed
\* and online for every interval and threshold; and a leave that succeeded is final.
THEOREM ListingFollows == Spec => []ListingFollowsNode
<1>1. IInv => ListingFollowsNode
  <2> SUFFICES ASSUME IInv, NEW n \in Nodes
               PROVE  /\ loop[n] = "running" /\ missed[n] <= Tolerated
                           => Listed(n) /\ EffectiveStatus(n) = "online"
                      /\ left[n] = "yes" => ~Listed(n) /\ ~registered[n]
    BY DEF ListingFollowsNode
  <2>1. left[n] = "yes" => ~Listed(n) /\ ~registered[n]
    BY DEF IInv, StaysLeft
  <2>2. ASSUME loop[n] = "running", missed[n] <= Tolerated
        PROVE  Listed(n) /\ EffectiveStatus(n) = "online"
    <3>1. /\ Listed(n) /\ node[n].status = "online"
          /\ node[n].age + due[n] <= Silence(missed[n])
      BY <2>2 DEF IInv, HeardOf
    <3>2. node[n].age \in Nat
      BY <3>1 DEF IInv, TypeOK, CentralTypeOK, NodeRow, Listed
    <3>3. due[n] \in Nat /\ missed[n] \in 0 .. Tolerated
      BY <2>2, HeartbeatAssumption DEF HeartbeatAssumption, IInv, TypeOK, Lost
    <3>4. node[n].age < OfflineAfter
      BY <3>1, <3>2, <3>3, SilenceIsBounded, CentralAssumption DEF CentralAssumption
    <3> QED BY <3>1, <3>4 DEF EffectiveStatus
  <2> QED BY <2>1, <2>2
<1> QED BY <1>1, Inductive, PTL
=============================================================================
