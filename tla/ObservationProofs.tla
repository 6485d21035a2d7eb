--------------------------- MODULE ObservationProofs ---------------------------
(***************************************************************************)
(* Proofs about what a node sees of others on its network (LanDiscovery), and *)
(* about what its executions let others see (MCConversations), for any values  *)
(* of the constants.  The two share nothing but this module.                 *)
(*                                                                         *)
(* OffKnowsNobody speaks of the socket.  It is kept because of what holds   *)
(* of a service that does not listen, be it that it does not run or that    *)
(* its socket is closed: what it still knows waits for a stop that is under *)
(* way (HeldUntilStopped).  A stop ends with the process as well, and then  *)
(* the table is gone too (DownIsOff).                                       *)
(*                                                                         *)
(* What an organizer is told is true because a line that says completed was  *)
(* written when the task was, which it stays (LinesTrue).  The progress shown *)
(* of a task is not that of the end, nor is any that a thread has read and     *)
(* will write (NothingDone), until the organizer's last step, which leaves     *)
(* it as it is (LastStep).  The chat view shows a beginning of the steps       *)
(* because the buffer counts them: the steps with its first events are the     *)
(* first ones, the queue goes on from there, and the view has what the buffer  *)
(* had when it looked last (StepsFollow).  Its views are a recursive function   *)
(* of the events; what holds of each of them is proved from the least number    *)
(* of events after which it would not (LeastNat).                             *)
(***************************************************************************)
EXTENDS LanDiscovery, MCConversations, FiniteSetTheorems, SequenceTheorems,
        WellFoundedInduction, TLAPS

-----------------------------------------------------------------------------
(* The inductive invariant.                                                  *)

\* Every table has an entry for each node, and its entries are functions.
PerNode ==
  /\ DOMAIN known = Nodes /\ DOMAIN linked = Nodes /\ DOMAIN restarts = Nodes
  /\ \A n \in Nodes : known[n] = [m \in DOMAIN known[n] |-> known[n][m]]

\* No node sends to itself.
NotToItself == \A m \in msgs : m.from # m.to

\* A node that is down does not run the service, and knows nobody.
DownIsOff == \A n \in Nodes : ~up[n] => ~running[n] /\ known[n] = <<>>

\* A service that does not listen knows others only while a stop is under way.
HeldUntilStopped ==
  \A n \in Nodes : ~Listens(n) /\ known[n] # <<>> => StopUnderWay(n)

IInv == TypeOK /\ PerNode /\ NotToItself /\ DownIsOff /\ HeldUntilStopped

-----------------------------------------------------------------------------
(* The steps.                                                                *)

\* A call goes on; the others stay where they are.
LEMMA Gone ==
  ASSUME NEW n \in Nodes, NEW k \in Kinds, NEW phase \in Phases, Go(n, k, phase),
         call \in [Nodes -> [Kinds -> Phases]]
  PROVE  /\ call' \in [Nodes -> [Kinds -> Phases]]
         /\ call'[n][k] = phase
         /\ \A j \in Kinds \ {k} : call'[n][j] = call[n][j]
         /\ \A o \in Nodes \ {n} : call'[o] = call[o]
<1>1. call'[n] = [call[n] EXCEPT ![k] = phase]
  BY DEF Go
<1>2. call[n] \in [Kinds -> Phases]
  OBVIOUS
<1> QED BY <1>1, <1>2 DEF Go

\* A toggle changes; the dashboard stays one.
LEMMA Toggled ==
  ASSUME NEW n \in Nodes, NEW v \in BOOLEAN,
         NEW T, T = [online : BOOLEAN, scan : BOOLEAN, visible : BOOLEAN],
         gui \in [Nodes -> T]
  PROVE  /\ [gui EXCEPT ![n].online = v] \in [Nodes -> T]
         /\ [gui EXCEPT ![n].scan = v] \in [Nodes -> T]
         /\ [gui EXCEPT ![n].visible = v] \in [Nodes -> T]
<1>1. gui[n] \in T
  OBVIOUS
<1>2. /\ [gui[n] EXCEPT !.online = v] \in T
      /\ [gui[n] EXCEPT !.scan = v] \in T
      /\ [gui[n] EXCEPT !.visible = v] \in T
  BY <1>1
<1>3. ASSUME NEW t \in T PROVE [gui EXCEPT ![n] = t] \in [Nodes -> T]
  OBVIOUS
<1> QED BY <1>2, <1>3

\* A table with one more entry stays within its limit when it was below it.
LEMMA Stored ==
  ASSUME NEW n \in Nodes, NEW m \in Nodes, m # n, Store(n, m),
         IsFiniteSet(Nodes), MaxLan \in Nat,
         DOMAIN known[n] \subseteq Nodes, Cardinality(DOMAIN known[n]) <= MaxLan
  PROVE  Cardinality(DOMAIN known[n] \cup {m}) <= MaxLan
<1>1. IsFiniteSet(DOMAIN known[n])
  BY FS_Subset
<1>2. CASE m \in DOMAIN known[n]
  <2>1. DOMAIN known[n] \cup {m} = DOMAIN known[n]
    BY <1>2
  <2> QED BY <2>1
<1>3. CASE m \notin DOMAIN known[n]
  <2>1. Cardinality(DOMAIN known[n] \cup {m}) = Cardinality(DOMAIN known[n]) + 1
    BY <1>1, <1>3, FS_AddElement
  <2>2. Cardinality(DOMAIN known[n]) \in Nat
    BY <1>1, FS_CardinalityType
  <2> QED BY <1>3, <2>1, <2>2 DEF Store
<1> QED BY <1>2, <1>3

\* A table whose entries are some of those it had stays within its limit.
LEMMA Shrunk ==
  ASSUME NEW S, NEW T \in SUBSET S, S \subseteq Nodes, IsFiniteSet(Nodes), MaxLan \in Nat,
         Cardinality(S) <= MaxLan
  PROVE  Cardinality(T) <= MaxLan
<1>1. IsFiniteSet(S) /\ IsFiniteSet(T) /\ Cardinality(T) <= Cardinality(S)
  BY FS_Subset
<1>2. Cardinality(S) \in Nat /\ Cardinality(T) \in Nat
  BY <1>1, FS_CardinalityType
<1> QED BY <1>1, <1>2

-----------------------------------------------------------------------------
(* The theorems.                                                             *)

\* IInv holds initially and every step keeps it.
THEOREM Inductive == Spec => []IInv
<1> USE DiscoveryAssumption DEF DiscoveryAssumption
<1>1. Init => IInv
  <2> SUFFICES ASSUME Init PROVE IInv
    OBVIOUS
  <2>0. Cardinality({}) = 0 /\ DOMAIN <<>> = {}
    BY FS_EmptySet
  <2>1. TypeOK
    BY <2>0 DEF Init, TypeOK, Kinds, Phases, Old
  <2>2. PerNode /\ NotToItself /\ DownIsOff /\ HeldUntilStopped
    BY <2>0 DEF Init, PerNode, NotToItself, DownIsOff, HeldUntilStopped
  <2> QED BY <2>1, <2>2 DEF IInv
<1>2. IInv /\ [Next]_vars => IInv'
  <2> SUFFICES ASSUME IInv, [Next]_vars PROVE IInv'
    OBVIOUS
  <2> USE DEF IInv, service, dashboard, Others
  <2>1. ASSUME Tick PROVE IInv'
    <3> USE <2>1 DEF Tick, Old
    <3>1. TypeOK'
      BY DEF TypeOK, Message
    <3>2. PerNode' /\ NotToItself'
      BY DEF TypeOK, PerNode, NotToItself, Message
    <3>3. DownIsOff'
      BY DEF TypeOK, PerNode, DownIsOff, Listens
    <3>4. HeldUntilStopped'
      <4>1. \A n \in Nodes : known[n] = <<>> => known'[n] = <<>>
        BY DEF PerNode
      <4> QED BY <4>1 DEF HeldUntilStopped, Listens, StopUnderWay
    <3> QED BY <3>1, <3>2, <3>3, <3>4
  <2>2. ASSUME NEW m \in msgs, HearDiscover(m) PROVE IInv'
    <3> USE <2>2 DEF HearDiscover, Answer, ToAll
    <3>1. TypeOK'
      BY DEF TypeOK, Message
    <3>2. PerNode' /\ NotToItself'
      BY DEF TypeOK, PerNode, NotToItself, Message
    <3>3. DownIsOff'
      BY DEF TypeOK, PerNode, DownIsOff, Listens
    <3>4. HeldUntilStopped'
      BY DEF TypeOK, PerNode, DownIsOff, HeldUntilStopped, Listens, StopUnderWay
    <3> QED BY <3>1, <3>2, <3>3, <3>4
  <2>3. ASSUME NEW m \in msgs, HearInfo(m) PROVE IInv'
    <3> USE <2>3 DEF HearInfo, With
    <3>1. TypeOK'
      <4>1. m.to \in Nodes /\ m.from \in Nodes /\ m.from # m.to
        BY DEF TypeOK, Message, NotToItself
      <4>2. CASE Store(m.to, m.from)
        <5>1. /\ DOMAIN known'[m.to] = DOMAIN known[m.to] \cup {m.from}
              /\ \A o \in DOMAIN known'[m.to] :
                   known'[m.to][o] \in {0} \cup {known[m.to][o]}
              /\ \A n \in Nodes \ {m.to} : known'[n] = known[n]
          BY <4>1, <4>2 DEF PerNode
        <5>2. Cardinality(DOMAIN known[m.to] \cup {m.from}) <= MaxLan
          BY ONLY <4>1, <4>2, Stored, IInv, DiscoveryAssumption DEF TypeOK, DiscoveryAssumption
        <5>3. \A n \in Nodes :
                /\ DOMAIN known'[n] \subseteq Nodes \ {n}
                /\ \A o \in DOMAIN known'[n] : known'[n][o] \in 0 .. Old
                /\ Cardinality(DOMAIN known'[n]) <= MaxLan
          BY <4>1, <5>1, <5>2 DEF TypeOK, Old
        <5> QED BY <5>3 DEF TypeOK
      <4>3. CASE ~Store(m.to, m.from)
        BY <4>3 DEF TypeOK
      <4> QED BY <4>2, <4>3
    <3>2. PerNode' /\ NotToItself'
      BY DEF TypeOK, PerNode, NotToItself, Message
    <3>3. DownIsOff'
      BY DEF TypeOK, PerNode, DownIsOff, Listens
    <3>4. HeldUntilStopped'
      BY DEF TypeOK, PerNode, DownIsOff, HeldUntilStopped, Listens, StopUnderWay
    <3> QED BY <3>1, <3>2, <3>3, <3>4
  <2>4. ASSUME NEW m \in msgs, Lose(m) PROVE IInv'
    <3> USE <2>4 DEF Lose
    <3>1. TypeOK'
      BY DEF TypeOK, Message
    <3>2. PerNode' /\ NotToItself'
      BY DEF TypeOK, PerNode, NotToItself, Message
    <3>3. DownIsOff'
      BY DEF TypeOK, PerNode, DownIsOff, Listens
    <3>4. HeldUntilStopped'
      BY DEF TypeOK, PerNode, DownIsOff, HeldUntilStopped, Listens, StopUnderWay
    <3> QED BY <3>1, <3>2, <3>3, <3>4
  <2>5. ASSUME NEW n \in Nodes, ScanRound(n) PROVE IInv'
    <3> USE <2>5 DEF ScanRound, Discover, ToAll
    <3>1. TypeOK'
      BY DEF TypeOK, Message
    <3>2. PerNode' /\ NotToItself'
      BY DEF TypeOK, PerNode, NotToItself, Message
    <3>3. DownIsOff'
      BY DEF TypeOK, PerNode, DownIsOff, Listens
    <3>4. HeldUntilStopped'
      BY DEF TypeOK, PerNode, DownIsOff, HeldUntilStopped, Listens, StopUnderWay
    <3> QED BY <3>1, <3>2, <3>3, <3>4
  <2>6. ASSUME NEW n \in Nodes, Cleanup(n) PROVE IInv'
    <3> USE <2>6 DEF Cleanup, Restrict
    <3>1. TypeOK'
      <4>1. /\ DOMAIN known'[n] = DOMAIN known[n] \ Expired(n)
            /\ \A o \in DOMAIN known'[n] : known'[n][o] = known[n][o]
            /\ \A o \in Nodes \ {n} : known'[o] = known[o]
        BY DEF PerNode
      <4>2. Cardinality(DOMAIN known[n] \ Expired(n)) <= MaxLan
        BY Shrunk DEF TypeOK
      <4> QED BY <4>1, <4>2 DEF TypeOK
    <3>2. PerNode' /\ NotToItself'
      BY ZenonT(40) DEF TypeOK, PerNode, NotToItself, Message
    <3>3. DownIsOff'
      BY DEF TypeOK, PerNode, DownIsOff, Listens
    <3>4. HeldUntilStopped'
      BY DEF TypeOK, PerNode, DownIsOff, HeldUntilStopped, Listens, StopUnderWay
    <3> QED BY <3>1, <3>2, <3>3, <3>4
  <2>7. ASSUME NEW n \in Nodes, Crash(n) PROVE IInv'
    <3> USE <2>7 DEF Crash
    <3>1. TypeOK'
      <4>1. /\ known'[n] = <<>> /\ linked'[n] = {} /\ restarts'[n] = restarts[n] + 1
            /\ \A o \in Nodes \ {n} : /\ known'[o] = known[o] /\ linked'[o] = linked[o]
                                      /\ restarts'[o] = restarts[o]
        BY DEF PerNode
      <4>2. DOMAIN <<>> = {} /\ Cardinality({}) = 0
        BY FS_EmptySet
      <4>3. restarts'[n] \in 0 .. MaxRestarts[n]
        BY <4>1 DEF TypeOK
      <4> QED BY <4>1, <4>2, <4>3 DEF TypeOK
    <3>2. PerNode' /\ NotToItself'
      BY DEF TypeOK, PerNode, NotToItself, Message
    <3>3. DownIsOff'
      BY DEF TypeOK, PerNode, DownIsOff, Listens
    <3>4. HeldUntilStopped'
      BY DEF TypeOK, PerNode, DownIsOff, HeldUntilStopped, Listens, StopUnderWay
    <3> QED BY <3>1, <3>2, <3>3, <3>4
  <2>8. ASSUME NEW n \in Nodes, Restart(n) PROVE IInv'
    <3> USE <2>8 DEF Restart, Start
    <3>1. TypeOK'
      BY DEF TypeOK, Message
    <3>2. PerNode' /\ NotToItself'
      BY DEF TypeOK, PerNode, NotToItself, Message
    <3>3. DownIsOff'
      BY DEF TypeOK, PerNode, DownIsOff, Listens
    <3>4. HeldUntilStopped'
      BY DEF TypeOK, PerNode, DownIsOff, HeldUntilStopped, Listens, StopUnderWay
    <3> QED BY <3>1, <3>2, <3>3, <3>4
  <2>9. ASSUME NEW n \in Nodes, up[n], ScanStart(n) PROVE IInv'
    <3> USE <2>9 DEF ScanStart, Start, Go, ToAll
    <3>a. call' \in [Nodes -> [Kinds -> Phases]]
      BY Gone DEF TypeOK, Kinds, Phases
    <3>1. TypeOK'
      <4>1. msgs' \subseteq Message
        BY DEF TypeOK, Message
      <4>2. running' \in [Nodes -> BOOLEAN] /\ socket' \in [Nodes -> BOOLEAN]
        BY DEF TypeOK
      <4>3. /\ scanning' \in [Nodes -> BOOLEAN] /\ discoverable' \in [Nodes -> BOOLEAN]
            /\ UNCHANGED <<up, known, linked, due, gui, restarts>>
        BY DEF TypeOK
      <4> QED BY ONLY <3>a, <4>1, <4>2, <4>3, IInv DEF TypeOK
    <3>2. PerNode' /\ NotToItself'
      BY DEF TypeOK, PerNode, NotToItself, Message
    <3>3. DownIsOff'
      BY DEF TypeOK, PerNode, DownIsOff, Listens
    <3>4. HeldUntilStopped'
      BY DEF TypeOK, PerNode, DownIsOff, HeldUntilStopped, Listens, StopUnderWay
    <3> QED BY <3>1, <3>2, <3>3, <3>4
  <2>10. ASSUME NEW n \in Nodes, up[n], ScanStop(n) PROVE IInv'
    <3> USE <2>10 DEF ScanStop, StopBegin, Go
    <3>a. call' \in [Nodes -> [Kinds -> Phases]]
      BY Gone DEF TypeOK, Kinds, Phases
    <3>1. TypeOK'
      BY <3>a DEF TypeOK, Message
    <3>2. PerNode' /\ NotToItself'
      BY DEF TypeOK, PerNode, NotToItself, Message
    <3>3. DownIsOff'
      BY DEF TypeOK, PerNode, DownIsOff, Listens
    <3>4. HeldUntilStopped'
      <4>1. ~discoverable[n] => StopUnderWay(n)'
        BY DEF TypeOK, StopUnderWay, Kinds
      <4>2. \A o \in Nodes : StopUnderWay(o) => StopUnderWay(o)'
        BY SMTT(30) DEF TypeOK, StopUnderWay, Kinds
      <4> QED BY <4>1, <4>2 DEF TypeOK, PerNode, HeldUntilStopped, Listens
    <3> QED BY <3>1, <3>2, <3>3, <3>4
  <2>11. ASSUME NEW n \in Nodes, up[n], LanStart(n) PROVE IInv'
    <3> USE <2>11 DEF LanStart, Start, Go
    <3>1. TypeOK'
      BY DEF TypeOK, Message, Kinds, Phases
    <3>2. PerNode' /\ NotToItself'
      BY DEF TypeOK, PerNode, NotToItself, Message
    <3>3. DownIsOff'
      BY DEF TypeOK, PerNode, DownIsOff, Listens
    <3>4. HeldUntilStopped'
      <4>1. \A o \in Nodes : StopUnderWay(o) => StopUnderWay(o)'
        BY DEF TypeOK, StopUnderWay, Kinds
      <4> QED BY ZenonT(40), <4>1 DEF TypeOK, PerNode, DownIsOff, HeldUntilStopped, Listens
    <3> QED BY <3>1, <3>2, <3>3, <3>4
  <2>12. ASSUME NEW n \in Nodes, up[n], Sync(n) PROVE IInv'
    <3> USE <2>12 DEF Sync
    <3>1. TypeOK'
      BY ZenonT(40) DEF TypeOK, Message
    <3>2. PerNode' /\ NotToItself'
      BY DEF TypeOK, PerNode, NotToItself, Message
    <3>3. DownIsOff'
      BY DEF TypeOK, PerNode, DownIsOff, Listens
    <3>4. HeldUntilStopped'
      BY DEF TypeOK, PerNode, DownIsOff, HeldUntilStopped, Listens, StopUnderWay
    <3> QED BY <3>1, <3>2, <3>3, <3>4
  <2>13. ASSUME NEW n \in Nodes, NEW k \in Kinds, NEW on \in BOOLEAN, up[n],
              SetVisible(n, k, on) PROVE IInv'
    <3> USE <2>13 DEF SetVisible, Start, Go
    <3>1. TypeOK'
      BY DEF TypeOK, Message, Kinds, Phases
    <3>2. PerNode' /\ NotToItself'
      BY DEF TypeOK, PerNode, NotToItself, Message
    <3>3. DownIsOff'
      BY DEF TypeOK, PerNode, DownIsOff, Listens
    <3>4. HeldUntilStopped'
      <4>1. \A o \in Nodes : StopUnderWay(o) => StopUnderWay(o)'
        BY DEF TypeOK, StopUnderWay, Kinds
      <4> QED BY <4>1 DEF TypeOK, PerNode, DownIsOff, HeldUntilStopped, Listens
    <3> QED BY <3>1, <3>2, <3>3, <3>4
  <2>14. ASSUME NEW n \in Nodes, NEW k \in Kinds, up[n], LanStop(n, k) PROVE IInv'
    <3> USE <2>14 DEF LanStop, StopBegin, Go
    <3>a. call' \in [Nodes -> [Kinds -> Phases]]
      BY Gone DEF TypeOK, Kinds, Phases
    <3>1. TypeOK'
      BY <3>a DEF TypeOK, Message
    <3>2. PerNode' /\ NotToItself'
      BY DEF TypeOK, PerNode, NotToItself, Message
    <3>3. DownIsOff'
      BY DEF TypeOK, PerNode, DownIsOff, Listens
    <3>4. HeldUntilStopped'
      BY DEF TypeOK, PerNode, DownIsOff, HeldUntilStopped, Listens, StopUnderWay
    <3> QED BY <3>1, <3>2, <3>3, <3>4
  <2>15. ASSUME NEW n \in Nodes, NEW k \in Kinds, up[n], LanStopped(n, k) PROVE IInv'
    <3> USE <2>15 DEF LanStopped, StopEnd, Go
    <3>a. call' \in [Nodes -> [Kinds -> Phases]]
      BY Gone DEF TypeOK, Kinds, Phases
    <3>1. TypeOK'
      <4>1. known'[n] = <<>> /\ \A o \in Nodes \ {n} : known'[o] = known[o]
        BY DEF PerNode
      <4>2. DOMAIN <<>> = {} /\ Cardinality({}) = 0
        BY FS_EmptySet
      <4> QED BY <3>a, <4>1, <4>2 DEF TypeOK
    <3>2. PerNode' /\ NotToItself'
      BY DEF TypeOK, PerNode, NotToItself, Message
    <3>3. DownIsOff'
      BY DEF TypeOK, PerNode, DownIsOff, Listens
    <3>4. HeldUntilStopped'
      BY DEF TypeOK, PerNode, DownIsOff, HeldUntilStopped, Listens, StopUnderWay
    <3> QED BY <3>1, <3>2, <3>3, <3>4
  <2>16. ASSUME NEW n \in Nodes, NEW s \in SUBSET Others(n), SetLinks(n, s) PROVE IInv'
    <3> USE <2>16 DEF SetLinks
    <3>1. TypeOK'
      BY DEF TypeOK, Message
    <3>2. PerNode' /\ NotToItself'
      BY DEF TypeOK, PerNode, NotToItself, Message
    <3>3. DownIsOff'
      BY DEF TypeOK, PerNode, DownIsOff, Listens
    <3>4. HeldUntilStopped'
      BY DEF TypeOK, PerNode, DownIsOff, HeldUntilStopped, Listens, StopUnderWay
    <3> QED BY <3>1, <3>2, <3>3, <3>4
  <2>17. ASSUME NEW n \in Nodes, NEW k \in Kinds, Click(n, k) PROVE IInv'
    <3> USE <2>17 DEF Click, Go
    <3>a. call' \in [Nodes -> [Kinds -> Phases]]
      BY Gone DEF TypeOK, Kinds, Phases
    <3>b. gui' \in [Nodes -> [online : BOOLEAN, scan : BOOLEAN, visible : BOOLEAN]]
      BY Toggled DEF TypeOK, Kinds
    <3>1. TypeOK'
      BY <3>a, <3>b DEF TypeOK
    <3>2. PerNode' /\ NotToItself'
      BY DEF TypeOK, PerNode, NotToItself, Message
    <3>3. DownIsOff'
      BY DEF TypeOK, PerNode, DownIsOff, Listens
    <3>4. HeldUntilStopped'
      BY DEF TypeOK, PerNode, DownIsOff, HeldUntilStopped, Listens, StopUnderWay
    <3> QED BY <3>1, <3>2, <3>3, <3>4
  <2>18. ASSUME NEW n \in Nodes, NEW k \in Kinds, Answered(n, k) PROVE IInv'
    <3> USE <2>18 DEF Answered, Go
    <3>a. call' \in [Nodes -> [Kinds -> Phases]]
      BY Gone DEF TypeOK, Kinds, Phases
    <3>b. gui' \in [Nodes -> [online : BOOLEAN, scan : BOOLEAN, visible : BOOLEAN]]
      BY Toggled DEF TypeOK, Kinds
    <3>1. TypeOK'
      BY <3>a, <3>b DEF TypeOK
    <3>2. PerNode' /\ NotToItself'
      BY DEF TypeOK, PerNode, NotToItself, Message
    <3>3. DownIsOff'
      BY DEF TypeOK, PerNode, DownIsOff, Listens
    <3>4. HeldUntilStopped'
      BY DEF TypeOK, PerNode, DownIsOff, HeldUntilStopped, Listens, StopUnderWay
    <3> QED BY <3>1, <3>2, <3>3, <3>4
  <2>19. ASSUME NEW n \in Nodes, NEW k \in Kinds, CallFails(n, k) PROVE IInv'
    <3> USE <2>19 DEF CallFails, Go
    <3>a. call' \in [Nodes -> [Kinds -> Phases]]
      BY Gone DEF TypeOK, Kinds, Phases
    <3>b. gui' \in [Nodes -> [online : BOOLEAN, scan : BOOLEAN, visible : BOOLEAN]]
      BY Toggled DEF TypeOK, Kinds
    <3>1. TypeOK'
      BY <3>a, <3>b DEF TypeOK
    <3>2. PerNode' /\ NotToItself'
      BY DEF TypeOK, PerNode, NotToItself, Message
    <3>3. DownIsOff'
      BY DEF TypeOK, PerNode, DownIsOff, Listens
    <3>4. HeldUntilStopped'
      BY DEF TypeOK, PerNode, DownIsOff, HeldUntilStopped, Listens, StopUnderWay
    <3> QED BY <3>1, <3>2, <3>3, <3>4
  <2>20. CASE UNCHANGED vars
    BY <2>20 DEF vars, TypeOK, PerNode, NotToItself, DownIsOff, HeldUntilStopped, Listens,
                 StopUnderWay
  <2> HIDE DEF IInv
  <2> QED BY <2>1, <2>2, <2>3, <2>4, <2>5, <2>6, <2>7, <2>8, <2>9, <2>10, <2>11,
             <2>12, <2>13, <2>14, <2>15, <2>16, <2>17, <2>18, <2>19, <2>20 DEF Next, Endpoints
<1> QED BY <1>1, <1>2, PTL DEF Spec

\* The variables have their types, for any number of nodes: no table exceeds max_lan_nodes
\* and no node lists itself (LANDiscovery._handle_udp_message).
THEOREM TypeCorrect == Spec => []TypeOK
<1>1. IInv => TypeOK
  BY DEF IInv
<1> QED BY <1>1, Inductive, PTL

\* A service whose socket is closed knows nobody once no stop is under way, in whatever
\* order starts, stops, crashes and failing calls overlap (LANDiscovery.start, stop).
THEOREM OffKnowsNone == Spec => []OffKnowsNobody
<1>1. IInv => OffKnowsNobody
  BY DEF IInv, TypeOK, HeldUntilStopped, OffKnowsNobody, Listens
<1> QED BY <1>1, Inductive, PTL

-----------------------------------------------------------------------------
(* The organizer that follows a task (TaskStream).                          *)

\* Lines: what is on its way, in the queue of the endpoint or to the client.
LinesTyped ==
  /\ queue \in [Subs -> Seq(Stream!Lines)] /\ wire \in [Subs -> Seq(Stream!Lines)]
  /\ answer \in [Subs -> {"none", "success", "error", "pending"}]
  /\ task \in Stream!Status

\* A line that says completed was written when the task was, which it stays.
LinesTrue ==
  \A c \in Subs :
    /\ \A i \in 1 .. Len(queue[c]) : queue[c][i].state = "completed" => task = "completed"
    /\ \A i \in 1 .. Len(wire[c]) : wire[c][i].state = "completed" => task = "completed"

StreamInv == LinesTyped /\ LinesTrue /\ Stream!SuccessIsReal

\* What the worker writes into a line is the status of the task as it is.
LEMMA LinesMade ==
  ASSUME LinesTyped
  PROVE  /\ \A f \in BOOLEAN : Stream!Line("task", f) \in Stream!Lines
         /\ \A f \in BOOLEAN : Stream!Line("update", f) \in Stream!Lines
         /\ Stream!Update \in Stream!Lines /\ Stream!Update.state = task
         /\ Stream!Ping \in Stream!Lines /\ Stream!Ping.state = "running"
         /\ [Stream!Ping EXCEPT !.kind = "eof"] \in Stream!Lines
         /\ [Stream!Ping EXCEPT !.kind = "eof"].state = "running"
<1>1. \A f \in BOOLEAN : \A k \in {"task", "update"} :
        Stream!Line(k, f) \in Stream!Lines /\ Stream!Line(k, f).state = task
  BY DEF LinesTyped, Stream!Line, Stream!Lines
<1>2. Stream!Ping \in Stream!Lines /\ Stream!Ping.state = "running"
  BY DEF Stream!Ping, Stream!Lines, Stream!Status
<1>3. /\ [Stream!Ping EXCEPT !.kind = "eof"] \in Stream!Lines
      /\ [Stream!Ping EXCEPT !.kind = "eof"].state = "running"
  BY DEF Stream!Ping, Stream!Lines, Stream!Status
<1>4. Stream!Update \in Stream!Lines /\ Stream!Update.state = task
  <2>1. (task \in Stream!Terminal) \in BOOLEAN
    OBVIOUS
  <2> QED BY <1>1, <2>1 DEF Stream!Update
<1>5. \A f \in BOOLEAN : /\ Stream!Line("task", f) \in Stream!Lines
                         /\ Stream!Line("update", f) \in Stream!Lines
  BY <1>1
<1> QED BY <1>2, <1>3, <1>4, <1>5

\* True of a sequence of lines: none claims what the task has not come to.
TrueOf(lines) ==
  \A i \in 1 .. Len(lines) : lines[i].state = "completed" => task = "completed"

\* It stays true when lines are taken from the front or a true one is put at the end.
LEMMA LinesStayTrue ==
  ASSUME NEW lines \in Seq(Stream!Lines), TrueOf(lines)
  PROVE  /\ \A line \in Stream!Lines :
              (line.state = "completed" => task = "completed")
                => /\ Append(lines, line) \in Seq(Stream!Lines) /\ TrueOf(Append(lines, line))
                   /\ <<line>> \in Seq(Stream!Lines) /\ TrueOf(<<line>>)
         /\ lines # <<>> => /\ Head(lines) \in Stream!Lines
                            /\ Head(lines).state = "completed" => task = "completed"
                            /\ Tail(lines) \in Seq(Stream!Lines) /\ TrueOf(Tail(lines))
<1>1. ASSUME NEW line \in Stream!Lines, line.state = "completed" => task = "completed"
      PROVE  /\ Append(lines, line) \in Seq(Stream!Lines) /\ TrueOf(Append(lines, line))
             /\ <<line>> \in Seq(Stream!Lines) /\ TrueOf(<<line>>)
  BY <1>1 DEF TrueOf
<1>2. ASSUME lines # <<>>
      PROVE  /\ Head(lines) \in Stream!Lines
             /\ Head(lines).state = "completed" => task = "completed"
             /\ Tail(lines) \in Seq(Stream!Lines) /\ TrueOf(Tail(lines))
  BY <1>2 DEF TrueOf
<1> QED BY <1>1, <1>2

\* A line decides for a success only if it says that the task is completed.
LEMMA VerdictIsTrue ==
  ASSUME NEW line \in Stream!Lines
  PROVE  /\ Stream!Verdict(line) \in {"success", "error", "pending", "none"}
         /\ Stream!Verdict(line) = "success" => line.state = "completed"
<1>1. line.kind \in {"task", "update", "ping", "eof"}
  BY DEF Stream!Lines
<1>2. CASE line.kind = "task"
  BY <1>2 DEF Stream!Verdict
<1>3. CASE line.kind = "update"
  BY <1>3 DEF Stream!Verdict
<1>4. CASE line.kind \in {"ping", "eof"}
  BY <1>4 DEF Stream!Verdict
<1> QED BY <1>1, <1>2, <1>3, <1>4

\* At the beginning no line has been written.
LEMMA StreamBegins == Stream!Init => StreamInv
BY DEF Stream!Init, StreamInv, LinesTyped, LinesTrue, TrueOf, Stream!SuccessIsReal, Stream!Status

\* Each step of the worker, the endpoint and the organizer keeps the lines true.
LEMMA StreamStep == StreamInv /\ Stream!Next => StreamInv'
<1> SUFFICES ASSUME StreamInv, Stream!Next PROVE StreamInv'
  OBVIOUS
<1> USE DEF StreamInv, LinesTyped, LinesTrue, Stream!SuccessIsReal
\* The task changes: it is not completed before, or completed now.
<1>1. ASSUME task' \in Stream!Status, task = "completed" => task' = "completed",
             UNCHANGED <<queue, wire, answer>>
      PROVE  StreamInv'
  BY <1>1 DEF TrueOf
<1>2. CASE Stream!Progress
  BY <1>1, <1>2 DEF Stream!Progress
<1>3. CASE Stream!Cancel
  BY <1>1, <1>3 DEF Stream!Cancel, Stream!Cancellable, Stream!Terminal, Stream!Status
<1>4. ASSUME NEW s \in Stream!Settled, Stream!Finish(s) PROVE StreamInv'
  BY <1>1, <1>4 DEF Stream!Finish, Stream!Finishable, Stream!Settled, Stream!Status
\* The queue of a subscriber gets the update, if there is room.
<1>5. ASSUME NEW c \in Subs, queue' = [queue EXCEPT ![c] = Stream!Offered(c)],
             UNCHANGED <<task, wire, answer>>
      PROVE  StreamInv'
  <2>1. Stream!Offered(c) \in Seq(Stream!Lines) /\ TrueOf(Stream!Offered(c))
    <3>1. queue[c] \in Seq(Stream!Lines) /\ TrueOf(queue[c])
      BY DEF TrueOf
    <3>2. Stream!Update \in Stream!Lines /\ Stream!Update.state = task
      BY LinesMade
    <3>3. Append(queue[c], Stream!Update) \in Seq(Stream!Lines)
          /\ TrueOf(Append(queue[c], Stream!Update))
      BY <3>1, <3>2, LinesStayTrue
    <3> QED BY <3>1, <3>3 DEF Stream!Offered
  <2> QED BY <1>5, <2>1 DEF TrueOf
<1>6. ASSUME NEW n \in Stream!Notifiers, Stream!NotifyNext(n) PROVE StreamInv'
  <2>1. CASE UNCHANGED queue
    BY <1>1, <1>6, <2>1 DEF Stream!NotifyNext
  <2>2. CASE \E c : c = listeners[note[n]] /\ c \in Subs
                    /\ queue' = [queue EXCEPT ![c] = Stream!Offered(c)]
    BY <1>5, <1>6, <2>2 DEF Stream!NotifyNext
  <2>3. CASE \E c : c = listeners[note[n]] /\ c \notin Subs
                    /\ queue' = [queue EXCEPT ![c] = Stream!Offered(c)]
    <3>1. queue' = queue
      BY <2>3
    <3> QED BY <2>1, <3>1
  <2> QED BY <1>6, <2>1, <2>2, <2>3 DEF Stream!NotifyNext
<1>7. ASSUME NEW o \in OtherListeners, Stream!OtherJoins(o) \/ Stream!OtherLeaves(o) PROVE StreamInv'
  BY <1>1, <1>7 DEF Stream!OtherJoins, Stream!OtherLeaves
\* A line goes out to the client; the queue does not change, or what goes out is its head.
<1>8. ASSUME NEW c \in Subs, NEW lines \in Seq(Stream!Lines), TrueOf(lines),
             wire' = [wire EXCEPT ![c] = lines], UNCHANGED <<task, queue, answer>>
      PROVE  StreamInv'
  BY <1>8 DEF TrueOf
<1>9. ASSUME NEW c \in Subs, NEW line \in Stream!Lines, line.state = "completed" => task = "completed"
      PROVE  Stream!Sent(c, line) \in Seq(Stream!Lines) /\ TrueOf(Stream!Sent(c, line))
  <2>1. wire[c] \in Seq(Stream!Lines) /\ TrueOf(wire[c])
    BY DEF TrueOf
  <2>2. <<>> \in Seq(Stream!Lines) /\ TrueOf(<<>>)
    BY DEF TrueOf
  <2> QED BY <1>9, <2>1, <2>2, LinesStayTrue DEF Stream!Sent
<1>10. ASSUME NEW c \in Subs, Stream!AddListener(c) PROVE StreamInv'
  BY <1>1, <1>10 DEF Stream!AddListener
<1>11. ASSUME NEW c \in Subs, Stream!Recheck(c) PROVE StreamInv'
  BY <1>1, <1>5, <1>11 DEF Stream!Recheck
<1>12. ASSUME NEW c \in Subs, Stream!Snapshot(c) PROVE StreamInv'
  <2>1. Stream!Line("task", FALSE) \in Stream!Lines /\ Stream!Line("task", FALSE).state = task
    BY LinesMade DEF Stream!Line
  <2> QED BY <1>8, <1>9, <1>12, <2>1 DEF Stream!Snapshot
<1>13. ASSUME NEW c \in Subs, Stream!Forward(c) PROVE StreamInv'
  <2>1. queue[c] \in Seq(Stream!Lines) /\ TrueOf(queue[c]) /\ queue[c] # <<>>
    BY <1>13 DEF TrueOf, Stream!Forward
  <2>2. /\ Head(queue[c]) \in Stream!Lines
        /\ Head(queue[c]).state = "completed" => task = "completed"
        /\ Tail(queue[c]) \in Seq(Stream!Lines) /\ TrueOf(Tail(queue[c]))
    BY <2>1, LinesStayTrue
  <2>3. Stream!Sent(c, Head(queue[c])) \in Seq(Stream!Lines)
        /\ TrueOf(Stream!Sent(c, Head(queue[c])))
    BY <2>2, <1>9
  <2>4. /\ queue' = [queue EXCEPT ![c] = Tail(queue[c])]
        /\ wire' = [wire EXCEPT ![c] = Stream!Sent(c, Head(queue[c]))]
        /\ UNCHANGED <<task, answer>>
    BY <1>13 DEF Stream!Forward
  <2> QED BY <2>2, <2>3, <2>4 DEF TrueOf
<1>14. ASSUME NEW c \in Subs, Stream!SendPing(c) PROVE StreamInv'
  <2>1. wire[c] \in Seq(Stream!Lines) /\ TrueOf(wire[c])
    BY DEF TrueOf
  <2>2. <<Stream!Ping>> \in Seq(Stream!Lines) /\ TrueOf(<<Stream!Ping>>)
    BY <2>1, LinesMade, LinesStayTrue
  <2> QED BY <1>8, <1>14, <2>2 DEF Stream!SendPing
<1>15. ASSUME NEW c \in Subs, Stream!Hangup(c) PROVE StreamInv'
  BY <1>8, <1>9, <1>15, LinesMade DEF Stream!Hangup
\* What was on its way is lost, or the stream of a task that is over is written as a whole.
<1>16. <<>> \in Seq(Stream!Lines) /\ TrueOf(<<>>)
  BY DEF TrueOf
<1>17. ASSUME NEW c \in Subs, Stream!Subscribe(c) PROVE StreamInv'
  <2>1. /\ Stream!Line("task", FALSE) \in Stream!Lines /\ Stream!Line("task", FALSE).state = task
        /\ Stream!Line("update", TRUE) \in Stream!Lines /\ Stream!Line("update", TRUE).state = task
    BY LinesMade DEF Stream!Line
  <2> DEFINE lines == <<Stream!Line("task", FALSE), Stream!Line("update", TRUE)>>
  <2>2. lines \in Seq(Stream!Lines) /\ TrueOf(lines)
    <3> DEFINE first == Stream!Line("task", FALSE)
               last == Stream!Line("update", TRUE)
    <3>1. first \in Stream!Lines /\ first.state = task /\ last \in Stream!Lines /\ last.state = task
      BY <2>1
    <3> HIDE DEF first, last
    <3>2. <<first, last>> \in Seq(Stream!Lines) /\ TrueOf(<<first, last>>)
      BY <3>1 DEF TrueOf
    <3> QED BY <3>2 DEF first, last
  <2> HIDE DEF lines
  <2>3. wire' = [wire EXCEPT ![c] = lines] \/ UNCHANGED wire
    BY <1>17 DEF Stream!Subscribe, lines
  <2>4. UNCHANGED <<task, queue, answer>>
    BY <1>17 DEF Stream!Subscribe
  <2> QED BY <1>1, <1>8, <2>2, <2>3, <2>4
<1>18. ASSUME NEW c \in Subs, NEW s \in {"success", "error", "pending"},
              s = "success" => task = "completed", Stream!Answer(c, s), UNCHANGED <<task, queue>>
       PROVE  StreamInv'
  BY <1>16, <1>18 DEF Stream!Answer, Stream!Leave, TrueOf
<1>19. ASSUME NEW c \in Subs, Stream!Read(c) PROVE StreamInv'
  <2>1. wire[c] \in Seq(Stream!Lines) /\ TrueOf(wire[c]) /\ wire[c] # <<>>
    BY <1>19 DEF TrueOf, Stream!Read
  <2> DEFINE line == Head(wire[c])
  <2>2. /\ line \in Stream!Lines /\ (line.state = "completed" => task = "completed")
        /\ Tail(wire[c]) \in Seq(Stream!Lines) /\ TrueOf(Tail(wire[c]))
    BY <2>1, LinesStayTrue
  <2>3. /\ Stream!Verdict(line) \in {"success", "error", "pending", "none"}
        /\ Stream!Verdict(line) = "success" => task = "completed"
    BY ONLY <2>2, VerdictIsTrue
  <2>4. UNCHANGED <<task, queue>>
    BY <1>19 DEF Stream!Read
  <2>5. \/ Stream!Verdict(line) # "none" /\ Stream!Answer(c, Stream!Verdict(line))
        \/ Stream!Answer(c, "error")
        \/ wire' = [wire EXCEPT ![c] = Tail(wire[c])] /\ UNCHANGED answer
    BY <1>19 DEF Stream!Read
  <2> QED BY <1>8, <1>18, <2>2, <2>3, <2>4, <2>5
<1>20. ASSUME NEW c \in Subs, Stream!Deadline(c) PROVE StreamInv'
  BY <1>1, <1>20 DEF Stream!Deadline
<1>21. ASSUME NEW c \in Subs, Stream!Disconnect(c) PROVE StreamInv'
  BY <1>8, <1>16, <1>21 DEF Stream!Disconnect, Stream!Leave
<1>22. ASSUME NEW c \in Subs, Stream!Poll(c) \/ Stream!PollTimeout(c) PROVE StreamInv'
  BY <1>18, <1>22 DEF Stream!Poll, Stream!PollTimeout
<1> QED BY <1>2, <1>3, <1>4, <1>6, <1>7, <1>10, <1>11, <1>12, <1>13, <1>14, <1>15, <1>17, <1>19,
           <1>20, <1>21, <1>22
        DEF Stream!Next, Stream!Worker, Stream!Endpoint, Stream!Organizer

-----------------------------------------------------------------------------
(* The progress that is shown (StepProgress).                                *)

\* What a thread may be about.
WorkerSteps ==
  [at : {"smooth", "merge", "write"}, kind : {"worker"}, who : Members,
   act : {"start", "beat", "call", "late"}, read : Steps!Progress]
PeerSteps(p) ==
  [at : {"merge", "write"}, kind : {"remote"}, who : {p}, act : Reports, read : Steps!Progress]
OrganizerSteps ==
  [at : {"merge", "write"}, kind : {"organizer", "coordinator"}, who : {"organizer"},
   act : {"step", "waiting"}, read : Steps!Progress]

StepsTyped ==
  /\ endpoint \in {"execute", "chat"} /\ plan \in BOOLEAN /\ early \in BOOLEAN
  /\ progress \in Steps!Progress /\ copy \in Steps!Progress
  /\ rows \in [Members -> {"pending", "running", "timeout", "completed", "skipped"}]
  /\ made \in [Members -> Nat]
  /\ told \in [Peers -> Reports \cup {Steps!Silent}]
  /\ steps \in [Steps!Threads -> Nat]
  /\ step = [t \in Steps!Threads |-> step[t]]
  /\ step["crew"] \in WorkerSteps \cup {Steps!Idle}
  /\ step["organizer"] \in OrganizerSteps \cup {Steps!Idle}
  /\ \A p \in Peers : step[p] \in PeerSteps(p) \cup {Steps!Idle}

\* Once the threads are joined, only the organizer makes steps.
Quiet ==
  /\ org \in {"judge", "settle"} => \A t \in {"crew"} \cup Peers : step[t] = Steps!Idle
  /\ org \in {"over", "broken"} => Steps!AllIdle

\* Before the end the task is running, cancelled or, early, failed.
StatusKnown ==
  /\ org \in {"start", "routed", "sent", "work", "judge", "settle", "over", "broken"}
  /\ IF org \in {"over", "broken"} THEN taskStatus \in {"completed", "failed"}
     ELSE /\ taskStatus \in {"running", "cancelled", "failed"}
          /\ early <=> taskStatus = "failed"

Undone(p) == p.phase # "completed" /\ p.pct < 100

\* While it runs, the progress of the execute endpoint is not that of the end, and no
\* thread has read one that is.
NothingDone ==
  endpoint = "execute" /\ taskStatus = "running" /\ org \notin {"settle", "over", "broken"} =>
    /\ Undone(progress)
    /\ \A t \in Steps!Threads : step[t] # Steps!Idle /\ step[t].at # "merge" => Undone(step[t].read)

\* The organizer's last step leaves the progress of the end as it is.
LastStep ==
  org = "settle" =>
    /\ step["organizer"] # Steps!Idle
         => step["organizer"].kind = "organizer" /\ step["organizer"].act = "step"
    /\ endpoint = "execute" =>
         /\ progress = Steps!Show("completed", 100)
         /\ step["organizer"] # Steps!Idle /\ step["organizer"].at = "write"
              => step["organizer"].read = Steps!Show("completed", 100)

\* Of a node all milestones are shown but the one of the report that is under way.
MilestonesKnown ==
  \A p \in Peers :
    /\ \E S : shown[p] \in Seq(S)
    /\ \A i \in 1 .. Len(shown[p]) - 1 : shown[p][i] # shown[p][i + 1]
    /\ IF step[p] # Steps!Idle /\ step[p].at = "write" THEN told[p] = step[p].act
       ELSE told[p] # Steps!Silent =>
              shown[p] # <<>> /\ shown[p][Len(shown[p])] = Steps!Signature(told[p])

StepsInv ==
  /\ StepsTyped /\ Quiet /\ StatusKnown /\ NothingDone /\ LastStep
  /\ shown = [p \in Peers |-> shown[p]] /\ MilestonesKnown
  /\ Steps!EndIsShown /\ Steps!RosterSettled

\* The constants of StepProgress.
LEMMA StepsConstants ==
  /\ MaxWork \in Nat /\ MaxReports \in Nat /\ MaxTurns \in Nat \ {0}
  /\ \A r \in Reports : /\ r = [stage |-> r.stage, pct |-> r.pct]
                        /\ r.stage \in {"running", "completed"} /\ r.pct \in 0 .. 100
                        /\ r # Steps!Silent
  /\ IsFiniteSet(Peers)
  /\ "organizer" \notin Peers /\ "crew" \notin Peers
<1>1. IsFiniteSet(Peers)
  BY ConversationsAssumption DEF ConversationsAssumption, Steps!StepProgressAssumption,
     Steps!IsFiniteSet, IsFiniteSet
<1> QED BY <1>1, ConversationsAssumption
        DEF ConversationsAssumption, Steps!StepProgressAssumption, Steps!Silent

\* The greater and the smaller of two numbers.
LEMMA TwoNumbers ==
  ASSUME NEW a \in Int, NEW b \in Int
  PROVE  /\ Steps!Max({a, b}) = IF a >= b THEN a ELSE b
         /\ Steps!Min({a, b}) = IF a <= b THEN a ELSE b
<1>1. \E x \in {a, b} : \A y \in {a, b} : x >= y
  OBVIOUS
<1>2. \E x \in {a, b} : \A y \in {a, b} : x <= y
  OBVIOUS
<1>3. Steps!Max({a, b}) \in {a, b} /\ \A y \in {a, b} : Steps!Max({a, b}) >= y
  BY <1>1 DEF Steps!Max
<1>4. Steps!Min({a, b}) \in {a, b} /\ \A y \in {a, b} : Steps!Min({a, b}) <= y
  BY <1>2 DEF Steps!Min
<1> QED BY <1>3, <1>4

\* What nodes reached is shown between 25 and 80, once one has reported.
LEMMA BlendedBounded ==
  ASSUME told \in [Peers -> Reports \cup {Steps!Silent}], NEW p \in Peers, told[p] # Steps!Silent
  PROVE  Steps!Blended \in 25 .. 80
<1> DEFINE heard == {q \in Peers : told[q] # Steps!Silent}
           counted == {c \in heard \X (1 .. 100) : c[2] <= told[c[1]].pct}
<1>1. \A S : Steps!Cardinality(S) = Cardinality(S)
  BY DEF Steps!Cardinality, Cardinality
<1>2. IsFiniteSet(heard) /\ Cardinality(heard) \in Nat /\ Cardinality(heard) # 0
  <2>1. IsFiniteSet(heard)
    BY StepsConstants, FS_Subset
  <2>2. heard # {}
    OBVIOUS
  <2> QED BY <2>1, <2>2, FS_CardinalityType, FS_EmptySet
<1>3. Cardinality(counted) \in Nat
  <2>1. IsFiniteSet(1 .. 100)
    <3>1. 1 \in Int /\ 100 \in Int
      OBVIOUS
    <3> QED BY ONLY <3>1, FS_Interval
  <2>2. IsFiniteSet(heard \X (1 .. 100))
    BY <1>2, <2>1, FS_Product
  <2>3. IsFiniteSet(counted)
    BY <2>2, FS_Subset
  <2> QED BY <2>3, FS_CardinalityType
<1>4. Steps!Reached = Cardinality(counted) \div Cardinality(heard)
  BY <1>1 DEF Steps!Reached
<1> HIDE DEF heard, counted
<1>5. Steps!Reached \in Int
  BY <1>2, <1>3, <1>4
<1> DEFINE x == 25 + (Steps!Reached * 55) \div 100
<1>6. x \in Int
  BY <1>5
<1>7. Steps!Blended = Steps!Max({25, Steps!Min({80, x})})
  BY DEF Steps!Blended
<1> HIDE DEF x
<1>8. Steps!Min({80, x}) = IF 80 <= x THEN 80 ELSE x
  BY <1>6, TwoNumbers
<1> DEFINE y == Steps!Min({80, x})
<1>9. y \in Int /\ y <= 80
  BY <1>6, <1>8
<1> HIDE DEF y
<1>10. Steps!Max({25, y}) = IF 25 >= y THEN 25 ELSE y
  BY <1>9, TwoNumbers
<1>11. Steps!Blended = Steps!Max({25, y})
  BY <1>7 DEF y
<1> QED BY ONLY <1>9, <1>10, <1>11

\* What is shown is a progress.
LEMMA ShowMakes ==
  ASSUME NEW phase \in Steps!Phases, NEW pct \in 0 .. 100
  PROVE  /\ Steps!Show(phase, pct) \in Steps!Progress
         /\ Steps!Show(phase, pct).phase = phase /\ Steps!Show(phase, pct).pct = pct
         /\ \A p \in Steps!Progress : /\ Steps!SetPhase(p, phase, pct) = Steps!Show(phase, pct)
                                      /\ Steps!Ended(p) = Steps!Show("completed", 100)
<1>1. /\ Steps!Show(phase, pct) \in Steps!Progress
      /\ Steps!Show(phase, pct).phase = phase /\ Steps!Show(phase, pct).pct = pct
  BY DEF Steps!Show, Steps!Progress
<1> QED BY <1>1 DEF Steps!SetPhase, Steps!Ended

\* The phases and the progress that the code names.
LEMMA PhasesNamed ==
  /\ {"received", "routing", "dispatching", "executing", "aggregating", "completed"} = Steps!Phases
  /\ \A p \in Steps!Progress :
       p = Steps!Show(p.phase, p.pct) /\ p.phase \in Steps!Phases /\ p.pct \in 0 .. 100
BY DEF Steps!Phases, Steps!Early, Steps!Progress, Steps!Show

\* The percentages that steps make of those they read.
LEMMA Percentages ==
  ASSUME NEW p, p.pct \in 0 .. 100
  PROVE  /\ \A n \in 0 .. 100 : /\ Steps!AtLeast(p, n) \in 0 .. 100
                                /\ p.pct < 100 /\ n < 100 => Steps!AtLeast(p, n) < 100
         /\ \A by \in 0 .. 5, most \in 0 .. 100 : Steps!UpTo(p, by, most) \in 0 .. 100
         /\ \A n \in 0 .. 100, by \in 0 .. 5 : Steps!Min({85, Steps!AtLeast(p, n) + by}) \in 0 .. 85
<1> DEFINE q == p.pct
<1> HIDE DEF q
<1>1. q \in 0 .. 100
  BY DEF q
<1>2. ASSUME NEW n \in 0 .. 100
      PROVE  Steps!AtLeast(p, n) = IF q >= n THEN q ELSE n
  <2>1. Steps!Max({q, n}) = IF q >= n THEN q ELSE n
    BY <1>1, TwoNumbers
  <2> QED BY <2>1 DEF Steps!AtLeast, q
<1>3. ASSUME NEW by \in 0 .. 5, NEW most \in 0 .. 100
      PROVE  Steps!UpTo(p, by, most) \in 0 .. 100
  <2> DEFINE sum == q + by
  <2>1. sum \in Nat
    BY <1>1
  <2> HIDE DEF sum
  <2>2. Steps!Min({sum, most}) = IF sum <= most THEN sum ELSE most
    <3>1. sum \in Int /\ most \in Int
      BY <2>1
    <3> QED BY ONLY <3>1, TwoNumbers
  <2>3. Steps!UpTo(p, by, most) = Steps!Min({sum, most})
    BY DEF Steps!UpTo, sum, q
  <2> QED BY <2>1, <2>2, <2>3
<1>4. ASSUME NEW n \in 0 .. 100, NEW by \in 0 .. 5
      PROVE  Steps!Min({85, Steps!AtLeast(p, n) + by}) \in 0 .. 85
  <2> DEFINE sum == Steps!AtLeast(p, n) + by
  <2>1. sum \in Nat
    BY <1>1, <1>2
  <2> HIDE DEF sum
  <2>2. Steps!Min({85, sum}) = IF 85 <= sum THEN 85 ELSE sum
    BY <2>1, TwoNumbers
  <2>3. Steps!Min({85, sum}) \in 0 .. 85
    BY <2>1, <2>2
  <2> QED BY <2>3 DEF sum
<1>5. \A n \in 0 .. 100 : /\ Steps!AtLeast(p, n) \in 0 .. 100
                          /\ q < 100 /\ n < 100 => Steps!AtLeast(p, n) < 100
  BY <1>1, <1>2
<1> QED BY <1>3, <1>4, <1>5 DEF q

\* What a step of a worker shows: never the end.
LEMMA WorkerShown ==
  ASSUME NEW s \in WorkerSteps
  PROVE  /\ Steps!WorkerShows(s) \in Steps!Progress
         /\ Undone(s.read) => Undone(Steps!WorkerShows(s))
         /\ Steps!ChatWorkerShows(s) \in Steps!Progress
<1>1. s.read.pct \in 0 .. 100
  BY DEF WorkerSteps, Steps!Progress
<1>2. /\ Steps!AtLeast(s.read, 40) \in 0 .. 100
      /\ s.read.pct < 100 => Steps!AtLeast(s.read, 40) < 100
      /\ Steps!Min({85, Steps!AtLeast(s.read, 40) + 4}) \in 0 .. 85
      /\ Steps!Min({85, Steps!AtLeast(s.read, 40) + 2}) \in 0 .. 85
      /\ Steps!UpTo(s.read, 5, 75) \in 0 .. 100 /\ Steps!UpTo(s.read, 2, 85) \in 0 .. 100
  <2>1. {2, 4, 5} \subseteq 0 .. 5 /\ {40, 75, 85} \subseteq 0 .. 100 /\ 40 < 100
    OBVIOUS
  <2>2. \A n \in 0 .. 100 : /\ Steps!AtLeast(s.read, n) \in 0 .. 100
                            /\ s.read.pct < 100 /\ n < 100 => Steps!AtLeast(s.read, n) < 100
    BY ONLY <1>1, Percentages, Zenon
  <2>3. \A by \in 0 .. 5, most \in 0 .. 100 : Steps!UpTo(s.read, by, most) \in 0 .. 100
    BY ONLY <1>1, Percentages, Zenon
  <2>4. \A n \in 0 .. 100, by \in 0 .. 5 :
          Steps!Min({85, Steps!AtLeast(s.read, n) + by}) \in 0 .. 85
    BY ONLY <1>1, Percentages, Zenon
  <2> QED BY ONLY <2>1, <2>2, <2>3, <2>4
<1>3. /\ Steps!WorkerShows(s) \in
           {Steps!Show("executing", Steps!AtLeast(s.read, 40)),
            Steps!Show("executing", Steps!Min({85, Steps!AtLeast(s.read, 40) + 4})),
            Steps!Show("executing", Steps!Min({85, Steps!AtLeast(s.read, 40) + 2}))}
      /\ Steps!ChatWorkerShows(s) \in {Steps!Show("executing", Steps!UpTo(s.read, 5, 75)),
                                      Steps!Show("executing", Steps!UpTo(s.read, 2, 85))}
  BY DEF Steps!WorkerShows, Steps!ChatWorkerShows
<1>4. ASSUME NEW n \in 0 .. 100
      PROVE  /\ Steps!Show("executing", n) \in Steps!Progress
             /\ n < 100 => Undone(Steps!Show("executing", n))
  BY ShowMakes, PhasesNamed DEF Undone
<1>5. /\ Steps!WorkerShows(s) \in Steps!Progress
      /\ s.read.pct < 100 => Undone(Steps!WorkerShows(s))
      /\ Steps!ChatWorkerShows(s) \in Steps!Progress
  BY <1>2, <1>3, <1>4
<1> QED BY <1>5 DEF Undone

\* What the report of a node shows: the end only if that was read.
LEMMA RemoteShown ==
  ASSUME NEW s, s.read \in Steps!Progress, Steps!Blended \in 25 .. 80
  PROVE  Steps!RemoteShows(s) \in Steps!Progress /\ (Undone(s.read) => Undone(Steps!RemoteShows(s)))
<1>1. /\ Steps!AtLeast(s.read, Steps!Blended) \in 0 .. 100
      /\ s.read.pct < 100 => Steps!AtLeast(s.read, Steps!Blended) < 100
  <2>1. s.read.pct \in 0 .. 100 /\ Steps!Blended \in 0 .. 100 /\ Steps!Blended < 100
    BY DEF Steps!Progress
  <2> QED BY <2>1, Percentages
<1>2. \E phase \in Steps!Phases :
        /\ Steps!RemoteShows(s) = Steps!Show(phase, Steps!AtLeast(s.read, Steps!Blended))
        /\ phase = s.read.phase \/ phase = "executing"
  BY PhasesNamed DEF Steps!RemoteShows
<1> QED BY <1>1, <1>2, ShowMakes DEF Undone

\* What a step of the organizer shows: the end only if that was read, and then for sure,
\* unless it tells of the crew or of waiting.
LEMMA OrganizerShown ==
  ASSUME NEW s \in OrganizerSteps
  PROVE  /\ Steps!OrganizerShows(s) \in Steps!Progress
         /\ Undone(s.read) => Undone(Steps!OrganizerShows(s))
         /\ s.kind = "organizer" /\ s.act = "step" /\ s.read.phase = "completed"
              => Steps!OrganizerShows(s) = s.read
<1>1. /\ s.read \in Steps!Progress /\ s.act \in {"step", "waiting"}
      /\ s.kind \in {"organizer", "coordinator"}
  BY DEF OrganizerSteps
<1>2. \A n \in {10, 25, 55} : /\ Steps!AtLeast(s.read, n) \in 0 .. 100
                              /\ s.read.pct < 100 => Steps!AtLeast(s.read, n) < 100
  <2>1. s.read.pct \in 0 .. 100
    BY <1>1 DEF Steps!Progress
  <2>2. \A n \in 0 .. 100 : /\ Steps!AtLeast(s.read, n) \in 0 .. 100
                            /\ s.read.pct < 100 /\ n < 100 => Steps!AtLeast(s.read, n) < 100
    BY ONLY <2>1, Percentages, Zenon
  <2> QED BY ONLY <2>2
<1>3. \/ /\ Steps!OrganizerShows(s) = Steps!Show("executing", Steps!AtLeast(s.read, 55))
         /\ s.act = "waiting"
      \/ /\ Steps!OrganizerShows(s) = Steps!Show("routing", Steps!AtLeast(s.read, 10))
         /\ s.read.phase \in Steps!Early
      \/ Steps!OrganizerShows(s) = s.read
      \/ /\ Steps!OrganizerShows(s) = Steps!Show("executing", Steps!AtLeast(s.read, 25))
         /\ s.kind = "coordinator"
  BY <1>1 DEF Steps!OrganizerShows
<1>4. ASSUME NEW n \in 0 .. 100, NEW phase \in {"routing", "executing"}
      PROVE  /\ Steps!Show(phase, n) \in Steps!Progress
             /\ n < 100 => Undone(Steps!Show(phase, n))
  <2>1. phase \in Steps!Phases /\ phase # "completed"
    BY PhasesNamed
  <2> QED BY <2>1, ShowMakes DEF Undone
<1>5. /\ Steps!OrganizerShows(s) \in Steps!Progress
      /\ Undone(s.read) => Undone(Steps!OrganizerShows(s))
  <2>1. Undone(s.read) => s.read.pct < 100
    BY DEF Undone
  <2> QED BY <1>1, <1>2, <1>3, <1>4, <2>1
<1>6. "completed" \notin Steps!Early
  BY DEF Steps!Early
<1> QED BY <1>1, <1>3, <1>5, <1>6

\* What the chat makes of a step is a progress.
LEMMA ChatShown ==
  ASSUME NEW s, copy \in Steps!Progress,
         \/ s \in WorkerSteps
         \/ s \in OrganizerSteps
         \/ s.kind = "remote" /\ Steps!Blended \in 25 .. 80
  PROVE  Steps!ChatShows(s) \in Steps!Progress
<1>1. CASE s \in WorkerSteps
  BY <1>1, WorkerShown DEF Steps!ChatShows, WorkerSteps
<1>2. CASE s \in OrganizerSteps
  <2>1. s.read \in Steps!Progress /\ s.kind \in {"organizer", "coordinator"}
    BY <1>2 DEF OrganizerSteps
  <2>2. Steps!UpTo(s.read, 1, 25) \in 0 .. 100 /\ Steps!UpTo(s.read, 2, 55) \in 0 .. 100
    <3>1. s.read.pct \in 0 .. 100
      BY <2>1 DEF Steps!Progress
    <3>2. \A by \in 0 .. 5, most \in 0 .. 100 : Steps!UpTo(s.read, by, most) \in 0 .. 100
      BY ONLY <3>1, Percentages, Zenon
    <3>3. {1, 2} \subseteq 0 .. 5 /\ {25, 55} \subseteq 0 .. 100
      OBVIOUS
    <3> QED BY ONLY <3>2, <3>3
  <2>3. [copy EXCEPT !.pct = Steps!UpTo(s.read, 1, 25)] \in Steps!Progress
    BY <2>2 DEF Steps!Progress
  <2>4. Steps!Show("executing", Steps!UpTo(s.read, 2, 55)) \in Steps!Progress
    BY <2>2, ShowMakes, PhasesNamed
  <2> QED BY <2>1, <2>3, <2>4 DEF Steps!ChatShows
<1>3. CASE s.kind = "remote" /\ Steps!Blended \in 25 .. 80
  <2>1. copy.pct \in 0 .. 100
    BY DEF Steps!Progress
  <2>2. Steps!Max({copy.pct, Steps!Blended})
          = IF copy.pct >= Steps!Blended THEN copy.pct ELSE Steps!Blended
    <3>1. copy.pct \in Int /\ Steps!Blended \in Int
      BY <1>3, <2>1
    <3> QED BY ONLY <3>1, TwoNumbers, Zenon
  <2>3. Steps!Max({copy.pct, Steps!Blended}) \in 0 .. 100
    BY <1>3, <2>1, <2>2
  <2> QED BY <1>3, <2>3, ShowMakes, PhasesNamed DEF Steps!ChatShows
<1> QED BY <1>1, <1>2, <1>3

\* A thread goes on while the execution does: what it has to say of itself, of the
\* progress it leaves and of what it reports is all there is to look at.
LEMMA ThreadStep ==
  ASSUME StepsInv, org \notin {"over", "broken"},
         UNCHANGED <<endpoint, plan, taskStatus, org, early>>,
         NEW t \in Steps!Threads, org \in {"judge", "settle"} => t = "organizer",
         NEW s, step' = [step EXCEPT ![t] = s],
         s # Steps!Idle => \/ t = "crew" /\ s \in WorkerSteps
                           \/ t = "organizer" /\ s \in OrganizerSteps
                           \/ t \in Peers /\ s \in PeerSteps(t),
         progress' \in Steps!Progress, copy' \in Steps!Progress,
         rows' \in [Members -> {"pending", "running", "timeout", "completed", "skipped"}],
         made' \in [Members -> Nat], told' \in [Peers -> Reports \cup {Steps!Silent}],
         steps' \in [Steps!Threads -> Nat],
         endpoint = "execute" /\ taskStatus = "running" /\ org # "settle" =>
           Undone(progress') /\ (s # Steps!Idle /\ s.at # "merge" => Undone(s.read)),
         org = "settle" =>
           /\ s # Steps!Idle => s.kind = "organizer" /\ s.act = "step"
           /\ endpoint = "execute" =>
                /\ progress' = Steps!Show("completed", 100)
                /\ s # Steps!Idle /\ s.at = "write" => s.read = Steps!Show("completed", 100),
         shown' = [p \in Peers |-> shown'[p]], MilestonesKnown'
  PROVE  StepsInv'
<1> USE DEF StepsInv
<1>1. /\ step' = [u \in Steps!Threads |-> step'[u]] /\ step'[t] = s
      /\ \A u \in Steps!Threads : u # t => step'[u] = step[u]
  BY DEF StepsTyped
<1>2. /\ "crew" \in Steps!Threads /\ "organizer" \in Steps!Threads
      /\ \A p \in Peers : p \in Steps!Threads /\ p # "crew" /\ p # "organizer"
  BY StepsConstants DEF Steps!Threads
<1>3. StepsTyped'
  BY <1>1, <1>2 DEF StepsTyped
<1>4. Quiet'
  BY <1>1, <1>2 DEF Quiet
<1>5. StatusKnown'
  BY DEF StatusKnown
<1>6. NothingDone'
  BY <1>1 DEF NothingDone
<1>7. LastStep'
  BY <1>1, <1>2 DEF LastStep
<1>8. Steps!EndIsShown' /\ Steps!RosterSettled'
  BY DEF Steps!EndIsShown, Steps!RosterSettled
<1> QED BY <1>3, <1>4, <1>5, <1>6, <1>7, <1>8

\* The milestones are known as before when no report is under way that was not, and none
\* is done with.
LEMMA MilestonesKept ==
  ASSUME StepsInv, UNCHANGED <<told, shown>>,
         \A p \in Peers : step'[p] = step[p] \/ (step[p] = Steps!Idle /\ step'[p].at # "write")
  PROVE  shown' = [p \in Peers |-> shown'[p]] /\ MilestonesKnown'
BY DEF StepsInv, MilestonesKnown

\* The organizer makes a step of its own.
LEMMA Spoken ==
  ASSUME StepsInv, NEW kind \in {"organizer", "coordinator"}, NEW act \in {"step", "waiting"},
         NEW p \in Steps!Progress, Steps!Says(kind, act, p),
         steps' \in [Steps!Threads -> Nat],
         org \notin {"settle", "over", "broken"},
         org' \in {"routed", "sent", "work", "judge", "settle"},
         org' \in {"judge", "settle"} => org = "judge" \/ Steps!AllIdle,
         org' = "settle" => kind = "organizer" /\ act = "step" /\ p = Steps!Show("completed", 100),
         endpoint = "execute" /\ taskStatus = "running" /\ org' # "settle" => Undone(p)
  PROVE  StepsInv'
<1> USE DEF StepsInv
<1> DEFINE s == Steps!In("merge", kind, "organizer", act, p)
<1>1. s \in OrganizerSteps /\ s # Steps!Idle /\ s.at = "merge" /\ s.kind = kind /\ s.act = act
  BY DEF OrganizerSteps, Steps!In, Steps!Idle
<1>2. /\ "crew" \in Steps!Threads /\ "organizer" \in Steps!Threads
      /\ \A q \in Peers : q \in Steps!Threads /\ q # "crew" /\ q # "organizer"
  BY StepsConstants DEF Steps!Threads
<1>3. /\ step' = [step EXCEPT !["organizer"] = s] /\ progress' = p
      /\ UNCHANGED <<endpoint, plan, taskStatus, copy, rows, made, told, shown, early>>
  BY DEF Steps!Says
<1> HIDE DEF s
<1>4. /\ step' = [u \in Steps!Threads |-> step'[u]] /\ step'["organizer"] = s
      /\ \A u \in Steps!Threads : u # "organizer" => step'[u] = step[u]
  BY <1>2, <1>3 DEF StepsTyped
<1>5. StepsTyped'
  BY <1>1, <1>2, <1>3, <1>4 DEF StepsTyped
<1>6. Quiet'
  BY <1>2, <1>4 DEF Quiet, Steps!AllIdle
<1>7. StatusKnown'
  BY <1>3 DEF StatusKnown
<1>8. NothingDone'
  BY <1>1, <1>3, <1>4 DEF NothingDone
<1>9. LastStep'
  BY <1>1, <1>3, <1>4 DEF LastStep
<1>10. Steps!EndIsShown' /\ Steps!RosterSettled'
  BY DEF Steps!EndIsShown, Steps!RosterSettled
<1>11. shown' = [q \in Peers |-> shown'[q]] /\ MilestonesKnown'
  BY <1>2, <1>3, <1>4, MilestonesKept
<1> QED BY <1>5, <1>6, <1>7, <1>8, <1>9, <1>10, <1>11

\* At the beginning no thread is in a step, and nothing is done.
LEMMA StepsBegin == Steps!StepInit => StepsInv
<1> SUFFICES ASSUME Steps!StepInit PROVE StepsInv
  OBVIOUS
<1> USE DEF Steps!StepInit
<1>1. /\ Steps!Show("received", 5) \in Steps!Progress
      /\ Steps!Show("dispatching", 25) \in Steps!Progress
      /\ Undone(Steps!Show("received", 5))
  <2>1. {"received", "dispatching"} \subseteq Steps!Phases /\ 5 \in 0 .. 100 /\ 25 \in 0 .. 100
    BY PhasesNamed
  <2>2. "received" # "completed" /\ 5 < 100
    OBVIOUS
  <2> QED BY ONLY <2>1, <2>2, ShowMakes DEF Undone
<1>2. /\ "crew" \in Steps!Threads /\ "organizer" \in Steps!Threads
      /\ \A p \in Peers : p \in Steps!Threads
  BY DEF Steps!Threads
<1>3. StepsTyped
  BY <1>1, <1>2 DEF StepsTyped
<1>4. Undone(progress)
  BY <1>1
<1>5. Quiet /\ StatusKnown /\ NothingDone /\ LastStep
  BY <1>4 DEF Quiet, StatusKnown, NothingDone, LastStep
<1>6. \A p \in Peers :
        shown[p] = <<>> /\ <<>> \in Seq({}) /\ told[p] = Steps!Silent /\ step[p] = Steps!Idle
  BY <1>2
<1>7. MilestonesKnown
  BY <1>6 DEF MilestonesKnown
<1>8. Steps!EndIsShown /\ Steps!RosterSettled
  BY DEF Steps!EndIsShown, Steps!RosterSettled
<1> QED BY <1>3, <1>5, <1>7, <1>8 DEF StepsInv

\* The crew enters a step, and smooths the progress it has read.
LEMMA CrewSteps ==
  ASSUME StepsInv,
         \/ \E m \in Members, act \in {"start", "beat", "call", "late"} : Steps!WorkerStep(m, act)
         \/ Steps!Smooth
  PROVE  StepsInv'
<1>1. /\ StepsTyped /\ "crew" \in Steps!Threads
      /\ \A p \in Peers : p \in Steps!Threads /\ p # "crew"
  BY StepsConstants DEF Steps!Threads, StepsInv
<1>2. ASSUME NEW m \in Members, NEW act \in {"start", "beat", "call", "late"},
             Steps!WorkerStep(m, act)
      PROVE  StepsInv'
  <2> DEFINE s == Steps!In("smooth", "worker", m, act, progress)
  <2>1. /\ step' = [step EXCEPT !["crew"] = s] /\ steps' = [steps EXCEPT !["crew"] = @ + 1]
        /\ UNCHANGED <<endpoint, plan, taskStatus, progress, copy, rows, made, told, shown, org,
                       early>>
        /\ org = "work"
    BY <1>2 DEF Steps!WorkerStep, Steps!CrewRuns
  <2>2. s \in WorkerSteps /\ s.read = progress
    BY <1>1 DEF WorkerSteps, Steps!In, StepsTyped
  <2> HIDE DEF s
  <2>3. steps' \in [Steps!Threads -> Nat]
    BY <1>1, <2>1 DEF StepsTyped
  <2>4. shown' = [p \in Peers |-> shown'[p]] /\ MilestonesKnown'
    BY <1>1, <2>1, MilestonesKept DEF StepsTyped
  <2>5. endpoint = "execute" /\ taskStatus = "running" => Undone(progress)
    BY <2>1 DEF StepsInv, NothingDone
  <2> QED BY <1>1, <2>1, <2>2, <2>3, <2>4, <2>5, ThreadStep DEF StepsTyped
<1>3. CASE Steps!Smooth
  <2> DEFINE old == step["crew"]
             s == Steps!In("merge", old.kind, old.who, old.act, progress')
             pct == Steps!Min({80, 25 + 6 * steps["crew"]})
  <2>1. /\ old.at = "smooth" /\ step' = [step EXCEPT !["crew"] = s]
        /\ UNCHANGED <<endpoint, plan, taskStatus, copy, rows, made, told, shown, steps, org,
                       early>>
        /\ progress' = progress \/ progress' = Steps!Show("executing", pct)
    BY <1>3 DEF Steps!Smooth, Steps!Goes
  <2>2. old # Steps!Idle /\ old \in WorkerSteps
    BY <1>1, <2>1 DEF StepsTyped, Steps!Idle
  <2>3. pct \in 0 .. 80
    <3>1. steps["crew"] \in Nat
      BY <1>1 DEF StepsTyped
    <3> DEFINE n == 25 + 6 * steps["crew"]
    <3>2. n \in Nat /\ n >= 25
      BY <3>1
    <3> HIDE DEF n
    <3>3. Steps!Min({80, n}) = IF 80 <= n THEN 80 ELSE n
      BY ONLY <3>2, TwoNumbers
    <3>4. Steps!Min({80, n}) \in 0 .. 80
      BY ONLY <3>2, <3>3
    <3> QED BY <3>4 DEF n
  <2>4. progress' \in Steps!Progress /\ (Undone(progress) => Undone(progress'))
    <3>1. "executing" \in Steps!Phases /\ pct \in 0 .. 100 /\ pct < 100
      BY <2>3, PhasesNamed
    <3> HIDE DEF pct
    <3>2. progress \in Steps!Progress
      BY <1>1 DEF StepsTyped
    <3> QED BY ONLY <2>1, <3>1, <3>2, ShowMakes DEF Undone
  <2>5. s \in WorkerSteps /\ s.at = "merge"
    BY <2>2, <2>4 DEF WorkerSteps, Steps!In
  <2>6. org \notin {"judge", "settle", "over", "broken"}
    BY <1>1, <2>2 DEF StepsInv, Quiet, Steps!AllIdle
  <2>7. endpoint = "execute" /\ taskStatus = "running" => Undone(progress)
    BY <2>6 DEF StepsInv, NothingDone
  <2> HIDE DEF s, old, pct
  <2>8. shown' = [p \in Peers |-> shown'[p]] /\ MilestonesKnown'
    BY <1>1, <2>1, MilestonesKept DEF StepsTyped
  <2> QED BY <1>1, <2>1, <2>4, <2>5, <2>6, <2>7, <2>8, ThreadStep DEF StepsTyped
<1> QED BY <1>2, <1>3

\* A node reports.
LEMMA PeerSteps1 ==
  ASSUME StepsInv, NEW p \in Peers, NEW r \in Reports, Steps!PeerStep(p, r)
  PROVE  StepsInv'
<1>1. /\ StepsTyped /\ \A q \in Peers : q \in Steps!Threads /\ q # "crew" /\ q # "organizer"
  BY StepsConstants DEF Steps!Threads, StepsInv
<1> DEFINE read == Steps!Show(IF r.stage = "completed" THEN "completed" ELSE "executing", r.pct)
           s == Steps!In("merge", "remote", p, r, read)
<1>2. /\ step' = [step EXCEPT ![p] = s] /\ steps' = [steps EXCEPT ![p] = @ + 1]
      /\ step[p] = Steps!Idle
      /\ UNCHANGED <<endpoint, plan, taskStatus, progress, copy, rows, made, told, shown, org,
                     early>>
      /\ org = "work"
  BY DEF Steps!PeerStep
<1>3. read \in Steps!Progress
  BY StepsConstants, ShowMakes, PhasesNamed
<1> HIDE DEF read
<1>4. s \in PeerSteps(p) /\ s.at = "merge"
  BY <1>3 DEF PeerSteps, Steps!In
<1> HIDE DEF s
<1>5. steps' \in [Steps!Threads -> Nat]
  BY <1>1, <1>2 DEF StepsTyped
<1>6. step' = [t \in Steps!Threads |-> step'[t]] /\ step'[p] = s
      /\ \A t \in Steps!Threads : t # p => step'[t] = step[t]
  BY <1>1, <1>2 DEF StepsTyped
<1>7. shown' = [q \in Peers |-> shown'[q]] /\ MilestonesKnown'
  <2>1. \A q \in Peers : step'[q] = step[q] \/ (step[q] = Steps!Idle /\ step'[q].at # "write")
    BY <1>1, <1>2, <1>4, <1>6
  <2> QED BY <1>2, <2>1, MilestonesKept
<1>8. endpoint = "execute" /\ taskStatus = "running" => Undone(progress)
  BY <1>2 DEF StepsInv, NothingDone
<1> QED BY <1>1, <1>2, <1>4, <1>5, <1>7, <1>8, ThreadStep DEF StepsTyped

\* What a step may be, by its kind.
LEMMA StepsByKind ==
  ASSUME StepsTyped, NEW t \in Steps!Threads, step[t] # Steps!Idle
  PROVE  /\ step[t].read \in Steps!Progress
         /\ step[t].kind \in {"worker", "remote", "organizer", "coordinator"}
         /\ \/ t = "crew" /\ step[t] \in WorkerSteps /\ step[t].kind = "worker"
            \/ /\ t = "organizer" /\ step[t] \in OrganizerSteps
               /\ step[t].kind \in {"organizer", "coordinator"}
            \/ /\ t \in Peers /\ step[t] \in PeerSteps(t) /\ step[t].kind = "remote"
               /\ step[t].who = t /\ step[t].act \in Reports
         /\ \A at \in {"merge", "write"}, read \in Steps!Progress :
              LET s == Steps!In(at, step[t].kind, step[t].who, step[t].act, read)
              IN  /\ \/ t = "crew" /\ s \in WorkerSteps
                     \/ t = "organizer" /\ s \in OrganizerSteps
                     \/ t \in Peers /\ s \in PeerSteps(t)
                  /\ s # Steps!Idle /\ s.at = at /\ s.read = read
                  /\ s.kind = step[t].kind /\ s.act = step[t].act /\ s.who = step[t].who
<1> USE DEF Steps!In, Steps!Idle
<1>1. CASE t = "crew"
  <2>1. step[t] \in WorkerSteps
    BY <1>1 DEF StepsTyped
  <2> QED BY <1>1, <2>1 DEF WorkerSteps
<1>2. CASE t = "organizer"
  <2>1. step[t] \in OrganizerSteps
    BY <1>2 DEF StepsTyped
  <2> QED BY <1>2, <2>1 DEF OrganizerSteps
<1>3. CASE t \in Peers
  <2>1. step[t] \in PeerSteps(t)
    BY <1>3 DEF StepsTyped
  <2> QED BY <1>3, <2>1 DEF PeerSteps
<1> QED BY <1>1, <1>2, <1>3 DEF Steps!Threads

\* Which threads may be in a step.
LEMMA WhoSteps ==
  ASSUME StepsInv, NEW t \in Steps!Threads, step[t] # Steps!Idle
  PROVE  /\ org \notin {"over", "broken"} /\ (org \in {"judge", "settle"} => t = "organizer")
         /\ t \in Peers => t # "crew" /\ t # "organizer"
BY StepsConstants DEF StepsInv, Quiet, Steps!AllIdle, Steps!Threads

\* The first part of on_step.
LEMMA MergeStep ==
  ASSUME StepsInv, NEW t \in Steps!Threads, Steps!Merge(t)
  PROVE  StepsInv'
<1> DEFINE old == step[t]
           carried == IF endpoint = "chat" THEN old.read ELSE progress
           s == Steps!In("write", old.kind, old.who, old.act, carried)
<1>1. /\ old.at = "merge" /\ step' = [step EXCEPT ![t] = s] /\ progress' = carried
      /\ copy' = IF endpoint = "chat" THEN old.read ELSE copy
      /\ rows' = IF old.kind = "worker" THEN [rows EXCEPT ![old.who] = Steps!RowAfter(old.act)]
                 ELSE rows
      /\ made' = IF old.kind = "worker" /\ old.act # "beat"
                 THEN [made EXCEPT ![old.who] = @ + 1] ELSE made
      /\ told' = IF old.kind = "remote" THEN [told EXCEPT ![old.who] = old.act] ELSE told
      /\ UNCHANGED <<endpoint, plan, taskStatus, shown, steps, org, early>>
  BY DEF Steps!Merge, Steps!Goes
<1>2. StepsTyped /\ old # Steps!Idle
  BY <1>1 DEF StepsInv, Steps!Idle
<1>3. /\ old.read \in Steps!Progress
      /\ \/ t = "crew" /\ old \in WorkerSteps /\ old.kind = "worker"
         \/ /\ t = "organizer" /\ old \in OrganizerSteps
            /\ old.kind \in {"organizer", "coordinator"}
         \/ /\ t \in Peers /\ old \in PeerSteps(t) /\ old.kind = "remote"
            /\ old.who = t /\ old.act \in Reports
  BY <1>2, StepsByKind
<1>4. carried \in Steps!Progress
  BY <1>2, <1>3 DEF StepsTyped
<1>5. /\ \/ t = "crew" /\ s \in WorkerSteps
         \/ t = "organizer" /\ s \in OrganizerSteps
         \/ t \in Peers /\ s \in PeerSteps(t)
      /\ s # Steps!Idle /\ s.at = "write" /\ s.read = carried
      /\ s.kind = old.kind /\ s.act = old.act /\ s.who = old.who
  <2> HIDE DEF carried
  <2> QED BY <1>2, <1>4, StepsByKind
<1>6. /\ org \notin {"over", "broken"} /\ (org \in {"judge", "settle"} => t = "organizer")
      /\ t \in Peers => t # "crew" /\ t # "organizer"
  BY <1>2, WhoSteps
<1>7. /\ rows' \in [Members -> {"pending", "running", "timeout", "completed", "skipped"}]
      /\ made' \in [Members -> Nat]
  <2>1. CASE old.kind = "worker"
    <3>1. old.who \in Members /\ Steps!RowAfter(old.act) \in {"timeout", "running"}
      BY <1>3, <2>1 DEF WorkerSteps, Steps!RowAfter
    <3>2. /\ rows' = [rows EXCEPT ![old.who] = Steps!RowAfter(old.act)]
          /\ made' = [made EXCEPT ![old.who] = @ + 1] \/ made' = made
      BY <1>1, <2>1
    <3> HIDE DEF old
    <3> QED BY <1>2, <3>1, <3>2 DEF StepsTyped
  <2>2. CASE old.kind # "worker"
    BY <1>1, <1>2, <2>2 DEF StepsTyped
  <2> QED BY <2>1, <2>2
<1>8. told' \in [Peers -> Reports \cup {Steps!Silent}]
  BY <1>1, <1>2, <1>3 DEF StepsTyped
<1>9. endpoint = "execute" /\ taskStatus = "running" /\ org # "settle" => Undone(carried)
  BY <1>6 DEF StepsInv, NothingDone
<1>10. org = "settle" => /\ old.kind = "organizer" /\ old.act = "step"
                         /\ endpoint = "execute" => carried = Steps!Show("completed", 100)
  BY <1>2, <1>6 DEF StepsInv, LastStep
<1> HIDE DEF s, carried
<1>11. /\ step'[t] = s /\ \A u \in Steps!Threads : u # t => step'[u] = step[u]
  BY <1>1, <1>2 DEF StepsTyped
<1>12. shown' = [p \in Peers |-> shown'[p]] /\ MilestonesKnown'
  <2>1. \A p \in Peers : p \in Steps!Threads
    BY DEF Steps!Threads
  <2>2. CASE t \notin Peers
    <3>1. told' = told
      BY <1>1, <1>3, <2>2
    <3> QED BY <1>1, <1>11, <2>1, <2>2, <3>1, MilestonesKept
  <2>3. CASE t \in Peers
    <3>1. told'[t] = s.act /\ \A p \in Peers : p # t => told'[p] = told[p]
      BY <1>1, <1>2, <1>3, <1>5, <1>6, <2>3 DEF StepsTyped
    <3> QED BY <1>1, <1>5, <1>11, <2>1, <2>3, <3>1 DEF StepsInv, MilestonesKnown
  <2> QED BY <2>2, <2>3
<1>13. copy' \in Steps!Progress /\ steps' \in [Steps!Threads -> Nat]
  BY <1>1, <1>2, <1>3 DEF StepsTyped
<1> QED BY ONLY StepsInv, t \in Steps!Threads, <1>1, <1>4, <1>5, <1>6, <1>7, <1>8, <1>9, <1>10,
           <1>12, <1>13, ThreadStep

\* A milestone is put behind the others.
LEMMA MilestoneAdded ==
  ASSUME NEW S, NEW q \in Seq(S), NEW e,
         \A i \in 1 .. Len(q) - 1 : q[i] # q[i + 1],
         q = <<>> \/ q[Len(q)] # e
  PROVE  /\ Append(q, e) \in Seq(S \cup {e}) /\ Append(q, e) # <<>>
         /\ Append(q, e)[Len(Append(q, e))] = e
         /\ \A i \in 1 .. Len(Append(q, e)) - 1 : Append(q, e)[i] # Append(q, e)[i + 1]
<1>1. q \in Seq(S \cup {e}) /\ e \in S \cup {e}
  OBVIOUS
<1>2. /\ Append(q, e) \in Seq(S \cup {e}) /\ Len(Append(q, e)) = Len(q) + 1
      /\ Append(q, e)[Len(q) + 1] = e
      /\ \A i \in 1 .. Len(q) : Append(q, e)[i] = q[i]
  BY <1>1
<1>3. Len(q) \in Nat /\ (q = <<>> => Len(q) = 0)
  OBVIOUS
<1>4. \A i \in 1 .. Len(q) : Append(q, e)[i] # Append(q, e)[i + 1]
  BY <1>2, <1>3
<1> QED BY <1>2, <1>3, <1>4

\* The second part of on_step.
LEMMA WriteStep ==
  ASSUME StepsInv, NEW t \in Steps!Threads, Steps!Write(t)
  PROVE  StepsInv'
<1> DEFINE s == step[t]
<1>1. /\ s.at = "write" /\ step' = [step EXCEPT ![t] = Steps!Idle]
      /\ copy' = IF endpoint = "chat" THEN Steps!ChatShows(s) ELSE copy
      /\ progress' = IF endpoint = "chat" THEN copy' ELSE Steps!ExecuteShows(s)
      /\ shown' = IF s.kind = "remote" /\ Steps!Emits(t, Steps!Signature(s.act))
                  THEN [shown EXCEPT ![t] = Append(@, Steps!Signature(s.act))] ELSE shown
      /\ UNCHANGED <<endpoint, plan, taskStatus, rows, made, told, steps, org, early>>
  BY DEF Steps!Write
<1>2. StepsTyped /\ s # Steps!Idle
  BY <1>1 DEF StepsInv, Steps!Idle
<1>3. /\ s.read \in Steps!Progress
      /\ \/ t = "crew" /\ s \in WorkerSteps /\ s.kind = "worker"
         \/ /\ t = "organizer" /\ s \in OrganizerSteps
            /\ s.kind \in {"organizer", "coordinator"}
         \/ /\ t \in Peers /\ s \in PeerSteps(t) /\ s.kind = "remote"
            /\ s.who = t /\ s.act \in Reports
  BY <1>2, StepsByKind
<1>4. /\ org \notin {"over", "broken"} /\ (org \in {"judge", "settle"} => t = "organizer")
      /\ t \in Peers => t # "crew" /\ t # "organizer"
  BY <1>2, WhoSteps
<1>5. t \in Peers => told[t] = s.act /\ told[t] # Steps!Silent
  BY <1>1, <1>2, <1>3, StepsConstants DEF StepsInv, MilestonesKnown
<1>6. t \in Peers => Steps!Blended \in 25 .. 80
  BY <1>2, <1>5, BlendedBounded DEF StepsTyped
<1>7. /\ Steps!ExecuteShows(s) \in Steps!Progress
      /\ Undone(s.read) => Undone(Steps!ExecuteShows(s))
      /\ s.kind = "organizer" /\ s.act = "step" /\ s.read.phase = "completed"
           => Steps!ExecuteShows(s) = s.read
  <2>1. CASE s.kind = "worker"
    <3>1. s \in WorkerSteps
      BY <1>3, <2>1
    <3>2. Steps!ExecuteShows(s) = Steps!WorkerShows(s)
      BY <2>1 DEF Steps!ExecuteShows
    <3>3. /\ Steps!WorkerShows(s) \in Steps!Progress
          /\ Undone(s.read) => Undone(Steps!WorkerShows(s))
      BY ONLY <3>1, WorkerShown
    <3> QED BY <2>1, <3>2, <3>3
  <2>2. CASE s.kind = "remote"
    <3>1. Steps!Blended \in 25 .. 80
      BY <1>3, <1>6, <2>2
    <3> QED BY <1>3, <2>2, <3>1, RemoteShown DEF Steps!ExecuteShows
  <2>3. CASE s.kind \in {"organizer", "coordinator"}
    <3>1. s \in OrganizerSteps
      BY <1>3, <2>3
    <3> QED BY <2>3, <3>1, OrganizerShown DEF Steps!ExecuteShows
  <2> QED BY <1>3, <2>1, <2>2, <2>3
<1>8. Steps!ChatShows(s) \in Steps!Progress
  BY <1>2, <1>3, <1>6, ChatShown DEF StepsTyped
<1>9. progress' \in Steps!Progress /\ copy' \in Steps!Progress
  BY <1>1, <1>2, <1>7, <1>8 DEF StepsTyped
<1>10. endpoint = "execute" /\ taskStatus = "running" /\ org # "settle" => Undone(progress')
  BY <1>1, <1>2, <1>4, <1>7 DEF StepsInv, NothingDone
<1>11. org = "settle" /\ endpoint = "execute" => progress' = Steps!Show("completed", 100)
  <2>1. Steps!Show("completed", 100).phase = "completed"
    BY DEF Steps!Show
  <2> QED BY <1>1, <1>2, <1>4, <1>7, <2>1 DEF StepsInv, LastStep
<1>12. /\ step'[t] = Steps!Idle /\ \A u \in Steps!Threads : u # t => step'[u] = step[u]
  BY <1>1, <1>2 DEF StepsTyped
<1>13. shown' = [p \in Peers |-> shown'[p]] /\ MilestonesKnown'
  <2>1. \A p \in Peers : p \in Steps!Threads
    BY DEF Steps!Threads
  <2>2. CASE t \notin Peers
    BY <1>1, <1>3, <1>12, <2>1, <2>2, MilestonesKept
  <2>3. CASE t \in Peers
    <3> DEFINE e == Steps!Signature(s.act)
    <3>1. PICK S : shown[t] \in Seq(S)
      BY <2>3 DEF StepsInv, MilestonesKnown
    <3>2. \A i \in 1 .. Len(shown[t]) - 1 : shown[t][i] # shown[t][i + 1]
      BY <2>3 DEF StepsInv, MilestonesKnown
    <3>3. /\ shown = [p \in Peers |-> shown[p]] /\ s.kind = "remote"
      BY <1>3, <1>4, <2>3 DEF StepsInv
    <3>4. CASE Steps!Emits(t, e)
      <4>1. shown[t] = <<>> \/ shown[t][Len(shown[t])] # e
        BY <3>4 DEF Steps!Emits, Steps!Last
      <4>2. /\ shown'[t] = Append(shown[t], e) /\ shown' = [p \in Peers |-> shown'[p]]
            /\ \A p \in Peers : p # t => shown'[p] = shown[p]
        BY <1>1, <2>3, <3>3, <3>4
      <4>3. /\ shown'[t] \in Seq(S \cup {e}) /\ shown'[t] # <<>> /\ shown'[t][Len(shown'[t])] = e
            /\ \A i \in 1 .. Len(shown'[t]) - 1 : shown'[t][i] # shown'[t][i + 1]
        <5> HIDE DEF e, s
        <5> QED BY ONLY <3>1, <3>2, <4>1, <4>2, MilestoneAdded
      <4> QED BY <1>1, <1>5, <1>12, <2>1, <2>3, <4>2, <4>3 DEF StepsInv, MilestonesKnown, Steps!Idle
    <3>5. CASE ~Steps!Emits(t, e)
      <4>1. shown[t] # <<>> /\ shown[t][Len(shown[t])] = e
        BY <3>5 DEF Steps!Emits, Steps!Last
      <4>2. shown' = shown
        BY <1>1, <3>5
      <4> QED BY <1>1, <1>5, <1>12, <2>1, <2>3, <4>1, <4>2 DEF StepsInv, MilestonesKnown, Steps!Idle
    <3> QED BY <3>4, <3>5
  <2> QED BY <2>2, <2>3
<1>14. /\ rows' \in [Members -> {"pending", "running", "timeout", "completed", "skipped"}]
       /\ made' \in [Members -> Nat] /\ told' \in [Peers -> Reports \cup {Steps!Silent}]
       /\ steps' \in [Steps!Threads -> Nat]
  BY <1>1, <1>2 DEF StepsTyped
<1> QED BY ONLY StepsInv, t \in Steps!Threads, <1>1, <1>4, <1>9, <1>10, <1>11, <1>13, <1>14,
           ThreadStep
\* The organizer's own steps.
LEMMA OrganizerSteps1 ==
  ASSUME StepsInv,
         \/ Steps!Route \/ Steps!Dispatch \/ Steps!LocalOnly \/ Steps!Announce
         \/ Steps!Gather \/ Steps!Again \/ Steps!Conclude
  PROVE  StepsInv'
<1>1. StepsTyped /\ progress \in Steps!Progress /\ steps \in [Steps!Threads -> Nat]
  BY DEF StepsInv, StepsTyped
<1>2. ASSUME NEW phase \in Steps!Phases, NEW pct \in 0 .. 100
      PROVE  /\ Steps!SetPhase(progress, phase, pct) \in Steps!Progress
             /\ phase # "completed" /\ pct < 100 => Undone(Steps!SetPhase(progress, phase, pct))
             /\ Steps!SetPhase(progress, "completed", 100) = Steps!Show("completed", 100)
  <2>1. /\ Steps!Show(phase, pct) \in Steps!Progress
        /\ Steps!Show(phase, pct).phase = phase /\ Steps!Show(phase, pct).pct = pct
    BY ShowMakes
  <2>2. \A f, n : Steps!SetPhase(progress, f, n) = Steps!Show(f, n)
    BY DEF Steps!SetPhase
  <2> QED BY ONLY <2>1, <2>2 DEF Undone
<1>3. ASSUME NEW phase \in {"routing", "dispatching", "executing", "aggregating"},
             NEW pct \in {10, 20, 25, 85}
      PROVE  /\ Steps!SetPhase(progress, phase, pct) \in Steps!Progress
             /\ Undone(Steps!SetPhase(progress, phase, pct))
  <2>1. phase \in Steps!Phases /\ phase # "completed" /\ pct \in 0 .. 100 /\ pct < 100
    BY PhasesNamed
  <2> QED BY <1>2, <2>1
<1>4. CASE Steps!Route
  BY <1>1, <1>3, <1>4, Spoken DEF Steps!Route
<1>5. CASE Steps!Dispatch
  BY <1>1, <1>3, <1>5, Spoken DEF Steps!Dispatch
<1>6. CASE Steps!LocalOnly
  BY <1>1, <1>3, <1>6, Spoken DEF Steps!LocalOnly
<1>7. CASE Steps!Announce
  <2>1. steps' \in [Steps!Threads -> Nat]
    <3>1. "organizer" \in Steps!Threads
      BY DEF Steps!Threads
    <3> QED BY <1>1, <1>7, <3>1 DEF Steps!Announce
  <2>2. endpoint = "execute" /\ taskStatus = "running" => Undone(progress)
    BY <1>7 DEF Steps!Announce, StepsInv, NothingDone
  <2> QED BY <1>1, <1>7, <2>1, <2>2, Spoken DEF Steps!Announce
<1>8. CASE Steps!Gather
  BY <1>1, <1>3, <1>8, Spoken DEF Steps!Gather
<1>9. CASE Steps!Again
  <2>1. steps' \in [Steps!Threads -> Nat]
    BY <1>9 DEF Steps!Again
  <2> QED BY <1>1, <1>3, <1>9, <2>1, Spoken DEF Steps!Again
<1>10. CASE Steps!Conclude
  <2>1. /\ Steps!Show("completed", 100) \in Steps!Progress
        /\ Steps!SetPhase(progress, "completed", 100) = Steps!Show("completed", 100)
    BY <1>2, ShowMakes, PhasesNamed
  <2> QED BY <1>1, <1>10, <2>1, Spoken DEF Steps!Conclude
<1> QED BY <1>4, <1>5, <1>6, <1>7, <1>8, <1>9, <1>10

\* The execution ends: nothing is under way, and what is shown is the end, unless the
\* task failed before.
LEMMA EndsStep ==
  ASSUME StepsInv, NEW s \in {"completed", "failed"}, Steps!Ends(s),
         \/ org = "settle" /\ org' = "over"
         \/ org \in {"routed", "sent", "work", "judge"} /\ org' = "broken"
  PROVE  StepsInv'
<1> USE DEF StepsInv
<1>1. /\ Steps!AllIdle
      /\ taskStatus' = IF Steps!Finishable(taskStatus) THEN s ELSE taskStatus
      /\ progress' = IF Steps!Finishable(taskStatus) THEN Steps!Show("completed", 100)
                     ELSE progress
      /\ rows' = IF endpoint = "chat" THEN Steps!Accounted ELSE rows
      /\ UNCHANGED <<endpoint, plan, copy, made, told, shown, steps, step, turn, early>>
  BY DEF Steps!Ends, Steps!Ended, Steps!SetPhase
<1>2. Steps!Show("completed", 100) \in Steps!Progress
  BY ShowMakes, PhasesNamed
<1>3. /\ Steps!Accounted \in [Members -> {"completed", "skipped"}]
      /\ Steps!Accounted \in [Members -> {"pending", "running", "timeout", "completed", "skipped"}]
  BY DEF Steps!Accounted
<1>4. StepsTyped'
  BY <1>1, <1>2, <1>3 DEF StepsTyped
<1>5. Quiet'
  BY <1>1 DEF Steps!AllIdle, Quiet
<1>6. taskStatus' \in {"completed", "failed"} /\ (~early => Steps!Finishable(taskStatus))
  BY <1>1 DEF StatusKnown, Steps!Finishable, Steps!Settled
<1>7. StatusKnown'
  BY <1>6 DEF StatusKnown
<1>8. NothingDone' /\ LastStep'
  BY DEF NothingDone, LastStep
<1>9. Steps!EndIsShown'
  <2>1. org' = "over" /\ endpoint' = "execute" => progress' = Steps!Show("completed", 100)
    BY <1>1 DEF LastStep
  <2> QED BY <1>1, <1>6, <2>1 DEF Steps!EndIsShown, StepsTyped
<1>10. Steps!RosterSettled'
  BY <1>1, <1>3 DEF Steps!RosterSettled
<1>11. MilestonesKnown' /\ shown' = [p \in Peers |-> shown'[p]]
  BY <1>1 DEF MilestonesKnown
<1> QED BY <1>4, <1>5, <1>7, <1>8, <1>9, <1>10, <1>11

\* From outside the task is cancelled or failed.
LEMMA OutsideStep ==
  ASSUME StepsInv, NEW s \in {"cancelled", "failed"}, Steps!Outside(s)
  PROVE  StepsInv'
<1> USE DEF StepsInv
<1>1. /\ org \notin {"over", "broken"} /\ taskStatus = "running" /\ taskStatus' = s
      /\ progress' = Steps!Show("completed", 100) /\ early' = (s = "failed")
      /\ UNCHANGED <<endpoint, plan, copy, rows, made, told, shown, steps, step, org, turn>>
  BY DEF Steps!Outside, Steps!Ended, Steps!SetPhase
<1>2. Steps!Show("completed", 100) \in Steps!Progress
  BY ShowMakes, PhasesNamed
<1>3. StepsTyped'
  BY <1>1, <1>2 DEF StepsTyped
<1>4. Quiet' /\ StatusKnown' /\ NothingDone'
  BY <1>1 DEF Quiet, Steps!AllIdle, StatusKnown, NothingDone
<1>5. LastStep'
  BY <1>1 DEF LastStep
<1>6. Steps!EndIsShown' /\ Steps!RosterSettled'
  BY <1>1 DEF Steps!EndIsShown, Steps!RosterSettled
<1>7. MilestonesKnown' /\ shown' = [p \in Peers |-> shown'[p]]
  BY <1>1 DEF MilestonesKnown
<1> QED BY <1>3, <1>4, <1>5, <1>6, <1>7

\* The threads are started.
LEMMA StartStep == StepsInv /\ Steps!Start => StepsInv'
<1> SUFFICES ASSUME StepsInv, Steps!Start PROVE StepsInv'
  OBVIOUS
<1> USE DEF StepsInv, Steps!Start
<1>1. StepsTyped'
  BY DEF StepsTyped
<1>2. Quiet' /\ StatusKnown' /\ NothingDone' /\ LastStep'
  BY DEF Quiet, StatusKnown, NothingDone, LastStep
<1>3. Steps!EndIsShown' /\ Steps!RosterSettled'
  BY DEF Steps!EndIsShown, Steps!RosterSettled
<1>4. MilestonesKnown' /\ shown' = [p \in Peers |-> shown'[p]]
  BY DEF MilestonesKnown
<1> QED BY <1>1, <1>2, <1>3, <1>4

\* Each step of StepProgress keeps the invariant.
LEMMA StepsStep == StepsInv /\ Steps!StepNext => StepsInv'
<1> SUFFICES ASSUME StepsInv, Steps!StepNext PROVE StepsInv'
  OBVIOUS
<1>2. CASE Steps!Settle
  BY <1>2, EndsStep DEF Steps!Settle, Steps!Settled
<1>3. CASE Steps!Break
  BY <1>3, EndsStep DEF Steps!Break
<1> QED BY <1>2, <1>3, CrewSteps, PeerSteps1, MergeStep, WriteStep, OrganizerSteps1, OutsideStep,
           StartStep
        DEF Steps!StepNext

\* The invariant says what the run checks.
LEMMA ProgressShown ==
  StepsInv => Steps!NotDoneEarly /\ Steps!EndIsShown /\ Steps!MilestonesShown /\ Steps!RosterSettled
<1> SUFFICES ASSUME StepsInv
             PROVE  Steps!NotDoneEarly /\ Steps!MilestonesShown
  BY DEF StepsInv
<1>1. Steps!NotDoneEarly
  BY DEF StepsInv, NothingDone, StatusKnown, Undone, Steps!NotDoneEarly
<1>2. Steps!MilestonesShown
  BY DEF StepsInv, MilestonesKnown, Steps!MilestonesShown, Steps!Last
<1> QED BY <1>1, <1>2

-----------------------------------------------------------------------------
(* The chat view (ChatTask).                                                 *)

Events == [type : Chat!EventTypes \cup {"reconnect_done"}, n : Nat]

ViewType ==
  [conn : {"idle", "live", "back"}, seen : Seq(Nat), ended : BOOLEAN, card : BOOLEAN,
   active : BOOLEAN]

\* The events that show a step, and what has been shown when n steps have.
Shows(e) == e.type \in {"step", "approval_request"}
Seen(n) == [i \in 1 .. n |-> i]

\* After a steps have been shown, the events show the next ones, k[i] of them in all with
\* the first i events.
Counts(k, events, a) ==
  /\ k \in [0 .. Len(events) -> Nat] /\ k[0] = a
  /\ \A i \in 1 .. Len(events) :
       IF Shows(events[i]) THEN k[i] = k[i - 1] + 1 /\ events[i].n = k[i] ELSE k[i] = k[i - 1]

\* A set of natural numbers has a least element, if any: the principle of induction, as
\* the provers can use it.
LEMMA LeastNat ==
  ASSUME NEW T, T \subseteq Nat, T # {}
  PROVE  \E n \in T : \A m \in T : n <= m
<1> DEFINE R == {ss \in Nat \X Nat : ss[1] < ss[2]}
<1>1. IsWellFoundedOn(R, Nat)
  BY NatLessThanWellFounded DEF OpToRel
<1> HIDE DEF R
<1>2. PICK n \in T : \A y \in T : ~(<<y, n>> \in R)
  BY <1>1, WFMin
<1>3. \A m \in T : ~(m < n)
  BY <1>2 DEF R
<1> QED BY <1>3

\* The views after the first n events, from the view c.
Views(f, c, events, n) ==
  f = [i \in 0 .. n |-> IF i = 0 THEN c ELSE Chat!Received(f[i - 1], events[i])]

\* There are such views, for the first events and then for one more.
LEMMA ViewsExist ==
  ASSUME NEW c, NEW S, NEW events \in Seq(S)
  PROVE  \A n \in 0 .. Len(events) : \E f : Views(f, c, events, n)
<1> DEFINE T == {n \in 0 .. Len(events) : ~ \E f : Views(f, c, events, n)}
<1> SUFFICES ASSUME T # {} PROVE FALSE
  OBVIOUS
<1>1. T \subseteq Nat
  OBVIOUS
<1>2. PICK n \in T : \A m \in T : n <= m
  BY <1>1, LeastNat
<1>3. n # 0
  <2> SUFFICES ASSUME n = 0 PROVE FALSE
    OBVIOUS
  <2> DEFINE g == [i \in 0 .. 0 |-> c]
  <2>1. Views(g, c, events, 0)
    BY DEF Views
  <2> QED BY <2>1
<1>4. n - 1 \in 0 .. Len(events) /\ n - 1 \notin T
  BY <1>2, <1>3
<1>5. PICK f : Views(f, c, events, n - 1)
  BY <1>4
<1> DEFINE g == [i \in 0 .. n |-> IF i = n THEN Chat!Received(f[n - 1], events[n]) ELSE f[i]]
<1>6. Views(g, c, events, n)
  <2>1. \A i \in 0 .. n - 1 : f[i] = IF i = 0 THEN c ELSE Chat!Received(f[i - 1], events[i])
    BY <1>5 DEF Views
  <2>2. \A i \in 0 .. n : g[i] = IF i = 0 THEN c ELSE Chat!Received(g[i - 1], events[i])
    <3> SUFFICES ASSUME NEW i \in 0 .. n
                 PROVE  g[i] = IF i = 0 THEN c ELSE Chat!Received(g[i - 1], events[i])
      OBVIOUS
    <3>1. CASE i = n
      BY <3>1, <1>3, <1>4
    <3>2. CASE i # n
      BY <3>2, <2>1, <1>4
    <3> QED BY <3>1, <3>2
  <2> QED BY <2>2 DEF Views
<1> QED BY <1>2, <1>6

\* What the view makes of the events is the last of them.
LEMMA AfterEventsIs ==
  ASSUME NEW c, NEW S, NEW events \in Seq(S)
  PROVE  \E f : Views(f, c, events, Len(events)) /\ Chat!AfterEvents(c, events) = f[Len(events)]
<1> DEFINE f == CHOOSE f : Views(f, c, events, Len(events))
<1>1. \E g : Views(g, c, events, Len(events))
  <2>1. \A n \in 0 .. Len(events) : \E g : Views(g, c, events, n)
    BY ViewsExist
  <2>2. Len(events) \in 0 .. Len(events)
    OBVIOUS
  <2> QED BY ONLY <2>1, <2>2
<1>2. Views(f, c, events, Len(events))
  BY <1>1
<1>3. Chat!AfterEvents(c, events) = f[Len(events)]
  BY DEF Chat!AfterEvents, Views
<1> QED BY <1>2, <1>3

\* One event.
LEMMA ReceivedMakes ==
  ASSUME NEW v \in ViewType, NEW e \in Events
  PROVE  /\ Chat!Received(v, e) \in ViewType /\ Chat!Received(v, e).conn = v.conn
         /\ Chat!Received(v, e).seen = IF Shows(e) THEN Append(v.seen, e.n) ELSE v.seen
         /\ e.type # "started" => Chat!Received(v, e).active = v.active
<1>1. v = [conn |-> v.conn, seen |-> v.seen, ended |-> v.ended, card |-> v.card,
           active |-> v.active]
  BY DEF ViewType
<1>2. Append(v.seen, e.n) \in Seq(Nat)
  BY DEF ViewType, Events
<1>3. CASE e.type = "started"
  BY <1>3 DEF Chat!Received, ViewType, Shows
<1>4. CASE e.type = "step"
  BY <1>2, <1>4 DEF Chat!Received, ViewType, Shows
<1>5. CASE e.type = "approval_request"
  BY <1>2, <1>5 DEF Chat!Received, ViewType, Shows
<1>6. CASE e.type = "approval_resolved"
  BY <1>6 DEF Chat!Received, ViewType, Shows
<1>7. CASE e.type = "result"
  BY <1>7 DEF Chat!Received, ViewType, Shows
<1>8. CASE e.type \in {"error", "cancelled", "reconnect_done"}
  BY <1>8 DEF Chat!Received, ViewType, Shows
<1> QED BY <1>3, <1>4, <1>5, <1>6, <1>7, <1>8 DEF Events, Chat!EventTypes

\* What the view has shown after events: s[i] after the first i of them.
LEMMA AfterEventsShow ==
  ASSUME NEW v \in ViewType, NEW events \in Seq(Events), NEW s, s[0] = v.seen,
         \A i \in 1 .. Len(events) :
           s[i] = IF Shows(events[i]) THEN Append(s[i - 1], events[i].n) ELSE s[i - 1]
  PROVE  /\ Chat!AfterEvents(v, events) \in ViewType
         /\ Chat!AfterEvents(v, events).conn = v.conn
         /\ Chat!AfterEvents(v, events).seen = s[Len(events)]
<1>1. PICK f : Views(f, v, events, Len(events)) /\ Chat!AfterEvents(v, events) = f[Len(events)]
  BY AfterEventsIs
<1>2. Len(events) \in Nat /\ \A i \in 1 .. Len(events) : events[i] \in Events
  OBVIOUS
<1> DEFINE Good(i) == f[i] \in ViewType /\ f[i].conn = v.conn /\ f[i].seen = s[i]
           T == {i \in 0 .. Len(events) : ~Good(i)}
<1>3. T = {}
  <2> SUFFICES ASSUME T # {} PROVE FALSE
    OBVIOUS
  <2>1. PICK n \in T : \A m \in T : n <= m
    <3>1. T \subseteq Nat
      OBVIOUS
    <3> HIDE DEF T
    <3> QED BY <3>1, LeastNat
  <2>2. f[0] = v
    BY <1>1, <1>2 DEF Views
  <2>3. n # 0
    BY <2>2
  <2>4. n \in 1 .. Len(events) /\ n - 1 \in 0 .. Len(events) /\ n - 1 \notin T
    BY <1>2, <2>1, <2>3
  <2>5. Good(n - 1)
    BY <2>4
  <2>6. f[n] = Chat!Received(f[n - 1], events[n])
    BY <1>1, <2>4 DEF Views
  <2>7. events[n] \in Events
    BY <1>2, <2>4
  <2>8. /\ f[n] \in ViewType /\ f[n].conn = v.conn
        /\ f[n].seen = IF Shows(events[n]) THEN Append(f[n - 1].seen, events[n].n)
                       ELSE f[n - 1].seen
    <3>1. f[n - 1] \in ViewType /\ f[n - 1].conn = v.conn
      BY <2>5
    <3> HIDE DEF Good, T
    <3> DEFINE w == f[n - 1]
               e == events[n]
    <3>2. w \in ViewType /\ e \in Events /\ w.conn = v.conn /\ f[n] = Chat!Received(w, e)
      BY <2>6, <2>7, <3>1
    <3> HIDE DEF w, e
    <3>3. /\ Chat!Received(w, e) \in ViewType /\ Chat!Received(w, e).conn = w.conn
          /\ Chat!Received(w, e).seen = IF Shows(e) THEN Append(w.seen, e.n) ELSE w.seen
      BY ONLY <3>2, ReceivedMakes
    <3>4. /\ f[n] \in ViewType /\ f[n].conn = v.conn
          /\ f[n].seen = IF Shows(e) THEN Append(w.seen, e.n) ELSE w.seen
      BY ONLY <3>2, <3>3
    <3> QED BY <3>4 DEF w, e
  <2>9. f[n].seen = s[n]
    BY <2>4, <2>5, <2>8
  <2> QED BY <2>8, <2>9
<1>4. Good(Len(events))
  BY <1>2, <1>3
<1> QED BY <1>1, <1>4

\* Events that show the next steps: the view has shown them, too.
LEMMA AfterEventsMakes ==
  ASSUME NEW v \in ViewType, NEW events \in Seq(Events), NEW k, NEW a,
         Counts(k, events, a), v.seen = Seen(a)
  PROVE  /\ Chat!AfterEvents(v, events) \in ViewType
         /\ Chat!AfterEvents(v, events).conn = v.conn
         /\ Chat!AfterEvents(v, events).seen = Seen(k[Len(events)])
<1> DEFINE s == [i \in 0 .. Len(events) |-> Seen(k[i])]
<1>1. Len(events) \in Nat
  OBVIOUS
<1>2. s[0] = v.seen /\ s[Len(events)] = Seen(k[Len(events)])
  BY <1>1 DEF Counts
<1>3. ASSUME NEW i \in 1 .. Len(events)
      PROVE  s[i] = IF Shows(events[i]) THEN Append(s[i - 1], events[i].n) ELSE s[i - 1]
  <2>1. i \in 0 .. Len(events) /\ i - 1 \in 0 .. Len(events)
    BY <1>1
  <2>2. k[i - 1] \in Nat /\ k[i] \in Nat /\ s[i] = Seen(k[i]) /\ s[i - 1] = Seen(k[i - 1])
    BY <2>1 DEF Counts
  <2>3. CASE Shows(events[i])
    <3>1. k[i] = k[i - 1] + 1 /\ events[i].n = k[i]
      BY <2>3 DEF Counts
    <3>2. Append(Seen(k[i - 1]), k[i]) = Seen(k[i])
      BY <2>2, <3>1 DEF Seen
    <3> QED BY <2>2, <2>3, <3>1, <3>2
  <2>4. CASE ~Shows(events[i])
    BY <2>2, <2>4 DEF Counts
  <2> QED BY <2>3, <2>4
<1> HIDE DEF s
<1> QED BY ONLY SMTT(30), <1>2, <1>3, AfterEventsShow, v \in ViewType, events \in Seq(Events)

\* What the variables hold.
EventsSent == [type : Chat!EventTypes, n : Nat]

ChatTyped ==
  /\ chatTask \in Chat!Status /\ approval \in {"none", "open", "allow", "deny"}
  /\ exec \in [at : {"new", "working", "asking", "settled", "done"}, made : Nat,
               result : {"none", "success", "error", "cancelled", "raised"}]
  /\ stepQueue \in Seq([kind : Chat!Kinds, n : Nat]) /\ over \in BOOLEAN
  /\ gen \in {"none", "new", "streaming", "ending", "closed", "gone"}
  /\ buffer = Chat!Gone \/ buffer \in Seq(EventsSent)
  /\ back \in [on : BOOLEAN, next : Nat] /\ view \in ViewType

\* After the bounded steps there may be an answer and a summary.
MadeBounded ==
  /\ exec.at \in {"new", "asking"} => exec.made <= MaxSteps
  /\ exec.at \in {"working", "settled"} => exec.made <= MaxSteps + 1
  /\ exec.made <= MaxSteps + 2
  /\ exec.at = "asking" => approval # "none"

\* Where the response is, and the view.
Places ==
  /\ gen \in {"none", "new"} =>
       /\ exec.at = "new" /\ exec.made = 0 /\ stepQueue = <<>> /\ buffer = Chat!Gone
       /\ ~view.active /\ view.conn # "back" /\ view.seen = <<>>
  /\ gen = "none" => view.conn = "idle"
  /\ gen \in {"streaming", "ending"} => buffer # Chat!Gone
  /\ view.conn = "live" => gen \in {"new", "streaming", "ending"}
  /\ (view.active \/ view.conn = "back") /\ buffer = Chat!Gone => gen = "closed"
  /\ buffer # <<>>
  /\ back.on <=> view.conn = "back"

\* The record has steps that were put, each once, among others.
Records ==
  /\ recorded \in Seq(Nat)
  /\ \A i \in 1 .. Len(recorded) : recorded[i] <= exec.made
  /\ \A i, j \in 1 .. Len(recorded) : i # j /\ recorded[i] = recorded[j] => recorded[i] = 0

\* A thread records a step, or puts one, which it may have recorded, or both at once.
RecordMoves ==
  \/ UNCHANGED recorded
  \/ recorded' = Append(recorded, 0)
  \/ recorded' = Append(recorded, exec.made + 1) /\ exec'.made = exec.made + 1
  \/ /\ exec'.made = exec.made + 1
     /\ \E i \in 1 .. Len(recorded) :
          recorded[i] = 0 /\ recorded' = [recorded EXCEPT ![i] = exec.made + 1]

\* The view has shown the first steps, or what the record had when it came back.
Copied(seen) ==
  Len(seen) <= Len(recorded) /\ \A i \in 1 .. Len(seen) : seen[i] \in {0, recorded[i]}
First(seen) == \E n \in 0 .. exec.made : seen = Seen(n)

ShownSome ==
  /\ First(view.seen) \/ Copied(view.seen)
  /\ view.conn = "live" => First(view.seen)
  /\ view.conn = "back" => IF back.next = 0 THEN buffer = Chat!Gone /\ Copied(view.seen)
                                            ELSE First(view.seen)

\* The steps with the first i events of the buffer are the first k[i], the queue has the
\* following ones, and the view has shown what the buffer had when it looked last.
StepsFollow(k) ==
  /\ Counts(k, Chat!Buffered, 0)
  /\ \A i \in 0 .. Len(Chat!Buffered) : k[i] <= exec.made
  /\ \A i \in 1 .. Len(Chat!Buffered) : Chat!Buffered[i].n <= exec.made
  /\ \A i \in 1 .. Len(stepQueue) : stepQueue[i].n \in 1 .. exec.made
  /\ gen \in {"none", "new", "streaming"} =>
       /\ k[Len(Chat!Buffered)] + Len(stepQueue) = exec.made
       /\ \A i \in 1 .. Len(stepQueue) : stepQueue[i].n = k[Len(Chat!Buffered)] + i
  /\ view.conn = "live" => view.seen = Seen(k[Len(Chat!Buffered)])
  /\ view.conn = "back" /\ buffer # Chat!Gone =>
       back.next <= Len(buffer) /\ view.seen = Seen(k[back.next])

ChatInv ==
  ChatTyped /\ MadeBounded /\ Places /\ Records /\ ShownSome /\ \E k : StepsFollow(k)

\* A view that shows what it showed, on the same stream if any, or on none.
LEMMA StillShown ==
  ASSUME ShownSome, exec'.made = exec.made, UNCHANGED recorded, view'.seen = view.seen,
         view'.conn # "idle" => view'.conn = view.conn,
         view'.conn = "back" => back' = back /\ (buffer = Chat!Gone => buffer' = Chat!Gone)
  PROVE  ShownSome'
<1>1. Chat!Gone' = Chat!Gone
  BY DEF Chat!Gone
<1>2. First(view.seen)' <=> First(view.seen)
  BY DEF First, Seen
<1>3. Copied(view.seen)' <=> Copied(view.seen)
  BY DEF Copied
<1> QED BY <1>1, <1>2, <1>3 DEF ShownSome

\* A view that shows the first steps, and has found a buffer if it came back.
LEMMA FirstShown ==
  ASSUME exec'.made = exec.made, exec.made \in Nat, NEW n \in 0 .. exec.made,
         view'.seen = Seen(n), view'.conn = "back" => back'.next # 0
  PROVE  ShownSome'
<1>1. First(view.seen)'
  BY DEF First, Seen
<1> QED BY <1>1 DEF ShownSome

\* The record does not change.
LEMMA RecordStays ==
  ASSUME Records, UNCHANGED recorded, exec'.made = exec.made
  PROVE  Records'
BY DEF Records

\* The record keeps its places, and a step of it that is put had no number before.
LEMMA RecordFollows ==
  ASSUME Records, ShownSome, exec.made \in Nat, view.seen \in Seq(Nat),
         exec'.made \in {exec.made, exec.made + 1}, UNCHANGED <<buffer, back, view>>,
         RecordMoves
  PROVE  Records' /\ ShownSome'
<1>1. recorded \in Seq(Nat) /\ Len(recorded) \in Nat /\ Len(view.seen) \in Nat
  BY DEF Records
<1>2. Chat!Gone' = Chat!Gone
  BY DEF Chat!Gone
<1>3. First(view.seen) => First(view.seen)'
  BY DEF First, Seen
<1>4. /\ \A i \in 1 .. Len(recorded) : recorded[i] \in Nat /\ recorded[i] <= exec.made
      /\ \A i, j \in 1 .. Len(recorded) :
           i # j /\ recorded[i] = recorded[j] => recorded[i] = 0
  BY <1>1 DEF Records
<1> DEFINE Follows(next) ==
      /\ next \in Seq(Nat) /\ Len(next) \in Nat /\ Len(recorded) <= Len(next)
      /\ \A i \in 1 .. Len(recorded) : next[i] = recorded[i] \/ recorded[i] = 0
      /\ \A i \in 1 .. Len(next) : next[i] <= exec'.made
      /\ \A i, j \in 1 .. Len(next) : i # j /\ next[i] = next[j] => next[i] = 0
<1>5. Follows(recorded')
  <2>1. CASE UNCHANGED recorded
    BY ONLY <1>1, <1>4, <2>1, exec.made \in Nat, exec'.made \in {exec.made, exec.made + 1}
  <2>2. ASSUME NEW n \in Nat, recorded' = Append(recorded, n),
               n = 0 \/ (n = exec.made + 1 /\ exec'.made = exec.made + 1)
        PROVE  Follows(recorded')
    <3>1. /\ recorded' \in Seq(Nat) /\ Len(recorded') = Len(recorded) + 1
          /\ recorded'[Len(recorded) + 1] = n
          /\ \A i \in 1 .. Len(recorded) : recorded'[i] = recorded[i]
      BY ONLY <1>1, <2>2, n \in Nat
    <3>2. \A i \in 1 .. Len(recorded') : i \in 1 .. Len(recorded) \/ i = Len(recorded) + 1
      BY ONLY <1>1, <3>1
    <3> QED BY <1>1, <1>4, <2>2, <3>1, <3>2
  <2>3. ASSUME exec'.made = exec.made + 1, NEW m \in 1 .. Len(recorded), recorded[m] = 0,
               recorded' = [recorded EXCEPT ![m] = exec.made + 1]
        PROVE  Follows(recorded')
    <3>1. /\ recorded' \in Seq(Nat) /\ Len(recorded') = Len(recorded)
          /\ recorded'[m] = exec.made + 1
          /\ \A i \in 1 .. Len(recorded) : i # m => recorded'[i] = recorded[i]
      BY ONLY <1>1, <2>3, m \in 1 .. Len(recorded), exec.made \in Nat
    <3> QED BY <1>1, <1>4, <2>3, <3>1
  <2> QED BY <2>1, <2>2, <2>3 DEF RecordMoves
<1>6. Records'
  BY <1>5 DEF Records
<1>7. Copied(view.seen) => Copied(view.seen)'
  <2> SUFFICES ASSUME Copied(view.seen) PROVE Copied(view.seen)'
    OBVIOUS
  <2>1. Len(view.seen) <= Len(recorded)
        /\ \A i \in 1 .. Len(view.seen) : view.seen[i] \in {0, recorded[i]}
    BY DEF Copied
  <2>2. \A i \in 1 .. Len(view.seen) : i \in 1 .. Len(recorded)
    BY <1>1, <2>1
  <2>3. \A i \in 1 .. Len(view.seen) : view.seen[i] \in {0, recorded'[i]}
    BY <1>5, <2>1, <2>2
  <2>4. Len(view.seen) <= Len(recorded')
    BY <1>1, <1>5, <2>1
  <2> QED BY <2>3, <2>4 DEF Copied
<1> QED BY <1>2, <1>3, <1>6, <1>7 DEF ShownSome

\* What the buffer has.
LEMMA BufferedTyped ==
  ASSUME ChatTyped
  PROVE  /\ Chat!Buffered \in Seq(EventsSent) /\ Len(Chat!Buffered) \in Nat
         /\ buffer # Chat!Gone => Chat!Buffered = buffer
         /\ buffer = Chat!Gone => Chat!Buffered = <<>>
         /\ EventsSent \subseteq Events /\ Seq(EventsSent) \subseteq Seq(Events)
         /\ \A events \in Seq(EventsSent) : events # Chat!Gone
<1>1. EventsSent \subseteq Events
  BY DEF EventsSent, Events
<1>2. Seq(EventsSent) \subseteq Seq(Events)
  BY <1>1
<1>3. \A events \in Seq(EventsSent) : events # Chat!Gone
  <2> SUFFICES ASSUME NEW events \in Seq(EventsSent), events = Chat!Gone PROVE FALSE
    OBVIOUS
  <2>1. events[1] \in EventsSent /\ events[1].type = "gone"
    BY DEF Chat!Gone
  <2> QED BY <2>1 DEF EventsSent, Chat!EventTypes
<1>4. Chat!Buffered \in Seq(EventsSent)
  BY DEF ChatTyped, Chat!Buffered
<1> QED BY <1>1, <1>2, <1>3, <1>4 DEF Chat!Buffered

\* The bounds of ChatTask are numbers.
LEMMA ChatConstants == MaxSteps \in Nat \ {0} /\ MaxReturns \in Nat
BY ConversationsAssumption DEF ConversationsAssumption, Chat!ChatAssumption

\* At the beginning nothing is buffered or shown.
LEMMA ChatBegins == Chat!Init => ChatInv
<1> SUFFICES ASSUME Chat!Init PROVE ChatInv
  OBVIOUS
<1> USE DEF Chat!Init, Chat!NewClient
<1>1. ChatTyped
  <2>1. <<>> \in Seq(Nat) /\ <<>> \in Seq([kind : Chat!Kinds, n : Nat])
    OBVIOUS
  <2>2. view \in ViewType /\ back \in [on : BOOLEAN, next : Nat]
    BY <2>1 DEF ViewType
  <2>3. chatTask \in Chat!Status
    BY DEF Chat!Status
  <2> QED BY <2>1, <2>2, <2>3 DEF ChatTyped
<1>2. MadeBounded /\ Places
  BY ChatConstants DEF MadeBounded, Places, Chat!Gone
<1> DEFINE k == [i \in 0 .. 0 |-> 0]
<1>3. Chat!Buffered = <<>>
  BY <1>1, BufferedTyped
<1>4. Counts(k, Chat!Buffered, 0)
  BY <1>3 DEF Counts
<1>5. Seen(0) = <<>>
  BY DEF Seen
<1>6. StepsFollow(k)
  BY <1>3, <1>4, <1>5 DEF StepsFollow
<1> HIDE DEF k
<1>7. Records
  BY DEF Records
<1>8. ShownSome
  <2>1. First(view.seen)
    BY <1>5 DEF First
  <2> QED BY <2>1 DEF ShownSome
<1> QED BY <1>1, <1>2, <1>6, <1>7, <1>8 DEF ChatInv

\* The thread makes a step or none; the response and the view do not move.
LEMMA ThreadMoves ==
  ASSUME ChatInv, exec.at # "new", exec'.at # "new",
         UNCHANGED <<gen, buffer, back, view>>, ChatTyped', MadeBounded',
         RecordMoves,
         \/ exec'.made = exec.made /\ stepQueue' = stepQueue
         \/ \E kind \in Chat!Kinds :
              /\ exec'.made = exec.made + 1
              /\ stepQueue' = Append(stepQueue, [kind |-> kind, n |-> exec.made + 1])
  PROVE  ChatInv'
<1>1. ChatTyped /\ gen \notin {"none", "new"}
  BY DEF ChatInv, Places
<1>2. Places'
  BY <1>1 DEF ChatInv, Places
<1>3. PICK k : StepsFollow(k)
  BY DEF ChatInv
<1>4. /\ exec.made \in Nat /\ exec'.made \in Nat /\ exec.made <= exec'.made
      /\ Len(Chat!Buffered) \in Nat
      /\ \A i \in 0 .. Len(Chat!Buffered) : k[i] \in Nat
  <2>1. Len(Chat!Buffered) \in Nat
    BY <1>1, BufferedTyped
  <2>2. k \in [0 .. Len(Chat!Buffered) -> Nat]
    BY <1>3 DEF StepsFollow, Counts
  <2>3. exec.made \in Nat
    BY <1>1 DEF ChatTyped
  <2>4. exec'.made \in {exec.made, exec.made + 1}
    OBVIOUS
  <2>5. \A i \in 0 .. Len(Chat!Buffered) : k[i] \in Nat
    BY ONLY <2>2
  <2>6. exec'.made \in Nat /\ exec.made <= exec'.made
    BY ONLY <2>3, <2>4
  <2> QED BY <2>1, <2>3, <2>5, <2>6
<1>5. Chat!Buffered' = Chat!Buffered
  BY DEF Chat!Buffered
<1>r. Records' /\ ShownSome'
  <2>1. view.seen \in Seq(Nat)
    BY <1>1 DEF ChatTyped, ViewType
  <2>2. exec'.made \in {exec.made, exec.made + 1}
    OBVIOUS
  <2>3. Records /\ ShownSome
    BY DEF ChatInv
  <2> QED BY <1>4, <2>1, <2>2, <2>3, RecordFollows
<1>6. CASE exec'.made = exec.made /\ stepQueue' = stepQueue
  BY <1>1, <1>2, <1>3, <1>5, <1>6, <1>r DEF StepsFollow, ChatInv
<1>7. ASSUME NEW kind \in Chat!Kinds, exec'.made = exec.made + 1,
             stepQueue' = Append(stepQueue, [kind |-> kind, n |-> exec.made + 1])
      PROVE  ChatInv'
  <2> DEFINE s == [kind |-> kind, n |-> exec.made + 1]
  <2>1. /\ Len(stepQueue) \in Nat /\ Len(stepQueue') = Len(stepQueue) + 1
        /\ stepQueue'[Len(stepQueue) + 1] = s
        /\ \A i \in 1 .. Len(stepQueue) : stepQueue'[i] = stepQueue[i]
    BY <1>1, <1>7 DEF ChatTyped
  <2>2. \A i \in 1 .. Len(stepQueue') : stepQueue'[i].n \in 1 .. exec'.made
    BY <1>3, <1>4, <1>7, <2>1 DEF StepsFollow
  <2>3. gen' \in {"none", "new", "streaming"} =>
          /\ k[Len(Chat!Buffered)] + Len(stepQueue') = exec'.made
          /\ \A i \in 1 .. Len(stepQueue') : stepQueue'[i].n = k[Len(Chat!Buffered)] + i
    <3> DEFINE N == k[Len(Chat!Buffered)]
    <3>1. N \in Nat
      BY <1>4
    <3>2. gen \in {"none", "new", "streaming"} =>
            /\ N + Len(stepQueue) = exec.made
            /\ \A i \in 1 .. Len(stepQueue) : stepQueue[i].n = N + i
      BY <1>3 DEF StepsFollow
    <3> HIDE DEF N
    <3>3. gen \in {"none", "new", "streaming"} =>
            /\ N + Len(stepQueue') = exec'.made
            /\ \A i \in 1 .. Len(stepQueue') : stepQueue'[i].n = N + i
      <4>1. s.n = exec.made + 1
        OBVIOUS
      <4> HIDE DEF s
      <4>2. \A i \in 1 .. Len(stepQueue') : i \in 1 .. Len(stepQueue) \/ i = Len(stepQueue) + 1
        BY <2>1
      <4> SUFFICES ASSUME gen \in {"none", "new", "streaming"}
                   PROVE  /\ N + Len(stepQueue') = exec'.made
                          /\ \A i \in 1 .. Len(stepQueue') : stepQueue'[i].n = N + i
        OBVIOUS
      <4>3. N + Len(stepQueue) = exec.made
        BY <3>2
      <4>4. N + Len(stepQueue') = exec'.made
        BY <1>4, <1>7, <2>1, <3>1, <4>3
      <4>5. stepQueue'[Len(stepQueue) + 1].n = N + (Len(stepQueue) + 1)
        BY <1>4, <2>1, <3>1, <4>1, <4>3
      <4>6. \A i \in 1 .. Len(stepQueue) : stepQueue'[i].n = N + i
        BY <2>1, <3>2
      <4> QED BY <4>2, <4>4, <4>5, <4>6
    <3> QED BY <3>3 DEF N
  <2>4. \A i \in 0 .. Len(Chat!Buffered) : k[i] <= exec'.made
    BY <1>3, <1>4 DEF StepsFollow
  <2>5. \A i \in 1 .. Len(Chat!Buffered) : Chat!Buffered[i].n <= exec'.made
    <3>1. \A i \in 1 .. Len(Chat!Buffered) : Chat!Buffered[i].n \in Nat
      <4> DEFINE b == Chat!Buffered
      <4>1. b \in Seq(EventsSent)
        BY <1>1, BufferedTyped
      <4> HIDE DEF b
      <4>2. \A i \in 1 .. Len(b) : b[i] \in EventsSent
        BY <4>1
      <4>3. \A i \in 1 .. Len(b) : b[i].n \in Nat
        BY <4>2 DEF EventsSent
      <4> QED BY <4>3 DEF b
    <3> QED BY <1>3, <1>4, <3>1 DEF StepsFollow
  <2>6. StepsFollow(k)'
    BY <1>3, <1>5, <2>2, <2>3, <2>4, <2>5 DEF StepsFollow
  <2> QED BY <1>2, <1>r, <2>6 DEF ChatInv
<1> QED BY <1>6, <1>7

\* The steps of the thread.
LEMMA ExecutionSteps ==
  ASSUME ChatInv, Chat!Execution
  PROVE  ChatInv'
<1>1. ChatTyped /\ MadeBounded /\ MaxSteps \in Nat
  BY ChatConstants DEF ChatInv
<1>2. exec = [at |-> exec.at, made |-> exec.made, result |-> exec.result] /\ exec.made \in Nat
  BY <1>1 DEF ChatTyped
<1>3. ASSUME NEW kind \in Chat!Kinds
      PROVE  Append(stepQueue, Chat!Step(kind)) \in Seq([kind : Chat!Kinds, n : Nat])
  <2>1. Chat!Step(kind) \in [kind : Chat!Kinds, n : Nat]
    BY <1>2 DEF Chat!Step
  <2> QED BY <1>1, <2>1 DEF ChatTyped
<1>4. \A kind : Chat!Step(kind) = [kind |-> kind, n |-> exec.made + 1]
  BY DEF Chat!Step
<1>5. "work" \in Chat!Kinds /\ "ask" \in Chat!Kinds /\ "answer" \in Chat!Kinds
  BY DEF Chat!Kinds
<1>6. "delegated" \in Chat!Status /\ "failed" \in Chat!Status /\ "completed" \in Chat!Status
  BY DEF Chat!Status
<1>7. CASE Chat!ExecWork
  <2>1. /\ exec.at = "working" /\ exec.made < MaxSteps
        /\ stepQueue' = Append(stepQueue, Chat!Step("work"))
        /\ \/ UNCHANGED recorded
           \/ \E i \in DOMAIN recorded :
                recorded[i] = 0 /\ recorded' = [recorded EXCEPT ![i] = exec.made + 1]
        /\ exec' = [exec EXCEPT !.made = @ + 1]
        /\ UNCHANGED <<chatTask, approval, over, gen, buffer, back, view, returns>>
    BY <1>7 DEF Chat!ExecWork, Chat!Put
  <2>2. exec' = [at |-> "working", made |-> exec.made + 1, result |-> exec.result]
    BY <1>2, <2>1
  <2>3. ChatTyped'
    BY SMTT(30), <1>1, <1>2, <1>3, <1>5, <1>6, <2>1, <2>2 DEF ChatTyped
  <2>4. MadeBounded'
    BY <1>1, <1>2, <2>1, <2>2 DEF MadeBounded
  <2>5. RecordMoves
    <3>1. DOMAIN recorded = 1 .. Len(recorded)
      BY DEF ChatInv, Records
    <3>2. exec'.made = exec.made + 1
      BY <2>2
    <3> QED BY <2>1, <3>1, <3>2 DEF RecordMoves
  <2> QED BY <1>4, <1>5, <2>1, <2>2, <2>3, <2>4, <2>5, ThreadMoves
<1>u. CASE Chat!ExecRecord
  <2>1. /\ exec.at = "working" /\ recorded' = Append(recorded, 0)
        /\ chatTask' \in {chatTask, "delegated"}
        /\ UNCHANGED <<exec, approval, stepQueue, over, gen, buffer, back, view, returns>>
    BY <1>u DEF Chat!ExecRecord, Chat!Record
  <2>2. ChatTyped'
    BY <1>1, <1>6, <2>1 DEF ChatTyped
  <2>3. MadeBounded'
    BY <1>1, <2>1 DEF MadeBounded
  <2> QED BY <2>1, <2>2, <2>3, ThreadMoves DEF RecordMoves
<1>8. CASE Chat!ExecAsk
  <2>1. /\ exec.at = "working" /\ exec.made < MaxSteps
        /\ stepQueue' = Append(stepQueue, Chat!Step("ask")) /\ approval' = "open"
        /\ recorded' = Append(recorded, exec.made + 1)
        /\ exec' = [exec EXCEPT !.at = "asking", !.made = @ + 1]
        /\ UNCHANGED <<chatTask, over, gen, buffer, back, view, returns>>
    BY <1>8 DEF Chat!ExecAsk, Chat!Put, Chat!Record
  <2>2. exec' = [at |-> "asking", made |-> exec.made + 1, result |-> exec.result]
    BY <1>2, <2>1
  <2>3. ChatTyped'
    BY <1>1, <1>2, <1>3, <1>5, <2>1, <2>2 DEF ChatTyped
  <2>4. MadeBounded'
    BY <1>1, <1>2, <2>1, <2>2 DEF MadeBounded
  <2> QED BY <1>4, <1>5, <2>1, <2>2, <2>3, <2>4, ThreadMoves DEF RecordMoves
<1>9. CASE Chat!ExecAnswered
  <2>1. /\ exec.at = "asking"
        /\ stepQueue' = Append(stepQueue, Chat!Step("answer"))
        /\ recorded' = Append(recorded, exec.made + 1)
        /\ \/ exec' = [at |-> "settled", made |-> exec.made + 1,
                       result |-> Chat!Returned("cancelled")]
           \/ exec' = [exec EXCEPT !.at = "working", !.made = @ + 1]
        /\ chatTask' \in {chatTask, "failed"}
        /\ UNCHANGED <<approval, over, gen, buffer, back, view, returns>>
    BY <1>9 DEF Chat!ExecAnswered, Chat!Record
  <2>2. \E at \in {"settled", "working"}, r \in {"cancelled", "raised", exec.result} :
          exec' = [at |-> at, made |-> exec.made + 1, result |-> r]
    BY <1>2, <2>1 DEF Chat!Returned
  <2>3. ChatTyped'
    BY <1>1, <1>2, <1>3, <1>5, <1>6, <2>1, <2>2 DEF ChatTyped
  <2>4. MadeBounded'
    BY <1>1, <1>2, <2>1, <2>2 DEF MadeBounded
  <2> QED BY <1>4, <1>5, <2>1, <2>2, <2>3, <2>4, ThreadMoves DEF RecordMoves
<1>10. CASE Chat!ExecSettle
  <2>1. /\ exec.at = "working" /\ chatTask' \in {chatTask, "completed", "failed"}
        /\ \E r \in {"success", "error"} :
             exec' = [exec EXCEPT !.at = "settled", !.result = Chat!Returned(r)]
        /\ UNCHANGED <<recorded, approval, stepQueue, over, gen, buffer, back, view, returns>>
    BY <1>10 DEF Chat!ExecSettle
  <2>2. \E r \in {"success", "error", "raised"} :
          exec' = [at |-> "settled", made |-> exec.made, result |-> r]
    BY <1>2, <2>1 DEF Chat!Returned
  <2>3. ChatTyped'
    BY <1>1, <1>2, <1>6, <2>1, <2>2 DEF ChatTyped
  <2>4. MadeBounded'
    BY <1>1, <1>2, <2>1, <2>2 DEF MadeBounded
  <2> QED BY <2>1, <2>2, <2>3, <2>4, ThreadMoves DEF RecordMoves
<1>11. CASE Chat!ExecRaise
  <2>1. /\ exec.at = "working" /\ over' = TRUE
        /\ exec' = [exec EXCEPT !.at = "done", !.result = "raised"]
        /\ UNCHANGED <<chatTask, recorded, approval, stepQueue, gen, buffer, back, view, returns>>
    BY <1>11 DEF Chat!ExecRaise
  <2>2. exec' = [at |-> "done", made |-> exec.made, result |-> "raised"]
    BY <1>2, <2>1
  <2>3. ChatTyped'
    BY <1>1, <1>2, <2>1, <2>2 DEF ChatTyped
  <2>4. MadeBounded'
    BY <1>1, <1>2, <2>1, <2>2 DEF MadeBounded
  <2> QED BY <2>1, <2>2, <2>3, <2>4, ThreadMoves DEF RecordMoves
<1>12. CASE Chat!ExecFinish
  <2>1. /\ exec.at = "settled" /\ over' = TRUE
        /\ stepQueue' = Append(stepQueue, Chat!Step("work"))
        /\ exec' = [exec EXCEPT !.at = "done", !.made = @ + 1]
        /\ UNCHANGED <<chatTask, recorded, approval, gen, buffer, back, view, returns>>
    BY <1>12 DEF Chat!ExecFinish
  <2>2. exec' = [at |-> "done", made |-> exec.made + 1, result |-> exec.result]
    BY <1>2, <2>1
  <2>3. ChatTyped'
    BY <1>1, <1>2, <1>3, <1>5, <2>1, <2>2 DEF ChatTyped
  <2>4. MadeBounded'
    BY <1>1, <1>2, <2>1, <2>2 DEF MadeBounded
  <2> QED BY <1>4, <1>5, <2>1, <2>2, <2>3, <2>4, ThreadMoves DEF RecordMoves
<1> QED BY <1>7, <1>u, <1>8, <1>9, <1>10, <1>11, <1>12 DEF Chat!Execution

\* Events behind others are counted on from where those end.
LEMMA CountsOn ==
  ASSUME NEW S, NEW es \in Seq(S), NEW fs \in Seq(S), NEW k, NEW j, NEW a,
         Counts(k, es, a), Counts(j, fs, k[Len(es)])
  PROVE  \E m : /\ Counts(m, es \o fs, a)
                /\ \A i \in 0 .. Len(es) : m[i] = k[i]
                /\ \A i \in 0 .. Len(fs) : m[Len(es) + i] = j[i]
<1>1. /\ Len(es) \in Nat /\ Len(fs) \in Nat /\ Len(es \o fs) = Len(es) + Len(fs)
      /\ \A i \in 1 .. Len(es) : (es \o fs)[i] = es[i]
      /\ \A i \in 1 .. Len(fs) : (es \o fs)[Len(es) + i] = fs[i]
  OBVIOUS
<1> DEFINE m == [i \in 0 .. Len(es) + Len(fs) |-> IF i <= Len(es) THEN k[i] ELSE j[i - Len(es)]]
<1>2. /\ k \in [0 .. Len(es) -> Nat] /\ k[0] = a /\ j \in [0 .. Len(fs) -> Nat]
      /\ j[0] = k[Len(es)]
  BY DEF Counts
<1>3. \A i \in 0 .. Len(es) : m[i] = k[i]
  BY <1>1
<1>4. \A i \in 0 .. Len(fs) : m[Len(es) + i] = j[i]
  <2> SUFFICES ASSUME NEW i \in 0 .. Len(fs) PROVE m[Len(es) + i] = j[i]
    OBVIOUS
  <2>1. Len(es) + i \in 0 .. Len(es) + Len(fs) /\ Len(es) + i - Len(es) = i
    BY <1>1
  <2>2. CASE i = 0
    BY <1>1, <1>2, <2>1, <2>2
  <2>3. CASE i # 0
    BY <1>1, <2>1, <2>3
  <2> QED BY <2>2, <2>3
<1>5. m \in [0 .. Len(es \o fs) -> Nat] /\ m[0] = a
  <2>1. ASSUME NEW i \in 0 .. Len(es) + Len(fs)
        PROVE  (IF i <= Len(es) THEN k[i] ELSE j[i - Len(es)]) \in Nat
    <3>1. CASE i <= Len(es)
      BY <1>1, <1>2, <3>1
    <3>2. CASE ~(i <= Len(es))
      <4>1. i - Len(es) \in 0 .. Len(fs)
        BY <1>1, <3>2
      <4> QED BY <1>2, <3>2, <4>1
    <3> QED BY <3>1, <3>2
  <2>2. m[0] = a
    BY <1>1, <1>2
  <2> QED BY <1>1, <2>1, <2>2
<1> HIDE DEF m
<1>6. ASSUME NEW i \in 1 .. Len(es \o fs)
      PROVE  IF Shows((es \o fs)[i]) THEN m[i] = m[i - 1] + 1 /\ (es \o fs)[i].n = m[i]
             ELSE m[i] = m[i - 1]
  <2>1. CASE i <= Len(es)
    <3>1. i \in 1 .. Len(es) /\ i - 1 \in 0 .. Len(es) /\ i \in 0 .. Len(es)
      BY <1>1, <2>1
    <3>2. IF Shows(es[i]) THEN k[i] = k[i - 1] + 1 /\ es[i].n = k[i] ELSE k[i] = k[i - 1]
      BY <3>1 DEF Counts
    <3> QED BY <1>1, <1>3, <3>1, <3>2
  <2>2. CASE i > Len(es)
    <3> DEFINE h == i - Len(es)
    <3>1. h \in 1 .. Len(fs) /\ h \in 0 .. Len(fs) /\ h - 1 \in 0 .. Len(fs)
          /\ i = Len(es) + h /\ i - 1 = Len(es) + (h - 1)
      BY <1>1, <2>2
    <3> HIDE DEF h
    <3>2. IF Shows(fs[h]) THEN j[h] = j[h - 1] + 1 /\ fs[h].n = j[h] ELSE j[h] = j[h - 1]
      BY <3>1 DEF Counts
    <3>3. m[i] = j[h] /\ m[i - 1] = j[h - 1] /\ (es \o fs)[i] = fs[h]
      BY <1>1, <1>4, <3>1
    <3> QED BY <3>2, <3>3
  <2> QED BY <1>1, <2>1, <2>2
<1>7. Counts(m, es \o fs, a)
  BY <1>5, <1>6 DEF Counts
<1> QED BY <1>3, <1>4, <1>7

\* The response yields events that go on with the steps, and the queue goes on from there.
LEMMA YieldFollows ==
  ASSUME ChatInv, NEW events \in Seq(EventsSent), events # <<>>, Chat!Yield(events),
         NEW k, StepsFollow(k), NEW j, Counts(j, events, k[Len(Chat!Buffered)]),
         gen' \in {"streaming", "ending"}, gen \in {"new", "streaming"},
         chatTask' \in Chat!Status, over' \in BOOLEAN, UNCHANGED <<approval, recorded, back>>,
         exec' \in [at : {"new", "working", "asking", "settled", "done"}, made : Nat,
                    result : {"none", "success", "error", "cancelled", "raised"}],
         exec'.made = exec.made, MadeBounded',
         stepQueue' \in Seq([kind : Chat!Kinds, n : Nat]),
         \A i \in 1 .. Len(events) : events[i].n <= exec.made,
         \A i \in 0 .. Len(events) : j[i] <= exec.made,
         \A i \in 1 .. Len(stepQueue') : stepQueue'[i].n \in 1 .. exec.made,
         gen' = "streaming" =>
           /\ j[Len(events)] + Len(stepQueue') = exec.made
           /\ \A i \in 1 .. Len(stepQueue') : stepQueue'[i].n = j[Len(events)] + i
  PROVE  ChatInv'
<1> DEFINE b == Chat!Buffered
<1>1. /\ ChatTyped /\ b \in Seq(EventsSent) /\ Len(b) \in Nat
      /\ \A s \in Seq(EventsSent) : s # Chat!Gone
      /\ EventsSent \subseteq Events /\ Seq(EventsSent) \subseteq Seq(Events)
      /\ buffer # Chat!Gone => b = buffer
  BY BufferedTyped DEF ChatInv
<1>2. /\ Counts(k, b, 0)
      /\ \A i \in 0 .. Len(b) : k[i] <= exec.made
      /\ \A i \in 1 .. Len(b) : b[i].n <= exec.made
      /\ view.conn = "live" => view.seen = Seen(k[Len(b)])
      /\ view.conn = "back" /\ buffer # Chat!Gone =>
           back.next <= Len(b) /\ view.seen = Seen(k[back.next])
  BY <1>1 DEF StepsFollow
<1>3. /\ buffer' = b \o events
      /\ view' = IF view.conn = "live" THEN Chat!AfterEvents(view, events) ELSE view
  BY DEF Chat!Yield
<1>4. Counts(j, events, k[Len(b)])
  OBVIOUS
<1> HIDE DEF b
<1>5. PICK m : /\ Counts(m, b \o events, 0)
               /\ \A i \in 0 .. Len(b) : m[i] = k[i]
               /\ \A i \in 0 .. Len(events) : m[Len(b) + i] = j[i]
  <2>1. b \in Seq(EventsSent) /\ events \in Seq(EventsSent) /\ Counts(k, b, 0)
    BY <1>1, <1>2
  <2> QED BY ONLY <1>4, <2>1, CountsOn
<1>6. /\ Len(events) \in Nat /\ Len(b \o events) = Len(b) + Len(events)
      /\ b \o events \in Seq(EventsSent)
      /\ \A i \in 1 .. Len(b) : (b \o events)[i] = b[i]
      /\ \A i \in 1 .. Len(events) : (b \o events)[Len(b) + i] = events[i]
      /\ \A i \in 0 .. Len(b) + Len(events) :
           i \in 0 .. Len(b) \/ \E h \in 1 .. Len(events) : i = Len(b) + h
  <2>1. \A i \in 0 .. Len(b) + Len(events) :
          i \in 0 .. Len(b) \/ \E h \in 1 .. Len(events) : i = Len(b) + h
    <3> SUFFICES ASSUME NEW i \in 0 .. Len(b) + Len(events), i > Len(b)
                 PROVE  \E h \in 1 .. Len(events) : i = Len(b) + h
      BY <1>1
    <3>1. i - Len(b) \in 1 .. Len(events) /\ i = Len(b) + (i - Len(b))
      BY <1>1
    <3> QED BY <3>1
  <2> QED BY <1>1, <2>1
<1>7. Chat!Buffered' = b \o events /\ buffer' # Chat!Gone
  <2>1. buffer' # Chat!Gone
    BY <1>1, <1>3, <1>6
  <2>2. Chat!Gone' = Chat!Gone
    BY DEF Chat!Gone
  <2> QED BY <1>3, <2>1, <2>2 DEF Chat!Buffered
<1>8. /\ view' \in ViewType /\ view'.conn = view.conn
      /\ view.conn = "live" => view'.seen = Seen(j[Len(events)])
      /\ view.conn # "live" => view' = view
  <2>1. view \in ViewType
    BY <1>1 DEF ChatTyped
  <2>2. CASE view.conn = "live"
    <3>1. events \in Seq(Events)
      BY <1>1
    <3>2. view.seen = Seen(k[Len(b)])
      BY <1>2, <2>2
    <3>3. /\ Chat!AfterEvents(view, events) \in ViewType
          /\ Chat!AfterEvents(view, events).conn = view.conn
          /\ Chat!AfterEvents(view, events).seen = Seen(j[Len(events)])
      BY ONLY <1>4, <2>1, <3>1, <3>2, AfterEventsMakes
    <3> QED BY <1>3, <2>2, <3>3
  <2>3. CASE view.conn # "live"
    BY <1>3, <2>1, <2>3
  <2> QED BY <2>2, <2>3
<1>9. exec.made \in Nat /\ back.next \in Nat /\ j \in [0 .. Len(events) -> Nat]
  BY <1>1, <1>4 DEF ChatTyped, Counts
<1>10. ChatTyped'
  <2>1. back' \in [on : BOOLEAN, next : Nat] /\ approval' \in {"none", "open", "allow", "deny"}
    BY <1>1 DEF ChatTyped
  <2>2. gen' \in {"none", "new", "streaming", "ending", "closed", "gone"}
    OBVIOUS
  <2>3. buffer' \in Seq(EventsSent)
    BY <1>3, <1>6
  <2> QED BY <1>8, <2>1, <2>2, <2>3 DEF ChatTyped
<1>11. Places'
  <2>1. back.on <=> view.conn = "back"
    BY DEF ChatInv, Places
  <2>2. Chat!Gone' = Chat!Gone
    BY DEF Chat!Gone
  <2>3. buffer' # <<>>
    BY <1>3, <1>6
  <2> QED BY <1>7, <1>8, <2>1, <2>2, <2>3 DEF Places
<1>12. StepsFollow(m)'
  <2> DEFINE c == b \o events
  <2>1. m[Len(c)] = j[Len(events)] /\ Len(events) \in 0 .. Len(events)
    BY <1>5, <1>6
  <2>2. \A i \in 0 .. Len(c) : m[i] <= exec'.made
    <3> SUFFICES ASSUME NEW i \in 0 .. Len(c) PROVE m[i] <= exec'.made
      OBVIOUS
    <3>1. CASE i \in 0 .. Len(b)
      BY <1>2, <1>5, <3>1
    <3>2. ASSUME NEW h \in 1 .. Len(events), i = Len(b) + h PROVE m[i] <= exec'.made
      <4>1. h \in 0 .. Len(events)
        BY <1>6
      <4> QED BY <1>5, <3>2, <4>1
    <3> QED BY <1>6, <3>1, <3>2
  <2>3. \A i \in 1 .. Len(c) : c[i].n <= exec'.made
    <3> SUFFICES ASSUME NEW i \in 1 .. Len(c) PROVE c[i].n <= exec'.made
      OBVIOUS
    <3>1. i \in 0 .. Len(b) + Len(events)
      BY <1>1, <1>6
    <3>2. CASE i \in 0 .. Len(b)
      <4>1. i \in 1 .. Len(b)
        BY <1>1, <1>6, <3>2
      <4> QED BY <1>2, <1>6, <4>1
    <3>3. ASSUME NEW h \in 1 .. Len(events), i = Len(b) + h PROVE c[i].n <= exec'.made
      BY <1>6, <3>3
    <3> QED BY <1>6, <3>1, <3>2, <3>3
  <2>4. view'.conn = "live" => view'.seen = Seen(m[Len(c)])
    BY <1>8, <2>1
  <2>5. view'.conn = "back" => back'.next <= Len(c) /\ view'.seen = Seen(m[back'.next])
    <3> SUFFICES ASSUME view'.conn = "back"
                 PROVE  back'.next <= Len(c) /\ view'.seen = Seen(m[back'.next])
      OBVIOUS
    <3>1. view' = view /\ view.conn = "back" /\ back' = back
      BY <1>8
    <3>2. buffer # Chat!Gone
      BY <3>1 DEF ChatInv, Places
    <3>3. back.next <= Len(b) /\ view.seen = Seen(k[back.next])
      BY <1>2, <3>1, <3>2
    <3>4. back.next \in 0 .. Len(b)
      BY <1>1, <1>9, <3>3
    <3> QED BY <1>1, <1>5, <1>6, <3>1, <3>3, <3>4
  <2>7. /\ gen' \in {"none", "new", "streaming"} =>
             /\ m[Len(c)] + Len(stepQueue') = exec'.made
             /\ \A i \in 1 .. Len(stepQueue') : stepQueue'[i].n = m[Len(c)] + i
        /\ \A i \in 1 .. Len(stepQueue') : stepQueue'[i].n \in 1 .. exec'.made
    BY <2>1
  <2>8. Counts(m, c, 0)
    BY <1>5
  <2>9. Chat!Buffered' = c /\ buffer' = c
    BY <1>3, <1>7
  <2> HIDE DEF c
  <2> QED BY <2>2, <2>3, <2>4, <2>5, <2>7, <2>8, <2>9 DEF StepsFollow
<1>13. ShownSome'
  <2>1. CASE view.conn = "live"
    <3>1. j[Len(events)] \in 0 .. exec.made
      BY <1>6, <1>9
    <3> DEFINE n == j[Len(events)]
    <3>2. n \in 0 .. exec.made /\ view'.seen = Seen(n) /\ view'.conn # "back"
      BY <1>8, <2>1, <3>1
    <3> HIDE DEF n
    <3> QED BY <1>9, <3>2, FirstShown
  <2>2. CASE view.conn # "live"
    <3>1. view' = view /\ back' = back
      BY <1>8, <2>2
    <3>2. buffer # Chat!Gone \/ view.conn # "back"
      BY DEF ChatInv, Places
    <3> QED BY <3>1, <3>2, StillShown DEF ChatInv
  <2> QED BY <2>1, <2>2
<1>14. Records'
  BY RecordStays DEF ChatInv
<1> QED BY <1>10, <1>11, <1>12, <1>13, <1>14 DEF ChatInv

\* An event that shows no step.
LEMMA NothingShown ==
  ASSUME NEW e \in EventsSent, ~Shows(e), NEW n \in Nat
  PROVE  /\ <<e>> \in Seq(EventsSent) /\ <<e>> # <<>>
         /\ \A i \in 1 .. Len(<<e>>) : <<e>>[i] = e
         /\ \E j : /\ Counts(j, <<e>>, n) /\ j[Len(<<e>>)] = n
                   /\ \A i \in 0 .. Len(<<e>>) : j[i] = n
<1> DEFINE j == [i \in 0 .. 1 |-> n]
<1>1. Len(<<e>>) = 1 /\ <<e>>[1] = e
  OBVIOUS
<1>2. Counts(j, <<e>>, n)
  BY <1>1 DEF Counts
<1>3. j[1] = n /\ \A i \in 0 .. 1 : j[i] = n
  OBVIOUS
<1>4. <<e>> \in Seq(EventsSent) /\ <<e>> # <<>>
  BY <1>1
<1> HIDE DEF j
<1> QED BY <1>1, <1>2, <1>3, <1>4

\* An event by itself or behind another.
Behind(d, e, events) == events = <<e>> \/ events = <<d, e>>

\* The next step, behind an event that shows none or by itself.
LEMMA StepShown ==
  ASSUME NEW d \in EventsSent, ~Shows(d), NEW n \in Nat,
         NEW e \in EventsSent, Shows(e), e.n = n + 1,
         NEW events, Behind(d, e, events)
  PROVE  /\ events \in Seq(EventsSent) /\ events # <<>>
         /\ \A i \in 1 .. Len(events) : events[i] \in {d, e}
         /\ \E j : /\ Counts(j, events, n) /\ j[Len(events)] = n + 1
                   /\ \A i \in 0 .. Len(events) : j[i] <= n + 1
<1>1. CASE events = <<e>>
  <2> DEFINE j == [i \in 0 .. 1 |-> n + i]
  <2>1. Len(events) = 1 /\ events[1] = e /\ events \in Seq(EventsSent)
    BY <1>1
  <2>2. Counts(j, events, n)
    BY <2>1 DEF Counts
  <2>3. j[1] = n + 1 /\ \A i \in 0 .. 1 : j[i] <= n + 1
    OBVIOUS
  <2> HIDE DEF j
  <2> QED BY <1>1, <2>1, <2>2, <2>3
<1>2. CASE events = <<d, e>>
  <2> DEFINE j == [i \in 0 .. 2 |-> IF i = 2 THEN n + 1 ELSE n]
  <2>1. Len(events) = 2 /\ events[1] = d /\ events[2] = e /\ events \in Seq(EventsSent)
    BY <1>2
  <2>2. Counts(j, events, n)
    <3>1. j \in [0 .. 2 -> Nat] /\ j[0] = n /\ j[1] = n /\ j[2] = n + 1
      OBVIOUS
    <3> HIDE DEF j
    <3>2. 1 .. 2 = {1, 2}
      OBVIOUS
    <3> QED BY <2>1, <3>1, <3>2 DEF Counts
  <2>3. j[2] = n + 1 /\ \A i \in 0 .. 2 : j[i] <= n + 1
    OBVIOUS
  <2> HIDE DEF j
  <2>4. \A i \in 1 .. 2 : i = 1 \/ i = 2
    OBVIOUS
  <2> QED BY <1>2, <2>1, <2>2, <2>3, <2>4
<1> QED BY <1>1, <1>2 DEF Behind

\* An event of the response that shows nothing, while the queue stays as it is.
LEMMA TellFollows ==
  ASSUME ChatInv, NEW e \in EventsSent, ~Shows(e), e.n = 0, Chat!Yield(<<e>>),
         UNCHANGED <<recorded, approval, stepQueue, over, back>>,
         chatTask' \in Chat!Status, exec'.made = exec.made, MadeBounded',
         exec' \in [at : {"new", "working", "asking", "settled", "done"}, made : Nat,
                    result : {"none", "success", "error", "cancelled", "raised"}],
         gen' \in {"streaming", "ending"}, gen \in {"new", "streaming"}
  PROVE  ChatInv'
<1>1. PICK k : StepsFollow(k)
  BY DEF ChatInv
<1> DEFINE n == k[Len(Chat!Buffered)]
<1>2. /\ n \in Nat /\ n <= exec.made /\ exec.made \in Nat
      /\ n + Len(stepQueue) = exec.made
      /\ \A i \in 1 .. Len(stepQueue) : stepQueue[i].n = n + i
      /\ \A i \in 1 .. Len(stepQueue) : stepQueue[i].n \in 1 .. exec.made
  <2>1. Len(Chat!Buffered) \in Nat /\ exec.made \in Nat
    BY BufferedTyped DEF ChatInv, ChatTyped
  <2>2. Len(Chat!Buffered) \in 0 .. Len(Chat!Buffered)
    BY <2>1
  <2>3. n \in Nat /\ n <= exec.made
    BY <1>1, <2>2 DEF StepsFollow, Counts
  <2> QED BY <1>1, <2>1, <2>3 DEF StepsFollow
<1>3. n = k[Len(Chat!Buffered)]
  OBVIOUS
<1> HIDE DEF n
<1>4. PICK j : /\ Counts(j, <<e>>, n) /\ j[Len(<<e>>)] = n
               /\ \A i \in 0 .. Len(<<e>>) : j[i] = n
  <2>1. e \in EventsSent /\ ~Shows(e) /\ n \in Nat
    BY <1>2
  <2> QED BY ONLY <2>1, NothingShown
<1>5. /\ <<e>> \in Seq(EventsSent) /\ <<e>> # <<>>
      /\ \A i \in 1 .. Len(<<e>>) : <<e>>[i].n <= exec.made
      /\ \A i \in 0 .. Len(<<e>>) : j[i] <= exec.made
  <2>1. \A i \in 1 .. Len(<<e>>) : <<e>>[i] = e
    BY <1>2, NothingShown
  <2> QED BY <1>2, <1>4, <2>1, NothingShown
<1>6. stepQueue' \in Seq([kind : Chat!Kinds, n : Nat]) /\ over' \in BOOLEAN
  BY DEF ChatInv, ChatTyped
<1> DEFINE events == <<e>>
<1>7. /\ events \in Seq(EventsSent) /\ events # <<>> /\ Chat!Yield(events)
      /\ Counts(j, events, k[Len(Chat!Buffered)])
      /\ \A i \in 1 .. Len(events) : events[i].n <= exec.made
      /\ \A i \in 0 .. Len(events) : j[i] <= exec.made
      /\ \A i \in 1 .. Len(stepQueue') : stepQueue'[i].n \in 1 .. exec.made
      /\ gen' = "streaming" =>
           /\ j[Len(events)] + Len(stepQueue') = exec.made
           /\ \A i \in 1 .. Len(stepQueue') : stepQueue'[i].n = j[Len(events)] + i
  BY <1>2, <1>3, <1>4, <1>5
<1> HIDE DEF events
<1> QED BY <1>1, <1>6, <1>7, YieldFollows

\* A step from the queue goes to the client, behind what is told with it.
LEMMA StepFollows ==
  ASSUME ChatInv, NEW d \in EventsSent, ~Shows(d), d.n = 0,
         NEW e \in EventsSent, Shows(e), e.n = Head(stepQueue).n,
         NEW events, Behind(d, e, events), Chat!Yield(events),
         gen = "streaming", stepQueue # <<>>, stepQueue' = Tail(stepQueue),
         UNCHANGED <<chatTask, exec, recorded, approval, over, gen, back>>
  PROVE  ChatInv'
<1>1. PICK k : StepsFollow(k)
  BY DEF ChatInv
<1> DEFINE n == k[Len(Chat!Buffered)]
<1>2. /\ n \in Nat /\ exec.made \in Nat /\ Len(stepQueue) \in Nat
      /\ n + Len(stepQueue) = exec.made
      /\ \A i \in 1 .. Len(stepQueue) : stepQueue[i].n = n + i
      /\ \A i \in 1 .. Len(stepQueue) : stepQueue[i].n \in 1 .. exec.made
      /\ stepQueue \in Seq([kind : Chat!Kinds, n : Nat])
  <2>1. /\ Len(Chat!Buffered) \in Nat /\ exec.made \in Nat
        /\ stepQueue \in Seq([kind : Chat!Kinds, n : Nat])
    BY BufferedTyped DEF ChatInv, ChatTyped
  <2>2. Len(Chat!Buffered) \in 0 .. Len(Chat!Buffered)
    BY <2>1
  <2>3. n \in Nat
    BY <1>1, <2>2 DEF StepsFollow, Counts
  <2> QED BY <1>1, <2>1, <2>3 DEF StepsFollow
<1>3. n = k[Len(Chat!Buffered)]
  OBVIOUS
<1> HIDE DEF n
<1>4. /\ Len(stepQueue) >= 1 /\ Len(stepQueue') = Len(stepQueue) - 1
      /\ stepQueue' \in Seq([kind : Chat!Kinds, n : Nat]) /\ Head(stepQueue) = stepQueue[1]
      /\ \A i \in 1 .. Len(stepQueue) - 1 : stepQueue'[i] = stepQueue[i + 1]
  BY <1>2
<1>5. e.n = n + 1 /\ n + 1 <= exec.made
  BY <1>2, <1>4
<1>f. /\ d \in EventsSent /\ ~Shows(d) /\ n \in Nat /\ e \in EventsSent /\ Shows(e)
      /\ e.n = n + 1 /\ Behind(d, e, events)
  BY <1>2, <1>5
<1>6. PICK j : /\ Counts(j, events, n) /\ j[Len(events)] = n + 1
               /\ \A i \in 0 .. Len(events) : j[i] <= n + 1
  BY ONLY <1>f, StepShown
<1>7. /\ events \in Seq(EventsSent) /\ events # <<>>
      /\ \A i \in 1 .. Len(events) : events[i] \in {d, e}
  BY ONLY <1>f, StepShown
<1>8. Len(events) \in Nat /\ \A i \in 0 .. Len(events) : j[i] \in Nat
  BY <1>6, <1>7 DEF Counts
<1>9. /\ \A i \in 1 .. Len(events) : events[i].n <= exec.made
      /\ \A i \in 0 .. Len(events) : j[i] <= exec.made
  <2>1. d.n = 0 /\ e.n <= exec.made
    BY <1>5
  <2>2. \A i \in 1 .. Len(events) : events[i].n <= exec.made
    <3> SUFFICES ASSUME NEW i \in 1 .. Len(events) PROVE events[i].n <= exec.made
      OBVIOUS
    <3>1. events[i] = d \/ events[i] = e
      BY <1>7
    <3> QED BY <1>2, <2>1, <3>1
  <2>3. \A i \in 0 .. Len(events) : j[i] <= exec.made
    BY ONLY <1>2, <1>5, <1>6, <1>8
  <2> QED BY <2>2, <2>3
<1>10. /\ \A i \in 1 .. Len(stepQueue') : stepQueue'[i].n \in 1 .. exec.made
       /\ j[Len(events)] + Len(stepQueue') = exec.made
       /\ \A i \in 1 .. Len(stepQueue') : stepQueue'[i].n = j[Len(events)] + i
  <2>1. \A i \in 1 .. Len(stepQueue') : i \in 1 .. Len(stepQueue) - 1 /\ i + 1 \in 1 .. Len(stepQueue)
    BY <1>2, <1>4
  <2>2. \A i \in 1 .. Len(stepQueue') : stepQueue'[i].n = n + (i + 1)
    BY <1>2, <1>4, <2>1
  <2>3. \A i \in 1 .. Len(stepQueue') : stepQueue'[i].n \in 1 .. exec.made
    BY <1>2, <1>4, <2>1
  <2> QED BY <1>2, <1>4, <1>6, <2>2, <2>3
<1>11. /\ chatTask' \in Chat!Status /\ over' \in BOOLEAN /\ MadeBounded'
       /\ exec' \in [at : {"new", "working", "asking", "settled", "done"}, made : Nat,
                     result : {"none", "success", "error", "cancelled", "raised"}]
       /\ exec'.made = exec.made /\ gen' = "streaming"
  BY DEF ChatInv, ChatTyped, MadeBounded
<1>12. Counts(j, events, k[Len(Chat!Buffered)])
  BY <1>3, <1>6
<1> QED BY <1>1, <1>4, <1>7, <1>9, <1>10, <1>11, <1>12, YieldFollows

\* The steps of the response that yield events.
LEMMA YieldSteps ==
  ASSUME ChatInv,
         \/ Chat!GenStart /\ Chat!Startable(chatTask)
         \/ Chat!GenRead \/ Chat!GenCancelled \/ Chat!GenDrain \/ Chat!GenOutcome
  PROVE  ChatInv'
<1>1. ChatTyped /\ MadeBounded /\ Places /\ MaxSteps \in Nat
  BY ChatConstants DEF ChatInv
<1>2. exec = [at |-> exec.at, made |-> exec.made, result |-> exec.result] /\ exec.made \in Nat
  BY <1>1 DEF ChatTyped
<1>3. \A type, n : Chat!Event(type, n) = [type |-> type, n |-> n]
  BY DEF Chat!Event
<1>4. \A type \in {"started", "approval_resolved", "cancelled", "error", "result"} :
        /\ Chat!Event(type, 0) \in EventsSent /\ Chat!Event(type, 0).n = 0
        /\ ~Shows(Chat!Event(type, 0))
  BY <1>3 DEF EventsSent, Chat!EventTypes, Shows
<1>5. \A type \in {"step", "approval_request"}, n \in Nat :
        /\ Chat!Event(type, n) \in EventsSent /\ Chat!Event(type, n).n = n
        /\ Shows(Chat!Event(type, n))
  BY <1>3 DEF EventsSent, Chat!EventTypes, Shows
<1>6. CASE Chat!GenStart /\ Chat!Startable(chatTask)
  <2>1. /\ gen = "new" /\ gen' = "streaming" /\ exec' = [exec EXCEPT !.at = "working"]
        /\ Chat!Yield(<<Chat!Event("started", 0)>>)
        /\ UNCHANGED <<chatTask, recorded, approval, stepQueue, over, back, returns>>
    BY <1>6 DEF Chat!GenStart
  <2>2. exec' = [at |-> "working", made |-> exec.made, result |-> exec.result]
    BY <1>2, <2>1
  <2>3. MadeBounded' /\ exec'.made = exec.made
    BY <1>1, <1>2, <2>1, <2>2 DEF MadeBounded, Places
  <2>4. exec' \in [at : {"new", "working", "asking", "settled", "done"}, made : Nat,
                   result : {"none", "success", "error", "cancelled", "raised"}]
    BY <1>1, <1>2, <2>2 DEF ChatTyped
  <2>5. chatTask' \in Chat!Status
    BY <1>1, <2>1 DEF ChatTyped
  <2> DEFINE e == Chat!Event("started", 0)
  <2>6. e \in EventsSent /\ ~Shows(e) /\ e.n = 0 /\ Chat!Yield(<<e>>)
    BY <1>4, <2>1
  <2> HIDE DEF e
  <2> QED BY <2>1, <2>3, <2>4, <2>5, <2>6, TellFollows
<1>7. CASE Chat!GenCancelled
  <2>1. /\ gen = "streaming" /\ gen' = "ending"
        /\ Chat!Yield(<<Chat!Event("cancelled", 0)>>)
        /\ UNCHANGED <<chatTask, exec, recorded, approval, stepQueue, over, back, returns>>
    BY <1>7 DEF Chat!GenCancelled
  <2>2. MadeBounded' /\ exec'.made = exec.made
    BY <1>1, <2>1 DEF MadeBounded
  <2>3. exec' \in [at : {"new", "working", "asking", "settled", "done"}, made : Nat,
                   result : {"none", "success", "error", "cancelled", "raised"}]
        /\ chatTask' \in Chat!Status
    BY <1>1, <2>1 DEF ChatTyped
  <2> DEFINE e == Chat!Event("cancelled", 0)
  <2>4. e \in EventsSent /\ ~Shows(e) /\ e.n = 0 /\ Chat!Yield(<<e>>)
    BY <1>4, <2>1
  <2> HIDE DEF e
  <2> QED BY <2>1, <2>2, <2>3, <2>4, TellFollows
<1>8. CASE Chat!GenOutcome
  <2>1. /\ gen = "streaming" /\ gen' = "ending" /\ chatTask' \in {chatTask, "failed"}
        /\ Chat!Yield(<<Chat!Outcome>>)
        /\ UNCHANGED <<exec, recorded, approval, stepQueue, over, back, returns>>
    BY <1>8 DEF Chat!GenOutcome
  <2>2. MadeBounded' /\ exec'.made = exec.made
    BY <1>1, <2>1 DEF MadeBounded
  <2>3. exec' \in [at : {"new", "working", "asking", "settled", "done"}, made : Nat,
                   result : {"none", "success", "error", "cancelled", "raised"}]
        /\ chatTask' \in Chat!Status
    BY <1>1, <2>1 DEF ChatTyped, Chat!Status
  <2> DEFINE e == Chat!Outcome
  <2>4. e \in EventsSent /\ ~Shows(e) /\ e.n = 0 /\ Chat!Yield(<<e>>)
    BY <1>4, <2>1 DEF Chat!Outcome
  <2> HIDE DEF e
  <2> QED BY <2>1, <2>2, <2>3, <2>4, TellFollows
<1> DEFINE d == Chat!Event("approval_resolved", 0)
           h == Head(stepQueue)
<1>9. d \in EventsSent /\ ~Shows(d) /\ d.n = 0
  BY <1>4
<1>10. ASSUME stepQueue # <<>> PROVE h.n \in Nat
  <2> DEFINE S == [kind : Chat!Kinds, n : Nat]
  <2>1. stepQueue \in Seq(S)
    BY <1>1 DEF ChatTyped
  <2> HIDE DEF S, h
  <2>2. Head(stepQueue) \in S
    BY <1>10, <2>1
  <2> QED BY <2>2 DEF S, h
<1>11. CASE Chat!GenRead
  <2>1. /\ gen = "streaming" /\ stepQueue # <<>> /\ stepQueue' = Tail(stepQueue)
        /\ Chat!Yield(Chat!Sent(h))
        /\ UNCHANGED <<chatTask, exec, recorded, approval, over, gen, back, returns>>
    BY <1>11 DEF Chat!GenRead
  <2> DEFINE events == Chat!Sent(h)
             e == IF h.kind = "ask" /\ approval = "open" THEN Chat!Event("approval_request", h.n)
                  ELSE Chat!Event("step", h.n)
  <2>2. Behind(d, e, events)
    BY DEF Behind, Chat!Sent
  <2>3. e \in EventsSent /\ Shows(e) /\ e.n = Head(stepQueue).n
    BY <1>5, <1>10, <2>1
  <2>4. Chat!Yield(events)
    BY <2>1
  <2> HIDE DEF d, e, events, h
  <2> QED BY <1>9, <2>1, <2>2, <2>3, <2>4, StepFollows
<1>12. CASE Chat!GenDrain
  <2> DEFINE e == Chat!Event("step", h.n)
             events == <<e>>
  <2>1. /\ gen = "streaming" /\ stepQueue # <<>> /\ stepQueue' = Tail(stepQueue)
        /\ Chat!Yield(events)
        /\ UNCHANGED <<chatTask, exec, recorded, approval, over, gen, back, returns>>
    BY <1>12 DEF Chat!GenDrain
  <2>2. Behind(d, e, events)
    BY DEF Behind
  <2>3. e \in EventsSent /\ Shows(e) /\ e.n = Head(stepQueue).n
    BY <1>5, <1>10, <2>1
  <2> HIDE DEF d, e, events, h
  <2> QED BY <1>9, <2>1, <2>2, <2>3, StepFollows
<1> QED BY <1>6, <1>7, <1>8, <1>11, <1>12

\* A step that leaves the buffer, the queue and the number of steps alone; the view shows
\* what the buffer had when it looked last.
LEMMA QuietFollows ==
  ASSUME ChatInv, ChatTyped', MadeBounded', Places',
         UNCHANGED <<buffer, recorded, stepQueue>>, exec'.made = exec.made,
         gen' \in {"none", "new", "streaming"} => gen \in {"none", "new", "streaming"},
         NEW k, StepsFollow(k),
         view'.conn = "live" => view'.seen = Seen(k[Len(Chat!Buffered)]),
         view'.conn = "back" /\ buffer # Chat!Gone =>
           back'.next <= Len(buffer) /\ view'.seen = Seen(k[back'.next]),
         ShownSome'
  PROVE  ChatInv'
<1>1. Chat!Buffered' = Chat!Buffered /\ Chat!Gone' = Chat!Gone
  BY DEF Chat!Buffered, Chat!Gone
<1>2. StepsFollow(k)'
  BY <1>1 DEF StepsFollow
<1>3. Records'
  BY RecordStays DEF ChatInv
<1> QED BY <1>2, <1>3 DEF ChatInv

\* The same, when the view shows what it showed.
LEMMA StillFollows ==
  ASSUME ChatInv, ChatTyped', MadeBounded', Places',
         UNCHANGED <<buffer, recorded, stepQueue>>, exec'.made = exec.made,
         gen' \in {"none", "new", "streaming"} => gen \in {"none", "new", "streaming"},
         view'.seen = view.seen, view'.conn # "idle" => view'.conn = view.conn,
         view'.conn = "back" => back' = back
  PROVE  ChatInv'
<1>1. PICK k : StepsFollow(k)
  BY DEF ChatInv
<1>2. ShownSome'
  BY StillShown DEF ChatInv
<1>3. view'.conn = "live" => view'.seen = Seen(k[Len(Chat!Buffered)])
  BY <1>1 DEF StepsFollow
<1>4. view'.conn = "back" /\ buffer # Chat!Gone =>
        back'.next <= Len(buffer) /\ view'.seen = Seen(k[back'.next])
  BY <1>1 DEF StepsFollow
<1> QED BY <1>1, <1>2, <1>3, <1>4, QuietFollows

\* What the steps so far and the view make of each other.
LEMMA ViewFollows ==
  ASSUME ChatInv, NEW k, StepsFollow(k)
  PROVE  /\ view.conn = "live" => view.seen = Seen(k[Len(Chat!Buffered)])
         /\ view.conn = "back" /\ buffer # Chat!Gone =>
              back.next <= Len(buffer) /\ view.seen = Seen(k[back.next])
         /\ k[0] = 0 /\ exec.made \in Nat /\ Len(Chat!Buffered) \in Nat
         /\ \A i \in 0 .. Len(Chat!Buffered) : k[i] \in 0 .. exec.made
<1>1. Len(Chat!Buffered) \in Nat /\ exec.made \in Nat
  BY BufferedTyped DEF ChatInv, ChatTyped
<1>2. \A i \in 0 .. Len(Chat!Buffered) : k[i] \in 0 .. exec.made
  BY <1>1 DEF StepsFollow, Counts
<1> QED BY <1>1, <1>2 DEF StepsFollow, Counts

\* A stream that ends leaves the view with what it has shown.
LEMMA FinalizedMakes ==
  ASSUME NEW v \in ViewType
  PROVE  /\ Chat!Finalized(v) \in ViewType /\ Chat!Finalized(v).conn = "idle"
         /\ Chat!Finalized(v).seen = v.seen
         /\ Chat!Finalized(v).active => v.active
<1>1. v = [conn |-> v.conn, seen |-> v.seen, ended |-> v.ended, card |-> v.card,
           active |-> v.active]
  BY DEF ViewType
<1> QED BY <1>1 DEF Chat!Finalized, ViewType

\* The steps after which the view shows what it showed before, and those of the user.
LEMMA QuietSteps ==
  ASSUME ChatInv,
         \/ Chat!GenStart /\ ~Chat!Startable(chatTask)
         \/ Chat!GenTimeout \/ Chat!GenClose \/ Chat!GenNotice \/ Chat!Send \/ Chat!Answer
         \/ Chat!Leave \/ Chat!Cancel \/ Chat!Stop
  PROVE  ChatInv'
<1>1. ChatTyped /\ MadeBounded /\ Places
  BY DEF ChatInv
<1>2. exec = [at |-> exec.at, made |-> exec.made, result |-> exec.result] /\ exec.made \in Nat
  BY <1>1 DEF ChatTyped
<1>3. view = [conn |-> view.conn, seen |-> view.seen, ended |-> view.ended, card |-> view.card,
              active |-> view.active]
      /\ view \in ViewType
  BY <1>1 DEF ChatTyped, ViewType
<1>4. PICK k : StepsFollow(k)
  BY DEF ChatInv
<1>5. /\ view.conn = "live" => view.seen = Seen(k[Len(Chat!Buffered)])
      /\ view.conn = "back" /\ buffer # Chat!Gone =>
           back.next <= Len(buffer) /\ view.seen = Seen(k[back.next])
      /\ k[0] = 0 /\ exec.made \in Nat
  BY <1>4, ViewFollows
<1>6. /\ Chat!Gone' = Chat!Gone
      /\ Chat!Finalized(view) \in ViewType /\ Chat!Finalized(view).conn = "idle"
      /\ Chat!Finalized(view).seen = view.seen
      /\ Chat!Finalized(view).active => view.active
  BY <1>3, FinalizedMakes DEF Chat!Gone
<1>7. CASE Chat!GenStart /\ ~Chat!Startable(chatTask)
  <2> DEFINE e == Chat!Event("error", 0)
             v == Chat!Received(view, e)
  <2>1. /\ gen = "new" /\ gen' = "closed" /\ view' = Chat!Finalized(v)
        /\ UNCHANGED <<chatTask, exec, recorded, approval, stepQueue, over, buffer, back, returns>>
    BY <1>7 DEF Chat!GenStart
  <2>2. e \in Events /\ ~Shows(e)
    BY DEF Chat!Event, Events, Shows, Chat!EventTypes
  <2> HIDE DEF e
  <2>3. v \in ViewType /\ v.seen = view.seen
    BY <1>3, <2>2, ReceivedMakes
  <2> HIDE DEF v
  <2>4. view' \in ViewType /\ view'.conn = "idle" /\ view'.seen = view.seen
    BY <2>1, <2>3, FinalizedMakes
  <2>5. ChatTyped' /\ MadeBounded'
    BY <1>1, <1>6, <2>1, <2>4 DEF ChatTyped, MadeBounded
  <2>6. Places'
    BY <1>1, <1>6, <2>1, <2>4 DEF Places
  <2> QED BY <2>1, <2>4, <2>5, <2>6, StillFollows
<1>8. CASE Chat!GenTimeout
  <2>1. /\ gen = "streaming" /\ over' = TRUE /\ exec' = [exec EXCEPT !.result = "raised"]
        /\ UNCHANGED <<chatTask, recorded, approval, stepQueue, gen, buffer, back, view, returns>>
    BY <1>8 DEF Chat!GenTimeout
  <2>2. exec' = [at |-> exec.at, made |-> exec.made, result |-> "raised"]
    BY <1>2, <2>1
  <2>3. ChatTyped'
    BY <1>1, <1>6, <2>1, <2>2 DEF ChatTyped
  <2>4. MadeBounded' /\ Places'
    BY <1>1, <1>6, <2>1, <2>2 DEF MadeBounded, Places
  <2> QED BY <2>1, <2>2, <2>3, <2>4, StillFollows
<1>9. CASE Chat!GenClose
  <2>1. /\ gen = "ending" /\ gen' = "closed"
        /\ view' = IF view.conn = "live" THEN Chat!Finalized(view) ELSE view
        /\ UNCHANGED <<chatTask, exec, recorded, approval, stepQueue, over, buffer, back, returns>>
    BY <1>9 DEF Chat!GenClose
  <2>2. /\ view' \in ViewType /\ view'.seen = view.seen /\ view'.conn # "live"
        /\ view'.conn = "back" <=> view.conn = "back"
        /\ view'.conn # "idle" => view'.conn = view.conn
    BY <1>3, <1>6, <2>1
  <2>3. ChatTyped' /\ MadeBounded'
    BY <1>1, <1>6, <2>1, <2>2 DEF ChatTyped, MadeBounded
  <2>4. Places'
    BY <1>1, <1>6, <2>1, <2>2 DEF Places
  <2> QED BY <2>1, <2>2, <2>3, <2>4, StillFollows
<1>10. CASE Chat!GenNotice
  <2>1. /\ gen \in {"new", "streaming", "ending"} /\ view.conn # "live" /\ gen' = "gone"
        /\ UNCHANGED <<chatTask, exec, recorded, approval, stepQueue, over, buffer, back, view, returns>>
    BY <1>10 DEF Chat!GenNotice
  <2>2. ChatTyped' /\ MadeBounded' /\ Places'
    BY <1>1, <1>6, <2>1 DEF ChatTyped, MadeBounded, Places
  <2> QED BY <2>1, <2>2, StillFollows
<1>11. CASE Chat!Send
  <2>1. /\ gen = "none" /\ view.conn = "idle" /\ gen' = "new"
        /\ view' = [view EXCEPT !.conn = "live"]
        /\ UNCHANGED <<chatTask, exec, recorded, approval, stepQueue, over, buffer, back, returns>>
    BY <1>11 DEF Chat!Send
  <2>2. /\ view' \in ViewType /\ view'.conn = "live" /\ view'.seen = view.seen
        /\ view'.active = view.active
    BY <1>3, <2>1 DEF ViewType
  <2>3. ChatTyped' /\ MadeBounded' /\ Places'
    BY <1>1, <1>6, <2>1, <2>2 DEF ChatTyped, MadeBounded, Places
  <2>4. Chat!Buffered = <<>> /\ view.seen = <<>> /\ Seen(0) = <<>>
    BY <1>1, <2>1 DEF Places, Chat!Buffered, Seen
  <2>5. view'.seen = Seen(k[Len(Chat!Buffered)])
    BY <1>5, <2>2, <2>4
  <2>6. ShownSome'
    <3>1. 0 \in 0 .. exec.made
      BY <1>5
    <3> QED BY <1>5, <2>1, <2>2, <2>4, <3>1, FirstShown
  <2> QED BY <1>4, <2>1, <2>2, <2>3, <2>5, <2>6, QuietFollows
<1>12. CASE Chat!Answer
  <2>1. /\ approval' \in {"allow", "deny"}
        /\ UNCHANGED <<chatTask, exec, recorded, stepQueue, over, gen, buffer, back, view, returns>>
    BY <1>12 DEF Chat!Answer
  <2>2. ChatTyped' /\ MadeBounded' /\ Places'
    BY <1>1, <1>6, <2>1 DEF ChatTyped, MadeBounded, Places
  <2> QED BY <2>1, <2>2, StillFollows
<1>13. CASE Chat!Leave
  <2>1. /\ view.conn # "idle" /\ view' = [view EXCEPT !.conn = "idle"]
        /\ back' = [on |-> FALSE, next |-> 0]
        /\ UNCHANGED <<chatTask, exec, recorded, approval, stepQueue, over, gen, buffer, returns>>
    BY <1>13 DEF Chat!Leave
  <2>2. /\ view' \in ViewType /\ view'.conn = "idle" /\ view'.seen = view.seen
        /\ view'.active = view.active
    BY <1>3, <2>1 DEF ViewType
  <2>3. back' \in [on : BOOLEAN, next : Nat] /\ ~back'.on
    BY <2>1
  <2>4. ChatTyped' /\ MadeBounded' /\ Places'
    BY <1>1, <1>6, <2>1, <2>2, <2>3 DEF ChatTyped, MadeBounded, Places
  <2> QED BY <2>1, <2>2, <2>4, StillFollows
<1> DEFINE Denied == /\ approval' \in {"none", "open", "allow", "deny"}
                     /\ approval # "none" => approval' # "none"
                     /\ chatTask' \in Chat!Status
<1>14. ASSUME Chat!Cancelled PROVE Denied
  BY <1>1, <1>14 DEF Chat!Cancelled, ChatTyped, Chat!Status
<1>15. CASE Chat!Cancel
  <2>1. UNCHANGED <<exec, recorded, stepQueue, over, gen, buffer, back, view, returns>> /\ Denied
    BY <1>14, <1>15 DEF Chat!Cancel
  <2>2. ChatTyped' /\ MadeBounded' /\ Places'
    BY <1>1, <1>6, <2>1 DEF ChatTyped, MadeBounded, Places
  <2> QED BY <2>1, <2>2, StillFollows
<1>16. CASE Chat!Stop
  <2>1. /\ view.conn # "idle" /\ view' = [view EXCEPT !.conn = "idle", !.active = FALSE]
        /\ back' = [on |-> FALSE, next |-> 0] /\ Denied
        /\ UNCHANGED <<exec, recorded, stepQueue, over, gen, buffer, returns>>
    BY <1>14, <1>16 DEF Chat!Stop
  <2>2. /\ view' \in ViewType /\ view'.conn = "idle" /\ view'.seen = view.seen
        /\ ~view'.active
    BY <1>3, <2>1 DEF ViewType
  <2>3. back' \in [on : BOOLEAN, next : Nat] /\ ~back'.on
    BY <2>1
  <2>4. ChatTyped' /\ MadeBounded' /\ Places'
    BY <1>1, <1>6, <2>1, <2>2, <2>3 DEF ChatTyped, MadeBounded, Places
  <2> QED BY <2>1, <2>2, <2>4, StillFollows
<1> QED BY <1>7, <1>8, <1>9, <1>10, <1>11, <1>12, <1>13, <1>15, <1>16

\* Without a buffer, the view keeps what it shows.
LEMMA CleanupStep ==
  ASSUME ChatInv, Chat!Cleanup
  PROVE  ChatInv'
<1>1. ChatTyped /\ MadeBounded /\ Places
  BY DEF ChatInv
<1>2. /\ gen = "closed" /\ buffer' = Chat!Gone /\ Chat!Gone' = Chat!Gone
      /\ UNCHANGED <<chatTask, exec, recorded, approval, stepQueue, over, gen, back, view, returns>>
  BY DEF Chat!Cleanup, Chat!Gone
<1>3. PICK k : StepsFollow(k)
  BY DEF ChatInv
<1>4. ChatTyped' /\ MadeBounded' /\ Places'
  BY <1>1, <1>2 DEF ChatTyped, MadeBounded, Places, Chat!Gone
<1> DEFINE j == [i \in 0 .. 0 |-> 0]
<1>5. Chat!Buffered' = <<>>
  BY <1>2 DEF Chat!Buffered
<1>6. /\ Counts(j, <<>>, 0) /\ Len(<<>>) = 0
      /\ \A i \in 0 .. 0 : j[i] = 0
  BY DEF Counts
<1>7. exec.made \in Nat /\ view.conn # "live"
  BY <1>1, <1>2 DEF ChatTyped, Places
<1> HIDE DEF j
<1>8. StepsFollow(j)'
  BY <1>2, <1>3, <1>5, <1>6, <1>7 DEF StepsFollow
<1>9. Records' /\ ShownSome'
  BY <1>2, RecordStays, StillShown DEF ChatInv
<1> QED BY <1>4, <1>8, <1>9 DEF ChatInv

\* A sequence behind another.
LEMMA Joined ==
  ASSUME NEW S, NEW es \in Seq(S), NEW fs \in Seq(S)
  PROVE  /\ es \o fs \in Seq(S) /\ Len(es \o fs) = Len(es) + Len(fs)
         /\ \A i \in 1 .. Len(es) : (es \o fs)[i] = es[i]
         /\ \A i \in 1 .. Len(fs) : (es \o fs)[Len(es) + i] = fs[i]
OBVIOUS

\* The events rebuilt from the record show what it has.
LEMMA RebuiltShows ==
  ASSUME Records, NEW v \in ViewType, v.seen = <<>>
  PROVE  /\ Chat!AfterEvents(v, Chat!Rebuilt) \in ViewType
         /\ Chat!AfterEvents(v, Chat!Rebuilt).conn = v.conn
         /\ Chat!AfterEvents(v, Chat!Rebuilt).seen = recorded
<1> DEFINE n == Len(recorded)
           es == <<Chat!Event("started", 0)>>
           fs == [i \in 1 .. n |-> Chat!Event("step", recorded[i])]
           last == Chat!RebuiltEnd
           events == es \o fs \o last
<1>1. n \in Nat /\ recorded \in Seq(Nat) /\ \A i \in 1 .. n : recorded[i] \in Nat
  BY DEF Records
<1>2. \A type \in {"started", "error", "result"} :
        Chat!Event(type, 0) \in Events /\ ~Shows(Chat!Event(type, 0))
  BY DEF Chat!Event, Events, Chat!EventTypes, Shows
<1>3. \A m \in Nat : /\ Chat!Event("step", m) \in Events /\ Chat!Event("step", m).n = m
                       /\ Shows(Chat!Event("step", m))
  BY DEF Chat!Event, Events, Chat!EventTypes, Shows
<1>4. es \in Seq(Events) /\ Len(es) = 1 /\ ~Shows(es[1])
  BY <1>2
<1>5. /\ fs \in Seq(Events) /\ Len(fs) = n
      /\ \A i \in 1 .. n : Shows(fs[i]) /\ fs[i].n = recorded[i]
  BY <1>1, <1>3
<1>6. last \in Seq(Events) /\ Len(last) \in Nat /\ \A i \in 1 .. Len(last) : ~Shows(last[i])
  <2>1. ASSUME NEW d \in Events, ~Shows(d), last = <<d>>
        PROVE  last \in Seq(Events) /\ \A i \in 1 .. Len(last) : ~Shows(last[i])
    <3> HIDE DEF last
    <3>1. Len(last) = 1 /\ last[1] = d /\ last \in Seq(Events)
      BY <2>1
    <3> QED BY <2>1, <3>1
  <2>2. ASSUME last = <<>>
        PROVE  last \in Seq(Events) /\ \A i \in 1 .. Len(last) : ~Shows(last[i])
    <3> HIDE DEF last
    <3> QED BY <2>2
  <2>3. last = <<>> \/ \E d \in Events : ~Shows(d) /\ last = <<d>>
    <3>1. CASE chatTask = "failed"
      BY <1>2, <3>1 DEF Chat!RebuiltEnd
    <3>2. CASE chatTask = "completed"
      BY <1>2, <3>2 DEF Chat!RebuiltEnd
    <3>3. CASE chatTask \notin {"failed", "completed"}
      BY <3>3 DEF Chat!RebuiltEnd
    <3> QED BY <3>1, <3>2, <3>3
  <2> HIDE DEF last
  <2>4. last \in Seq(Events) /\ \A i \in 1 .. Len(last) : ~Shows(last[i])
    BY <2>1, <2>2, <2>3
  <2> QED BY <2>4
<1>7. Chat!Rebuilt = events
  BY DEF Chat!Rebuilt
<1> HIDE DEF es, fs, last, n
<1> DEFINE l == Len(last)
<1>8. /\ events \in Seq(Events) /\ Len(events) = 1 + n + l /\ l \in Nat
      /\ events[1] = es[1]
      /\ \A i \in 2 .. n + 1 : events[i] = fs[i - 1]
      /\ \A i \in n + 2 .. n + l + 1 : events[i] = last[i - (n + 1)]
  <2> DEFINE gs == es \o fs
  <2>1. /\ gs \in Seq(Events) /\ Len(gs) = Len(es) + Len(fs)
        /\ \A i \in 1 .. Len(es) : gs[i] = es[i]
        /\ \A i \in 1 .. Len(fs) : gs[Len(es) + i] = fs[i]
    <3>1. es \in Seq(Events) /\ fs \in Seq(Events)
      BY <1>4, <1>5
    <3> QED BY ONLY <3>1, Joined
  <2> HIDE DEF gs
  <2>2. /\ gs \o last \in Seq(Events) /\ Len(gs \o last) = Len(gs) + Len(last)
        /\ \A i \in 1 .. Len(gs) : (gs \o last)[i] = gs[i]
        /\ \A i \in 1 .. Len(last) : (gs \o last)[Len(gs) + i] = last[i]
    <3>1. gs \in Seq(Events) /\ last \in Seq(Events)
      BY <1>6, <2>1
    <3> QED BY ONLY <3>1, Joined
  <2>3. events = gs \o last
    BY DEF gs
  <2> HIDE DEF events
  <2>4. Len(gs) = n + 1 /\ events \in Seq(Events) /\ Len(events) = 1 + n + l /\ l \in Nat
    BY <1>1, <1>4, <1>5, <1>6, <2>1, <2>2, <2>3
  <2>5. events[1] = es[1]
    <3>1. 1 \in 1 .. Len(gs) /\ 1 \in 1 .. Len(es)
      BY <1>1, <1>4, <2>4
    <3> QED BY <2>1, <2>2, <2>3, <3>1
  <2>6. ASSUME NEW i \in 2 .. n + 1 PROVE events[i] = fs[i - 1]
    <3>1. i \in 1 .. Len(gs) /\ i - 1 \in 1 .. Len(fs) /\ Len(es) + (i - 1) = i
      BY <1>1, <1>4, <1>5, <2>4
    <3> QED BY <2>1, <2>2, <2>3, <3>1
  <2>7. ASSUME NEW i \in n + 2 .. n + l + 1 PROVE events[i] = last[i - (n + 1)]
    <3>1. i - (n + 1) \in 1 .. Len(last) /\ Len(gs) + (i - (n + 1)) = i
      BY <1>1, <2>4
    <3> QED BY <2>2, <2>3, <3>1
  <2> QED BY <2>4, <2>5, <2>6, <2>7
<1> DEFINE t == [i \in 0 .. Len(events) |->
                   IF i = 0 THEN <<>>
                   ELSE IF i <= n + 1 THEN SubSeq(recorded, 1, i - 1) ELSE recorded]
<1> HIDE DEF events, l
<1>9. ASSUME NEW i \in 1 .. Len(events)
      PROVE  t[i] = IF Shows(events[i]) THEN Append(t[i - 1], events[i].n) ELSE t[i - 1]
  <2>1. CASE i = 1
    <3>1. SubSeq(recorded, 1, 0) = <<>>
      BY <1>1 DEF n
    <3>2. ~Shows(events[i])
      BY <1>4, <1>8, <2>1
    <3>3. /\ 0 \in 0 .. Len(events) /\ i \in 0 .. Len(events)
          /\ i # 0 /\ i <= n + 1 /\ i - 1 = 0
      BY <1>1, <1>8, <2>1
    <3>4. t[i - 1] = <<>> /\ t[i] = <<>>
      BY <2>1, <3>1, <3>3
    <3> QED BY <3>2, <3>4
  <2>2. CASE i \in 2 .. n + 1
    <3> DEFINE m == i - 1
    <3>1. m \in 1 .. n /\ i = m + 1 /\ i # 0 /\ i <= n + 1
      BY <1>1, <2>2
    <3>2. Shows(events[i]) /\ events[i].n = recorded[m]
      BY <1>5, <1>8, <2>2, <3>1
    <3>3. SubSeq(recorded, 1, m) = Append(SubSeq(recorded, 1, m - 1), recorded[m])
      BY SMTT(30), <1>1, <3>1 DEF n
    <3>4. t[i] = SubSeq(recorded, 1, m)
      BY <3>1
    <3>5. t[i - 1] = SubSeq(recorded, 1, m - 1)
      <4>1. i - 1 \in 0 .. Len(events) /\ i - 1 # 0 /\ i - 1 <= n + 1 /\ i - 1 = m
        BY <1>1, <1>8, <3>1
      <4> QED BY <4>1
    <3> QED BY <3>2, <3>3, <3>4, <3>5
  <2>3. CASE i > n + 1
    <3>1. /\ i \in n + 2 .. n + l + 1 /\ i - (n + 1) \in 1 .. l
          /\ i - 1 \in 0 .. Len(events) /\ i - 1 # 0
      BY <1>1, <1>8, <2>3
    <3>2. ~Shows(events[i])
      BY <1>6, <1>8, <3>1 DEF l
    <3>3. t[i] = recorded
      BY <1>1, <2>3
    <3>4. t[i - 1] = recorded
      <4>1. CASE i - 1 = n + 1
        <5>1. SubSeq(recorded, 1, n) = recorded
          BY <1>1 DEF n
        <5>2. (i - 1) - 1 = n
          BY <1>1, <4>1
        <5> QED BY <3>1, <4>1, <5>1, <5>2
      <4>2. CASE i - 1 # n + 1
        BY <1>1, <2>3, <3>1, <4>2
      <4> QED BY <4>1, <4>2
    <3> QED BY <3>2, <3>3, <3>4
  <2> QED BY <1>1, <2>1, <2>2, <2>3
<1>10. t[0] = v.seen /\ t[Len(events)] = recorded
  <2>1. Len(events) \in 0 .. Len(events) /\ 0 \in 0 .. Len(events) /\ Len(events) # 0
    BY <1>1, <1>8
  <2>2. CASE l = 0
    <3>1. Len(events) = n + 1 /\ (n + 1) - 1 = n
      BY <1>1, <1>8, <2>2
    <3>2. SubSeq(recorded, 1, n) = recorded
      BY <1>1 DEF n
    <3> QED BY <2>1, <3>1, <3>2
  <2>3. CASE l # 0
    BY <1>1, <1>8, <2>1, <2>3
  <2> QED BY <2>2, <2>3
<1> HIDE DEF t
<1>11. v \in ViewType /\ events \in Seq(Events)
  BY <1>8
<1>12. /\ Chat!AfterEvents(v, events) \in ViewType
       /\ Chat!AfterEvents(v, events).conn = v.conn
       /\ Chat!AfterEvents(v, events).seen = t[Len(events)]
  BY ONLY <1>9, <1>10, <1>11, AfterEventsShow
<1> QED BY <1>7, <1>10, <1>12

\* The client comes back and is served what the buffer or the record has.
LEMMA ReturnStep ==
  ASSUME ChatInv, Chat!Return
  PROVE  ChatInv'
<1>1. ChatTyped /\ MadeBounded /\ Places /\ Records
  BY DEF ChatInv
<1> DEFINE c == [view EXCEPT !.conn = "back", !.seen = <<>>, !.ended = FALSE,
                             !.card = @ \/ approval = "open"]
           events == IF Chat!Buffered # <<>> THEN buffer ELSE Chat!Rebuilt
<1>2. /\ view.conn = "idle" /\ view.active
      /\ view' = Chat!AfterEvents(c, events)
      /\ back' = [on |-> TRUE, next |-> Len(Chat!Buffered)]
      /\ UNCHANGED <<chatTask, exec, recorded, approval, stepQueue, over, gen, buffer>>
  BY DEF Chat!Return
<1>3. c \in ViewType /\ c.conn = "back" /\ c.seen = <<>>
  <2>1. view = [conn |-> view.conn, seen |-> view.seen, ended |-> view.ended,
                card |-> view.card, active |-> view.active]
    BY <1>1 DEF ChatTyped, ViewType
  <2> DEFINE card == view.card \/ approval = "open"
             none == <<>>
  <2>2. c = [view EXCEPT !.conn = "back", !.seen = none, !.ended = FALSE, !.card = card]
    OBVIOUS
  <2>3. none \in Seq(Nat)
    OBVIOUS
  <2>4. card \in BOOLEAN
    OBVIOUS
  <2> HIDE DEF c, card, none
  <2>5. c = [conn |-> "back", seen |-> none, ended |-> FALSE, card |-> card,
             active |-> view.active]
    BY <2>1, <2>2
  <2>6. c \in ViewType /\ c.conn = "back" /\ c.seen = none
    BY <1>1, <2>3, <2>4, <2>5 DEF ChatTyped, ViewType
  <2> QED BY <2>6 DEF none
<1>4. PICK k : StepsFollow(k)
  BY DEF ChatInv
<1>5. /\ Chat!Buffered \in Seq(EventsSent) /\ Len(Chat!Buffered) \in Nat
      /\ buffer # Chat!Gone => Chat!Buffered = buffer
      /\ buffer = Chat!Gone => Chat!Buffered = <<>>
      /\ Seq(EventsSent) \subseteq Seq(Events) /\ Chat!Gone' = Chat!Gone
  BY <1>1, BufferedTyped DEF Chat!Gone
<1>6. /\ exec.made \in Nat /\ Counts(k, Chat!Buffered, 0)
      /\ \A i \in 0 .. Len(Chat!Buffered) : k[i] \in 0 .. exec.made
  BY <1>4, ViewFollows DEF StepsFollow
<1>7. CASE buffer = Chat!Gone
  <2>1. events = Chat!Rebuilt /\ Len(Chat!Buffered) = 0
    BY <1>5, <1>7
  <2> HIDE DEF events, c
  <2>2. view' \in ViewType /\ view'.conn = "back" /\ view'.seen = recorded
    BY <1>1, <1>2, <1>3, <2>1, RebuiltShows
  <2>3. back' = [on |-> TRUE, next |-> 0] /\ buffer' = Chat!Gone
    BY <1>2, <1>7, <2>1
  <2>4. Copied(view.seen)'
    <3>1. recorded' = recorded /\ recorded \in Seq(Nat)
      BY <1>1, <1>2 DEF Records
    <3>2. Len(recorded) <= Len(recorded)
      BY <3>1
    <3> QED BY <2>2, <3>1, <3>2 DEF Copied
  <2>5. ShownSome'
    BY <1>5, <2>2, <2>3, <2>4 DEF ShownSome
  <2>6. ChatTyped' /\ MadeBounded'
    BY <1>1, <1>2, <1>5, <2>2, <2>3 DEF ChatTyped, MadeBounded
  <2>7. Places'
    <3>1. gen \notin {"none", "new"} /\ gen = "closed"
      BY <1>1, <1>2, <1>7 DEF Places
    <3> QED BY <1>1, <1>2, <1>5, <2>2, <2>3, <3>1 DEF Places
  <2> QED BY <1>2, <1>4, <1>7, <2>2, <2>5, <2>6, <2>7, QuietFollows
<1>8. CASE buffer # Chat!Gone
  <2>1. events = buffer /\ Chat!Buffered = buffer /\ buffer # <<>>
    BY <1>1, <1>5, <1>8 DEF Places
  <2> HIDE DEF events, c
  <2> DEFINE n == k[Len(buffer)]
  <2>2. Len(buffer) \in 0 .. Len(buffer) /\ Len(buffer) # 0 /\ n \in 0 .. exec.made
    BY <1>5, <1>6, <2>1
  <2>3. view' \in ViewType /\ view'.conn = "back" /\ view'.seen = Seen(n)
    <3>1. buffer \in Seq(Events) /\ Counts(k, buffer, 0)
      BY <1>5, <1>6, <2>1
    <3>2. c \in ViewType /\ c.seen = Seen(0)
      BY <1>3 DEF Seen
    <3>3. /\ Chat!AfterEvents(c, buffer) \in ViewType
          /\ Chat!AfterEvents(c, buffer).conn = c.conn
          /\ Chat!AfterEvents(c, buffer).seen = Seen(k[Len(buffer)])
      BY ONLY <3>1, <3>2, AfterEventsMakes
    <3> QED BY <1>2, <1>3, <2>1, <3>3
  <2>4. back' \in [on : BOOLEAN, next : Nat] /\ back'.on /\ back'.next = Len(buffer)
    BY <1>2, <1>5, <2>1
  <2>5. view'.seen = Seen(k[back'.next]) /\ back'.next <= Len(buffer)
    BY <2>2, <2>3, <2>4
  <2> HIDE DEF n
  <2>6. exec'.made = exec.made /\ exec.made \in Nat /\ back'.next # 0
    BY <1>2, <1>6, <2>2, <2>4
  <2>7. ShownSome'
    BY <2>2, <2>3, <2>6, FirstShown
  <2>8. ChatTyped' /\ MadeBounded'
    BY <1>1, <1>2, <1>5, <2>3, <2>4 DEF ChatTyped, MadeBounded
  <2>9. Places'
    <3>1. gen \notin {"none", "new"}
      BY <1>1, <1>2 DEF Places
    <3> QED BY <1>1, <1>2, <1>5, <1>8, <2>1, <2>3, <2>4, <3>1 DEF Places
  <2> QED BY <1>2, <1>4, <2>3, <2>5, <2>6, <2>7, <2>8, <2>9, QuietFollows
<1> QED BY <1>7, <1>8

\* What the buffer got since the stream looked last goes on where the view stopped.
LEMMA FreshCounts ==
  ASSUME ChatInv, NEW k, StepsFollow(k), view.conn = "back"
  PROVE  /\ Chat!Fresh \in Seq(EventsSent)
         /\ buffer # Chat!Gone =>
              \E a, j : /\ Counts(j, Chat!Fresh, a) /\ view.seen = Seen(a)
                        /\ j[Len(Chat!Fresh)] \in 0 .. exec.made
                        /\ j[Len(Chat!Fresh)] = k[Len(Chat!Buffered)]
         /\ buffer = Chat!Gone => Chat!Fresh = <<>>
<1> DEFINE b == Chat!Buffered
           p == back.next
<1>1. /\ ChatTyped /\ b \in Seq(EventsSent) /\ Len(b) \in Nat /\ p \in Nat
      /\ buffer # Chat!Gone => b = buffer
      /\ buffer = Chat!Gone => b = <<>>
  BY BufferedTyped DEF ChatInv, ChatTyped
<1>2. /\ Counts(k, b, 0) /\ exec.made \in Nat
      /\ \A i \in 0 .. Len(b) : k[i] \in 0 .. exec.made
      /\ buffer # Chat!Gone => p <= Len(buffer) /\ view.seen = Seen(k[p])
  BY ViewFollows DEF StepsFollow
<1>3. Chat!Fresh = SubSeq(b, p + 1, Len(b))
  BY DEF Chat!Fresh
<1> HIDE DEF b, p
<1>4. CASE buffer = Chat!Gone
  <2>1. b = <<>> /\ Len(b) = 0
    BY <1>1, <1>4
  <2>2. Chat!Fresh = <<>>
    <3>1. SubSeq(<<>>, p + 1, 0) = <<>>
      BY <1>1
    <3> QED BY <1>3, <2>1, <3>1
  <2>3. <<>> \in Seq(EventsSent)
    OBVIOUS
  <2> QED BY <1>4, <2>2, <2>3
<1>5. CASE buffer # Chat!Gone
  <2> DEFINE n == Len(b) - p
             fs == SubSeq(b, p + 1, Len(b))
             j == [i \in 0 .. n |-> k[p + i]]
  <2>1. n \in Nat /\ p + n = Len(b) /\ p <= Len(b)
    BY <1>1, <1>2, <1>5
  <2> HIDE DEF n
  <2>2. fs \in Seq(EventsSent) /\ Len(fs) = n /\ \A i \in 1 .. n : fs[i] = b[p + i]
    BY <1>1, <2>1
  <2>3. \A i \in 0 .. n : p + i \in 0 .. Len(b) /\ j[i] = k[p + i]
    BY <1>1, <2>1
  <2>4. j \in [0 .. n -> Nat] /\ j[0] = k[p] /\ j[n] = k[Len(b)]
    <3>1. \A i \in 0 .. n : k[p + i] \in Nat
      BY <1>2, <2>3
    <3>2. j \in [0 .. n -> Nat]
      BY <3>1
    <3>3. p + 0 = p /\ 0 \in 0 .. n /\ n \in 0 .. n
      BY <1>1, <2>1
    <3>4. j[0] = k[p] /\ j[n] = k[Len(b)]
      BY <2>1, <2>3, <3>3
    <3> QED BY <3>2, <3>4
  <2> HIDE DEF fs, j
  <2>5. ASSUME NEW i \in 1 .. n
        PROVE  IF Shows(fs[i]) THEN j[i] = j[i - 1] + 1 /\ fs[i].n = j[i] ELSE j[i] = j[i - 1]
    <3>1. /\ p + i \in 1 .. Len(b) /\ p + (i - 1) = (p + i) - 1
          /\ i \in 0 .. n /\ i - 1 \in 0 .. n
      BY <1>1, <2>1
    <3>2. IF Shows(b[p + i]) THEN k[p + i] = k[(p + i) - 1] + 1 /\ b[p + i].n = k[p + i]
          ELSE k[p + i] = k[(p + i) - 1]
      BY <1>2, <3>1 DEF Counts
    <3>3. fs[i] = b[p + i] /\ j[i] = k[p + i] /\ j[i - 1] = k[(p + i) - 1]
      BY <2>2, <2>3, <3>1
    <3> QED BY <3>2, <3>3
  <2>6. Counts(j, fs, k[p])
    BY <2>2, <2>4, <2>5 DEF Counts
  <2>7. k[Len(b)] \in 0 .. exec.made
    BY <1>1, <1>2
  <2> QED BY <1>2, <1>3, <1>5, <2>2, <2>4, <2>6, <2>7 DEF fs, b
<1> QED BY <1>4, <1>5

\* One more event, which shows no step.
LEMMA CountsEnd ==
  ASSUME NEW es \in Seq(Events), NEW e \in Events, ~Shows(e), NEW k, NEW a, Counts(k, es, a)
  PROVE  /\ Append(es, e) \in Seq(Events)
         /\ \E m : Counts(m, Append(es, e), a) /\ m[Len(Append(es, e))] = k[Len(es)]
<1> DEFINE fs == Append(es, e)
           n == Len(es)
           m == [i \in 0 .. n + 1 |-> IF i = n + 1 THEN k[n] ELSE k[i]]
<1>1. /\ n \in Nat /\ fs \in Seq(Events) /\ Len(fs) = n + 1 /\ fs[n + 1] = e
      /\ \A i \in 1 .. n : fs[i] = es[i]
  OBVIOUS
<1>2. k \in [0 .. n -> Nat] /\ k[0] = a
  BY DEF Counts
<1>3. \A i \in 1 .. n : IF Shows(es[i]) THEN k[i] = k[i - 1] + 1 /\ es[i].n = k[i]
                        ELSE k[i] = k[i - 1]
  BY DEF Counts
<1> HIDE DEF fs, n
<1>4. /\ m \in [0 .. n + 1 -> Nat] /\ m[n + 1] = k[n]
      /\ \A i \in 0 .. n : m[i] = k[i]
  <2>1. \A i \in 0 .. n + 1 : i # n + 1 => i \in 0 .. n
    BY <1>1
  <2> QED BY <1>1, <1>2, <2>1
<1> HIDE DEF m
<1>5. ASSUME NEW i \in 1 .. n + 1
      PROVE  IF Shows(fs[i]) THEN m[i] = m[i - 1] + 1 /\ fs[i].n = m[i] ELSE m[i] = m[i - 1]
  <2>1. CASE i = n + 1
    <3>1. n \in 0 .. n /\ i - 1 = n
      BY <1>1, <2>1
    <3> QED BY <1>1, <1>4, <2>1, <3>1
  <2>2. CASE i # n + 1
    <3>1. i \in 1 .. n /\ i \in 0 .. n /\ i - 1 \in 0 .. n
      BY <1>1, <2>2
    <3> QED BY <1>1, <1>3, <1>4, <3>1
  <2> QED BY <2>1, <2>2
<1>6. m[0] = a
  BY <1>1, <1>2, <1>4
<1>7. Counts(m, fs, a)
  BY <1>1, <1>4, <1>5, <1>6 DEF Counts
<1> QED BY <1>1, <1>4, <1>7 DEF fs, n

\* The stream of a client that came back sends what is new, and ends with the task.
LEMMA BackPollStep ==
  ASSUME ChatInv, Chat!BackPoll
  PROVE  ChatInv'
<1>1. ChatTyped /\ MadeBounded /\ Places
  BY DEF ChatInv
<1>2. /\ back.on /\ view.conn = "back" /\ view \in ViewType /\ Chat!Gone' = Chat!Gone
      /\ UNCHANGED <<chatTask, exec, recorded, approval, stepQueue, over, gen, buffer>>
  BY <1>1 DEF Chat!BackPoll, ChatTyped, Places, Chat!Gone
<1>3. PICK k : StepsFollow(k)
  BY DEF ChatInv
<1>4. /\ Chat!Fresh \in Seq(EventsSent)
      /\ buffer # Chat!Gone =>
           \E a, j : /\ Counts(j, Chat!Fresh, a) /\ view.seen = Seen(a)
                     /\ j[Len(Chat!Fresh)] \in 0 .. exec.made
                     /\ j[Len(Chat!Fresh)] = k[Len(Chat!Buffered)]
      /\ buffer = Chat!Gone => Chat!Fresh = <<>>
  BY <1>2, <1>3, FreshCounts
<1>5. /\ Chat!Fresh \in Seq(Events) /\ Len(Chat!Buffered) \in Nat /\ exec.made \in Nat
      /\ (buffer # Chat!Gone => Chat!Buffered = buffer)
  BY <1>1, <1>4, BufferedTyped DEF ChatTyped
<1>6. gen \notin {"none", "new"} /\ (buffer = Chat!Gone => gen = "closed")
  BY <1>1, <1>2 DEF Places
<1>7. CASE chatTask \in Chat!Terminal
  <2> DEFINE e == Chat!Event("reconnect_done", 0)
             events == Append(Chat!Fresh, e)
             v == Chat!AfterEvents(view, events)
  <2>1. view' = Chat!Finalized(v) /\ back' = [on |-> FALSE, next |-> 0]
    BY <1>7 DEF Chat!BackPoll
  <2>2. e \in Events /\ ~Shows(e)
    BY DEF Chat!Event, Events, Shows
  <2> HIDE DEF e
  <2>3. v \in ViewType /\ (v.seen = view.seen \/ \E n \in 0 .. exec.made : v.seen = Seen(n))
    <3>1. CASE buffer = Chat!Gone
      <4> DEFINE t == [i \in 0 .. 1 |-> view.seen]
      <4>1. events \in Seq(Events) /\ Len(events) = 1 /\ events[1] = e
        BY <1>4, <2>2, <3>1
      <4> HIDE DEF events
      <4>2. t[0] = view.seen /\ t[Len(events)] = view.seen
        BY <4>1
      <4>3. \A i \in 1 .. Len(events) :
              t[i] = IF Shows(events[i]) THEN Append(t[i - 1], events[i].n) ELSE t[i - 1]
        BY <2>2, <4>1
      <4> HIDE DEF t
      <4>4. /\ Chat!AfterEvents(view, events) \in ViewType
            /\ Chat!AfterEvents(view, events).seen = t[Len(events)]
        BY ONLY <1>2, <4>1, <4>2, <4>3, AfterEventsShow
      <4> QED BY <4>2, <4>4
    <3>2. CASE buffer # Chat!Gone
      <4>1. PICK a, j : /\ Counts(j, Chat!Fresh, a) /\ view.seen = Seen(a)
                        /\ j[Len(Chat!Fresh)] \in 0 .. exec.made
        BY <1>4, <3>2
      <4>2. events \in Seq(Events)
            /\ \E m : Counts(m, events, a) /\ m[Len(events)] = j[Len(Chat!Fresh)]
        BY <1>5, <2>2, <4>1, CountsEnd
      <4> HIDE DEF events
      <4>3. PICK m : Counts(m, events, a) /\ m[Len(events)] = j[Len(Chat!Fresh)]
        BY <4>2
      <4>4. /\ Chat!AfterEvents(view, events) \in ViewType
            /\ Chat!AfterEvents(view, events).seen = Seen(m[Len(events)])
        BY ONLY <1>2, <4>1, <4>2, <4>3, AfterEventsMakes
      <4> QED BY <4>1, <4>3, <4>4
    <3> QED BY <3>1, <3>2
  <2> HIDE DEF v
  <2>4. view' \in ViewType /\ view'.conn = "idle" /\ view'.seen = v.seen
    BY <2>1, <2>3, FinalizedMakes
  <2>5. back' \in [on : BOOLEAN, next : Nat] /\ ~back'.on
    BY <2>1
  <2>6. ChatTyped' /\ MadeBounded'
    BY <1>1, <1>2, <2>4, <2>5 DEF ChatTyped, MadeBounded
  <2>7. Places'
    BY <1>1, <1>2, <1>6, <2>4, <2>5 DEF Places
  <2>8. ShownSome'
    <3>1. CASE v.seen = view.seen
      BY <1>2, <2>4, <3>1, StillShown DEF ChatInv
    <3>2. ASSUME NEW n \in 0 .. exec.made, v.seen = Seen(n) PROVE ShownSome'
      BY <1>2, <1>5, <2>4, <3>2, FirstShown
    <3> QED BY <2>3, <3>1, <3>2
  <2> QED BY <1>2, <1>3, <2>4, <2>6, <2>7, <2>8, QuietFollows
<1>8. CASE chatTask \notin Chat!Terminal
  <2>1. /\ Chat!Fresh # <<>> /\ view' = Chat!AfterEvents(view, Chat!Fresh)
        /\ back' = [back EXCEPT !.next = Len(Chat!Buffered)]
    BY <1>8 DEF Chat!BackPoll
  <2>2. buffer # Chat!Gone /\ buffer # <<>> /\ Chat!Buffered = buffer
    BY <1>1, <1>4, <1>5, <2>1 DEF Places
  <2>3. PICK a, j : /\ Counts(j, Chat!Fresh, a) /\ view.seen = Seen(a)
                    /\ j[Len(Chat!Fresh)] \in 0 .. exec.made
                    /\ j[Len(Chat!Fresh)] = k[Len(Chat!Buffered)]
    BY <1>4, <2>2
  <2> DEFINE N == j[Len(Chat!Fresh)]
  <2>4. view' \in ViewType /\ view'.conn = "back" /\ view'.seen = Seen(N)
    <3> DEFINE events == Chat!Fresh
    <3>1. events \in Seq(Events) /\ Counts(j, events, a)
      BY <1>5, <2>3
    <3>2. view' = Chat!AfterEvents(view, events) /\ N = j[Len(events)]
      BY <2>1
    <3> HIDE DEF events, N
    <3>3. /\ Chat!AfterEvents(view, events) \in ViewType
          /\ Chat!AfterEvents(view, events).conn = view.conn
          /\ Chat!AfterEvents(view, events).seen = Seen(j[Len(events)])
      BY ONLY <1>2, <2>3, <3>1, AfterEventsMakes
    <3> QED BY <1>2, <3>2, <3>3
  <2>5. /\ back' \in [on : BOOLEAN, next : Nat] /\ back'.on
        /\ back'.next = Len(buffer) /\ Len(buffer) # 0
    BY <1>1, <1>2, <1>5, <2>1, <2>2 DEF ChatTyped
  <2>6. ChatTyped' /\ MadeBounded' /\ Places'
    BY <1>1, <1>2, <2>4, <2>5 DEF ChatTyped, MadeBounded, Places
  <2>7. back'.next <= Len(buffer) /\ view'.seen = Seen(k[back'.next])
    BY <1>5, <2>2, <2>3, <2>4, <2>5
  <2>8. N \in 0 .. exec.made
    BY <2>3
  <2> HIDE DEF N
  <2>9. ShownSome'
    BY <1>2, <1>5, <2>4, <2>5, <2>8, FirstShown
  <2> QED BY <1>2, <1>3, <2>4, <2>6, <2>7, <2>9, QuietFollows
<1> QED BY <1>7, <1>8

\* Every step of the chat keeps the invariant.
LEMMA ChatStep ==
  ASSUME ChatInv, Chat!Next
  PROVE  ChatInv'
<1>1. CASE Chat!Execution
  BY <1>1, ExecutionSteps
<1>2. CASE Chat!GenStart
  BY <1>2, YieldSteps, QuietSteps
<1>3. CASE Chat!GenRead \/ Chat!GenCancelled \/ Chat!GenDrain \/ Chat!GenOutcome
  BY <1>3, YieldSteps
<1>4. CASE \/ Chat!GenTimeout \/ Chat!GenClose \/ Chat!GenNotice \/ Chat!Send \/ Chat!Answer
           \/ Chat!Leave \/ Chat!Cancel \/ Chat!Stop
  BY <1>4, QuietSteps
<1>5. CASE Chat!Cleanup
  BY <1>5, CleanupStep
<1>6. CASE Chat!Return
  BY <1>6, ReturnStep
<1>7. CASE Chat!BackPoll
  BY <1>7, BackPollStep
<1> QED BY <1>1, <1>2, <1>3, <1>4, <1>5, <1>6, <1>7 DEF Chat!Next, Chat!Response

\* The view shows the first steps, or what was recorded, each once and in order; and the
\* types are those of the model.
LEMMA ViewShown ==
  ASSUME ChatInv
  PROVE  Chat!StepsInOrder /\ Chat!TypeOK
<1>1. ChatTyped /\ MadeBounded /\ Places /\ MaxSteps \in Nat
  BY ChatConstants DEF ChatInv
<1>2. PICK k : StepsFollow(k)
  BY DEF ChatInv
<1>3. Records /\ ShownSome /\ recorded \in Seq(Nat) /\ view.seen \in Seq(Nat)
  BY <1>1 DEF ChatInv, Records, ChatTyped, ViewType
<1>4. exec.made \in Nat
  BY <1>1 DEF ChatTyped
<1>5. \A i \in 1 .. Len(recorded) : recorded[i] \in 0 .. exec.made
  BY <1>3, <1>4 DEF Records
<1>6. ASSUME First(view.seen)
      PROVE  /\ view.seen = [i \in 1 .. Len(view.seen) |-> i]
             /\ \A i \in 1 .. Len(view.seen) : view.seen[i] = i /\ i \in 0 .. exec.made
  <2>1. PICK n \in 0 .. exec.made : view.seen = Seen(n)
    BY <1>6 DEF First
  <2>2. n \in Nat /\ Len(Seen(n)) = n /\ \A i \in 1 .. n : Seen(n)[i] = i /\ i \in 0 .. exec.made
    BY <1>4 DEF Seen
  <2> QED BY <2>1, <2>2 DEF Seen
<1>7. ASSUME Copied(view.seen)
      PROVE  \A i \in 1 .. Len(view.seen) :
               i \in 1 .. Len(recorded) /\ view.seen[i] \in {0, recorded[i]}
  <2>1. Len(view.seen) \in Nat /\ Len(view.seen) <= Len(recorded) /\ Len(recorded) \in Nat
    BY <1>3, <1>7 DEF Copied
  <2> QED BY <1>7, <2>1 DEF Copied
<1>s. view.seen \in Seq(0 .. exec.made) /\ recorded \in Seq(0 .. exec.made)
  <2>1. \A i \in 1 .. Len(view.seen) : view.seen[i] \in 0 .. exec.made
    <3>1. CASE First(view.seen)
      <4>1. \A i \in 1 .. Len(view.seen) : view.seen[i] = i /\ i \in 0 .. exec.made
        BY <1>6, <3>1
      <4> QED BY ONLY <4>1
    <3>2. CASE Copied(view.seen)
      <4>1. \A i \in 1 .. Len(view.seen) :
              i \in 1 .. Len(recorded) /\ view.seen[i] \in {0, recorded[i]}
        BY <1>7, <3>2
      <4> QED BY ONLY <1>4, <1>5, <4>1
    <3>3. First(view.seen) \/ Copied(view.seen)
      BY <1>3 DEF ShownSome
    <3> QED BY <3>1, <3>2, <3>3
  <2> DEFINE S == 0 .. exec.made
  <2>2. /\ \A i \in 1 .. Len(view.seen) : view.seen[i] \in S
        /\ \A i \in 1 .. Len(recorded) : recorded[i] \in S
    BY <1>5, <2>1
  <2> HIDE DEF S
  <2> DEFINE q == view.seen
  <2>3. q \in Seq(Nat) /\ \A i \in 1 .. Len(q) : q[i] \in S
    BY <1>3, <2>2
  <2> HIDE DEF q
  <2>f. q \in Seq(S)
    BY <2>3
  <2>4. view.seen \in Seq(S) /\ recorded \in Seq(S)
    BY <1>3, <2>2, <2>f DEF q
  <2> QED BY <2>4 DEF S
<1>8. stepQueue \in Seq([kind : Chat!Kinds, n : 1 .. exec.made])
  <2> DEFINE S == [kind : Chat!Kinds, n : 1 .. exec.made]
  <2>1. stepQueue \in Seq([kind : Chat!Kinds, n : Nat])
    BY <1>1 DEF ChatTyped
  <2>2. \A i \in 1 .. Len(stepQueue) : stepQueue[i] \in S
    <3> SUFFICES ASSUME NEW i \in 1 .. Len(stepQueue) PROVE stepQueue[i] \in S
      OBVIOUS
    <3>1. stepQueue[i].n \in 1 .. exec.made
      BY <1>2 DEF StepsFollow
    <3>2. stepQueue[i] \in [kind : Chat!Kinds, n : Nat]
      <4> DEFINE T == [kind : Chat!Kinds, n : Nat]
      <4>1. stepQueue \in Seq(T)
        BY <2>1
      <4> HIDE DEF S, T
      <4>2. stepQueue[i] \in T
        BY <4>1
      <4> QED BY <4>2 DEF T
    <3> QED BY <3>1, <3>2
  <2> HIDE DEF S
  <2>3. stepQueue \in Seq(S)
    BY <2>1, <2>2
  <2> QED BY <2>3 DEF S
<1>9. buffer = Chat!Gone \/ buffer \in Seq([type : Chat!EventTypes, n : 0 .. exec.made])
  <2> SUFFICES ASSUME buffer # Chat!Gone
               PROVE  buffer \in Seq([type : Chat!EventTypes, n : 0 .. exec.made])
    OBVIOUS
  <2> DEFINE S == [type : Chat!EventTypes, n : 0 .. exec.made]
  <2>1. buffer \in Seq(EventsSent) /\ Chat!Buffered = buffer
    BY <1>1, BufferedTyped DEF ChatTyped
  <2>2. \A i \in 1 .. Len(buffer) : buffer[i] \in S
    <3> SUFFICES ASSUME NEW i \in 1 .. Len(buffer) PROVE buffer[i] \in S
      OBVIOUS
    <3>1. buffer[i].n <= exec.made
      BY <1>2, <2>1 DEF StepsFollow
    <3>2. buffer[i] \in EventsSent
      BY <2>1
    <3> QED BY <1>4, <3>1, <3>2 DEF EventsSent
  <2> HIDE DEF S
  <2>3. buffer \in Seq(S)
    BY <2>1, <2>2
  <2> QED BY <2>3 DEF S
<1>10. exec.made \in 0 .. MaxSteps + 2
  BY <1>1, <1>4 DEF MadeBounded
<1>11. Chat!StepsInOrder
  <2> SUFFICES ASSUME view.conn # "idle"
               PROVE  IF Chat!FromRecord
                      THEN /\ Len(view.seen) <= Len(recorded)
                           /\ \A i \in DOMAIN view.seen : view.seen[i] \in {0, recorded[i]}
                           /\ \A i, j \in DOMAIN view.seen :
                                i # j /\ view.seen[i] = view.seen[j] => view.seen[i] = 0
                      ELSE view.seen = [i \in 1 .. Len(view.seen) |-> i]
    BY DEF Chat!StepsInOrder
  <2>1. DOMAIN view.seen = 1 .. Len(view.seen) /\ Len(view.seen) \in Nat
    BY <1>3
  <2>2. CASE Chat!FromRecord
    <3>1. Copied(view.seen)
      BY <1>3, <2>2 DEF ShownSome, Chat!FromRecord
    <3>2. \A i \in 1 .. Len(view.seen) :
            i \in 1 .. Len(recorded) /\ view.seen[i] \in {0, recorded[i]}
      BY <1>7, <3>1
    <3>3. \A i, j \in 1 .. Len(recorded) :
            i # j /\ recorded[i] = recorded[j] => recorded[i] = 0
      BY <1>3 DEF Records
    <3>4. \A i, j \in 1 .. Len(view.seen) :
            i # j /\ view.seen[i] = view.seen[j] => view.seen[i] = 0
      BY ONLY <3>2, <3>3
    <3> QED BY <2>1, <2>2, <3>1, <3>2, <3>4 DEF Copied
  <2>3. CASE ~Chat!FromRecord
    <3>1. First(view.seen)
      BY <1>1, <1>3, <2>3 DEF ShownSome, Chat!FromRecord, ChatTyped, ViewType
    <3> QED BY <1>6, <2>3, <3>1
  <2> QED BY <2>2, <2>3
<1>12. Chat!TypeOK
  BY <1>1, <1>s, <1>8, <1>9, <1>10 DEF ChatTyped, Places, ViewType, Chat!TypeOK
<1> QED BY <1>11, <1>12

-----------------------------------------------------------------------------
(* Types.                                                                    *)

\* The organizer's rounds and the crew's steps in them.  A worker has made the steps that
\* have been put on the roster; the crew's last one may not be yet.
Unlisted == IF step["crew"].at \in {"smooth", "merge"} THEN 1 ELSE 0
Before == MaxWork * (turn - 1)
WorkBounded ==
  /\ turn \in 1 .. MaxTurns /\ steps["crew"] \in 0 .. MaxWork
  /\ \A m \in Members : made[m] + Unlisted <= Before + steps["crew"]

\* At the beginning nobody has made a step.
LEMMA WorkBegins == Steps!StepInit => WorkBounded
<1> SUFFICES ASSUME Steps!StepInit PROVE WorkBounded
  OBVIOUS
<1>1. MaxWork \in Nat /\ MaxTurns \in Nat \ {0} /\ "crew" \in Steps!Threads
  BY StepsConstants DEF Steps!Threads
<1>2. /\ turn = 1 /\ steps["crew"] = 0 /\ step["crew"] = Steps!Idle
      /\ \A m \in Members : made[m] = 0
  BY <1>1 DEF Steps!StepInit
<1>3. Unlisted = 0 /\ Before = 0
  BY <1>1, <1>2 DEF Unlisted, Before, Steps!Idle
<1> QED BY <1>1, <1>2, <1>3 DEF WorkBounded

\* In a round the crew takes a step no more than MaxWork times, and each is put on the
\* roster once.
LEMMA WorkStep ==
  ASSUME StepsInv, WorkBounded, Steps!StepNext
  PROVE  WorkBounded'
<1>1. /\ MaxWork \in Nat /\ MaxTurns \in Nat \ {0} /\ "crew" \in Steps!Threads
      /\ "organizer" \in Steps!Threads
      /\ \A p \in Peers : p \in Steps!Threads /\ p # "crew"
  BY StepsConstants DEF Steps!Threads
<1>2. /\ StepsTyped /\ step = [t \in Steps!Threads |-> step[t]]
      /\ made \in [Members -> Nat] /\ steps \in [Steps!Threads -> Nat]
  BY DEF StepsInv, StepsTyped
<1>3. turn \in Int /\ Before \in Int /\ Unlisted \in 0 .. 1
  BY <1>1 DEF WorkBounded, Before, Unlisted
\* The crew is left alone.
<1>4. ASSUME UNCHANGED <<made, turn>>, steps'["crew"] = steps["crew"],
             Unlisted' <= Unlisted, Unlisted' \in 0 .. 1
      PROVE  WorkBounded'
  <2>1. Before' = Before
    BY <1>4 DEF Before
  <2>2. \A m \in Members : made[m] \in Nat
    BY <1>2
  <2> QED BY <1>3, <1>4, <2>1, <2>2 DEF WorkBounded
<1>5. ASSUME step'["crew"] = step["crew"] PROVE Unlisted' = Unlisted
  BY <1>5 DEF Unlisted
<1>6. CASE UNCHANGED <<made, turn, steps, step>>
  BY <1>3, <1>4, <1>5, <1>6
<1>7. ASSUME NEW m \in Members, NEW act \in {"start", "beat", "call", "late"},
             Steps!WorkerStep(m, act)
      PROVE  WorkBounded'
  <2>1. /\ step["crew"] = Steps!Idle /\ steps["crew"] < MaxWork
        /\ steps' = [steps EXCEPT !["crew"] = @ + 1]
        /\ step' = [step EXCEPT !["crew"] = Steps!In("smooth", "worker", m, act, progress)]
        /\ UNCHANGED <<made, turn>>
    BY <1>7 DEF Steps!WorkerStep
  <2>2. Unlisted = 0 /\ Unlisted' = 1 /\ steps'["crew"] = steps["crew"] + 1
    BY <1>1, <1>2, <2>1 DEF Unlisted, Steps!Idle, Steps!In
  <2>3. Before' = Before /\ \A w \in Members : made[w] \in Nat
    BY <1>2, <2>1 DEF Before
  <2>4. steps["crew"] \in Nat /\ steps'["crew"] \in 0 .. MaxWork
    BY <1>1, <1>2, <2>1, <2>2
  <2> QED BY <1>3, <2>1, <2>2, <2>3, <2>4 DEF WorkBounded
<1>8. CASE Steps!Smooth
  <2>1. /\ step["crew"].at = "smooth" /\ UNCHANGED <<made, steps, turn>>
        /\ \E s : step' = [step EXCEPT !["crew"] = s] /\ s.at = "merge"
    <3> DEFINE s == Steps!In("merge", step["crew"].kind, step["crew"].who, step["crew"].act,
                             progress')
    <3>1. step' = [step EXCEPT !["crew"] = s]
      BY <1>8 DEF Steps!Smooth, Steps!Goes
    <3>2. s.at = "merge"
      BY DEF Steps!In
    <3> HIDE DEF s
    <3> QED BY <1>8, <3>1, <3>2 DEF Steps!Smooth
  <2>2. Unlisted = 1 /\ Unlisted' = 1
    BY <1>1, <1>2, <2>1 DEF Unlisted
  <2> QED BY <1>4, <2>1, <2>2
<1>9. ASSUME NEW p \in Peers, NEW r \in Reports, Steps!PeerStep(p, r) PROVE WorkBounded'
  <2>1. /\ UNCHANGED <<made, turn>> /\ steps' = [steps EXCEPT ![p] = @ + 1]
        /\ \E s : step' = [step EXCEPT ![p] = s]
    BY <1>9 DEF Steps!PeerStep
  <2>2. step'["crew"] = step["crew"] /\ steps'["crew"] = steps["crew"]
    BY <1>1, <1>2, <2>1
  <2> QED BY <1>3, <1>4, <1>5, <2>1, <2>2
<1>10. ASSUME NEW t \in Steps!Threads, Steps!Merge(t) PROVE WorkBounded'
  <2>1. /\ step[t].at = "merge" /\ UNCHANGED <<steps, turn>>
        /\ \E s : step' = [step EXCEPT ![t] = s] /\ s.at = "write"
        /\ made' = IF step[t].kind = "worker" /\ step[t].act # "beat"
                   THEN [made EXCEPT ![step[t].who] = @ + 1] ELSE made
    <3> DEFINE read == IF endpoint = "chat" THEN step[t].read ELSE progress
               s == Steps!In("write", step[t].kind, step[t].who, step[t].act, read)
    <3>1. step' = [step EXCEPT ![t] = s]
      BY <1>10 DEF Steps!Merge, Steps!Goes
    <3>2. s.at = "write"
      BY DEF Steps!In
    <3> HIDE DEF s
    <3> QED BY <1>10, <3>1, <3>2 DEF Steps!Merge
  <2>2. CASE t = "crew"
    <3>1. Unlisted = 1 /\ Unlisted' = 0
      BY <1>1, <1>2, <2>1, <2>2 DEF Unlisted
    <3>2. Before' = Before /\ steps["crew"] \in Nat
      BY <1>1, <1>2, <2>1 DEF Before
    <3>3. \A m \in Members : made[m] \in Nat /\ made'[m] <= made[m] + 1
      <4> SUFFICES ASSUME NEW m \in Members PROVE made[m] \in Nat /\ made'[m] <= made[m] + 1
        OBVIOUS
      <4>1. made[m] \in Nat
        BY <1>2
      <4>2. made'[m] = made[m] \/ made'[m] = made[m] + 1
        <5> DEFINE who == step[t].who
        <5>1. made' = made \/ made' = [made EXCEPT ![who] = @ + 1]
          BY <2>1
        <5> HIDE DEF who
        <5> QED BY <1>2, <5>1
      <4> QED BY <4>1, <4>2
    <3>4. made' \in [Members -> Nat]
      <4> DEFINE who == step[t].who
      <4>1. made' = made \/ made' = [made EXCEPT ![who] = @ + 1]
        BY <2>1
      <4> HIDE DEF who
      <4> QED BY <1>2, <4>1
    <3>5. \A m \in Members : made'[m] \in Nat
      BY <3>4
    <3> QED BY <1>3, <2>1, <3>1, <3>2, <3>3, <3>5 DEF WorkBounded
  <2>3. CASE t # "crew"
    <3>1. step[t].kind # "worker" /\ step'["crew"] = step["crew"]
      <4>1. CASE t = "organizer"
        <5>1. step[t] \in OrganizerSteps
          BY <1>2, <2>1, <4>1 DEF StepsTyped, Steps!Idle
        <5> QED BY <1>1, <1>2, <2>1, <2>3, <5>1 DEF OrganizerSteps
      <4>2. CASE t \in Peers
        <5>1. step[t] \in PeerSteps(t)
          BY <1>2, <2>1, <4>2 DEF StepsTyped, Steps!Idle
        <5> QED BY <1>1, <1>2, <2>1, <2>3, <5>1 DEF PeerSteps
      <4> QED BY <2>3, <4>1, <4>2 DEF Steps!Threads
    <3> QED BY <1>3, <1>4, <1>5, <2>1, <3>1
  <2> QED BY <2>2, <2>3
<1>11. ASSUME NEW t \in Steps!Threads, Steps!Write(t) PROVE WorkBounded'
  <2>1. UNCHANGED <<made, steps, turn>> /\ step' = [step EXCEPT ![t] = Steps!Idle]
    BY <1>11 DEF Steps!Write
  <2>2. step'["crew"] = step["crew"] \/ step'["crew"] = Steps!Idle
    BY <1>1, <1>2, <2>1
  <2>3. Unlisted' <= Unlisted /\ Unlisted' \in 0 .. 1
    BY <1>3, <2>2 DEF Unlisted, Steps!Idle
  <2> QED BY <1>4, <2>1, <2>3
\* The organizer's steps.
<1>12. ASSUME NEW kind, NEW act, NEW p, Steps!Says(kind, act, p)
       PROVE  made' = made /\ step'["crew"] = step["crew"]
  BY <1>1, <1>2, <1>12 DEF Steps!Says
<1>13. CASE Steps!Route \/ Steps!Dispatch \/ Steps!LocalOnly \/ Steps!Gather \/ Steps!Conclude
  <2>1. UNCHANGED <<made, steps, turn>> /\ step'["crew"] = step["crew"]
    BY <1>12, <1>13 DEF Steps!Route, Steps!Dispatch, Steps!LocalOnly, Steps!Gather, Steps!Conclude
  <2> QED BY <1>3, <1>4, <1>5, <2>1
<1>14. CASE Steps!Announce
  <2>1. /\ UNCHANGED <<made, turn>> /\ step'["crew"] = step["crew"]
        /\ steps' = [steps EXCEPT !["organizer"] = @ + 1]
    BY <1>12, <1>14 DEF Steps!Announce
  <2>2. steps'["crew"] = steps["crew"]
    BY <1>1, <1>2, <2>1
  <2> QED BY <1>3, <1>4, <1>5, <2>1, <2>2
<1>15. CASE Steps!Again
  <2>1. /\ made' = made /\ turn' = turn + 1 /\ turn < MaxTurns /\ org = "judge"
        /\ step'["crew"] = step["crew"] /\ steps' = [t \in Steps!Threads |-> 0]
    BY <1>12, <1>15 DEF Steps!Again
  <2>2. step["crew"] = Steps!Idle
    BY <2>1 DEF StepsInv, Quiet
  <2>3. Unlisted = 0 /\ Unlisted' = 0
    BY <2>1, <2>2 DEF Unlisted, Steps!Idle
  <2>4. Before' = Before + MaxWork
    <3>1. MaxWork * ((turn + 1) - 1) = MaxWork * (turn - 1) + MaxWork
      BY <1>1, <1>3
    <3> QED BY <2>1, <3>1 DEF Before
  <2>5. steps'["crew"] = 0 /\ turn' \in 1 .. MaxTurns
    BY <1>1, <1>3, <2>1 DEF WorkBounded
  <2>6. \A m \in Members : made[m] \in Nat
    BY <1>2
  <2> QED BY <1>1, <1>3, <2>1, <2>3, <2>4, <2>5, <2>6 DEF WorkBounded
<1>16. CASE Steps!Start
  BY <1>6, <1>16 DEF Steps!Start
<1>17. CASE Steps!Settle \/ Steps!Break
  <2>1. UNCHANGED <<made, turn, steps, step>>
    BY <1>17 DEF Steps!Settle, Steps!Break, Steps!Ends
  <2> QED BY <1>6, <2>1
<1>18. ASSUME NEW s, Steps!Outside(s) PROVE WorkBounded'
  BY <1>6, <1>18 DEF Steps!Outside
<1> QED BY <1>7, <1>8, <1>9, <1>10, <1>11, <1>13, <1>14, <1>15, <1>16, <1>17, <1>18
        DEF Steps!StepNext

\* Hence the types of the model.
LEMMA StepTypes ==
  ASSUME StepsInv, WorkBounded
  PROVE  Steps!StepTypeOK
<1>1. /\ MaxWork \in Nat /\ MaxTurns \in Nat \ {0} /\ turn \in 1 .. MaxTurns
      /\ steps["crew"] \in 0 .. MaxWork
  BY StepsConstants DEF WorkBounded
<1>2. made \in [Members -> 0 .. MaxWork * MaxTurns]
  <2> SUFFICES ASSUME NEW m \in Members PROVE made[m] \in 0 .. MaxWork * MaxTurns
    BY DEF StepsInv, StepsTyped
  <2>1. made[m] \in Nat /\ Unlisted \in 0 .. 1 /\ Before \in Int
    BY <1>1 DEF StepsInv, StepsTyped, Unlisted, Before
  <2>2. made[m] + Unlisted <= Before + steps["crew"]
    BY DEF WorkBounded
  <2>3. Before + MaxWork <= MaxWork * MaxTurns
    <3>1. MaxWork * (turn - 1) + MaxWork = MaxWork * turn
      BY <1>1
    <3>2. MaxWork * turn <= MaxWork * MaxTurns
      BY <1>1
    <3>3. MaxWork * turn \in Int /\ MaxWork * MaxTurns \in Int
      BY <1>1
    <3> QED BY <3>1, <3>2, <3>3 DEF Before
  <2>4. MaxWork * MaxTurns \in Int
    BY <1>1
  <2> HIDE DEF Before
  <2> QED BY <1>1, <2>1, <2>2, <2>3, <2>4
<1>3. \A t \in Steps!Threads : step[t].at \in {"idle", "smooth", "merge", "write"}
  BY DEF StepsInv, StepsTyped, Steps!Threads, WorkerSteps, OrganizerSteps, PeerSteps, Steps!Idle
<1>4. taskStatus \in Steps!Status /\ DOMAIN step = Steps!Threads
  BY DEF StepsInv, StatusKnown, StepsTyped, Steps!Status
<1>5. org \in {"start", "routed", "sent", "work", "judge", "settle", "over", "broken"}
  BY DEF StepsInv, StatusKnown
<1> QED BY <1>1, <1>2, <1>3, <1>4, <1>5 DEF StepsInv, StepsTyped, Steps!StepTypeOK

\* The listeners: a subscriber is one of them while its endpoint is between add_listener
\* and remove_listener.
Registered(c) == \E i \in 1 .. Len(listeners) : listeners[i] = c
Served == {"listening", "rechecked", "streaming"}
Unique(s) == \A i, j \in 1 .. Len(s) : s[i] = s[j] => i = j
ListenersInv ==
  /\ listeners \in Seq(Subs \cup OtherListeners) /\ Unique(listeners)
  /\ \A c \in Subs : Registered(c) <=> server[c] \in Served

EndpointsTyped ==
  /\ task \in {"running"} \cup Stream!Terminal /\ updates \in 0 .. MaxUpdates
  /\ note \in [Stream!Notifiers -> Nat]
  /\ server \in [Subs -> {"none", "checked", "listening", "rechecked", "streaming", "closed"}]
  /\ client \in [Subs -> {"idle", "reading", "polling", "done"}]
  /\ \A c \in Subs : client[c] = "idle" => server[c] = "none"
  /\ \A c \in Subs : Len(queue[c]) <= QueueSize
  /\ late \in [Subs -> BOOLEAN] /\ missed \in [Subs -> BOOLEAN]

\* A listener is put at the end of the list.
LEMMA AppendListener ==
  ASSUME ListenersInv, NEW d \in Subs \cup OtherListeners, ~Registered(d),
         listeners' = Append(listeners, d)
  PROVE  /\ listeners' \in Seq(Subs \cup OtherListeners) /\ Unique(listeners')
         /\ \A c : Registered(c)' <=> (Registered(c) \/ c = d)
<1> DEFINE n == Len(listeners)
<1>1. /\ n \in Nat /\ listeners' \in Seq(Subs \cup OtherListeners) /\ Len(listeners') = n + 1
      /\ listeners'[n + 1] = d /\ \A i \in 1 .. n : listeners'[i] = listeners[i]
  BY DEF ListenersInv
<1>2. \A i \in 1 .. n : listeners[i] # d
  BY DEF Registered
<1>3. \A i, j \in 1 .. n : listeners[i] = listeners[j] => i = j
  BY DEF ListenersInv, Unique
<1>4. \A i \in 1 .. n + 1 : i \in 1 .. n \/ i = n + 1
  BY <1>1
<1>5. Unique(listeners')
  BY <1>1, <1>2, <1>3, <1>4 DEF Unique
<1>6. ASSUME NEW c PROVE Registered(c)' <=> (Registered(c) \/ c = d)
  <2>1. Registered(c)' => Registered(c) \/ c = d
    BY <1>1, <1>4 DEF Registered
  <2>2. Registered(c) => Registered(c)'
    <3> SUFFICES ASSUME NEW i \in 1 .. n, listeners[i] = c
                 PROVE  \E j \in 1 .. Len(listeners') : listeners'[j] = c
      BY DEF Registered
    <3>1. i \in 1 .. n + 1
      BY <1>1
    <3> QED BY <1>1, <3>1
  <2>3. c = d => Registered(c)'
    <3>1. n + 1 \in 1 .. n + 1
      BY <1>1
    <3> QED BY <1>1, <3>1 DEF Registered
  <2> QED BY <2>1, <2>2, <2>3
<1> QED BY <1>1, <1>5, <1>6

\* A listener is taken out, and only that one.
LEMMA TakenOut ==
  ASSUME ListenersInv, EndpointsTyped, NEW d, Registered(d), Stream!RemoveListener(d)
  PROVE  /\ listeners' \in Seq(Subs \cup OtherListeners) /\ Unique(listeners')
         /\ \A c : Registered(c)' <=> (Registered(c) /\ c # d)
         /\ missed' \in [Subs -> BOOLEAN]
<1> DEFINE n == Len(listeners)
           p == CHOOSE i \in 1 .. n : listeners[i] = d
           l == SubSeq(listeners, 1, p - 1) \o SubSeq(listeners, p + 1, n)
<1>1. p \in 1 .. n /\ listeners[p] = d
  BY DEF Registered
<1>2. listeners' = l
  BY DEF Stream!RemoveListener
<1> HIDE DEF p
<1>3. n \in Nat /\ listeners \in Seq(Subs \cup OtherListeners)
  BY DEF ListenersInv
<1>4. /\ l \in Seq(Subs \cup OtherListeners) /\ Len(l) = n - 1
      /\ \A i \in 1 .. n - 1 : l[i] = IF i < p THEN listeners[i] ELSE listeners[i + 1]
  <2> DEFINE front == SubSeq(listeners, 1, p - 1)
             back1 == SubSeq(listeners, p + 1, n)
  <2>1. /\ front \in Seq(Subs \cup OtherListeners) /\ Len(front) = p - 1
        /\ \A i \in 1 .. p - 1 : front[i] = listeners[i]
    BY <1>1, <1>3
  <2>2. /\ back1 \in Seq(Subs \cup OtherListeners) /\ Len(back1) = n - p
        /\ \A i \in 1 .. n - p : back1[i] = listeners[p + i]
    BY <1>1, <1>3
  <2>3. l = front \o back1
    OBVIOUS
  <2> HIDE DEF front, back1, l
  <2>4. /\ l \in Seq(Subs \cup OtherListeners) /\ Len(l) = (p - 1) + (n - p)
        /\ \A i \in 1 .. p - 1 : l[i] = front[i]
        /\ \A i \in 1 .. n - p : l[(p - 1) + i] = back1[i]
    <3>1. /\ front \o back1 \in Seq(Subs \cup OtherListeners)
          /\ Len(front \o back1) = Len(front) + Len(back1)
          /\ \A i \in 1 .. Len(front) : (front \o back1)[i] = front[i]
          /\ \A i \in 1 .. Len(back1) : (front \o back1)[Len(front) + i] = back1[i]
      BY <2>1, <2>2
    <3> QED BY <2>1, <2>2, <2>3, <3>1
  <2>5. ASSUME NEW i \in 1 .. n - 1
        PROVE  l[i] = IF i < p THEN listeners[i] ELSE listeners[i + 1]
    <3>1. CASE i < p
      <4>1. i \in 1 .. p - 1
        BY <1>1, <1>3, <3>1
      <4> QED BY <2>1, <2>4, <3>1, <4>1
    <3>2. CASE ~(i < p)
      <4> DEFINE h == i - (p - 1)
      <4>1. h \in 1 .. n - p /\ (p - 1) + h = i /\ p + h = i + 1
        BY <1>1, <1>3, <3>2
      <4> HIDE DEF h
      <4>2. l[i] = back1[h] /\ back1[h] = listeners[i + 1]
        BY <2>2, <2>4, <4>1
      <4> QED BY <3>2, <4>2
    <3> QED BY <3>1, <3>2
  <2> QED BY <1>1, <1>3, <2>4, <2>5
<1> HIDE DEF l
<1>5. \A i, j \in 1 .. n : listeners[i] = listeners[j] => i = j
  BY DEF ListenersInv, Unique
\* Where the elements come from, and where they go.
<1> DEFINE From(i) == IF i < p THEN i ELSE i + 1
<1>6. \A i \in 1 .. n - 1 : From(i) \in 1 .. n /\ From(i) # p /\ l[i] = listeners[From(i)]
  BY <1>1, <1>3, <1>4
<1>7. \A i, j \in 1 .. n - 1 : From(i) = From(j) => i = j
  BY <1>1, <1>3
<1>8. \A h \in 1 .. n : h # p => \E i \in 1 .. n - 1 : From(i) = h
  <2> SUFFICES ASSUME NEW h \in 1 .. n, h # p PROVE \E i \in 1 .. n - 1 : From(i) = h
    OBVIOUS
  <2>1. CASE h < p
    <3>1. h \in 1 .. n - 1
      BY <1>1, <1>3, <2>1
    <3> QED BY <2>1, <3>1
  <2>2. CASE h > p
    <3>1. h - 1 \in 1 .. n - 1 /\ From(h - 1) = h
      BY <1>1, <1>3, <2>2
    <3> QED BY <3>1
  <2> QED BY <1>1, <1>3, <2>1, <2>2
<1> HIDE DEF From
<1>9. Unique(l)
  BY <1>4, <1>5, <1>6, <1>7 DEF Unique
<1>10. ASSUME NEW c
       PROVE  (\E i \in 1 .. Len(l) : l[i] = c) <=> (Registered(c) /\ c # d)
  <2>1. ASSUME NEW i \in 1 .. Len(l), l[i] = c PROVE Registered(c) /\ c # d
    BY <1>1, <1>4, <1>5, <1>6, <2>1 DEF Registered
  <2>2. ASSUME NEW h \in 1 .. n, listeners[h] = c, c # d PROVE \E i \in 1 .. Len(l) : l[i] = c
    BY <1>1, <1>4, <1>6, <1>8, <2>2
  <2> QED BY <2>1, <2>2 DEF Registered
<1>11. missed' \in [Subs -> BOOLEAN]
  BY DEF Stream!RemoveListener, EndpointsTyped
<1>12. \A c : Registered(c)' <=> (Registered(c) /\ c # d)
  BY <1>2, <1>10 DEF Registered
<1> QED BY <1>2, <1>4, <1>9, <1>11, <1>12

\* A step that leaves the listeners and the endpoints alone.
LEMMA EndpointsStay ==
  ASSUME ListenersInv, UNCHANGED <<listeners, server>>
  PROVE  ListenersInv'
BY DEF ListenersInv, Registered, Unique

\* An endpoint goes from one place to another that serves the stream, too, or neither does.
LEMMA EndpointMoves ==
  ASSUME ListenersInv, EndpointsTyped, listeners' = listeners,
         NEW c \in Subs, NEW at, server' = [server EXCEPT ![c] = at],
         at \in Served <=> server[c] \in Served
  PROVE  ListenersInv'
<1>1. \A d : Registered(d)' <=> Registered(d)
  BY DEF Registered
<1>2. \A d \in Subs : server'[d] \in Served <=> server[d] \in Served
  BY DEF EndpointsTyped
<1> QED BY <1>1, <1>2 DEF ListenersInv, Unique

\* The endpoint is done with its listener.
LEMMA EndpointCloses ==
  ASSUME ListenersInv, EndpointsTyped, NEW c \in Subs, server[c] = "streaming",
         server' = [server EXCEPT ![c] = "closed"], Stream!RemoveListener(c)
  PROVE  ListenersInv' /\ missed' \in [Subs -> BOOLEAN]
<1>1. Registered(c)
  BY DEF ListenersInv, Served
<1>2. /\ listeners' \in Seq(Subs \cup OtherListeners) /\ Unique(listeners')
      /\ \A d : Registered(d)' <=> (Registered(d) /\ d # c)
      /\ missed' \in [Subs -> BOOLEAN]
  BY <1>1, TakenOut
<1>3. \A d \in Subs : Registered(d)' <=> server'[d] \in Served
  BY <1>2 DEF ListenersInv, EndpointsTyped, Served
<1> QED BY <1>2, <1>3 DEF ListenersInv

\* The constants of TaskStream.
LEMMA StreamConstants ==
  Subs \cap OtherListeners = {} /\ QueueSize \in Nat \ {0} /\ MaxUpdates \in Nat
BY ConversationsAssumption DEF ConversationsAssumption, Stream!StreamAssumption

\* At the beginning nobody listens.
LEMMA EndpointsBegin == Stream!Init => ListenersInv /\ EndpointsTyped
<1> SUFFICES ASSUME Stream!Init PROVE ListenersInv /\ EndpointsTyped
  OBVIOUS
<1> USE DEF Stream!Init
<1>1. ListenersInv
  BY DEF ListenersInv, Registered, Unique, Served
<1>2. EndpointsTyped
  BY StreamConstants DEF EndpointsTyped
<1> QED BY <1>1, <1>2

\* Each step keeps the listeners and the types.
LEMMA EndpointsStep ==
  ASSUME StreamInv, ListenersInv, EndpointsTyped, Stream!Next
  PROVE  ListenersInv' /\ EndpointsTyped'
<1>1. /\ QueueSize \in Nat \ {0} /\ MaxUpdates \in Nat /\ Subs \cap OtherListeners = {}
      /\ queue \in [Subs -> Seq(Stream!Lines)]
  BY StreamConstants DEF StreamInv, LinesTyped
\* What is under way or waiting with the client changes, and nothing else.
<1>2. ASSUME UNCHANGED <<task, updates, note, listeners, server, queue, missed>>,
             client' \in [Subs -> {"idle", "reading", "polling", "done"}],
             \A c \in Subs : client'[c] = "idle" => client[c] = "idle",
             late' \in [Subs -> BOOLEAN]
      PROVE  ListenersInv' /\ EndpointsTyped'
  BY <1>2, EndpointsStay DEF EndpointsTyped
<1>3. CASE Stream!Progress
  <2>1. UNCHANGED <<task, listeners, server, queue, client, late, missed>>
        /\ updates < MaxUpdates /\ updates' = updates + 1
        /\ note' = [note EXCEPT !["progress"] = 1]
    BY <1>3 DEF Stream!Progress
  <2>2. updates' \in 0 .. MaxUpdates
    BY <1>1, <2>1 DEF EndpointsTyped
  <2>3. note' \in [Stream!Notifiers -> Nat]
    BY <2>1 DEF EndpointsTyped
  <2> QED BY <2>1, <2>2, <2>3, EndpointsStay DEF EndpointsTyped
<1>4. CASE Stream!Cancel \/ \E s \in Stream!Settled : Stream!Finish(s)
  <2>1. UNCHANGED <<updates, listeners, server, queue, client, late, missed>>
        /\ task' \in Stream!Terminal
        /\ note' \in [Stream!Notifiers -> Nat]
    BY <1>4 DEF Stream!Cancel, Stream!Finish, Stream!Settled, Stream!Terminal, EndpointsTyped
  <2> QED BY <2>1, EndpointsStay DEF EndpointsTyped
\* An update is offered.
<1>5. ASSUME NEW c \in Subs
      PROVE  Len(Stream!Offered(c)) <= QueueSize
  <2>1. queue[c] \in Seq(Stream!Lines) /\ Len(queue[c]) <= QueueSize
    BY <1>1 DEF EndpointsTyped
  <2> QED BY <1>1, <2>1 DEF Stream!Offered
<1>6. ASSUME NEW c \in Subs, queue' = [queue EXCEPT ![c] = Stream!Offered(c)]
      PROVE  \A d \in Subs : Len(queue'[d]) <= QueueSize
  BY <1>1, <1>5, <1>6 DEF EndpointsTyped
<1>7. ASSUME NEW n \in Stream!Notifiers, Stream!NotifyNext(n)
      PROVE  ListenersInv' /\ EndpointsTyped'
  <2>1. /\ UNCHANGED <<task, updates, listeners, server, client, late>>
        /\ note[n] > 0
        /\ note' \in {[note EXCEPT ![n] = @ + 1], [note EXCEPT ![n] = 0]}
    BY <1>7 DEF Stream!NotifyNext
  <2>2. note' \in [Stream!Notifiers -> Nat]
    BY <2>1 DEF EndpointsTyped
  <2>3. \/ UNCHANGED <<queue, missed>>
        \/ \E c \in Subs : /\ queue' = [queue EXCEPT ![c] = Stream!Offered(c)]
                           /\ missed' \in [Subs -> BOOLEAN]
    <3> DEFINE c == listeners[note[n]]
    <3>1. CASE ~(note[n] <= Len(listeners) /\ c \notin OtherListeners)
      BY <1>7, <3>1 DEF Stream!NotifyNext
    <3>2. CASE note[n] <= Len(listeners) /\ c \notin OtherListeners
      <4>1. c \in Subs
        <5>1. note[n] \in 1 .. Len(listeners)
          BY <2>1, <3>2 DEF EndpointsTyped, ListenersInv
        <5>2. c \in Subs \cup OtherListeners
          BY <5>1 DEF ListenersInv
        <5> QED BY <3>2, <5>2
      <4>2. /\ queue' = [queue EXCEPT ![c] = Stream!Offered(c)]
            /\ missed' = [missed EXCEPT ![c] = @ \/ (/\ task \in Stream!Terminal
                                                     /\ Len(queue[c]) >= QueueSize)]
        BY <1>7, <3>2 DEF Stream!NotifyNext
      <4>3. missed' \in [Subs -> BOOLEAN]
        <5> DEFINE b == missed[c] \/ (task \in Stream!Terminal /\ Len(queue[c]) >= QueueSize)
        <5>1. missed' = [missed EXCEPT ![c] = b]
          BY <4>2
        <5>2. b \in BOOLEAN
          OBVIOUS
        <5> HIDE DEF b, c
        <5> QED BY <4>1, <5>1, <5>2 DEF EndpointsTyped
      <4> QED BY <4>1, <4>2, <4>3
    <3> QED BY <3>1, <3>2
  <2>4. \A d \in Subs : Len(queue'[d]) <= QueueSize
    BY <1>6, <2>3 DEF EndpointsTyped
  <2>5. missed' \in [Subs -> BOOLEAN]
    BY <2>3 DEF EndpointsTyped
  <2> QED BY <2>1, <2>2, <2>4, <2>5, EndpointsStay DEF EndpointsTyped
<1>8. ASSUME NEW o \in OtherListeners, Stream!OtherJoins(o)
      PROVE  ListenersInv' /\ EndpointsTyped'
  <2>1. /\ ~Registered(o) /\ listeners' = Append(listeners, o)
        /\ UNCHANGED <<task, updates, note, server, queue, client, late, missed>>
    BY <1>8 DEF Stream!OtherJoins, Registered
  <2>2. /\ listeners' \in Seq(Subs \cup OtherListeners) /\ Unique(listeners')
        /\ \A c : Registered(c)' <=> (Registered(c) \/ c = o)
    BY <2>1, AppendListener
  <2>3. ListenersInv'
    BY <1>1, <2>1, <2>2 DEF ListenersInv
  <2> QED BY <2>1, <2>3 DEF EndpointsTyped
<1>9. ASSUME NEW o \in OtherListeners, Stream!OtherLeaves(o)
      PROVE  ListenersInv' /\ EndpointsTyped'
  <2>1. /\ Registered(o) /\ Stream!RemoveListener(o)
        /\ UNCHANGED <<task, updates, note, server, queue, client, late>>
    BY <1>9 DEF Stream!OtherLeaves, Registered
  <2>2. /\ listeners' \in Seq(Subs \cup OtherListeners) /\ Unique(listeners')
        /\ \A c : Registered(c)' <=> (Registered(c) /\ c # o)
        /\ missed' \in [Subs -> BOOLEAN]
    BY <2>1, TakenOut
  <2>3. ListenersInv'
    BY <1>1, <2>1, <2>2 DEF ListenersInv
  <2> QED BY <2>1, <2>2, <2>3 DEF EndpointsTyped
<1>10. ASSUME NEW c \in Subs, Stream!AddListener(c)
       PROVE  ListenersInv' /\ EndpointsTyped'
  <2>1. /\ server[c] = "checked" /\ server' = [server EXCEPT ![c] = "listening"]
        /\ listeners' = Append(listeners, c)
        /\ UNCHANGED <<task, updates, note, queue, client, late, missed>>
    BY <1>10 DEF Stream!AddListener
  <2>2. ~Registered(c)
    BY <2>1 DEF ListenersInv, Served
  <2>3. /\ listeners' \in Seq(Subs \cup OtherListeners) /\ Unique(listeners')
        /\ \A d : Registered(d)' <=> (Registered(d) \/ d = c)
    BY <2>1, <2>2, AppendListener
  <2>4. ListenersInv'
    BY <2>1, <2>3 DEF ListenersInv, EndpointsTyped, Served
  <2> QED BY <2>1, <2>4 DEF EndpointsTyped
<1>11. ASSUME NEW c \in Subs, Stream!Recheck(c)
       PROVE  ListenersInv' /\ EndpointsTyped'
  <2>1. /\ server[c] = "listening" /\ server' = [server EXCEPT ![c] = "rechecked"]
        /\ UNCHANGED <<task, updates, note, listeners, client, late>>
        /\ \/ queue' = [queue EXCEPT ![c] = Stream!Offered(c)]
           \/ UNCHANGED queue
    BY <1>11 DEF Stream!Recheck
  <2>2. missed' \in [Subs -> BOOLEAN]
    <3> DEFINE b == missed[c] \/ Len(queue[c]) >= QueueSize
    <3>1. missed' = [missed EXCEPT ![c] = b] \/ missed' = missed
      BY <1>11 DEF Stream!Recheck
    <3>2. b \in BOOLEAN
      OBVIOUS
    <3> HIDE DEF b
    <3> QED BY <3>1, <3>2 DEF EndpointsTyped
  <2>3. \A d \in Subs : Len(queue'[d]) <= QueueSize
    BY <1>6, <2>1 DEF EndpointsTyped
  <2>4. ListenersInv'
    <3> DEFINE at == "rechecked"
    <3>1. server' = [server EXCEPT ![c] = at] /\ (at \in Served <=> server[c] \in Served)
      BY <2>1 DEF Served
    <3> HIDE DEF at
    <3> QED BY <2>1, <3>1, EndpointMoves
  <2> QED BY <2>1, <2>2, <2>3, <2>4 DEF EndpointsTyped
<1>12. ASSUME NEW c \in Subs, Stream!Snapshot(c)
       PROVE  ListenersInv' /\ EndpointsTyped'
  <2>1. /\ server[c] = "rechecked" /\ server' = [server EXCEPT ![c] = "streaming"]
        /\ UNCHANGED <<task, updates, note, listeners, queue, client, late, missed>>
    BY <1>12 DEF Stream!Snapshot
  <2>2. ListenersInv'
    <3> DEFINE at == "streaming"
    <3>1. server' = [server EXCEPT ![c] = at] /\ (at \in Served <=> server[c] \in Served)
      BY <2>1 DEF Served
    <3> HIDE DEF at
    <3> QED BY <2>1, <3>1, EndpointMoves
  <2> QED BY <2>1, <2>2 DEF EndpointsTyped
<1>13. ASSUME NEW c \in Subs, Stream!Forward(c)
       PROVE  ListenersInv' /\ EndpointsTyped'
  <2>1. /\ server[c] = "streaming" /\ queue[c] # <<>>
        /\ queue' = [queue EXCEPT ![c] = Tail(queue[c])]
        /\ UNCHANGED <<task, updates, note, client, late>>
        /\ \/ server' = [server EXCEPT ![c] = "closed"] /\ Stream!RemoveListener(c)
           \/ UNCHANGED <<server, listeners, missed>>
    BY <1>13 DEF Stream!Forward
  <2>2. \A d \in Subs : Len(queue'[d]) <= QueueSize
    <3>1. queue[c] \in Seq(Stream!Lines) /\ Len(queue[c]) <= QueueSize
      BY <1>1 DEF EndpointsTyped
    <3>2. Len(Tail(queue[c])) <= QueueSize
      BY <1>1, <2>1, <3>1
    <3> QED BY <1>1, <2>1, <3>2 DEF EndpointsTyped
  <2>3. ListenersInv' /\ missed' \in [Subs -> BOOLEAN]
    <3>1. CASE server' = [server EXCEPT ![c] = "closed"] /\ Stream!RemoveListener(c)
      BY <2>1, <3>1, EndpointCloses
    <3>2. CASE UNCHANGED <<server, listeners, missed>>
      BY <3>2, EndpointsStay DEF EndpointsTyped
    <3> QED BY <2>1, <3>1, <3>2
  <2>4. server' \in [Subs -> {"none", "checked", "listening", "rechecked", "streaming", "closed"}]
    BY <2>1 DEF EndpointsTyped
  <2> QED BY <2>1, <2>2, <2>3, <2>4 DEF EndpointsTyped
<1>14. ASSUME NEW c \in Subs, Stream!Hangup(c)
       PROVE  ListenersInv' /\ EndpointsTyped'
  <2>1. /\ server[c] = "streaming" /\ server' = [server EXCEPT ![c] = "closed"]
        /\ Stream!RemoveListener(c) /\ UNCHANGED <<task, updates, note, queue, client, late>>
    BY <1>14 DEF Stream!Hangup
  <2>2. ListenersInv' /\ missed' \in [Subs -> BOOLEAN]
    BY <2>1, EndpointCloses
  <2> QED BY <2>1, <2>2 DEF EndpointsTyped
<1>15. ASSUME NEW c \in Subs, Stream!SendPing(c)
       PROVE  ListenersInv' /\ EndpointsTyped'
  BY <1>2, <1>15 DEF Stream!SendPing, EndpointsTyped
<1>16. ASSUME NEW c \in Subs, Stream!Subscribe(c)
       PROVE  ListenersInv' /\ EndpointsTyped'
  <2>1. /\ UNCHANGED <<task, updates, note, listeners, queue, late, missed>>
        /\ client' = [client EXCEPT ![c] = "reading"] /\ client[c] = "idle"
        /\ \E at \in {"closed", "checked"} : server' = [server EXCEPT ![c] = at]
    BY <1>16 DEF Stream!Subscribe
  <2>2. server[c] = "none"
    BY <2>1 DEF EndpointsTyped
  <2>3. PICK at \in {"closed", "checked"} : server' = [server EXCEPT ![c] = at]
    BY <2>1
  <2>4. at \in Served <=> server[c] \in Served
    BY <2>2 DEF Served
  <2>5. ListenersInv'
    BY <2>1, <2>3, <2>4, EndpointMoves
  <2> QED BY <2>1, <2>3, <2>5 DEF EndpointsTyped
\* The organizer.
<1>17. ASSUME NEW c \in Subs, NEW next \in {"polling", "done"}, Stream!Leave(c, next)
       PROVE  /\ client' \in [Subs -> {"idle", "reading", "polling", "done"}]
              /\ \A d \in Subs : client'[d] = "idle" => client[d] = "idle"
  BY <1>17 DEF Stream!Leave, EndpointsTyped
<1>18. ASSUME NEW c \in Subs, Stream!Read(c) \/ Stream!Poll(c) \/ Stream!PollTimeout(c)
       PROVE  ListenersInv' /\ EndpointsTyped'
  <2>1. UNCHANGED <<task, updates, note, listeners, server, queue, late, missed>>
    BY <1>18 DEF Stream!Read, Stream!Poll, Stream!PollTimeout
  <2>2. UNCHANGED client \/ Stream!Leave(c, "done")
    BY <1>18 DEF Stream!Read, Stream!Poll, Stream!PollTimeout, Stream!Answer
  <2> QED BY <1>2, <1>17, <2>1, <2>2 DEF EndpointsTyped
<1>19. ASSUME NEW c \in Subs, Stream!Disconnect(c)
       PROVE  ListenersInv' /\ EndpointsTyped'
  BY <1>2, <1>17, <1>19 DEF Stream!Disconnect, EndpointsTyped
<1>20. ASSUME NEW c \in Subs, Stream!Deadline(c)
       PROVE  ListenersInv' /\ EndpointsTyped'
  BY <1>2, <1>20 DEF Stream!Deadline, EndpointsTyped
<1> QED BY <1>3, <1>4, <1>7, <1>8, <1>9, <1>10, <1>11, <1>12, <1>13, <1>14, <1>15, <1>16, <1>18,
           <1>19, <1>20
        DEF Stream!Next, Stream!Worker, Stream!Endpoint, Stream!Organizer

\* Hence the types of the model.
LEMMA StreamTypes ==
  ASSUME StreamInv, ListenersInv, EndpointsTyped
  PROVE  Stream!TypeOK
<1>1. \A c \in Subs : ({i \in 1 .. Len(listeners) : listeners[i] = c} # {})
                        <=> server[c] \in {"listening", "rechecked", "streaming"}
  BY DEF ListenersInv, Registered, Served
<1>2. \A i, j \in 1 .. Len(listeners) : listeners[i] = listeners[j] => i = j
  BY DEF ListenersInv, Unique
<1> QED BY <1>1, <1>2 DEF EndpointsTyped, StreamInv, LinesTyped, Stream!TypeOK

-----------------------------------------------------------------------------
(* The conversations.                                                        *)

ConversationsInv ==
  /\ StreamInv /\ ListenersInv /\ EndpointsTyped
  /\ StepsInv /\ WorkBounded
  /\ ChatInv

\* What is not stepped in keeps its invariant.
LEMMA StreamStays ==
  ASSUME StreamInv, ListenersInv, EndpointsTyped, UNCHANGED streamVars
  PROVE  (StreamInv /\ ListenersInv /\ EndpointsTyped)'
<1>1. UNCHANGED <<task, updates, note, listeners, server, queue, wire, client, late, answer, missed>>
  BY DEF streamVars
<1>2. StreamInv'
  BY <1>1 DEF StreamInv, LinesTyped, LinesTrue, Stream!SuccessIsReal
<1>3. ListenersInv' /\ EndpointsTyped'
  BY <1>1, EndpointsStay DEF EndpointsTyped
<1> QED BY <1>2, <1>3

\* The same for the progress.
LEMMA ProgressStays ==
  ASSUME StepsInv, WorkBounded, UNCHANGED stepVars
  PROVE  (StepsInv /\ WorkBounded)'
<1>1. UNCHANGED <<endpoint, plan, taskStatus, progress, copy, rows, made, told, shown, steps, step,
                  org, turn, early>>
  BY DEF stepVars
<1>2. StepsTyped' /\ Quiet' /\ StatusKnown' /\ NothingDone' /\ LastStep'
  BY <1>1 DEF StepsInv, StepsTyped, Quiet, StatusKnown, NothingDone, LastStep, Steps!AllIdle
<1>3. shown' = [p \in Peers |-> shown'[p]] /\ MilestonesKnown'
  BY <1>1 DEF StepsInv, MilestonesKnown
<1>4. Steps!EndIsShown' /\ Steps!RosterSettled'
  BY <1>1 DEF StepsInv, Steps!EndIsShown, Steps!RosterSettled
<1>5. WorkBounded'
  BY <1>1 DEF WorkBounded, Unlisted, Before
<1> QED BY <1>2, <1>3, <1>4, <1>5 DEF StepsInv

\* The same for the chat.
LEMMA ChatStays ==
  ASSUME ChatInv, UNCHANGED chatVars
  PROVE  ChatInv'
<1>1. UNCHANGED <<chatTask, exec, recorded, approval, stepQueue, over, gen, buffer, back, view, returns>>
  BY DEF chatVars
<1>2. ChatTyped' /\ MadeBounded' /\ Places'
  BY <1>1 DEF ChatInv, ChatTyped, MadeBounded, Places, Chat!Gone
<1>3. PICK k : StepsFollow(k)
  BY DEF ChatInv
<1>4. Chat!Buffered' = Chat!Buffered /\ Chat!Gone' = Chat!Gone
  BY <1>1 DEF Chat!Buffered, Chat!Gone
<1>5. StepsFollow(k)'
  BY <1>1, <1>3, <1>4 DEF StepsFollow
<1>6. Records' /\ ShownSome'
  BY <1>1, RecordStays, StillShown DEF ChatInv
<1> QED BY <1>2, <1>5, <1>6 DEF ChatInv

\* The three conversations keep their invariants, each in its own steps and in those of
\* the others.
LEMMA ConversationsInductive == ConversationsSpec => []ConversationsInv
<1>1. ConversationsInit => ConversationsInv
  <2> SUFFICES ASSUME ConversationsInit PROVE ConversationsInv
    OBVIOUS
  <2>1. Stream!Init /\ Chat!Init /\ Steps!StepInit
    BY DEF ConversationsInit
  <2> QED BY <2>1, StreamBegins, EndpointsBegin, StepsBegin, WorkBegins, ChatBegins
          DEF ConversationsInv
<1>2. ConversationsInv /\ [ConversationsNext]_<<part, streamVars, chatVars, stepVars>>
        => ConversationsInv'
  <2> SUFFICES ASSUME ConversationsInv,
                      [ConversationsNext]_<<part, streamVars, chatVars, stepVars>>
               PROVE  ConversationsInv'
    OBVIOUS
  <2>1. /\ StreamInv /\ ListenersInv /\ EndpointsTyped
        /\ StepsInv /\ WorkBounded /\ ChatInv
    BY DEF ConversationsInv
  <2>2. \/ Stream!Next /\ UNCHANGED <<chatVars, stepVars>>
        \/ Chat!Next /\ UNCHANGED <<streamVars, stepVars>>
        \/ Steps!StepNext /\ UNCHANGED <<streamVars, chatVars>>
        \/ UNCHANGED <<streamVars, chatVars, stepVars>>
    BY DEF ConversationsNext
  <2>3. StreamInv' /\ ListenersInv' /\ EndpointsTyped'
    <3>1. CASE Stream!Next
      BY <2>1, <3>1, StreamStep, EndpointsStep
    <3>2. CASE UNCHANGED streamVars
      BY <2>1, <3>2, StreamStays
    <3> QED BY <2>2, <3>1, <3>2
  <2>4. StepsInv' /\ WorkBounded'
    <3>1. CASE Steps!StepNext
      BY <2>1, <3>1, StepsStep, WorkStep
    <3>2. CASE UNCHANGED stepVars
      BY <2>1, <3>2, ProgressStays
    <3> QED BY <2>2, <3>1, <3>2
  <2>5. ChatInv'
    <3>1. CASE Chat!Next
      BY <2>1, <3>1, ChatStep
    <3>2. CASE UNCHANGED chatVars
      BY <2>1, <3>2, ChatStays
    <3> QED BY <2>2, <3>1, <3>2
  <2> QED BY <2>3, <2>4, <2>5 DEF ConversationsInv
<1>3. ConversationsSpec
        => ConversationsInit /\ [][ConversationsNext]_<<part, streamVars, chatVars, stepVars>>
  BY DEF ConversationsSpec
<1> QED BY <1>1, <1>2, <1>3, PTL

\* The chat view shows the first steps of the execution, each once and in order, wherever
\* it is taken up again, or what the task had recorded when its buffer is gone; the progress of a task is that of its end at the end, and in the
\* execute endpoint not before; the milestones of nodes are shown, and the roster comes to
\* rest.  For any number of steps, returns, workers, nodes, reports and rounds.
THEOREM ShownTrue == ConversationsSpec => []ShownIsTrue
<1>1. ConversationsInv => ShownIsTrue
  BY ProgressShown, ViewShown DEF ConversationsInv, ShownIsTrue
<1> QED BY <1>1, ConversationsInductive, PTL

\* An organizer that ends with success has a task that is completed on its worker: the
\* safety half of OutcomeIsLearnt, for any subscribers, listeners and size of the queues.
THEOREM SuccessReal == ConversationsSpec => []Stream!SuccessIsReal
<1>1. ConversationsInv => Stream!SuccessIsReal
  BY DEF ConversationsInv, StreamInv
<1> QED BY <1>1, ConversationsInductive, PTL

\* The variables of the conversations have their types; a subscriber is a listener, once,
\* exactly while its endpoint serves it; and the bounds hold.
THEOREM ConversationsTypes == ConversationsSpec => []ConversationsTypeOK
<1>1. ConversationsInv => ConversationsTypeOK
  BY StreamTypes, StepTypes, ViewShown DEF ConversationsInv, ConversationsTypeOK
<1> QED BY <1>1, ConversationsInductive, PTL
=============================================================================
