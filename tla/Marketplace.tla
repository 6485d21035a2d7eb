----------------------------- MODULE Marketplace -----------------------------
(***************************************************************************)
(* Agentic Nodes and the central server's marketplace: on every node the    *)
(* client (communication/central_client.py) with its heartbeat loop, and    *)
(* the join, update, leave and status endpoints (api/server.py), which      *)
(* interleave where they wait for the server.                               *)
(*                                                                         *)
(* A request may fail before or after the server has handled it, and a      *)
(* registration may be handled after its client gave up.  A node runs at    *)
(* most one call of each endpoint at a time; update calls the server like   *)
(* join.  The marketplace is enabled, the configured default.               *)
(***************************************************************************)
EXTENDS CentralServer

CONSTANTS HeartbeatEvery,  \* agentanet_central.heartbeat_interval
          Tolerated,       \* heartbeats that may fail in a row
          MaxCalls         \* bound: calls under way at a node

\* The defaults allow three failures: an interval of 60, a threshold of 300.
ASSUME HeartbeatAssumption ==
  /\ HeartbeatEvery \in Nat \ {0}
  /\ Tolerated \in Nat
  /\ (Tolerated + 1) * HeartbeatEvery < OfflineAfter
  /\ MaxCalls \in Nat

VARIABLES cred,        \* per node: its configured token
          registered,  \* _is_registered
          loop,        \* _heartbeat_task
          due,         \* ticks until the next heartbeat
          listing,     \* is there an entry in _marketplace_listings?
          join,        \* where the join (or update) call is
          leave,       \* where the leave call is
          status,      \* where the status call is, or the reply it got
          late,        \* is there a registration whose client gave up?
          missed,      \* history: heartbeats failed since the last accepted
          left         \* history: no other call since a leave was verified?

client == <<cred, registered, loop, due, listing, join, leave, status, late, missed, left>>
calls == <<join, leave, status, late>>
vars == <<central, client>>

Lost == Tolerated + 1

Init ==
  /\ CentralInit
  /\ cred = [n \in Nodes |-> "none"]
  /\ registered = [n \in Nodes |-> FALSE]
  /\ loop = [n \in Nodes |-> "none"]
  /\ due = [n \in Nodes |-> HeartbeatEvery]
  /\ listing = [n \in Nodes |-> FALSE]
  /\ join = [n \in Nodes |-> "idle"]
  /\ leave = [n \in Nodes |-> "idle"]
  /\ status = [n \in Nodes |-> "idle"]
  /\ late = [n \in Nodes |-> FALSE]
  /\ missed = [n \in Nodes |-> Lost]
  /\ left = [n \in Nodes |-> "no"]

\* Does the server accept what the node sends?
Accepts(n) == cred[n] = "current" /\ Authorised(n)

-----------------------------------------------------------------------------
(* The administrator and the users, and the token they configure.            *)

Stale(ns) == cred' = [n \in Nodes |-> IF n \in ns /\ cred[n] = "current" THEN "stale"
                                      ELSE cred[n]]

\* A node is taken off the list by someone else: its heartbeats will fail.
Removed(ns) == missed' = [n \in Nodes |-> IF n \in ns THEN Lost ELSE missed[n]]

Account ==
  /\ \E u \in Users : \/ Login(u) \/ Suspend(u) \/ Unsuspend(u)
                      \/ \E n \in Nodes, asked \in Lives : CreateToken(u, n, asked)
  /\ UNCHANGED client

Revocation ==
  /\ \/ \E u \in Users : DeleteUser(u) /\ Stale(TokensOf(u)) /\ Removed(TokensOf(u))
     \/ \E n \in Nodes : RevokeToken(n) /\ Stale({n}) /\ Removed({n})
     \/ \E n \in Nodes : RefreshToken(n) /\ Stale({n}) /\ UNCHANGED missed
     \/ ResetAllData /\ Stale(Nodes) /\ Removed(Nodes)
     \/ \E n \in Nodes : AdminDeleteNode(n) /\ Removed({n}) /\ UNCHANGED cred
  /\ UNCHANGED <<registered, loop, due, listing, calls, left>>

\* The token of n's settings is set to the current one, or removed (bound: only
\* between calls).
Configure(n) ==
  /\ join[n] = "idle" /\ leave[n] = "idle" /\ status[n] = "idle"
  /\ \/ n \in DOMAIN token /\ cred' = [cred EXCEPT ![n] = "current"]
     \/ cred' = [cred EXCEPT ![n] = "none"]
  /\ UNCHANGED <<central, registered, loop, due, listing, calls, missed, left>>

-----------------------------------------------------------------------------
(* The heartbeat loop.                                                       *)

\* start_heartbeat_loop does nothing while there is a task.
StartLoop(n) ==
  IF loop[n] = "none"
  THEN /\ loop' = [loop EXCEPT ![n] = "running"]
       /\ due' = [due EXCEPT ![n] = HeartbeatEvery]
       /\ missed' = [missed EXCEPT ![n] = Lost]
  ELSE UNCHANGED <<loop, due, missed>>

BeatDue(n) == loop[n] = "running" /\ due[n] = 0

\* The loop wakes up and sends a heartbeat if the node is registered, which the
\* server accepts, refuses or never gets.  The loop takes no notice.
Beat(n) ==
  /\ BeatDue(n)
  /\ due' = [due EXCEPT ![n] = HeartbeatEvery]
  /\ \/ /\ registered[n] /\ cred[n] = "current"
        /\ Heartbeat(n)
        /\ missed' = [missed EXCEPT ![n] = 0]
     \/ /\ missed' = [missed EXCEPT ![n] = IF @ = Lost THEN @ ELSE @ + 1]
        /\ UNCHANGED central
  /\ UNCHANGED <<cred, registered, loop, listing, calls, left>>

\* Loops wake up in time.
Tick ==
  /\ \A n \in Nodes : ~BeatDue(n)
  /\ CentralTick
  /\ due' = [n \in Nodes |-> IF loop[n] = "running" THEN due[n] - 1 ELSE due[n]]
  /\ UNCHANGED <<cred, registered, loop, listing, calls, missed, left>>

Check == HealthCheck /\ UNCHANGED client

-----------------------------------------------------------------------------
(* join_marketplace, update_marketplace_listing.                             *)

UnderWay(n) ==
  {call \in {"join", "leave", "status", "late"} :
     \/ call = "join" /\ join[n] # "idle"
     \/ call = "leave" /\ leave[n] # "idle"
     \/ call = "status" /\ status[n] # "idle"
     \/ call = "late" /\ late[n]}

MayCall(n) == Cardinality(UnderWay(n)) < MaxCalls

\* A call that overlaps a leave, or follows it.
Disturb(n) == left' = [left EXCEPT ![n] = "no"]

JoinSend(n) ==
  /\ cred[n] # "none" /\ join[n] = "idle" /\ MayCall(n)
  /\ join' = [join EXCEPT ![n] = "sent"]
  /\ Disturb(n)
  /\ UNCHANGED <<central, cred, registered, loop, due, listing, leave, status, late, missed>>

JoinHandle(n) ==
  /\ join[n] = "sent" /\ cred[n] = "current"
  /\ Register(n)
  /\ join' = [join EXCEPT ![n] = "accepted"]
  /\ UNCHANGED <<cred, registered, loop, due, listing, leave, status, late, missed, left>>

\* The server refuses, or there is no reply in time.
JoinFail(n) ==
  /\ join[n] \in {"sent", "accepted"}
  /\ join' = [join EXCEPT ![n] = "idle"]
  /\ \/ UNCHANGED late
     \/ join[n] = "sent" /\ cred[n] = "current" /\ late' = [late EXCEPT ![n] = TRUE]
  /\ UNCHANGED <<central, cred, registered, loop, due, listing, leave, status, missed, left>>

JoinDone(n) ==
  /\ join[n] = "accepted"
  /\ join' = [join EXCEPT ![n] = "idle"]
  /\ registered' = [registered EXCEPT ![n] = TRUE]
  /\ StartLoop(n)
  /\ listing' = [listing EXCEPT ![n] = TRUE]
  /\ UNCHANGED <<central, cred, leave, status, late, left>>

\* A registration whose client gave up reaches the server, or does not.
JoinLate(n) ==
  /\ late[n]
  /\ late' = [late EXCEPT ![n] = FALSE]
  /\ \/ cred[n] = "current" /\ Register(n)
     \/ UNCHANGED central
  /\ UNCHANGED <<cred, registered, loop, due, listing, join, leave, status, missed, left>>

-----------------------------------------------------------------------------
(* leave_marketplace.                                                        *)

LeaveSend(n) ==
  /\ cred[n] # "none" /\ leave[n] = "idle" /\ MayCall(n)
  /\ leave' = [leave EXCEPT ![n] = "unlisting"]
  /\ Disturb(n)
  /\ UNCHANGED <<central, cred, registered, loop, due, listing, join, status, late, missed>>

LeaveUnlist(n) ==
  /\ leave[n] = "unlisting" /\ cred[n] = "current"
  /\ Unlist(n)
  /\ leave' = [leave EXCEPT ![n] = "verifying"]
  /\ missed' = [missed EXCEPT ![n] = Lost]
  /\ UNCHANGED <<cred, registered, loop, due, listing, join, status, late, left>>

\* No other call is under way.
Quiet(n) == join[n] = "idle" /\ status[n] = "idle" /\ ~late[n]

\* Leaving is verified with the server: its reply must be that the node exists
\* and is not listed.  (The mutated form takes the reply for granted.)
Unverified(n) == TRUE

Verified(n) == Accepts(n) /\ n \in DOMAIN node /\ ~Listed(n)

LeaveVerify(n) ==
  /\ leave[n] = "verifying"
  /\ Verified(n)
  /\ leave' = [leave EXCEPT ![n] = "verified"]
  /\ left' = [left EXCEPT ![n] = IF Quiet(n) THEN "calm" ELSE "no"]
  /\ UNCHANGED <<central, cred, registered, loop, due, listing, join, status, late, missed>>

LeaveFail(n) ==
  /\ leave[n] \in {"unlisting", "verifying"}
  /\ leave' = [leave EXCEPT ![n] = "idle"]
  /\ Disturb(n)
  /\ UNCHANGED <<central, cred, registered, loop, due, listing, join, status, late, missed>>

\* The loop's task is cancelled and awaited, if there is one.
LeaveStopLoop(n) ==
  /\ leave[n] = "verified"
  /\ registered' = [registered EXCEPT ![n] = FALSE]
  /\ leave' = [leave EXCEPT ![n] = "stopping"]
  /\ loop' = [loop EXCEPT ![n] = IF @ = "running" THEN "stopping" ELSE @]
  /\ UNCHANGED <<central, cred, due, listing, join, status, late, missed, left>>

LeaveDone(n) ==
  /\ leave[n] = "stopping"
  /\ leave' = [leave EXCEPT ![n] = "idle"]
  /\ loop' = [loop EXCEPT ![n] = IF @ = "stopping" THEN "none" ELSE @]
  /\ listing' = [listing EXCEPT ![n] = FALSE]
  /\ left' = [left EXCEPT ![n] = IF @ = "calm" THEN "yes" ELSE "no"]
  /\ UNCHANGED <<central, cred, registered, due, join, status, late, missed>>

\* Without a token, only the local listing is removed.
LeaveLocally(n) ==
  /\ cred[n] = "none" /\ leave[n] = "idle"
  /\ listing' = [listing EXCEPT ![n] = FALSE]
  /\ UNCHANGED <<central, cred, registered, loop, due, calls, missed, left>>

-----------------------------------------------------------------------------
(* get_marketplace_status.                                                   *)

StatusSend(n) ==
  /\ status[n] = "idle" /\ MayCall(n)
  /\ IF cred[n] = "none"
     THEN listing' = [listing EXCEPT ![n] = FALSE] /\ UNCHANGED status
     ELSE status' = [status EXCEPT ![n] = "sent"] /\ UNCHANGED listing
  /\ left' = [left EXCEPT ![n] = IF @ = "calm" THEN "no" ELSE @]
  /\ UNCHANGED <<central, cred, registered, loop, due, join, leave, late, missed>>

StatusReply(n) ==
  /\ status[n] = "sent" /\ Accepts(n)
  /\ status' = [status EXCEPT ![n] = IF n \notin DOMAIN node THEN "absent"
                                     ELSE IF Listed(n) THEN "listed" ELSE "unlisted"]
  /\ UNCHANGED <<central, cred, registered, loop, due, listing, join, leave, late, missed, left>>

\* The local listing is the answer.
StatusFail(n) ==
  /\ status[n] # "idle"
  /\ status' = [status EXCEPT ![n] = "idle"]
  /\ UNCHANGED <<central, cred, registered, loop, due, listing, join, leave, late, missed, left>>

StatusAbsent(n) ==
  /\ status[n] = "absent"
  /\ status' = [status EXCEPT ![n] = "idle"]
  /\ registered' = [registered EXCEPT ![n] = FALSE]
  /\ listing' = [listing EXCEPT ![n] = FALSE]
  /\ UNCHANGED <<central, cred, loop, due, join, leave, late, missed, left>>

\* The answer is that the node is listed, whether it is or not: get_my_node
\* returns the row in both cases.
StatusNode(n) ==
  /\ status[n] \in {"listed", "unlisted"}
  /\ status' = [status EXCEPT ![n] = "idle"]
  /\ registered' = [registered EXCEPT ![n] = status[n] = "listed"]
  /\ StartLoop(n)
  /\ listing' = [listing EXCEPT ![n] = TRUE]
  /\ UNCHANGED <<central, cred, join, leave, late, left>>

-----------------------------------------------------------------------------
\* The node restarts: its settings remain.
Restart(n) ==
  /\ registered' = [registered EXCEPT ![n] = FALSE]
  /\ loop' = [loop EXCEPT ![n] = "none"]
  /\ listing' = [listing EXCEPT ![n] = FALSE]
  /\ join' = [join EXCEPT ![n] = "idle"]
  /\ leave' = [leave EXCEPT ![n] = "idle"]
  /\ status' = [status EXCEPT ![n] = "idle"]
  /\ late' = [late EXCEPT ![n] = @ \/ join[n] = "sent"]
  /\ left' = [left EXCEPT ![n] = IF @ = "calm" THEN "no" ELSE @]
  /\ UNCHANGED <<central, cred, due, missed>>

Join(n) == JoinSend(n) \/ JoinHandle(n) \/ JoinFail(n) \/ JoinDone(n) \/ JoinLate(n)
Leave(n) == \/ LeaveSend(n) \/ LeaveUnlist(n) \/ LeaveVerify(n) \/ LeaveFail(n)
            \/ LeaveStopLoop(n) \/ LeaveDone(n) \/ LeaveLocally(n)
AskStatus(n) == \/ StatusSend(n) \/ StatusReply(n) \/ StatusFail(n)
                \/ StatusAbsent(n) \/ StatusNode(n)

Next ==
  \/ Account \/ Revocation \/ Tick \/ Check
  \/ \E n \in Nodes : \/ Configure(n) \/ Beat(n) \/ Restart(n)
                      \/ Join(n) \/ Leave(n) \/ AskStatus(n)

\* Time passes, the server's check runs and the loops wake up; nothing else has
\* to happen.
Fairness == WF_vars(Tick) /\ WF_vars(Check) /\ \A n \in Nodes : WF_vars(Beat(n))

Spec == Init /\ [][Next]_vars /\ Fairness

-----------------------------------------------------------------------------
(* Properties.                                                               *)

\* The variables of server and clients have their types, and the server's rows
\* are consistent.
TypeOK ==
  /\ CentralTypeOK
  /\ cred \in [Nodes -> {"none", "current", "stale"}]
  /\ registered \in [Nodes -> BOOLEAN]
  /\ loop \in [Nodes -> {"none", "running", "stopping"}]
  /\ due \in [Nodes -> 0 .. HeartbeatEvery]
  /\ listing \in [Nodes -> BOOLEAN]
  /\ join \in [Nodes -> {"idle", "sent", "accepted"}]
  /\ leave \in [Nodes -> {"idle", "unlisting", "verifying", "verified", "stopping"}]
  /\ status \in [Nodes -> {"idle", "sent", "absent", "listed", "unlisted"}]
  /\ late \in [Nodes -> BOOLEAN]
  /\ missed \in [Nodes -> 0 .. Lost]
  /\ left \in [Nodes -> {"no", "calm", "yes"}]

\* What the server lists follows what the node does.  A node whose heartbeats
\* arrive, but for Tolerated of them in a row, and that nobody removes is listed and
\* shown online, although the server's check may run at any time.  And a leave that
\* succeeded is final until the next join, unless another call was under way when the
\* server confirmed it: the server does not list the node and the client sends no
\* heartbeats.  Calls that ended before do no harm.
ListingFollowsNode ==
  \A n \in Nodes :
    /\ loop[n] = "running" /\ missed[n] <= Tolerated
         => Listed(n) /\ EffectiveStatus(n) = "online"
    /\ left[n] = "yes" => ~Listed(n) /\ ~registered[n]
=============================================================================
