---------------------------- MODULE CentralServer ----------------------------
(***************************************************************************)
(* The AgentaNet central server: users, API tokens, records of revoked      *)
(* tokens and the marketplace's nodes (agentanet_central/backend/app).      *)
(*                                                                         *)
(* Each handler runs between its authentication and its commit without a    *)
(* suspension, so it is one action; the probe of verify_on_register, off by *)
(* default, is left out.  A table is a function from its keys to its rows.  *)
(* Instead of the times they hold, rows carry their ages, up to the largest *)
(* one a threshold tells apart.                                            *)
(***************************************************************************)
EXTENDS Naturals, FiniteSets, Functions

CONSTANTS Users,         \* GitHub accounts, other than the administrator's
          Nodes,         \* node ids, chosen by the users
          Lives,         \* expires_in_days of the requests, 0 for none
          ConfigLife,    \* security.token_expire_days, 0 for none
          MaxTokens,     \* security.token_max_per_user
          OfflineAfter,  \* health_check.offline_threshold
          DelistAfter,   \* health_check.delist_threshold
          PurgeAfter,    \* health_check.purge_threshold
          TokenIds       \* bound: the ids of tokens are 1 .. TokenIds

ASSUME CentralAssumption ==
  /\ IsFiniteSet(Nodes)
  /\ Lives \subseteq Nat
  /\ ConfigLife \in Nat
  /\ MaxTokens \in Nat \ {0}
  /\ OfflineAfter \in Nat \ {0}
  /\ DelistAfter \in Nat /\ OfflineAfter <= DelistAfter
  /\ PurgeAfter \in Nat /\ DelistAfter <= PurgeAfter
  /\ TokenIds \in Nat

VARIABLES user,     \* users: the accounts, and whether they are suspended
          token,    \* tokens, by node id (unique)
          revoked,  \* revoked_tokens: age of the last record, by node id
          node,     \* nodes, by node id
          issued    \* number of tokens created

central == <<user, token, revoked, node, issued>>

\* A token's life, in ticks; 0 for no expiry.
Life(days) == [expires |-> days > 0, left |-> days]

Older(age) == IF age > PurgeAfter THEN age ELSE age + 1

Drop(table, keys) == Restrict(table, DOMAIN table \ keys)

Put(table, key, row) == [k \in DOMAIN table \cup {key} |-> IF k = key THEN row ELSE table[k]]

Listed(n) == n \in DOMAIN node /\ node[n].is_listed

\* The status shown to clients.
EffectiveStatus(n) ==
  IF Listed(n) /\ node[n].status = "online" /\ node[n].age < OfflineAfter
  THEN "online" ELSE "offline"

CentralInit ==
  /\ user = <<>>
  /\ token = <<>>
  /\ revoked = <<>>
  /\ node = <<>>
  /\ issued = 0

-----------------------------------------------------------------------------
(* Accounts.                                                                 *)

Login(u) ==
  /\ u \notin DOMAIN user
  /\ user' = Put(user, u, "active")
  /\ UNCHANGED <<token, revoked, node, issued>>

Suspend(u) ==
  /\ u \in DOMAIN user
  /\ user' = [user EXCEPT ![u] = "suspended"]
  /\ UNCHANGED <<token, revoked, node, issued>>

Unsuspend(u) ==
  /\ u \in DOMAIN user
  /\ user' = [user EXCEPT ![u] = "active"]
  /\ UNCHANGED <<token, revoked, node, issued>>

TokensOf(u) == {n \in DOMAIN token : token[n].owner = u}

\* The tokens go with their owner, the nodes of these tokens are deleted by the
\* token's id.  No record of revocation is left.
DeleteUser(u) ==
  /\ u \in DOMAIN user
  /\ user' = Drop(user, {u})
  /\ token' = Drop(token, TokensOf(u))
  /\ node' = Drop(node, {m \in DOMAIN node :
                           \E n \in TokensOf(u) : token[n].id = node[m].token_id})
  /\ UNCHANGED <<revoked, issued>>

ResetAllData ==
  /\ user' = <<>>
  /\ token' = <<>>
  /\ revoked' = <<>>
  /\ node' = <<>>
  /\ UNCHANGED issued

-----------------------------------------------------------------------------
(* Tokens.                                                                   *)

\* Only an active user has a session that get_current_user lets pass.
InSession(u) == u \in DOMAIN user /\ user[u] = "active"

CreateToken(u, n, asked) ==
  /\ InSession(u)
  /\ Cardinality(TokensOf(u)) < MaxTokens
  /\ n \notin DOMAIN token \cup DOMAIN revoked
  /\ issued < TokenIds
  /\ issued' = issued + 1
  /\ token' = Put(token, n, [id |-> issued + 1, owner |-> u,
                             life |-> Life(IF asked > 0 THEN asked ELSE ConfigLife)])
  /\ UNCHANGED <<user, revoked, node>>

\* The row of the token stays, with a new secret.
RefreshToken(n) ==
  /\ n \in DOMAIN token /\ InSession(token[n].owner)
  /\ revoked' = Put(revoked, n, 0)
  /\ token' = IF ConfigLife > 0 THEN [token EXCEPT ![n].life = Life(ConfigLife)] ELSE token
  /\ UNCHANGED <<user, node, issued>>

\* (The mutated form leaves the node.)
NodeKeptOnRevoke(n) == node

NodesAfterRevoke(n) == Drop(node, {n})

RevokeToken(n) ==
  /\ n \in DOMAIN token /\ InSession(token[n].owner)
  /\ revoked' = Put(revoked, n, 0)
  /\ node' = NodesAfterRevoke(n)
  /\ token' = Drop(token, {n})
  /\ UNCHANGED <<user, issued>>

-----------------------------------------------------------------------------
(* The marketplace's endpoints for nodes.  Each authenticates with a token.  *)

HasExpired(n) == token[n].life.expires /\ token[n].life.left = 0

\* get_token_auth: the token exists, has not expired, and its owner is not
\* suspended.
Authorised(n) ==
  /\ n \in DOMAIN token
  /\ ~HasExpired(n)
  /\ token[n].owner \in DOMAIN user => user[token[n].owner] # "suspended"

Register(n) ==
  /\ Authorised(n)
  /\ node' = Put(node, n, [token_id |-> IF n \in DOMAIN node THEN node[n].token_id
                                        ELSE token[n].id,
                           is_listed |-> TRUE, status |-> "online", age |-> 0])
  /\ UNCHANGED <<user, token, revoked, issued>>

\* The reply of a heartbeat that is accepted is 200, else 404 or 409.
AcceptsHeartbeat(n) == Authorised(n) /\ Listed(n)

\* (The mutated form does not update last_seen.)
SeenOnlyOnline(n) == node' = [node EXCEPT ![n].status = "online"]

Seen(n) == node' = [node EXCEPT ![n].status = "online", ![n].age = 0]

Heartbeat(n) ==
  /\ AcceptsHeartbeat(n)
  /\ Seen(n)
  /\ UNCHANGED <<user, token, revoked, issued>>

Unlisted(n) ==
  [node EXCEPT ![n].is_listed = FALSE, ![n].status = "offline", ![n].age = 0]

\* Succeeds also if there is no such node.
Unlist(n) ==
  /\ Authorised(n)
  /\ node' = IF n \in DOMAIN node THEN Unlisted(n) ELSE node
  /\ UNCHANGED <<user, token, revoked, issued>>

AdminDeleteNode(n) ==
  /\ n \in DOMAIN node
  /\ node' = Drop(node, {n})
  /\ UNCHANGED <<user, token, revoked, issued>>

-----------------------------------------------------------------------------
(* The health check, one transaction, and the passing of time.               *)

StatusAfterCheck(n) ==
  IF node[n].status = "online" /\ node[n].age > OfflineAfter THEN "offline"
  ELSE node[n].status

\* (The mutated form never delists.)
StillListed(n) == node[n].is_listed

ListedAfterCheck(n) ==
  /\ node[n].is_listed
  /\ ~(StatusAfterCheck(n) = "offline" /\ node[n].age > DelistAfter)

PurgedByCheck(n) ==
  /\ ~ListedAfterCheck(n)
  /\ StatusAfterCheck(n) = "offline"
  /\ node[n].age > PurgeAfter

HealthCheck ==
  /\ node' = [n \in {m \in DOMAIN node : ~PurgedByCheck(m)} |->
                [node[n] EXCEPT !.status = StatusAfterCheck(n),
                                !.is_listed = ListedAfterCheck(n)]]
  /\ revoked' = Drop(revoked, {n \in DOMAIN revoked : revoked[n] > PurgeAfter})
  /\ UNCHANGED <<user, token, issued>>

CentralTick ==
  /\ token' = [n \in DOMAIN token |-> 
                [token[n] EXCEPT !.life.left = IF @ = 0 THEN 0 ELSE @ - 1]]
  /\ revoked' = [n \in DOMAIN revoked |-> Older(revoked[n])]
  /\ node' = [n \in DOMAIN node |-> [node[n] EXCEPT !.age = Older(@)]]
  /\ UNCHANGED <<user, issued>>

-----------------------------------------------------------------------------
(* Properties of the tables.                                                 *)

Row == [id : 1 .. TokenIds, owner : Users, 
        life : [expires : BOOLEAN, left : Nat]]
NodeRow == [token_id : 1 .. TokenIds, is_listed : BOOLEAN,
            status : {"online", "offline"}, age : 0 .. PurgeAfter + 1]

\* The rows have their type.  A node is in the marketplace only while the very
\* token it was registered with exists: after a revocation, the deletion of the
\* user or the creation of another token with the same node id no entry of a
\* former owner is left.  And a node that is not listed is not online either,
\* whatever heartbeats arrive, so that its row is purged in the end.
CentralTypeOK ==
  /\ DOMAIN user \subseteq Users
  /\ \A u \in DOMAIN user : user[u] \in {"active", "suspended"}
  /\ DOMAIN token \subseteq Nodes
  /\ \A n \in DOMAIN token : token[n] \in Row /\ token[n].owner \in DOMAIN user
  /\ DOMAIN revoked \subseteq Nodes
  /\ \A n \in DOMAIN revoked : revoked[n] \in 0 .. PurgeAfter + 1
  /\ DOMAIN node \subseteq Nodes
  /\ \A n \in DOMAIN node :
       /\ node[n] \in NodeRow
       /\ n \in DOMAIN token /\ token[n].id = node[n].token_id
       /\ ~node[n].is_listed => node[n].status = "offline"
  /\ issued \in 0 .. TokenIds

\* No ghosts: a node that is listed and silent is heard of again or delisted in
\* the end, whether it crashed, left without a word, or sends heartbeats that
\* are refused because its token is invalid or its owner suspended.
GhostsLeave ==
  \A n \in Nodes : (Listed(n) /\ node[n].age > 0) ~> (~Listed(n) \/ node[n].age = 0)
=============================================================================
