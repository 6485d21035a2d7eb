---------------------------- MODULE WorkforcePool ----------------------------
(***************************************************************************)
(* The workforce pool of src/teaming24/agent/workforce_pool.py: the local  *)
(* team and every node the network manager or the marketplace knows, each  *)
(* once.  A raw record is what one of the two sources says of a node;      *)
(* `Missing' stands for an empty field.  The marketplace hands over        *)
(* dictionaries, which are checked and normalised; the network manager     *)
(* hands over NodeInfo objects.                                            *)
(***************************************************************************)
EXTENDS Naturals, Sequences, SequencesExt

CONSTANT Missing

LOCAL_COORDINATOR_ID == "local-coordinator"

\* Fields of a raw record: is it a dictionary, is it online, its names.
RawNode(Values) ==
  [dict: BOOLEAN, online: BOOLEAN, id: Values, an_id: Values, agent_id: Values,
   wallet: Values, endpoint: Values, name: Values, cost: Nat]

\* The first of the values that is there.
FirstGiven(s) ==
  IF \E i \in DOMAIN s : s[i] # Missing
  THEN s[CHOOSE i \in DOMAIN s : s[i] # Missing /\ \A j \in 1 .. i - 1 : s[j] = Missing]
  ELSE Missing

-----------------------------------------------------------------------------
(* _coerce_node: a dictionary needs an identifier and an address, and its    *)
(* an_id lives on only where the id or the agent_id is missing.              *)

DictId(n) == FirstGiven(<<n.id, n.an_id, n.agent_id>>)

Usable(n) == n.dict => DictId(n) # Missing /\ n.endpoint # Missing

Coerced(n) ==
  IF n.dict
  THEN [n EXCEPT !.id = DictId(n), !.an_id = Missing,
                 !.agent_id = FirstGiven(<<n.agent_id, n.an_id>>),
                 !.name = FirstGiven(<<n.name, DictId(n)>>)]
  ELSE n

PickId(n) == FirstGiven(<<n.id, n.an_id, n.agent_id, n.wallet, n.endpoint>>)

\* The keys under which two records are taken for the same node.
IdentityTokens(n) ==
  {t \in {<<"id", n.id>>, <<"an_id", n.an_id>>, <<"agent_id", n.agent_id>>,
          <<"wallet", n.wallet>>, <<"endpoint", n.endpoint>>, <<"id", PickId(n)>>} :
     t[2] # Missing}

-----------------------------------------------------------------------------
LocalEntry ==
  [id |-> LOCAL_COORDINATOR_ID, name |-> "local team coordinator", remote |-> FALSE,
   endpoint |-> Missing, cost |-> 0, tokens |-> {}]

RemoteEntry(n) ==
  [id |-> PickId(n), name |-> FirstGiven(<<n.name, PickId(n)>>), remote |-> TRUE,
   endpoint |-> n.endpoint, cost |-> n.cost, tokens |-> IdentityTokens(n)]

Eligible(n) ==
  /\ Usable(n)
  /\ n.online
  /\ PickId(Coerced(n)) \notin {Missing, LOCAL_COORDINATOR_ID}

\* (The mutated form of Known: only the identifiers are compared.)
KnownById(pool, e) == \E i \in DOMAIN pool : pool[i].id = e.id

\* Is the node, under one of its keys, in the pool already?
Known(pool, e) ==
  \E i \in DOMAIN pool : pool[i].remote
                         /\ (pool[i].id = e.id \/ pool[i].tokens \cap e.tokens # {})

Add(pool, n) ==
  IF Eligible(n) /\ ~Known(pool, RemoteEntry(Coerced(n)))
  THEN Append(pool, RemoteEntry(Coerced(n)))
  ELSE pool

\* get_pool: the local team first, then the nodes the sources know of now, in their
\* order.
GetPool(nodes, seen) ==
  LET after[k \in 0 .. Len(nodes)] ==
        IF k = 0 THEN <<LocalEntry>>
        ELSE IF nodes[k] \in seen THEN Add(after[k - 1], nodes[k]) ELSE after[k - 1]
  IN  after[Len(nodes)]
=============================================================================
