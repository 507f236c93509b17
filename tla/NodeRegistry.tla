---------------------------- MODULE NodeRegistry ----------------------------
(***************************************************************************)
(* The monitored nodes: the tables nodes and node_hashes, the admin        *)
(* request of explorer-api that names a node and binds a hash to it        *)
(* (NodeService.updateNodeExtraDetails), and the task of live-app that     *)
(* fetches the nodes' data once a minute (NodeService.updateNodesData).    *)
(*                                                                         *)
(* The two run in different processes.  The request is a database          *)
(* transaction: it reads from the snapshot of its first query, and its     *)
(* writes become visible when it commits.  The task is not: it loads the   *)
(* nodes with their hashes, waits for several HTTP calls, and then saves   *)
(* the entities it loaded.  TypeORM's save() of a node whose nodeHashes    *)
(* are loaded reconciles the one-to-many relation: a hash of the entity    *)
(* that is no longer bound to the node is bound to it again, and a hash    *)
(* bound to the node that the entity does not have gets a NULL nodeId.     *)
(***************************************************************************)
EXTENDS Integers, FiniteSets

CONSTANTS
  Hash,      \* node hashes
  Name,      \* node names
  Request,   \* admin requests that may run at the same time
  None,      \* no name
  MaxNodes,  \* bound: rows of nodes
  MaxHashes, \* bound: rows of node_hashes
  MaxPasses, \* bound: passes of the task
  MaxActors  \* bound: requests and passes of the task that run at the same time

ASSUME NodeRegistryAssumption ==
  /\ None \notin Name \cup Hash
  /\ MaxNodes \in Nat /\ MaxHashes \in Nat /\ MaxPasses \in Nat /\ MaxActors \in Nat

NodeId == 1..MaxNodes
HashId == 1..MaxHashes
Null == 0   \* no row, or a NULL nodeId

VARIABLES
  nodeName,   \* nodeName[n]: the name in row n of nodes, None without a row
  stored,     \* stored[n]: the pass whose data row n holds
  hashOf,     \* hashOf[i]: the hash in row i of node_hashes, None without a row
  bound,      \* bound[i]: its nodeId
  active,     \* active[i]: its isActive
  request,    \* request[r]: the parameters, what the transaction read, and its step
  task,       \* the pass of updateNodesData that runs
  sent,       \* sent[n]: the last pass that sent data of node n to a room
  \* history variables: the code keeps none of them
  raced,      \* hashes and names inserted while another request had not found them
  dirty       \* rows of node_hashes written by requests since the task loaded them

tables == <<nodeName, stored, hashOf, bound, active>>
vars == <<nodeName, stored, hashOf, bound, active, request, task, sent, raced, dirty>>

Idle == [step |-> "idle", hash |-> None, name |-> None, isActive |-> FALSE,
         hashFound |-> Null, wasActive |-> FALSE, wasBound |-> Null, nodeFound |-> Null]

Resting == [step |-> "idle", loaded |-> [i \in HashId |-> Null],
            todo |-> {}, updated |-> {}, pass |-> 0]

Init ==
  /\ nodeName = [n \in NodeId |-> None]
  /\ stored = [n \in NodeId |-> 0]
  /\ hashOf = [i \in HashId |-> None]
  /\ bound = [i \in HashId |-> Null]
  /\ active = [i \in HashId |-> FALSE]
  /\ request = [r \in Request |-> Idle]
  /\ task = Resting
  /\ sent = [n \in NodeId |-> 0]
  /\ raced = {}
  /\ dirty = {}

Rows(h) == {i \in HashId : hashOf[i] = h}
Named(x) == {n \in NodeId : nodeName[n] = x}

(* findOne() of a table with several matching rows returns one of them. *)
OneOf(ids) == IF ids = {} THEN {Null} ELSE ids

(* The id of an inserted row: ids are given in order, and no row of the    *)
(* two tables is ever deleted.                                             *)
NextOf(free) == {i \in free : \A j \in free : i <= j}

-----------------------------------------------------------------------------
(* updateNodeExtraDetails.                                                 *)

Working(r) == request[r].step \in {"writing", "answering"}

Actors == Cardinality({r \in Request : Working(r)}) + (IF task.step = "idle" THEN 0 ELSE 1)

(* Mutation: only an active row of the hash is looked for. *)
Begin_ActiveHash(r) ==
  /\ ~Working(r) /\ Actors < MaxActors
  /\ \E h \in Hash, x \in Name, a \in BOOLEAN :
       \E i \in OneOf({k \in Rows(h) : active[k]}), n \in OneOf(Named(x)) :
         request' = [request EXCEPT ![r] =
           [step |-> "writing", hash |-> h, name |-> x, isActive |-> a,
            hashFound |-> i, wasActive |-> i # Null /\ active[i],
            wasBound |-> IF i = Null THEN Null ELSE bound[i], nodeFound |-> n]]
  /\ UNCHANGED <<tables, task, sent, raced, dirty>>

(* The transaction starts and reads the row of the hash and the row of the *)
(* name, both from one snapshot.                                           *)
Begin(r) ==
  /\ ~Working(r) /\ Actors < MaxActors
  /\ \E h \in Hash, x \in Name, a \in BOOLEAN :
       \E i \in OneOf(Rows(h)), n \in OneOf(Named(x)) :
         request' = [request EXCEPT ![r] =
           [step |-> "writing", hash |-> h, name |-> x, isActive |-> a,
            hashFound |-> i, wasActive |-> i # Null /\ active[i],
            wasBound |-> IF i = Null THEN Null ELSE bound[i], nodeFound |-> n]]
  /\ UNCHANGED <<tables, task, sent, raced, dirty>>

(* The transaction is over. *)
Answer(r, s) == request' = [request EXCEPT ![r] = [Idle EXCEPT !.step = s]]

(* The transaction commits; getInfo() then looks the hash up again. *)
Commit(r) == Answer(r, "answering")

(* Mutation: the other hashes of the node keep their isActive. *)
Deactivated_Nothing(q, n) == {}

(* "update node_hashes set isActive = false where nodeId = n", which the   *)
(* code does only when the node was found.  An update reads what is        *)
(* committed, not the snapshot.                                            *)
Deactivated(q, n) ==
  IF q.isActive /\ q.nodeFound # Null
  THEN {i \in HashId : bound[i] = n}
  ELSE {}

(* The requests that have looked for the hash or the name of r, and found  *)
(* nothing, when r inserts it.                                             *)
Contended(r) ==
  LET others == {k \in Request \ {r} : request[k].step = "writing"} IN
  {request[k].hash : k \in {k \in others : request[k].hashFound = Null}}
  \cup {request[k].name : k \in {k \in others : request[k].nodeFound = Null}}

(* Mutation: the node that is created is not saved before its hash. *)
CommitNewHash_NodeNotSaved(r) ==
  LET q == request[r] IN
  /\ q.step = "writing"
  /\ q.hashFound = Null
  /\ \E i \in NextOf(Rows(None)),
        n \in IF q.nodeFound = Null THEN NextOf(Named(None)) ELSE {q.nodeFound} :
       /\ hashOf' = [hashOf EXCEPT ![i] = q.hash]
       /\ bound' = [bound EXCEPT ![i] = n]
       /\ active' = [j \in HashId |-> IF j = i THEN q.isActive
                                      ELSE active[j] /\ j \notin Deactivated(q, n)]
       /\ dirty' = dirty \cup {i} \cup Deactivated(q, n)
  /\ Commit(r)
  /\ UNCHANGED <<nodeName, stored, task, sent, raced>>

(* The hash is new: its row is inserted, bound to the node found by its    *)
(* name or else created, and the transaction commits.                      *)
CommitNewHash(r) ==
  LET q == request[r] IN
  /\ q.step = "writing"
  /\ q.hashFound = Null
  /\ \E i \in NextOf(Rows(None)),
        n \in IF q.nodeFound = Null THEN NextOf(Named(None)) ELSE {q.nodeFound} :
       /\ nodeName' = [nodeName EXCEPT ![n] = q.name]
       /\ hashOf' = [hashOf EXCEPT ![i] = q.hash]
       /\ bound' = [bound EXCEPT ![i] = n]
       /\ active' = [j \in HashId |-> IF j = i THEN q.isActive
                                      ELSE active[j] /\ j \notin Deactivated(q, n)]
       /\ dirty' = dirty \cup {i} \cup Deactivated(q, n)
  /\ raced' = raced \cup (Contended(r) \cap
                ({q.hash} \cup IF q.nodeFound = Null THEN {q.name} ELSE {}))
  /\ Commit(r)
  /\ UNCHANGED <<stored, task, sent>>

(* Mutation: the row is saved with the isActive of the request. *)
CommitKnownHash_Activates(r) ==
  LET q == request[r] IN
  /\ q.step = "writing"
  /\ q.hashFound # Null /\ q.nodeFound # Null
  /\ bound' = [bound EXCEPT ![q.hashFound] = q.nodeFound]
  /\ active' = [j \in HashId |->
       IF j = q.hashFound THEN q.isActive
       ELSE active[j] /\ j \notin Deactivated(q, q.nodeFound)]
  /\ dirty' = dirty \cup {q.hashFound} \cup Deactivated(q, q.nodeFound)
  /\ Commit(r)
  /\ UNCHANGED <<nodeName, stored, hashOf, task, sent, raced>>

(* The hash has a row and the name has one: the row that was read is saved *)
(* with the id of the node, and with the isActive it was read with,        *)
(* whatever the request asked for.  save() compares the entity with the    *)
(* row as this transaction sees it and writes the columns that differ: the *)
(* nodeId unless it was that of the node, and isActive when this           *)
(* transaction has just set it to false.  An update that changes nothing   *)
(* leaves the transaction with its snapshot, and then nothing differs.     *)
CommitKnownHash(r) ==
  LET q == request[r] IN
  /\ q.step = "writing"
  /\ q.hashFound # Null /\ q.nodeFound # Null
  /\ bound' = [bound EXCEPT ![q.hashFound] =
                 IF q.wasBound = q.nodeFound THEN @ ELSE q.nodeFound]
  /\ active' = [j \in HashId |->
       /\ active[j]
       /\ j \in Deactivated(q, q.nodeFound) => j = q.hashFound /\ q.wasActive]
  /\ dirty' = dirty \cup {q.hashFound} \cup Deactivated(q, q.nodeFound)
  /\ Commit(r)
  /\ UNCHANGED <<nodeName, stored, hashOf, task, sent, raced>>

(* The hash has a row but the name has none: the new node is saved, then   *)
(* nodeFound.id is read of undefined; the TypeError rolls everything back. *)
TypeErrorOnNewNode(r) ==
  /\ request[r].step = "writing"
  /\ request[r].hashFound # Null /\ request[r].nodeFound = Null
  /\ Answer(r, "typeError")
  /\ UNCHANGED <<tables, task, sent, raced, dirty>>

(* A statement of the transaction fails, and it is rolled back. *)
RollBack(r) ==
  /\ request[r].step = "writing"
  /\ Answer(r, "idle")
  /\ UNCHANGED <<tables, task, sent, raced, dirty>>

(* getInfo after the commit reads, and changes nothing; Requests has its   *)
(* outcomes.                                                               *)
AnswerInfo(r) ==
  /\ request[r].step = "answering"
  /\ Answer(r, "idle")
  /\ UNCHANGED <<tables, task, sent, raced, dirty>>

-----------------------------------------------------------------------------
(* updateNodesData.                                                        *)

Loaded(n) == {i \in HashId : task.loaded[i] = n}
LoadedNodes == {n \in NodeId : Loaded(n) # {}}

Monitored == {n \in NodeId : \E i \in HashId : bound[i] = n}
HasActive(n) == \E i \in HashId : bound[i] = n /\ active[i]

(* Mutation: only the active hashes of the nodes are joined. *)
Load_ActiveOnly ==
  /\ task.step = "idle" /\ task.pass < MaxPasses /\ Actors < MaxActors
  /\ task' = IF Monitored # {} /\ \A n \in Monitored : HasActive(n)
             THEN [step |-> "fetching",
                   loaded |-> [i \in HashId |-> IF active[i] THEN bound[i] ELSE Null],
                   todo |-> Monitored, updated |-> {}, pass |-> task.pass + 1]
             ELSE [Resting EXCEPT !.pass = task.pass + 1]
  /\ dirty' = {}
  /\ UNCHANGED <<tables, request, sent, raced>>

(* Every node that has a hash is loaded with all its hashes.  With none,   *)
(* and with a node of which no hash is active (find() gives undefined),    *)
(* the pass ends.                                                          *)
Load ==
  /\ task.step = "idle" /\ task.pass < MaxPasses /\ Actors < MaxActors
  /\ task' = IF Monitored # {} /\ \A n \in Monitored : HasActive(n)
             THEN [step |-> "fetching", loaded |-> bound,
                   todo |-> Monitored, updated |-> {}, pass |-> task.pass + 1]
             ELSE [Resting EXCEPT !.pass = task.pass + 1]
  /\ dirty' = {}
  /\ UNCHANGED <<tables, request, sent, raced>>

EndPass == task' = [Resting EXCEPT !.pass = task.pass]

(* The list of nodes and the four statistics of the node manager. *)
Fetch ==
  /\ task.step = "fetching"
  /\ task' = [task EXCEPT !.step = "nodes"]
  /\ UNCHANGED <<tables, request, sent, raced, dirty>>

(* One of the HTTP calls, those for a single node included, fails: the     *)
(* rest of the pass is given up, with what it sent already sent.           *)
HttpError ==
  /\ task.step = "fetching" \/ (task.step = "nodes" /\ task.todo # {})
  /\ EndPass
  /\ UNCHANGED <<tables, request, sent, raced, dirty>>

(* The node manager knows the node: its fields are set and it is sent to   *)
(* the room of its active hash, before anything is saved.                  *)
UpdateNode(n) ==
  /\ task.step = "nodes"
  /\ n \in task.todo
  /\ task' = [task EXCEPT !.todo = @ \ {n}, !.updated = @ \cup {n}]
  /\ sent' = [sent EXCEPT ![n] = task.pass]
  /\ UNCHANGED <<tables, request, raced, dirty>>

(* Mutation: the fields are set before the list is searched. *)
SkipNode_Changed(n) ==
  /\ task.step = "nodes"
  /\ n \in task.todo
  /\ task' = [task EXCEPT !.todo = @ \ {n}, !.updated = @ \cup {n}]
  /\ UNCHANGED <<tables, request, sent, raced, dirty>>

(* The node manager does not list it. *)
SkipNode(n) ==
  /\ task.step = "nodes"
  /\ n \in task.todo
  /\ task' = [task EXCEPT !.todo = @ \ {n}]
  /\ UNCHANGED <<tables, request, sent, raced, dirty>>

(* The nodes save() may leave a row of node_hashes bound to.  A row that   *)
(* moved between two loaded nodes is changed twice, and either change may  *)
(* come last.                                                              *)
Reconciled(i) ==
  LET back == {n \in LoadedNodes : i \in Loaded(n) /\ bound[i] # n}
      orphaned == bound[i] \in LoadedNodes /\ i \notin Loaded(bound[i])
  IN IF back = {} /\ ~orphaned THEN {bound[i]}
     ELSE back \cup (IF orphaned THEN {Null} ELSE {})

Save ==
  /\ task.step = "nodes" /\ task.todo = {}
  /\ stored' = [n \in NodeId |-> IF n \in task.updated THEN task.pass ELSE stored[n]]
  /\ bound' \in {b \in [HashId -> NodeId \cup {Null}] : \A i \in HashId : b[i] \in Reconciled(i)}
  /\ EndPass
  /\ UNCHANGED <<nodeName, hashOf, active, request, sent, raced, dirty>>

(* save() fails: what was sent stays sent and is not stored. *)
SaveError ==
  /\ task.step = "nodes" /\ task.todo = {}
  /\ EndPass
  /\ UNCHANGED <<tables, request, sent, raced, dirty>>

Pass ==
  \/ Fetch \/ HttpError
  \/ \E n \in NodeId : UpdateNode(n) \/ SkipNode(n)
  \/ Save \/ SaveError

Handle(r) ==
  \/ CommitNewHash(r) \/ CommitKnownHash(r) \/ TypeErrorOnNewNode(r) \/ RollBack(r)
  \/ AnswerInfo(r)

Next ==
  \/ \E r \in Request : Begin(r) \/ Handle(r)
  \/ Load
  \/ Pass

Spec == Init /\ [][Next]_vars

-----------------------------------------------------------------------------
(* Properties.                                                             *)

RequestType ==
  [step : {"idle", "writing", "answering", "typeError"},
   hash : Hash \cup {None}, name : Name \cup {None}, isActive : BOOLEAN,
   hashFound : HashId \cup {Null}, wasActive : BOOLEAN, wasBound : NodeId \cup {Null},
   nodeFound : NodeId \cup {Null}]

TaskType ==
  [step : {"idle", "fetching", "nodes"}, loaded : [HashId -> NodeId \cup {Null}],
   todo : SUBSET NodeId, updated : SUBSET NodeId, pass : 0..MaxPasses]

(* The variables have their types, and a nodeId is the id of a row of      *)
(* nodes or NULL, whatever the task reconciles.                            *)
TypeOK ==
  /\ nodeName \in [NodeId -> Name \cup {None}]
  /\ stored \in [NodeId -> 0..MaxPasses]
  /\ hashOf \in [HashId -> Hash \cup {None}]
  /\ bound \in [HashId -> NodeId \cup {Null}]
  /\ active \in [HashId -> BOOLEAN]
  /\ request \in [Request -> RequestType]
  /\ task \in TaskType
  /\ sent \in [NodeId -> 0..MaxPasses]
  /\ raced \subseteq Hash \cup Name
  /\ dirty \subseteq HashId
  /\ \A i \in HashId : bound[i] # Null => nodeName[bound[i]] # None

(* The tables have no unique index and the request checks before it        *)
(* inserts: two rows of a hash, or two nodes of a name, appear only when a *)
(* request inserts what another one has already failed to find.            *)
DuplicatesOnlyByRace ==
  /\ \A i, j \in HashId : i # j /\ hashOf[i] = hashOf[j] /\ hashOf[i] # None
       => hashOf[i] \in raced
  /\ \A m, n \in NodeId : m # n /\ nodeName[m] = nodeName[n] /\ nodeName[m] # None
       => nodeName[m] \in raced

(* What the task stores for a node it has sent to the node's room before.  *)
StoredWasSent == \A n \in NodeId : stored[n] <= sent[n]

(* A request with isActive leaves the node it named with one active hash   *)
(* at most, the one it gave, also when other requests commit between its   *)
(* reads and its writes.                                                   *)
ActivationIsExclusive ==
  [][\A r \in Request :
       request[r].step = "writing" /\ request[r].isActive
         /\ request'[r].step = "answering"
       => \A n \in NodeId : n = request[r].nodeFound =>
            LET on == {i \in HashId : bound'[i] = n /\ active'[i]} IN
            Cardinality(on) <= 1 /\ \A i \in on : hashOf'[i] = request[r].hash]_vars

(* A row of node_hashes that is inactive is never active again: the code   *)
(* sets isActive only when it inserts the row, so a request that names an  *)
(* inactive hash with isActive = true leaves the node without an active    *)
(* one.                                                                    *)
ActiveNeverComesBack ==
  [][\A i \in HashId : hashOf[i] # None /\ ~active[i] => ~active'[i]]_vars

(* The task, which never touches a node's hashes itself, changes the       *)
(* nodeId of a row only when a request wrote that row after the task       *)
(* loaded it: it then undoes what an admin was told was done.              *)
TaskRebindsOnlyStale ==
  [][request' = request /\ bound' # bound
       => \A i \in HashId : bound'[i] # bound[i] => i \in dirty]_vars

(* node.service.ts of explorer-api says of a name without a row: "if we    *)
(* didn't have node data with this name create it".                        *)
UnknownNameIsCreated ==
  [][\A r \in Request : request'[r].step # "typeError"]_vars
=============================================================================
