-------------------------- MODULE NodeRegistry_proofs --------------------------
(***************************************************************************)
(* Theorems of NodeRegistry, for any hashes, names, requests and bounds.   *)
(* They follow from one inductive invariant: Snapshots says what a request *)
(* knows from its first queries and may still rely on when it writes, and  *)
(* Entities does so for the nodes the task loaded.                         *)
(***************************************************************************)
EXTENDS NodeRegistry, FiniteSetTheorems, TLAPS

(* A row that a request found still has the hash or the name it was found  *)
(* by.  That nothing was found may be true no longer, and then the hash or *)
(* the name is raced.                                                      *)
Snapshot(r) ==
  LET q == request[r] IN
  q.step = "writing" =>
    /\ q.hash \in Hash /\ q.name \in Name
    /\ q.hashFound # Null => hashOf[q.hashFound] = q.hash
    /\ q.nodeFound # Null => nodeName[q.nodeFound] = q.name
    /\ q.hashFound = Null => q.hash \in raced \/ Rows(q.hash) = {}
    /\ q.nodeFound = Null => q.name \in raced \/ Named(q.name) = {}

Snapshots == \A r \in Request : Snapshot(r)

(* The task knows where a row was bound, and no row moved since unless a   *)
(* request wrote it; what it is about to store has been sent in this pass. *)
Entities ==
  /\ \A i \in HashId :
       /\ task.loaded[i] # Null => nodeName[task.loaded[i]] # None
       /\ task.step # "idle" /\ bound[i] # task.loaded[i] => i \in dirty
  /\ \A n \in NodeId : stored[n] <= sent[n] /\ sent[n] <= task.pass
  /\ \A n \in task.updated : sent[n] = task.pass

IInv == TypeOK /\ Snapshots /\ Entities /\ DuplicatesOnlyByRace

LEMMA Ids ==
  /\ NodeId \subseteq Nat /\ HashId \subseteq Nat
  /\ Null \notin NodeId /\ Null \notin HashId
  /\ MaxPasses \in Nat
BY NodeRegistryAssumption DEF NodeId, HashId, Null

LEMMA InitIInv == Init => IInv
<1> SUFFICES ASSUME Init PROVE IInv
  OBVIOUS
<1>1. TypeOK
  BY NodeRegistryAssumption, Ids
     DEF Init, TypeOK, RequestType, TaskType, Idle, Resting
<1>2. Snapshots
  BY DEF Init, Snapshots, Snapshot, Idle
<1>3. Entities
  BY DEF Init, Entities, Resting
<1>4. DuplicatesOnlyByRace
  BY DEF Init, DuplicatesOnlyByRace
<1> QED
  BY <1>1, <1>2, <1>3, <1>4 DEF IInv

-----------------------------------------------------------------------------
(* The requests.                                                           *)

(* What one request knows is not disturbed by a step that leaves the       *)
(* tables, or only the flags and the nodeIds of node_hashes, alone.        *)
LEMMA SnapshotStays ==
  ASSUME Snapshots, NEW r \in Request,
         UNCHANGED <<nodeName, hashOf, raced>>,
         request'[r] = request[r] \/ request'[r].step # "writing"
  PROVE  Snapshot(r)'
BY DEF Snapshots, Snapshot, Rows, Named

(* A transaction that is over knows nothing. *)
LEMMA AnswerType ==
  ASSUME TypeOK, NEW r \in Request, NEW s \in {"idle", "answering", "typeError"},
         Answer(r, s)
  PROVE  /\ request' \in [Request -> RequestType]
         /\ request'[r].step = s
         /\ \A k \in Request \ {r} : request'[k] = request[k]
<1>1. [Idle EXCEPT !.step = s] \in RequestType
  BY DEF Idle, RequestType
<1>2. [Idle EXCEPT !.step = s].step = s
  BY DEF Idle
<1> QED
  BY <1>1, <1>2 DEF Answer, TypeOK

LEMMA BeginKeeps ==
  ASSUME IInv, NEW r \in Request, Begin(r)
  PROVE  IInv'
<1>1. PICK h \in Hash, x \in Name, a \in BOOLEAN :
        \E i \in OneOf(Rows(h)), n \in OneOf(Named(x)) :
          request' = [request EXCEPT ![r] =
            [step |-> "writing", hash |-> h, name |-> x, isActive |-> a,
             hashFound |-> i, wasActive |-> i # Null /\ active[i],
             wasBound |-> IF i = Null THEN Null ELSE bound[i], nodeFound |-> n]]
  BY DEF Begin
<1>2. PICK i \in OneOf(Rows(h)), n \in OneOf(Named(x)) :
        request' = [request EXCEPT ![r] =
          [step |-> "writing", hash |-> h, name |-> x, isActive |-> a,
           hashFound |-> i, wasActive |-> i # Null /\ active[i],
           wasBound |-> IF i = Null THEN Null ELSE bound[i], nodeFound |-> n]]
  BY <1>1
<1>3. /\ i \in HashId \cup {Null} /\ n \in NodeId \cup {Null}
      /\ i # Null => hashOf[i] = h
      /\ n # Null => nodeName[n] = x
      /\ i = Null => Rows(h) = {}
      /\ n = Null => Named(x) = {}
  BY Ids DEF OneOf, Rows, Named
<1>4. UNCHANGED <<tables, task, sent, raced, dirty>>
  BY DEF Begin
<1> DEFINE q == request'[r]
<1>5. /\ q = [step |-> "writing", hash |-> h, name |-> x, isActive |-> a,
              hashFound |-> i, wasActive |-> i # Null /\ active[i],
              wasBound |-> IF i = Null THEN Null ELSE bound[i], nodeFound |-> n]
      /\ \A k \in Request \ {r} : request'[k] = request[k]
  BY <1>2 DEF IInv, TypeOK
<1>6. q \in RequestType
  <2>1. (IF i = Null THEN Null ELSE bound[i]) \in NodeId \cup {Null}
    BY <1>3 DEF IInv, TypeOK
  <2>2. (i # Null /\ active[i]) \in BOOLEAN
    BY <1>3 DEF IInv, TypeOK
  <2> QED
    BY <1>3, <1>5, <2>1, <2>2 DEF RequestType
<1>7. TypeOK'
  BY <1>2, <1>4, <1>5, <1>6 DEF IInv, TypeOK, tables
<1>8. Snapshots'
  <2>1. Snapshot(r)'
    BY <1>3, <1>4, <1>5 DEF Snapshot, Rows, Named, tables
  <2> QED
    BY <1>4, <1>5, <2>1, SnapshotStays DEF Snapshots, IInv, tables
<1> QED
  BY <1>4, <1>7, <1>8 DEF IInv, Entities, DuplicatesOnlyByRace, tables

(* Transactions that are rolled back, and what follows a commit. *)
LEMMA AnswerKeeps ==
  ASSUME IInv, NEW r \in Request, TypeErrorOnNewNode(r) \/ RollBack(r) \/ AnswerInfo(r)
  PROVE  IInv'
<1>1. PICK s \in {"idle", "typeError"} : Answer(r, s)
  BY DEF TypeErrorOnNewNode, RollBack, AnswerInfo
<1>2. UNCHANGED <<tables, task, sent, raced, dirty>>
  BY DEF TypeErrorOnNewNode, RollBack, AnswerInfo
<1>3. TypeOK' /\ Snapshots'
  BY <1>1, <1>2, AnswerType, SnapshotStays DEF IInv, TypeOK, Snapshots, tables
<1> QED
  BY <1>2, <1>3 DEF IInv, Entities, DuplicatesOnlyByRace, tables

LEMMA CommitKnownHashKeeps ==
  ASSUME IInv, NEW r \in Request, CommitKnownHash(r)
  PROVE  IInv'
<1> DEFINE q == request[r]
<1>1. /\ Snapshot(r)
      /\ q.hashFound \in HashId /\ q.nodeFound \in NodeId
      /\ hashOf[q.hashFound] = q.hash /\ q.hash \in Hash
      /\ nodeName[q.nodeFound] = q.name /\ q.name \in Name
  BY DEF CommitKnownHash, IInv, Snapshots, Snapshot, TypeOK, RequestType
<1>2. /\ UNCHANGED <<nodeName, stored, hashOf, task, sent, raced>>
      /\ Answer(r, "answering")
      /\ dirty' = dirty \cup {q.hashFound} \cup Deactivated(q, q.nodeFound)
  BY DEF CommitKnownHash, Commit
<1>3. /\ bound' \in [HashId -> NodeId \cup {Null}]
      /\ \A i \in HashId : bound'[i] = bound[i] \/ (i = q.hashFound /\ bound'[i] = q.nodeFound)
  BY <1>1 DEF CommitKnownHash, IInv, TypeOK
<1>4. active' \in [HashId -> BOOLEAN]
  BY <1>1 DEF CommitKnownHash, IInv, TypeOK
<1>5. TypeOK'
  <2>1. dirty' \subseteq HashId
    BY <1>1, <1>2 DEF Deactivated, IInv, TypeOK
  <2>2. \A i \in HashId : bound'[i] # Null => nodeName'[bound'[i]] # None
    BY <1>1, <1>2, <1>3, NodeRegistryAssumption DEF IInv, TypeOK
  <2> QED
    BY <1>2, <1>3, <1>4, <2>1, <2>2, AnswerType DEF IInv, TypeOK
<1>6. Snapshots'
  BY <1>2, AnswerType, SnapshotStays DEF IInv, Snapshots
<1>7. Entities'
  BY <1>2, <1>3 DEF IInv, Entities
<1> QED
  BY <1>2, <1>5, <1>6, <1>7 DEF IInv, DuplicatesOnlyByRace

(* What the insertion of a hash relies on: the row is free, and the node   *)
(* is the one found or a free row of nodes.                                *)
LEMMA NewRows ==
  ASSUME IInv, NEW r \in Request, CommitNewHash(r)
  PROVE  \E i \in HashId, n \in NodeId :
           LET q == request[r] IN
           /\ hashOf[i] = None /\ nodeName[n] = IF q.nodeFound = Null THEN None ELSE q.name
           /\ q.nodeFound # Null => n = q.nodeFound
           /\ nodeName' = [nodeName EXCEPT ![n] = q.name]
           /\ hashOf' = [hashOf EXCEPT ![i] = q.hash]
           /\ bound' = [bound EXCEPT ![i] = n]
           /\ active' = [j \in HashId |-> IF j = i THEN q.isActive
                                          ELSE active[j] /\ j \notin Deactivated(q, n)]
           /\ dirty' = dirty \cup {i} \cup Deactivated(q, n)
<1> DEFINE q == request[r]
<1>1. PICK i \in NextOf(Rows(None)),
           n \in IF q.nodeFound = Null THEN NextOf(Named(None)) ELSE {q.nodeFound} :
        /\ nodeName' = [nodeName EXCEPT ![n] = q.name]
        /\ hashOf' = [hashOf EXCEPT ![i] = q.hash]
        /\ bound' = [bound EXCEPT ![i] = n]
        /\ active' = [j \in HashId |-> IF j = i THEN q.isActive
                                       ELSE active[j] /\ j \notin Deactivated(q, n)]
        /\ dirty' = dirty \cup {i} \cup Deactivated(q, n)
  BY DEF CommitNewHash
<1>2. i \in HashId /\ hashOf[i] = None
  BY DEF NextOf, Rows
<1>3. CASE q.nodeFound = Null
  <2>1. n \in NodeId /\ nodeName[n] = None
    BY <1>3 DEF NextOf, Named
  <2> QED
    BY <1>1, <1>2, <1>3, <2>1
<1>4. CASE q.nodeFound # Null
  <2>1. n = q.nodeFound /\ n \in NodeId
    BY <1>4 DEF IInv, TypeOK, RequestType
  <2>2. nodeName[n] = q.name
    BY <1>4, <2>1 DEF CommitNewHash, IInv, Snapshots, Snapshot
  <2> QED
    BY <1>1, <1>2, <1>4, <2>1, <2>2
<1> QED
  BY <1>3, <1>4

LEMMA CommitNewHashKeeps ==
  ASSUME IInv, NEW r \in Request, CommitNewHash(r)
  PROVE  IInv'
<1> DEFINE q == request[r]
<1>1. PICK i \in HashId, n \in NodeId :
        /\ hashOf[i] = None /\ nodeName[n] = IF q.nodeFound = Null THEN None ELSE q.name
        /\ q.nodeFound # Null => n = q.nodeFound
        /\ nodeName' = [nodeName EXCEPT ![n] = q.name]
        /\ hashOf' = [hashOf EXCEPT ![i] = q.hash]
        /\ bound' = [bound EXCEPT ![i] = n]
        /\ active' = [j \in HashId |-> IF j = i THEN q.isActive
                                       ELSE active[j] /\ j \notin Deactivated(q, n)]
        /\ dirty' = dirty \cup {i} \cup Deactivated(q, n)
  BY NewRows
<1>2. /\ UNCHANGED <<stored, task, sent>>
      /\ Answer(r, "answering")
      /\ raced' = raced \cup (Contended(r) \cap
                    ({q.hash} \cup IF q.nodeFound = Null THEN {q.name} ELSE {}))
      /\ q.step = "writing" /\ q.hashFound = Null
  BY DEF CommitNewHash, Commit
<1>3. q.hash \in Hash /\ q.name \in Name /\ q \in RequestType
  BY <1>2 DEF IInv, Snapshots, Snapshot, TypeOK
<1>4. TypeOK'
  <2>1. /\ nodeName' \in [NodeId -> Name \cup {None}]
        /\ hashOf' \in [HashId -> Hash \cup {None}]
        /\ bound' \in [HashId -> NodeId \cup {Null}]
    BY <1>1, <1>3 DEF IInv, TypeOK
  <2>2. active' \in [HashId -> BOOLEAN]
    <3>1. q.isActive \in BOOLEAN
      BY <1>3 DEF RequestType
    <3> QED
      BY <1>1, <3>1 DEF IInv, TypeOK
  <2>3. dirty' \subseteq HashId
    BY <1>1 DEF Deactivated, IInv, TypeOK
  <2>4. raced' \subseteq Hash \cup Name
    BY <1>2, <1>3 DEF IInv, TypeOK
  <2>5. \A j \in HashId : bound'[j] # Null => nodeName'[bound'[j]] # None
    BY <1>1, <1>3, NodeRegistryAssumption DEF IInv, TypeOK
  <2> QED
    BY <1>2, <2>1, <2>2, <2>3, <2>4, <2>5, AnswerType DEF IInv, TypeOK
<1>5. Snapshots'
  <2> SUFFICES ASSUME NEW k \in Request, request'[k].step = "writing"
               PROVE  Snapshot(k)'
    BY DEF Snapshots, Snapshot
  <2> DEFINE p == request[k]
  <2>1. k # r /\ request'[k] = p /\ p.step = "writing" /\ Snapshot(k) /\ p \in RequestType
    BY <1>2, AnswerType DEF IInv, Snapshots, TypeOK
  <2>2. p.hash \in Hash /\ p.name \in Name
    BY <2>1 DEF Snapshot
  <2>3. p.hashFound # Null => hashOf'[p.hashFound] = p.hash
    BY <1>1, <2>1, <2>2, NodeRegistryAssumption DEF Snapshot, RequestType, IInv, TypeOK
  <2>4. p.nodeFound # Null => nodeName'[p.nodeFound] = p.name
    BY <1>1, <2>1, <2>2, NodeRegistryAssumption DEF Snapshot, RequestType, IInv, TypeOK
  <2>5. p.hashFound = Null => p.hash \in raced' \/ Rows(p.hash)' = {}
    <3>1. CASE p.hash = q.hash
      BY <1>2, <2>1, <3>1 DEF Contended
    <3>2. CASE p.hash # q.hash
      BY <1>1, <1>2, <2>1, <3>2 DEF Snapshot, Rows, IInv, TypeOK
    <3> QED
      BY <3>1, <3>2
  <2>6. p.nodeFound = Null => p.name \in raced' \/ Named(p.name)' = {}
    <3>1. CASE q.nodeFound = Null /\ p.name = q.name
      BY <1>2, <2>1, <3>1 DEF Contended
    <3>2. CASE q.nodeFound # Null \/ p.name # q.name
      <4>1. \A m \in NodeId : nodeName'[m] = p.name => nodeName[m] = p.name
        BY <1>1, <3>2 DEF IInv, TypeOK
      <4> QED
        BY <1>2, <2>1, <4>1 DEF Snapshot, Named
    <3> QED
      BY <3>1, <3>2
  <2> QED
    BY <2>1, <2>2, <2>3, <2>4, <2>5, <2>6 DEF Snapshot
<1>6. Entities'
  <2>1. \A m \in NodeId : nodeName[m] # None => nodeName'[m] # None
    BY <1>1, <1>3, NodeRegistryAssumption DEF IInv, TypeOK
  <2>2. \A j \in HashId : task.loaded[j] \in NodeId \cup {Null}
    BY DEF IInv, TypeOK, TaskType
  <2>3. \A j \in HashId : j # i => bound'[j] = bound[j]
    BY <1>1 DEF IInv, TypeOK
  <2> QED
    BY <1>1, <1>2, <2>1, <2>2, <2>3 DEF IInv, Entities
<1>7. DuplicatesOnlyByRace'
  <2>1. Snapshot(r)
    BY DEF IInv, Snapshots
  <2>2. \A j \in HashId : j # i /\ hashOf[j] = q.hash => q.hash \in raced
    BY <1>2, <2>1 DEF Snapshot, Rows
  <2>3. \A m \in NodeId : m # n /\ nodeName[m] = q.name => q.name \in raced
    BY <1>1, <1>2, <1>3, <2>1, NodeRegistryAssumption
       DEF Snapshot, Named, IInv, DuplicatesOnlyByRace
  <2>4. raced \subseteq raced'
    BY <1>2
  <2>5. \A j, k \in HashId : j # k /\ hashOf'[j] = hashOf'[k] /\ hashOf'[j] # None
          => hashOf'[j] \in raced'
    BY <1>1, <2>2, <2>4 DEF IInv, DuplicatesOnlyByRace, TypeOK
  <2>6. \A j, k \in NodeId : j # k /\ nodeName'[j] = nodeName'[k] /\ nodeName'[j] # None
          => nodeName'[j] \in raced'
    BY <1>1, <2>3, <2>4 DEF IInv, DuplicatesOnlyByRace, TypeOK
  <2> QED
    BY <2>5, <2>6 DEF DuplicatesOnlyByRace
<1> QED
  BY <1>4, <1>5, <1>6, <1>7 DEF IInv

-----------------------------------------------------------------------------
(* The task.                                                               *)

(* A step of the task between its queries writes nothing. *)
LEMMA TaskMoves ==
  ASSUME IInv, UNCHANGED <<tables, request, raced>>,
         task' \in TaskType, sent' \in [NodeId -> 0..MaxPasses], dirty' \subseteq HashId,
         Entities'
  PROVE  IInv'
<1>1. Snapshots'
  BY SnapshotStays DEF IInv, Snapshots, tables
<1> QED
  BY <1>1 DEF IInv, TypeOK, DuplicatesOnlyByRace, tables

LEMMA EndPassKeeps ==
  ASSUME IInv, EndPass, UNCHANGED <<tables, request, sent, raced, dirty>>
  PROVE  IInv'
<1>1. task' \in TaskType
  BY Ids DEF EndPass, Resting, TaskType, IInv, TypeOK
<1>2. Entities'
  BY DEF EndPass, Resting, IInv, Entities, tables
<1> QED
  BY <1>1, <1>2, TaskMoves DEF IInv, TypeOK

LEMMA LoadKeeps ==
  ASSUME IInv, Load
  PROVE  IInv'
<1>1. task.pass + 1 \in 0..MaxPasses /\ task.pass \in Nat
  BY Ids DEF Load, IInv, TypeOK, TaskType
<1>2. dirty' = {} /\ UNCHANGED <<tables, request, sent, raced>>
  BY DEF Load
<1>3. \/ task' = [step |-> "fetching", loaded |-> bound,
                  todo |-> Monitored, updated |-> {}, pass |-> task.pass + 1]
      \/ task' = [Resting EXCEPT !.pass = task.pass + 1]
  BY DEF Load
<1>4. task' \in TaskType
  BY <1>1, <1>3 DEF Resting, TaskType, Monitored, IInv, TypeOK
<1>5. Entities'
  <2>1. \A n \in NodeId : stored[n] <= sent[n] /\ sent[n] <= task.pass + 1
    BY <1>1, Ids DEF IInv, Entities, TypeOK
  <2> QED
    BY <1>2, <1>3, <2>1 DEF Resting, IInv, Entities, TypeOK, tables
<1> QED
  BY <1>2, <1>4, <1>5, TaskMoves DEF IInv, TypeOK

LEMMA FetchKeeps ==
  ASSUME IInv, Fetch
  PROVE  IInv'
<1>1. /\ task' = [task EXCEPT !.step = "nodes"] /\ task.step = "fetching"
      /\ UNCHANGED <<tables, request, sent, raced, dirty>>
  BY DEF Fetch
<1>2. task' \in TaskType
  BY <1>1 DEF TaskType, IInv, TypeOK
<1>3. Entities'
  BY <1>1 DEF IInv, Entities, TypeOK, TaskType, tables
<1> QED
  BY <1>1, <1>2, <1>3, TaskMoves DEF IInv, TypeOK

LEMMA UpdateNodeKeeps ==
  ASSUME IInv, NEW n \in NodeId, UpdateNode(n)
  PROVE  IInv'
<1>1. /\ task.step = "nodes"
      /\ task' = [task EXCEPT !.todo = @ \ {n}, !.updated = @ \cup {n}]
      /\ sent' = [sent EXCEPT ![n] = task.pass]
      /\ UNCHANGED <<tables, request, raced, dirty>>
  BY DEF UpdateNode
<1>2. task' \in TaskType /\ sent' \in [NodeId -> 0..MaxPasses] /\ task.pass \in Nat
  <2>1. task.pass \in 0..MaxPasses /\ task.pass \in Nat
    BY Ids DEF TaskType, IInv, TypeOK
  <2>2. sent' \in [NodeId -> 0..MaxPasses]
    BY <1>1, <2>1 DEF IInv, TypeOK
  <2>3. task.todo \ {n} \in SUBSET NodeId /\ task.updated \cup {n} \in SUBSET NodeId
    BY DEF TaskType, IInv, TypeOK
  <2>4. task' \in TaskType
    BY <1>1, <2>3 DEF TaskType, IInv, TypeOK
  <2> QED
    BY <2>1, <2>2, <2>4
<1>3. /\ task'.step = task.step /\ task'.loaded = task.loaded /\ task'.pass = task.pass
      /\ task'.updated = task.updated \cup {n}
  BY <1>1 DEF TaskType, IInv, TypeOK
<1>4. \A m \in NodeId : sent'[m] = IF m = n THEN task.pass ELSE sent[m]
  BY <1>1 DEF IInv, TypeOK
<1>5. \A m \in NodeId : stored[m] \in Nat /\ sent[m] \in Nat
  BY Ids DEF IInv, TypeOK
<1>6. Entities'
  <2>1. \A m \in NodeId : stored[m] <= sent'[m] /\ sent'[m] <= task.pass
    BY <1>2, <1>4, <1>5 DEF IInv, Entities
  <2>2. \A m \in task.updated \cup {n} : sent'[m] = task.pass
    BY <1>4 DEF IInv, Entities, TypeOK, TaskType
  <2> QED
    BY <1>1, <1>3, <2>1, <2>2 DEF IInv, Entities, tables
<1> QED
  BY <1>1, <1>2, <1>6, TaskMoves DEF IInv, TypeOK

LEMMA SkipNodeKeeps ==
  ASSUME IInv, NEW n \in NodeId, SkipNode(n)
  PROVE  IInv'
<1>1. /\ task' = [task EXCEPT !.todo = @ \ {n}]
      /\ UNCHANGED <<tables, request, sent, raced, dirty>>
  BY DEF SkipNode
<1>2. task' \in TaskType
  BY <1>1 DEF TaskType, IInv, TypeOK
<1>3. /\ task'.step = task.step /\ task'.loaded = task.loaded /\ task'.pass = task.pass
      /\ task'.updated = task.updated
  BY <1>1 DEF TaskType, IInv, TypeOK
<1>4. Entities'
  BY <1>1, <1>3 DEF IInv, Entities, tables
<1> QED
  BY <1>1, <1>2, <1>4, TaskMoves DEF IInv, TypeOK

(* save() binds a row as it is, as it was loaded, or to no node; a row it  *)
(* binds anew was bound otherwise when it was loaded.                      *)
LEMMA ReconciledRows ==
  ASSUME IInv, NEW i \in HashId, NEW b \in Reconciled(i)
  PROVE  /\ b \in {bound[i], task.loaded[i], Null}
         /\ b # bound[i] => bound[i] # task.loaded[i]
BY DEF Reconciled, Loaded, LoadedNodes, IInv, TypeOK, TaskType

LEMMA SaveKeeps ==
  ASSUME IInv, Save
  PROVE  IInv'
<1>1. /\ task.step = "nodes"
      /\ stored' = [n \in NodeId |-> IF n \in task.updated THEN task.pass ELSE stored[n]]
      /\ bound' \in [HashId -> NodeId \cup {Null}]
      /\ \A i \in HashId : bound'[i] \in Reconciled(i)
      /\ EndPass
      /\ UNCHANGED <<nodeName, hashOf, active, request, sent, raced, dirty>>
  BY DEF Save
<1>2. task' \in TaskType
  BY <1>1, Ids DEF EndPass, Resting, TaskType, IInv, TypeOK
<1>3. task.pass \in 0..MaxPasses
  BY DEF TaskType, IInv, TypeOK
<1>4. stored' \in [NodeId -> 0..MaxPasses]
  BY <1>1, <1>3 DEF IInv, TypeOK
<1>5. \A i \in HashId : bound'[i] # Null => nodeName'[bound'[i]] # None
  BY <1>1, ReconciledRows DEF IInv, TypeOK, Entities
<1>6. TypeOK'
  BY <1>1, <1>2, <1>4, <1>5 DEF IInv, TypeOK
<1>7. Entities'
  <2>1. \A n \in NodeId : stored'[n] <= sent[n] /\ sent[n] <= task.pass
    BY <1>1, <1>3, Ids DEF IInv, Entities, TypeOK
  <2>2. /\ task'.step = "idle" /\ task'.updated = {} /\ task'.pass = task.pass
        /\ \A i \in HashId : task'.loaded[i] = Null
    BY <1>1 DEF EndPass, Resting
  <2> QED
    BY <1>1, <2>1, <2>2 DEF Entities
<1>8. Snapshots'
  BY <1>1, SnapshotStays DEF IInv, Snapshots
<1> QED
  BY <1>1, <1>6, <1>7, <1>8 DEF IInv, DuplicatesOnlyByRace

-----------------------------------------------------------------------------
LEMMA NextIInv == IInv /\ [Next]_vars => IInv'
<1> SUFFICES ASSUME IInv, [Next]_vars PROVE IInv'
  OBVIOUS
<1>1. CASE \E r \in Request : Begin(r) \/ Handle(r)
  BY <1>1, BeginKeeps, CommitNewHashKeeps, CommitKnownHashKeeps, AnswerKeeps DEF Handle
<1>2. CASE Load
  BY <1>2, LoadKeeps
<1>3. CASE HttpError \/ SaveError
  BY <1>3, EndPassKeeps DEF HttpError, SaveError
<1>4. CASE Fetch
  BY <1>4, FetchKeeps
<1>5. CASE \E n \in NodeId : UpdateNode(n) \/ SkipNode(n)
  BY <1>5, UpdateNodeKeeps, SkipNodeKeeps
<1>6. CASE Save
  BY <1>6, SaveKeeps
<1>7. CASE UNCHANGED vars
  BY <1>7, SnapshotStays
     DEF vars, IInv, TypeOK, Snapshots, Entities, DuplicatesOnlyByRace
<1> QED
  BY <1>1, <1>2, <1>3, <1>4, <1>5, <1>6, <1>7 DEF Next, Pass

LEMMA Inductive == Spec => []IInv
BY InitIInv, NextIInv, PTL DEF Spec

(* The variables have their types, and no nodeId dangles, for any requests *)
(* of the admin (updateNodeExtraDetails) and whatever the task's save()    *)
(* reconciles (updateNodesData).                                           *)
THEOREM TypeCorrect == Spec => []TypeOK
<1>1. IInv => TypeOK
  BY DEF IInv
<1> QED
  BY Inductive, <1>1, PTL

(* Two rows of a hash or two nodes of a name come from a race between      *)
(* requests only, however many run and in whatever order they commit.      *)
THEOREM OnlyARaceDuplicates == Spec => []DuplicatesOnlyByRace
<1>1. IInv => DuplicatesOnlyByRace
  BY DEF IInv
<1> QED
  BY Inductive, <1>1, PTL

(* The task never stores data of a node that its room was not sent.        *)
THEOREM StoredIsSent == Spec => []StoredWasSent
<1>1. IInv => StoredWasSent
  BY DEF IInv, Entities, StoredWasSent
<1> QED
  BY Inductive, <1>1, PTL

-----------------------------------------------------------------------------
(* The action properties.                                                  *)

(* Only the commits of requests and the task's save() touch node_hashes.   *)
LEMMA OtherSteps ==
  ASSUME [Next]_vars,
         ~(\E r \in Request : CommitNewHash(r) \/ CommitKnownHash(r)), ~Save
  PROVE  UNCHANGED tables
<1>1. ASSUME NEW r \in Request,
             Begin(r) \/ TypeErrorOnNewNode(r) \/ RollBack(r) \/ AnswerInfo(r)
      PROVE  UNCHANGED tables
  BY <1>1 DEF Begin, TypeErrorOnNewNode, RollBack, AnswerInfo
<1>2. ASSUME Load \/ Fetch \/ HttpError \/ SaveError PROVE UNCHANGED tables
  BY <1>2 DEF Load, Fetch, HttpError, SaveError
<1>3. ASSUME NEW n \in NodeId, UpdateNode(n) \/ SkipNode(n) PROVE UNCHANGED tables
  BY <1>3 DEF UpdateNode, SkipNode
<1>4. CASE UNCHANGED vars
  BY <1>4 DEF vars, tables
<1> QED
  BY <1>1, <1>2, <1>3, <1>4 DEF Next, Handle, Pass

(* A hash that was made inactive stays so for ever, for any number of      *)
(* requests and passes: an insertion is the only statement that sets       *)
(* isActive to true.                                                       *)
THEOREM InactiveForEver == Spec => ActiveNeverComesBack
<1> DEFINE A == \A i \in HashId : hashOf[i] # None /\ ~active[i] => ~active'[i]
<1>1. IInv /\ [Next]_vars => [A]_vars
  <2> SUFFICES ASSUME IInv, [Next]_vars, NEW i \in HashId, hashOf[i] # None, ~active[i]
               PROVE  ~active'[i]
    OBVIOUS
  <2>1. CASE \E r \in Request : CommitNewHash(r)
    <3>1. PICK r \in Request : CommitNewHash(r)
      BY <2>1
    <3>2. PICK j \in HashId, n \in NodeId :
            /\ hashOf[j] = None
            /\ active' = [k \in HashId |-> IF k = j THEN request[r].isActive
                                           ELSE active[k] /\ k \notin Deactivated(request[r], n)]
      BY <3>1, NewRows
    <3> QED
      BY <3>2
  <2>2. CASE \E r \in Request : CommitKnownHash(r)
    BY <2>2 DEF CommitKnownHash
  <2>3. CASE Save
    BY <2>3 DEF Save
  <2> QED
    BY <2>1, <2>2, <2>3, OtherSteps DEF tables
<1> QED
  BY Inductive, <1>1, PTL DEF Spec, ActiveNeverComesBack

(* When a request commits that asked for isActive, the node it found has   *)
(* one active hash at most, and that hash is the request's, whatever other *)
(* requests and the task did between its reads and its writes.             *)
THEOREM OneActiveHash == Spec => ActivationIsExclusive
<1> DEFINE A == \A r \in Request :
                  request[r].step = "writing" /\ request[r].isActive
                    /\ request'[r].step = "answering"
                  => \A n \in NodeId : n = request[r].nodeFound =>
                       LET on == {i \in HashId : bound'[i] = n /\ active'[i]} IN
                       Cardinality(on) <= 1 /\ \A i \in on : hashOf'[i] = request[r].hash
<1>1. ASSUME IInv, [Next]_vars, NEW r \in Request, NEW n \in NodeId,
             request[r].step = "writing", request[r].isActive,
             request'[r].step = "answering", n = request[r].nodeFound
      PROVE  \E i \in HashId :
               /\ \A j \in HashId : bound'[j] = n /\ active'[j] => j = i
               /\ hashOf'[i] = request[r].hash
  <2> DEFINE q == request[r]
  <2>1. n # Null
    BY <1>1, Ids
  <2>2. CommitNewHash(r) \/ CommitKnownHash(r)
    <3>1. request'[r] # request[r]
      BY <1>1
    <3>2. ASSUME NEW k \in Request, k # r, Begin(k) \/ Handle(k) PROVE FALSE
      BY <1>1, <3>2, <3>1
         DEF Begin, Handle, CommitNewHash, CommitKnownHash, Commit, TypeErrorOnNewNode,
             RollBack, AnswerInfo, Answer, IInv, TypeOK
    <3>3. ~Begin(r)
      BY <1>1 DEF Begin, Working
    <3>4. ~(TypeErrorOnNewNode(r) \/ RollBack(r) \/ AnswerInfo(r))
      <4>1. ASSUME NEW s \in {"idle", "typeError"}, Answer(r, s) PROVE FALSE
        BY <1>1, <4>1, AnswerType DEF IInv
      <4> QED
        BY <4>1 DEF TypeErrorOnNewNode, RollBack, AnswerInfo
    <3>5. request' = request => FALSE
      BY <3>1
    <3> QED
      BY <1>1, <3>2, <3>3, <3>4, <3>5
         DEF Next, Handle, Pass, Load, Fetch, HttpError, UpdateNode, SkipNode, Save, SaveError, vars
  <2>3. CASE CommitNewHash(r)
    <3>1. PICK i \in HashId, m \in NodeId :
            /\ hashOf[i] = None /\ nodeName[m] = IF q.nodeFound = Null THEN None ELSE q.name
            /\ q.nodeFound # Null => m = q.nodeFound
            /\ nodeName' = [nodeName EXCEPT ![m] = q.name]
            /\ hashOf' = [hashOf EXCEPT ![i] = q.hash]
            /\ bound' = [bound EXCEPT ![i] = m]
            /\ active' = [j \in HashId |-> IF j = i THEN q.isActive
                                           ELSE active[j] /\ j \notin Deactivated(q, m)]
            /\ dirty' = dirty \cup {i} \cup Deactivated(q, m)
      BY <1>1, <2>3, NewRows
    <3>2. m = n /\ Deactivated(q, n) = {j \in HashId : bound[j] = n}
      BY <1>1, <2>1, <3>1 DEF Deactivated
    <3>3. \A j \in HashId : j # i /\ bound'[j] = n => ~active'[j]
      BY <1>1, <3>1, <3>2 DEF IInv, TypeOK
    <3>4. hashOf'[i] = q.hash
      BY <1>1, <3>1 DEF IInv, TypeOK
    <3> QED
      BY <3>3, <3>4
  <2>4. CASE CommitKnownHash(r)
    <3> DEFINE i == q.hashFound
    <3>1. i \in HashId /\ hashOf[i] = q.hash /\ hashOf' = hashOf
      BY <1>1, <2>4 DEF CommitKnownHash, IInv, Snapshots, Snapshot, TypeOK, RequestType
    <3>2. Deactivated(q, n) = {j \in HashId : bound[j] = n}
      BY <1>1, <2>1 DEF Deactivated
    <3>3. \A j \in HashId : j # i => bound'[j] = bound[j]
      BY <1>1, <2>4 DEF CommitKnownHash, IInv, TypeOK
    <3>4. \A j \in HashId : active'[j] /\ j \in Deactivated(q, n) => j = i
      BY <1>1, <2>4 DEF CommitKnownHash
    <3> QED
      BY <3>1, <3>2, <3>3, <3>4
  <2> QED
    BY <2>2, <2>3, <2>4
<1>2. ASSUME NEW on, NEW i, \A j \in on : j = i
      PROVE  Cardinality(on) <= 1
  <2>1. on = {} \/ on = {i}
    BY <1>2
  <2> QED
    <3>1. CASE on = {}
      BY <3>1, FS_EmptySet
    <3>2. CASE on = {i}
      <4>1. Cardinality({i}) = 1
        BY FS_Singleton
      <4> QED
        BY <3>2, <4>1
    <3> QED
      BY <2>1, <3>1, <3>2
<1>3. IInv /\ [Next]_vars => [A]_vars
  BY <1>1, <1>2
<1> QED
  BY Inductive, <1>3, PTL DEF Spec, ActivationIsExclusive

(* The task's save() changes the nodeId of a row only when a request wrote *)
(* that row after the task loaded it, for any number of hashes and nodes.  *)
THEOREM OnlyStaleRowsRebound == Spec => TaskRebindsOnlyStale
<1> DEFINE A == request' = request /\ bound' # bound
                  => \A i \in HashId : bound'[i] # bound[i] => i \in dirty
<1>1. IInv /\ [Next]_vars => [A]_vars
  <2> SUFFICES ASSUME IInv, [Next]_vars, request' = request, bound' # bound,
                      NEW i \in HashId, bound'[i] # bound[i]
               PROVE  i \in dirty
    OBVIOUS
  <2>1. ASSUME NEW r \in Request, CommitNewHash(r) \/ CommitKnownHash(r) PROVE FALSE
    <3>1. Answer(r, "answering") /\ request[r].step = "writing"
      BY <2>1 DEF CommitNewHash, CommitKnownHash, Commit
    <3> QED
      BY <3>1, AnswerType DEF IInv
  <2>2. Save
    BY <2>1, OtherSteps DEF tables
  <2>3. bound'[i] \in Reconciled(i) /\ task.step = "nodes"
    BY <2>2 DEF Save
  <2>4. bound[i] # task.loaded[i]
    BY <2>3, ReconciledRows
  <2> QED
    BY <2>3, <2>4 DEF IInv, Entities
<1> QED
  BY Inductive, <1>1, PTL DEF Spec, TaskRebindsOnlyStale
=============================================================================
