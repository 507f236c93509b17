------------------------------ MODULE Notifier ------------------------------
(***************************************************************************)
(* What the senders of live-app promise the clients of a room, whatever    *)
(* they await in between.  A sender learns that some rooms have changed,   *)
(* reads their rows, and tells these rooms in one step, in which it may    *)
(* leave some of them out; what a room is told is at least as new as the   *)
(* change the sender learned of, and was committed before it was sent.  A  *)
(* room is told nothing else.                                              *)
(*                                                                         *)
(* eventHandler of MysqlLiveService (LiveFeed) and the functions of        *)
(* CacheService (Tasks) implement it.                                      *)
(***************************************************************************)
EXTENDS Integers

CONSTANTS
  Room,    \* what clients follow, one row each
  Sender   \* invocations that send to rooms

(* Each write of a row raises its version; 0 is no row. *)
Version == Nat

VARIABLES
  store,   \* store[k]: the committed version of the row behind room k
  shown,   \* shown[k]: the version last sent to room k
  pending  \* pending[s]: the rooms s has to tell, each with the oldest version that will do

vars == <<store, shown, pending>>

(* A sender that has nothing to tell. *)
Done == [k \in {} |-> 0]

Idle(s) == pending[s] = Done

Init ==
  /\ store = [k \in Room |-> 0]
  /\ shown = [k \in Room |-> 0]
  /\ pending = [s \in Sender |-> Done]

(* The rows of the rooms in K are left alone or written once more. *)
Commit(K) ==
  /\ store' \in [Room -> Version]
  /\ \A k \in Room : IF k \in K THEN store'[k] >= store[k] ELSE store'[k] = store[k]

(* Somebody else writes a row. *)
Write(k) ==
  /\ Commit({k})
  /\ UNCHANGED <<shown, pending>>

(* A sender learns of the changes of the rooms in K; it may have written   *)
(* these rows itself.                                                      *)
Begin(s, K) ==
  /\ Idle(s)
  /\ Commit(K)
  /\ pending' = [pending EXCEPT ![s] = [k \in K |-> store'[k]]]
  /\ UNCHANGED shown

(* It ends and tells the rooms in K, each in a version it has read since.  *)
(* A query that failed leaves no room in K, an exception between two       *)
(* messages only some; the others are not told, now or later.              *)
Tell(s, K) ==
  /\ K \subseteq DOMAIN pending[s]
  /\ shown' \in [Room -> Version]
  /\ \A k \in Room :
       IF k \in K
       THEN pending[s][k] <= shown'[k] /\ shown'[k] <= store[k]
       ELSE shown'[k] = shown[k]
  /\ pending' = [pending EXCEPT ![s] = Done]
  /\ UNCHANGED store

(* The process ended, and with it all of its senders. *)
DropAll ==
  /\ pending' = [s \in Sender |-> Done]
  /\ UNCHANGED <<store, shown>>

Next ==
  \/ \E k \in Room : Write(k)
  \/ \E s \in Sender :
       \/ \E K \in (SUBSET Room) \ {{}} : Begin(s, K)
       \/ \E K \in SUBSET DOMAIN pending[s] : Tell(s, K)
  \/ DropAll

Spec == Init /\ [][Next]_vars

-----------------------------------------------------------------------------

(* A room shows only what has been committed: a client that asks the API   *)
(* after a message is never answered with something older.                 *)
ShownIsCommitted == \A k \in Room : shown[k] <= store[k]

(* The variables have their types, and no sender waits for a version that  *)
(* is not there.                                                           *)
TypeOK ==
  /\ store \in [Room -> Version]
  /\ shown \in [Room -> Version]
  /\ pending \in [Sender -> UNION {[K -> Version] : K \in SUBSET Room}]
  /\ \A s \in Sender : \A k \in DOMAIN pending[s] : pending[s][k] <= store[k]
=============================================================================
