------------------------------ MODULE Rooms_proofs ------------------------------
(***************************************************************************)
(* Theorems of Rooms, for any sockets, kinds, names, flags and numbers of  *)
(* messages.  The gateway keeps no list of what a socket follows; that the *)
(* rooms it is in are nevertheless those of what it follows is the         *)
(* invariant that both properties rest on.                                 *)
(***************************************************************************)
EXTENDS Rooms, TLAPS

JoinedIsFollowed == \A c \in Client : joined[c] = RoomsOf(Follows(c))

DueAreJoined == \A i \in DOMAIN wire : \A c \in wire[i].due : wire[i].room \in joined[c]

IInv == TypeOK /\ JoinedIsFollowed /\ DueAreJoined

(* 'subscribe' joins, and 'unsubscribe' leaves, the rooms of what the      *)
(* payload asks for.                                                       *)
LEMMA AskedRooms ==
  ASSUME NEW p \in Payload
  PROVE  /\ RoomsOf(Asks(p)) = Entered(p) /\ Left(p) = Entered(p)
         /\ Entered(p) \subseteq Room /\ Asks(p) \subseteq Subscription
<1>1. ASSUME NEW s \in Asks(p) PROVE s[2] \in Entered(p)
  <2>1. s \in Subscription /\ (IF s[1] \in Flag THEN s[1] \in p.flags ELSE p.names[s[1]] = s[2])
    BY DEF Asks
  <2>2. CASE s \in Kind \X Name
    BY <2>1, <2>2, RoomsAssumption DEF Entered
  <2>3. CASE s \in {<<f, EventOf[f]>> : f \in Flag}
    BY <2>1, <2>3 DEF Entered
  <2> QED
    BY <2>1, <2>2, <2>3 DEF Subscription
<1>2. ASSUME NEW x \in Entered(p) PROVE \E s \in Asks(p) : s[2] = x
  <2>1. CASE \E k \in Kind : p.names[k] # None /\ x = p.names[k]
    <3>1. PICK k \in Kind : p.names[k] # None /\ x = p.names[k]
      BY <2>1
    <3>2. <<k, x>> \in Asks(p)
      BY <3>1, RoomsAssumption DEF Asks, Subscription, Payload
    <3> QED
      BY <3>2
  <2>2. CASE \E f \in p.flags : x = EventOf[f]
    <3>1. PICK f \in p.flags : x = EventOf[f]
      BY <2>2
    <3>2. <<f, x>> \in Asks(p)
      BY <3>1 DEF Asks, Subscription, Payload
    <3> QED
      BY <3>2
  <2> QED
    BY <2>1, <2>2 DEF Entered
<1>3. Entered(p) \subseteq Room
  BY DEF Entered, Room, Event, Payload
<1> QED
  BY <1>1, <1>2, <1>3 DEF RoomsOf, Left, Entered, Asks

(* The messages keep their rooms and lose the due socket only. *)
LEMMA DueOnlyType ==
  ASSUME wire \in Seq(Message), NEW c \in Client, NEW rooms
  PROVE  /\ DueOnly(c, rooms) \in Seq(Message)
         /\ DOMAIN DueOnly(c, rooms) = DOMAIN wire
         /\ \A i \in DOMAIN wire :
              /\ DueOnly(c, rooms)[i].room = wire[i].room
              /\ DueOnly(c, rooms)[i].due \subseteq wire[i].due
              /\ c \in DueOnly(c, rooms)[i].due => wire[i].room \in rooms
<1> DEFINE w == DueOnly(c, rooms)
<1>1. w = [i \in DOMAIN wire |-> IF wire[i].room \in rooms THEN wire[i]
                                 ELSE [wire[i] EXCEPT !.due = @ \ {c}]]
  BY DEF DueOnly
<1>2. \A i \in DOMAIN wire : wire[i] \in Message
  OBVIOUS
<1>3. \A i \in DOMAIN wire :
        /\ w[i] \in Message
        /\ w[i].room = wire[i].room
        /\ w[i].due \subseteq wire[i].due
        /\ c \in w[i].due => wire[i].room \in rooms
  BY <1>1, <1>2 DEF Message
<1>4. DOMAIN w = 1..Len(wire) /\ Len(wire) \in Nat
  BY <1>1
<1>5. w \in [1..Len(wire) -> Message]
  BY <1>1, <1>3
<1>6. w \in Seq(Message)
  BY <1>4, <1>5
<1> HIDE DEF w
<1> QED
  BY <1>3, <1>4, <1>6 DEF w

LEMMA InitIInv == Init => IInv
BY RoomsAssumption
   DEF Init, IInv, TypeOK, JoinedIsFollowed, DueAreJoined, RoomsOf, Follows

LEMMA ConnectKeeps ==
  ASSUME IInv, NEW c \in Client, Connect(c)
  PROVE  IInv'
BY DEF Connect, IInv, TypeOK, JoinedIsFollowed, DueAreJoined, Follows

LEMMA DisconnectKeeps ==
  ASSUME IInv, NEW c \in Client, Disconnect(c)
  PROVE  IInv'
<1>1. TypeOK'
  BY DueOnlyType DEF Disconnect, IInv, TypeOK
<1>2. JoinedIsFollowed'
  BY DEF Disconnect, IInv, TypeOK, JoinedIsFollowed, Follows, RoomsOf
<1>3. DueAreJoined'
  <2>1. wire' = DueOnly(c, {}) /\ wire \in Seq(Message)
    BY DEF Disconnect, IInv, TypeOK
  <2>2. \A i \in DOMAIN wire' :
          /\ i \in DOMAIN wire /\ wire'[i].room = wire[i].room
          /\ wire'[i].due \subseteq wire[i].due \ {c}
    BY <2>1, DueOnlyType
  <2>3. \A d \in Client \ {c} : joined'[d] = joined[d]
    BY DEF Disconnect, IInv, TypeOK
  <2>4. \A i \in DOMAIN wire : wire[i].due \subseteq Client
    <3>1. \A i \in DOMAIN wire : wire[i] \in Message
      BY <2>1
    <3> QED
      BY <3>1 DEF Message
  <2> QED
    BY <2>2, <2>3, <2>4 DEF IInv, DueAreJoined
<1> QED
  BY <1>1, <1>2, <1>3 DEF IInv

LEMMA SubscribeKeeps ==
  ASSUME IInv, NEW c \in Client, NEW p \in Payload, Subscribe(c, p)
  PROVE  IInv'
<1>1. /\ c \in connected
      /\ joined' = [joined EXCEPT ![c] = @ \cup Entered(p)]
      /\ asked' = [asked EXCEPT ![c] = @ \cup Asks(p)]
      /\ shadowed' = [shadowed EXCEPT ![c] = {s \in @ : s[2] \notin RoomsOf(Asks(p))}]
      /\ UNCHANGED <<connected, wire, sent, got>>
  BY DEF Subscribe
<1>2. TypeOK'
  <2>1. joined' \in [Client -> SUBSET Room] /\ asked' \in [Client -> SUBSET Subscription]
    BY <1>1, AskedRooms DEF IInv, TypeOK
  <2>2. /\ shadowed' \in [Client -> SUBSET Subscription]
        /\ \A d \in Client : shadowed'[d] \subseteq asked'[d]
    BY <1>1 DEF IInv, TypeOK
  <2>3. \A d \in Client \ connected' : joined'[d] = {}
    BY <1>1 DEF IInv, TypeOK
  <2> QED
    BY <1>1, <2>1, <2>2, <2>3 DEF IInv, TypeOK
<1>3. JoinedIsFollowed'
  <2>1. \A d \in Client \ {c} : Follows(d)' = Follows(d) /\ joined'[d] = joined[d]
    BY <1>1 DEF IInv, TypeOK, Follows
  <2>2. joined'[c] = joined[c] \cup RoomsOf(Asks(p)) /\ joined[c] = RoomsOf(Follows(c))
    BY <1>1, AskedRooms DEF IInv, TypeOK, JoinedIsFollowed
  <2>3. Follows(c)' = (asked[c] \cup Asks(p))
                      \ {s \in shadowed[c] : s[2] \notin RoomsOf(Asks(p))}
    BY <1>1 DEF IInv, TypeOK, Follows
  <2>4. RoomsOf(Follows(c)') = RoomsOf(Follows(c)) \cup RoomsOf(Asks(p))
    BY <2>3 DEF RoomsOf, Follows
  <2> QED
    BY <2>1, <2>2, <2>4 DEF IInv, JoinedIsFollowed, RoomsOf
<1>4. DueAreJoined'
  BY <1>1 DEF IInv, TypeOK, DueAreJoined, Message
<1> QED
  BY <1>2, <1>3, <1>4 DEF IInv

LEMMA UnsubscribeKeeps ==
  ASSUME IInv, NEW c \in Client, NEW p \in Payload, Unsubscribe(c, p)
  PROVE  IInv'
<1> DEFINE rest == asked[c] \ Asks(p)
           dropped == shadowed[c] \cup {s \in rest : s[2] \in RoomsOf(Asks(p))}
<1>1. /\ c \in connected
      /\ joined' = [joined EXCEPT ![c] = @ \ Entered(p)]
      /\ asked' = [asked EXCEPT ![c] = rest]
      /\ shadowed' = [shadowed EXCEPT ![c] = dropped \cap rest]
      /\ wire' = DueOnly(c, RoomsOf(rest \ dropped))
      /\ UNCHANGED <<connected, sent, got>>
  BY AskedRooms DEF Unsubscribe
<1>2. wire \in Seq(Message)
  BY DEF IInv, TypeOK
<1>3. TypeOK'
  <2>1. joined' \in [Client -> SUBSET Room] /\ asked' \in [Client -> SUBSET Subscription]
    BY <1>1 DEF IInv, TypeOK
  <2>2. dropped \cap rest \in SUBSET Subscription
    BY DEF IInv, TypeOK
  <2>3. /\ shadowed' \in [Client -> SUBSET Subscription]
        /\ \A d \in Client : shadowed'[d] \subseteq asked'[d]
    BY <1>1, <2>2 DEF IInv, TypeOK
  <2>4. wire' \in Seq(Message)
    BY <1>1, <1>2, DueOnlyType
  <2>5. \A d \in Client \ connected' : joined'[d] = {}
    BY <1>1 DEF IInv, TypeOK
  <2> QED
    BY <1>1, <2>1, <2>3, <2>4, <2>5 DEF IInv, TypeOK
<1>4. JoinedIsFollowed' /\ joined'[c] = RoomsOf(rest \ dropped)
  <2>1. \A d \in Client \ {c} : Follows(d)' = Follows(d) /\ joined'[d] = joined[d]
    BY <1>1 DEF IInv, TypeOK, Follows
  <2>2. joined'[c] = joined[c] \ RoomsOf(Asks(p)) /\ joined[c] = RoomsOf(Follows(c))
    BY <1>1, AskedRooms DEF IInv, TypeOK, JoinedIsFollowed
  <2>3. Follows(c)' = rest \ dropped
    BY <1>1 DEF IInv, TypeOK, Follows
  <2>4. RoomsOf(rest \ dropped) = RoomsOf(Follows(c)) \ RoomsOf(Asks(p))
    BY DEF RoomsOf, Follows
  <2>5. joined'[c] = RoomsOf(Follows(c)')
    BY <2>2, <2>3, <2>4
  <2> QED
    BY <2>1, <2>2, <2>4, <2>5 DEF IInv, JoinedIsFollowed, RoomsOf
<1>5. DueAreJoined'
  <2>1. \A i \in DOMAIN wire' :
          /\ i \in DOMAIN wire /\ wire'[i].room = wire[i].room
          /\ wire'[i].due \subseteq wire[i].due
          /\ c \in wire'[i].due => wire[i].room \in RoomsOf(rest \ dropped)
    <3> HIDE DEF rest, dropped
    <3> QED
      BY <1>1, <1>2, DueOnlyType
  <2>2. \A d \in Client \ {c} : joined'[d] = joined[d]
    BY <1>1 DEF IInv, TypeOK
  <2>3. \A i \in DOMAIN wire : wire[i].due \subseteq Client
    <3>1. \A i \in DOMAIN wire : wire[i] \in Message
      BY <1>2
    <3> QED
      BY <3>1 DEF Message
  <2> QED
    BY <1>4, <2>1, <2>2, <2>3 DEF IInv, DueAreJoined
<1> QED
  BY <1>3, <1>4, <1>5 DEF IInv

-----------------------------------------------------------------------------
(* The messages.                                                           *)

LEMMA SendMessageToRoomKeeps ==
  ASSUME IInv, NEW r \in SentTo, SendMessageToRoom(r)
  PROVE  IInv'
<1> DEFINE m == [room |-> r, id |-> sent + 1, due |-> {c \in Client : r \in RoomsOf(Follows(c))}]
<1>1. /\ sent < MaxMessages /\ sent' = sent + 1
      /\ wire' = Append(wire, m)
      /\ UNCHANGED <<connected, joined, got, asked, shadowed>>
  BY DEF SendMessageToRoom
<1>2. sent + 1 \in 1..MaxMessages
  BY <1>1, RoomsAssumption DEF IInv, TypeOK
<1>3. m \in Message /\ wire \in Seq(Message)
  BY <1>2 DEF Message, IInv, TypeOK
<1>4. TypeOK'
  BY <1>1, <1>2, <1>3 DEF IInv, TypeOK
<1>5. \A d \in m.due : r \in joined[d]
  BY DEF IInv, JoinedIsFollowed
<1>6. DueAreJoined'
  <2> SUFFICES ASSUME NEW i \in DOMAIN wire', NEW d \in wire'[i].due
               PROVE  wire'[i].room \in joined[d]
    BY <1>1 DEF DueAreJoined
  <2>1. CASE i \in DOMAIN wire
    BY <1>1, <1>3, <2>1 DEF IInv, DueAreJoined
  <2>2. CASE i \notin DOMAIN wire
    <3>1. wire'[i] = m
      <4> HIDE DEF m
      <4> QED
        BY <1>1, <1>3, <2>2
    <3> QED
      BY <1>5, <3>1
  <2> QED
    BY <2>1, <2>2
<1> QED
  BY <1>1, <1>4, <1>6 DEF IInv, JoinedIsFollowed, Follows

LEMMA DeliverKeeps ==
  ASSUME IInv, Deliver
  PROVE  IInv'
<1>1. /\ wire # <<>> /\ wire' = Tail(wire)
      /\ got' = [c \in Client |-> IF Head(wire).room \in joined[c]
                                  THEN got[c] \cup {Head(wire).id} ELSE got[c]]
      /\ UNCHANGED <<connected, joined, sent, asked, shadowed>>
  BY DEF Deliver
<1>2. /\ wire \in Seq(Message) /\ Head(wire) \in Message /\ wire' \in Seq(Message)
      /\ \A i \in DOMAIN wire' : i + 1 \in DOMAIN wire /\ wire'[i] = wire[i + 1]
  BY <1>1 DEF IInv, TypeOK
<1>3. got' \in [Client -> SUBSET (1..MaxMessages)]
  BY <1>1, <1>2 DEF IInv, TypeOK, Message
<1>4. TypeOK'
  BY <1>1, <1>2, <1>3 DEF IInv, TypeOK
<1> QED
  BY <1>1, <1>2, <1>4 DEF IInv, JoinedIsFollowed, DueAreJoined, Follows

LEMMA NextIInv == IInv /\ [Next]_vars => IInv'
<1> SUFFICES ASSUME IInv, [Next]_vars PROVE IInv'
  OBVIOUS
<1>1. CASE LoseLink
  BY <1>1 DEF LoseLink, IInv, TypeOK, JoinedIsFollowed, DueAreJoined, Follows
<1>2. CASE UNCHANGED vars
  BY <1>2 DEF vars, IInv, TypeOK, JoinedIsFollowed, DueAreJoined, Follows
<1> QED
  BY <1>1, <1>2, ConnectKeeps, DisconnectKeeps, SubscribeKeeps, UnsubscribeKeeps,
     SendMessageToRoomKeeps, DeliverKeeps DEF Next

LEMMA Inductive == Spec => []IInv
BY InitIInv, NextIInv, PTL DEF Spec

-----------------------------------------------------------------------------

(* The variables have their types, and a socket that is not connected is   *)
(* in no room.                                                             *)
THEOREM TypeCorrect == Spec => []TypeOK
<1>1. IInv => TypeOK
  BY DEF IInv
<1> QED
  BY Inductive, <1>1, PTL

(* The rooms of a socket are those of what it has subscribed to, has not   *)
(* unsubscribed from, and did not leave under another kind, although       *)
(* handleSubscribe and handleUnsubscribe keep nothing but the rooms.       *)
THEOREM RoomsAreFollowed == Spec => []JoinedIsFollowed
<1>1. IInv => JoinedIsFollowed
  BY DEF IInv
<1> QED
  BY Inductive, <1>1, PTL

(* Every message that is delivered reaches all sockets it is due to, for   *)
(* any number of sockets, names and messages on their way.                 *)
THEOREM DueAreReached == Spec => NothingMissed
<1> DEFINE A == Deliver => \A c \in Head(wire).due : Head(wire).id \in got'[c]
<1>1. IInv /\ [Next]_vars => [A]_vars
  <2> SUFFICES ASSUME IInv, Deliver, NEW c \in Head(wire).due
               PROVE  Head(wire).id \in got'[c]
    OBVIOUS
  <2>1. wire \in Seq(Message) /\ wire # <<>>
    BY DEF Deliver, IInv, TypeOK
  <2>2. 1 \in DOMAIN wire /\ Head(wire) = wire[1] /\ wire[1] \in Message
    BY <2>1
  <2>3. c \in Client /\ Head(wire).room \in joined[c]
    BY <2>2 DEF Message, IInv, DueAreJoined
  <2> QED
    BY <2>3 DEF Deliver
<1> QED
  BY Inductive, <1>1, PTL DEF Spec, NothingMissed

(* A socket is sent only what it follows at the moment of the delivery.    *)
THEOREM OnlyFollowedIsSent == Spec => NothingUnwanted
<1> DEFINE A == \A c \in Client : got'[c] # got[c] /\ c \in connected' =>
                  Head(wire).room \in RoomsOf(Follows(c))
<1>1. IInv /\ [Next]_vars => [A]_vars
  <2> SUFFICES ASSUME IInv, [Next]_vars, NEW c \in Client, got'[c] # got[c], c \in connected'
               PROVE  Head(wire).room \in RoomsOf(Follows(c))
    OBVIOUS
  <2>1. CASE Deliver
    BY <2>1 DEF Deliver, IInv, TypeOK, JoinedIsFollowed
  <2>2. ASSUME NEW d \in Client, Disconnect(d) PROVE FALSE
    BY <2>2 DEF Disconnect, IInv, TypeOK
  <2>3. got' = got => FALSE
    OBVIOUS
  <2> QED
    BY <2>1, <2>2, <2>3
       DEF Next, Connect, Subscribe, Unsubscribe, SendMessageToRoom, LoseLink, vars
<1> QED
  BY Inductive, <1>1, PTL DEF Spec, NothingUnwanted
=============================================================================
