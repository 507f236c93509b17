------------------------------- MODULE Rooms -------------------------------
(***************************************************************************)
(* The AppGateway of explorer-api: the socket.io rooms its clients join    *)
(* and leave with 'subscribe' and 'unsubscribe', and the messages that     *)
(* live-app sends to rooms through Redis.                                  *)
(*                                                                         *)
(* A payload names, for each kind of thing, one thing to follow, and sets  *)
(* a flag for each public event.  Names and events share one space of      *)
(* rooms: who follows one name as an address and as a hash is in one room, *)
(* and leaves it with either.  A socket that comes back is a new one, in   *)
(* no room.  One instance of explorer-api is modelled: instances share     *)
(* nothing but the messages, which each of them gets.                      *)
(***************************************************************************)
EXTENDS Integers, Sequences

CONSTANTS
  Client,      \* sockets
  Kind,        \* address, hash, nodeHash, tokenHash
  Name,        \* addresses and hashes
  Flag,        \* nodeUpdates, treasuryTotals, activeWallets, ...
  EventOf,     \* EventOf[f]: the SocketEvents value that is the flag's room
  None,        \* a kind that the payload leaves out
  NodeUpdates, \* the value of SocketEvents.NodeUpdates
  MaxMessages  \* bound: messages

ASSUME RoomsAssumption ==
  /\ DOMAIN EventOf = Flag
  /\ Kind \cap Flag = {}
  /\ None \notin Name
  /\ MaxMessages \in Nat

Event == {EventOf[f] : f \in Flag}
Room == Name \cup Event

(* The rooms live-app sends to: the data of a node goes to the room of its *)
(* hash, and nothing at all to the room of the event NodeUpdates.          *)
SentTo == Room \ {NodeUpdates}

Payload == [names : [Kind -> Name \cup {None}], flags : SUBSET Flag]

(* What a client follows: a name as a kind, or the event of a flag. *)
Subscription == Kind \X Name \cup {<<f, EventOf[f]>> : f \in Flag}

VARIABLES
  connected,  \* the sockets that are connected
  joined,     \* joined[c]: the rooms of socket c
  wire,       \* the messages on their way from live-app
  sent,       \* how many messages live-app has sent
  got,        \* got[c]: the messages socket c was sent
  \* history variables
  asked,      \* asked[c]: what c has subscribed to and not unsubscribed from
  shadowed    \* shadowed[c]: what of it c left with another subscription's name

vars == <<connected, joined, wire, sent, got, asked, shadowed>>

Init ==
  /\ connected = {}
  /\ joined = [c \in Client |-> {}]
  /\ wire = <<>>
  /\ sent = 0
  /\ got = [c \in Client |-> {}]
  /\ asked = [c \in Client |-> {}]
  /\ shadowed = [c \in Client |-> {}]

(* What a payload asks for. *)
Asks(p) == {s \in Subscription : IF s[1] \in Flag THEN s[1] \in p.flags ELSE p.names[s[1]] = s[2]}

RoomsOf(subs) == {s[2] : s \in subs}

(* What c follows, and is in the room of. *)
Follows(c) == asked[c] \ shadowed[c]

(* The messages on their way are no longer due to c, but those to rooms. *)
DueOnly(c, rooms) ==
  [i \in DOMAIN wire |-> IF wire[i].room \in rooms THEN wire[i]
                         ELSE [wire[i] EXCEPT !.due = @ \ {c}]]

-----------------------------------------------------------------------------

(* handleConnection: the socket joins a room of its own, which nobody      *)
(* sends to.                                                               *)
Connect(c) ==
  /\ c \notin connected
  /\ connected' = connected \cup {c}
  /\ UNCHANGED <<joined, wire, sent, got, asked, shadowed>>

(* The socket closes and leaves its rooms; c is from now on a new one. *)
Disconnect(c) ==
  /\ c \in connected
  /\ connected' = connected \ {c}
  /\ joined' = [joined EXCEPT ![c] = {}]
  /\ got' = [got EXCEPT ![c] = {}]
  /\ asked' = [asked EXCEPT ![c] = {}]
  /\ shadowed' = [shadowed EXCEPT ![c] = {}]
  /\ wire' = DueOnly(c, {})
  /\ UNCHANGED sent

(* The rooms that 'subscribe' joins. *)
Entered(p) == {p.names[k] : k \in {k \in Kind : p.names[k] # None}} \cup {EventOf[f] : f \in p.flags}

Subscribe(c, p) ==
  /\ c \in connected
  /\ joined' = [joined EXCEPT ![c] = @ \cup Entered(p)]
  /\ asked' = [asked EXCEPT ![c] = @ \cup Asks(p)]
  /\ shadowed' = [shadowed EXCEPT ![c] = {s \in @ : s[2] \notin RoomsOf(Asks(p))}]
  /\ UNCHANGED <<connected, wire, sent, got>>

(* Mutation: a flag leaves the room of its own name. *)
Left_ByFlag(p) == {p.names[k] : k \in {k \in Kind : p.names[k] # None}} \cup p.flags

(* Mutation: the flags that are not set are left. *)
Left_Unset(p) == {p.names[k] : k \in {k \in Kind : p.names[k] # None}} \cup {EventOf[f] : f \in Flag \ p.flags}

(* The rooms that 'unsubscribe' leaves. *)
Left(p) == {p.names[k] : k \in {k \in Kind : p.names[k] # None}} \cup {EventOf[f] : f \in p.flags}

Unsubscribe(c, p) ==
  LET rest == asked[c] \ Asks(p)
      dropped == shadowed[c] \cup {s \in rest : s[2] \in RoomsOf(Asks(p))}
  IN
  /\ c \in connected
  /\ joined' = [joined EXCEPT ![c] = @ \ Left(p)]
  /\ asked' = [asked EXCEPT ![c] = rest]
  /\ shadowed' = [shadowed EXCEPT ![c] = dropped \cap rest]
  /\ wire' = DueOnly(c, RoomsOf(rest \ dropped))
  /\ UNCHANGED <<connected, sent, got>>

-----------------------------------------------------------------------------

(* sendMessageToRoom of live-app: the message goes to Redis, due to those  *)
(* who follow its room by now.                                             *)
SendMessageToRoom(r) ==
  /\ sent < MaxMessages
  /\ sent' = sent + 1
  /\ wire' = Append(wire, [room |-> r, id |-> sent + 1,
                           due |-> {c \in Client : r \in RoomsOf(Follows(c))}])
  /\ UNCHANGED <<connected, joined, got, asked, shadowed>>

(* Redis hands the oldest message on, and it is emitted to the room. *)
Deliver ==
  /\ wire # <<>>
  /\ got' = [c \in Client |-> IF Head(wire).room \in joined[c] THEN got[c] \cup {Head(wire).id} ELSE got[c]]
  /\ wire' = Tail(wire)
  /\ UNCHANGED <<connected, joined, sent, asked, shadowed>>

(* The connection to Redis breaks: what is on its way is lost. *)
LoseLink ==
  /\ wire # <<>>
  /\ wire' = <<>>
  /\ UNCHANGED <<connected, joined, sent, got, asked, shadowed>>

Next ==
  \/ \E c \in Client :
       \/ Connect(c) \/ Disconnect(c)
       \/ \E p \in Payload : Subscribe(c, p) \/ Unsubscribe(c, p)
  \/ \E r \in SentTo : SendMessageToRoom(r)
  \/ Deliver \/ LoseLink

Spec == Init /\ [][Next]_vars

-----------------------------------------------------------------------------
(* Properties.                                                             *)

Message == [room : SentTo, id : 1..MaxMessages, due : SUBSET Client]

(* The variables have their types, and only connected sockets are in a room. *)
TypeOK ==
  /\ connected \subseteq Client
  /\ joined \in [Client -> SUBSET Room]
  /\ wire \in Seq(Message)
  /\ sent \in 0..MaxMessages
  /\ got \in [Client -> SUBSET (1..MaxMessages)]
  /\ asked \in [Client -> SUBSET Subscription]
  /\ shadowed \in [Client -> SUBSET Subscription]
  /\ \A c \in Client : shadowed[c] \subseteq asked[c]
  /\ \A c \in Client \ connected : joined[c] = {}

(* A message that is not lost with the connection to Redis reaches every   *)
(* socket that followed its room when it was sent and has not stopped      *)
(* since: whatever else the socket has subscribed to or unsubscribed from, *)
(* but for the same name as another kind.                                  *)
NothingMissed ==
  [][Deliver => \A c \in Head(wire).due : Head(wire).id \in got'[c]]_vars

(* A socket is sent nothing after it has unsubscribed, messages that were  *)
(* on their way then included, and nothing it has not asked for.           *)
NothingUnwanted ==
  [][\A c \in Client : got'[c] # got[c] /\ c \in connected' =>
       Head(wire).room \in RoomsOf(Follows(c))]_vars
=============================================================================
