------------------------------ MODULE Messages ------------------------------
(***************************************************************************)
(* The messages of one run of eventHandler over a batch of transactions,   *)
(* from the transactions' entities on: which rooms are concerned by a      *)
(* transaction, what the constructors of the message DTOs need and delete, *)
(* and what of a batch has been sent when one of them throws.              *)
(*                                                                         *)
(* LiveFeed has the awaits of eventHandler, its interleavings and the      *)
(* versions of the rows, and takes the targets of a transaction as a       *)
(* constant; here they follow from its base transactions.  The queries     *)
(* join the service data of a minting, and the two parts of that of a      *)
(* generation, with a LEFT JOIN each: a base transaction may come without  *)
(* any of them.                                                            *)
(***************************************************************************)
EXTENDS Integers, FiniteSets, Sequences

CONSTANTS
  Address,   \* address hashes
  Currency,  \* currency hashes
  Native,    \* the hash of coti
  None,      \* no currency hash
  Batches    \* the batches: sequences of transactions

(* The service data of a minting. *)
ServiceData == [mintingCurrencyHash : Currency, receiverAddress : Address]

(* The parts of the service data of a generation.  Nothing matters of them *)
(* but that they are there; without the service data neither is.           *)
Parts == {"originatorCurrencyData", "currencyTypeData"}

(* A base transaction: "data" holds the service data of a minting, if it   *)
(* has any, "joined" the parts that a generation has.                      *)
Base == [kind : {"input", "receiver", "fullnodeFee", "networkFee", "tokenGeneration", "tokenMinting"},
         addressHash : Address, currencyHash : Currency \cup {None},
         data : SUBSET ServiceData, joined : SUBSET Parts]

Transaction == [type : {"Transfer", "TokenGeneration", "TokenMinting"},
                confirmed : BOOLEAN, bases : SUBSET Base]

ASSUME MessagesAssumption ==
  /\ Native \in Currency
  /\ None \notin Currency \cup Address \cup {"node", "own", "general"}
  /\ \A x \in Currency \cup Address : x \notin Nat  \* a hash is not a place in a batch
  /\ Batches \subseteq Seq(Transaction)

VARIABLES
  batch,      \* the transactions as they were read
  entity,     \* the entities: the lists of base transactions, {} when they are deleted
  step,       \* the statement that eventHandler is at
  next,       \* the transaction whose messages come next
  supplies,   \* the currencies whose supply was read
  currencies, \* the currencies that were found
  addresses,  \* the addresses whose balances and totals were read
  sent        \* the messages sent: a room, an event and what it is about

vars == <<batch, entity, step, next, supplies, currencies, addresses, sent>>

Init ==
  /\ batch \in Batches
  /\ entity = [i \in DOMAIN batch |-> {batch[i].bases}]
  /\ step = "supplies"
  /\ next = 1
  /\ supplies = {}
  /\ currencies = {}
  /\ addresses = {}
  /\ sent = {}

-----------------------------------------------------------------------------
(* The targets of some of the transactions.  Both functions throw for a    *)
(* minting without service data, and for deleted lists.                    *)

Bases(I) == UNION {UNION entity[i] : i \in I}

OfKind(I, kind) == {b \in Bases(I) : b.kind = kind}

(* Mutation: ?. where the service data is read. *)
TargetsThrow_OnlyDeleted(I) == \E i \in I : entity[i] = {}

TargetsThrow(I) ==
  (\E i \in I : entity[i] = {}) \/ (\E b \in OfKind(I, "tokenMinting") : b.data = {})

Minted(I) == UNION {b.data : b \in OfKind(I, "tokenMinting")}

(* Mutation: the receiver of minted tokens is not told. *)
AddressesToNotify_NoReceiver(I) == {b.addressHash : b \in Bases(I)}

(* getTransactionsAddressesToNotify *)
AddressesToNotify(I) ==
  {b.addressHash : b \in Bases(I)} \cup {d.receiverAddress : d \in Minted(I)}

(* getTransactionsCurrencyHashesToNotify: coti is always one of them. *)
CurrencyHashesToNotify(I) ==
  {Native} \cup ({b.currencyHash : b \in Bases(I)} \ {None})
           \cup {d.mintingCurrencyHash : d \in Minted(I)}

All == DOMAIN batch

-----------------------------------------------------------------------------

Message(room, event, about) == [room |-> room, event |-> event, about |-> about]

(* catch: the rest is not sent, and nobody will send it. *)
Throw ==
  /\ step' = "failed"
  /\ UNCHANGED <<batch, entity, next, supplies, currencies, addresses, sent>>

(* A query fails. *)
QueryFails == step \in {"supplies", "currencies", "balances"} /\ Throw

(* Mutation: transactions without consensus count as well. *)
ReadSupplies_Unconfirmed ==
  LET mintings == {i \in All : batch[i].type = "TokenMinting"} IN
  /\ step = "supplies"
  /\ IF TargetsThrow(mintings) THEN Throw
     ELSE /\ supplies' \in SUBSET (CurrencyHashesToNotify(mintings) \ {Native})
          /\ step' = "currencies"
          /\ UNCHANGED <<batch, entity, next, currencies, addresses, sent>>

(* getCurrentSupplyUpdate: of the currencies of the confirmed mintings,    *)
(* those that have a row and balances.                                     *)
ReadSupplies ==
  LET mintings == {i \in All : batch[i].type = "TokenMinting" /\ batch[i].confirmed} IN
  /\ step = "supplies"
  /\ IF TargetsThrow(mintings) THEN Throw
     ELSE /\ supplies' \in SUBSET (CurrencyHashesToNotify(mintings) \ {Native})
          /\ step' = "currencies"
          /\ UNCHANGED <<batch, entity, next, currencies, addresses, sent>>

(* getCurrencyIdsByCurrencyHashes finds those that have a row. *)
ReadCurrencies ==
  /\ step = "currencies"
  /\ IF TargetsThrow(All) THEN Throw
     ELSE /\ currencies' \in SUBSET CurrencyHashesToNotify(All)
          /\ step' = "balances"
          /\ UNCHANGED <<batch, entity, next, supplies, addresses, sent>>

(* getNativeBalances, getTotalTransactionCountMap; what the targets need   *)
(* has just been looked at.                                                *)
ReadBalances ==
  /\ step = "balances"
  /\ addresses' = AddressesToNotify(All)
  /\ step' = "tokens"
  /\ UNCHANGED <<batch, entity, next, supplies, currencies, sent>>

(* The confirmed generations.  The symbol is taken from the originator     *)
(* data of the first one of a transaction, which may be any of them.       *)
Generations == {i \in All : batch[i].confirmed /\ OfKind({i}, "tokenGeneration") # {}}

HasSymbol(b) == "originatorCurrencyData" \in b.joined

SymbolThrows ==
  /\ step = "tokens"
  /\ \E i \in Generations : \E b \in OfKind({i}, "tokenGeneration") : ~HasSymbol(b)
  /\ Throw

(* The tokens are sent if all of them are found.  The total, which is      *)
(* about no transaction, is left out.                                      *)
SendTokens ==
  /\ step = "tokens"
  /\ \A i \in Generations : \E b \in OfKind({i}, "tokenGeneration") : HasSymbol(b)
  /\ \E I \in {{}, Generations} : sent' = sent \cup {Message("Tokens", "NewTokens", i) : i \in I}
  /\ step' = "sendSupplies"
  /\ UNCHANGED <<batch, entity, next, supplies, currencies, addresses>>

SendSupplies ==
  /\ step = "sendSupplies"
  /\ sent' = sent \cup {Message(c, "TokenCirculatingSupplyUpdate", c) : c \in supplies}
  /\ step' = "transactions"
  /\ UNCHANGED <<batch, entity, next, supplies, currencies, addresses>>

(* The constructors of TransactionDto and of its parts need the service    *)
(* data of every minting and both parts of that of every generation.       *)
DtoThrows(i) ==
  \/ \E b \in OfKind({i}, "tokenMinting") : b.data = {}
  \/ \E b \in OfKind({i}, "tokenGeneration") : b.joined # Parts

MessagesOf(i) ==
  (UNION {{Message(a, "AddressTransactionsNotification", i),
           Message(a, "AddressBalanceUpdate", a),
           Message(a, "AddressTransactionsTotalNotification", a)} : a \in AddressesToNotify({i})})
  \cup {Message(c, "TokenTransactionsTotal", c) : c \in currencies}
  \cup {Message(c, "TokenTransactionsNotification", i) : c \in CurrencyHashesToNotify({i})}
  \cup {Message("node", "NodeTransactionsNotification", i),
        Message("own", "TransactionDetails", i),
        Message("general", "GeneralTransactionsNotification", i)}

(* The targets are taken before TransactionDto deletes the lists. *)
SendTransaction ==
  /\ step = "transactions" /\ next \in All
  /\ IF TargetsThrow({next}) \/ DtoThrows(next) THEN Throw
     ELSE /\ sent' = sent \cup MessagesOf(next)
          /\ entity' = [entity EXCEPT ![next] = {}]
          /\ next' = next + 1
          /\ UNCHANGED <<batch, step, supplies, currencies, addresses>>

Return ==
  /\ step = "transactions" /\ next \notin All
  /\ step' = "done"
  /\ UNCHANGED <<batch, entity, next, supplies, currencies, addresses, sent>>

Next ==
  \/ ReadSupplies \/ ReadCurrencies \/ ReadBalances \/ QueryFails
  \/ SymbolThrows \/ SendTokens \/ SendSupplies \/ SendTransaction \/ Return

Spec == Init /\ [][Next]_vars

-----------------------------------------------------------------------------
(* Properties.                                                             *)

(* The messages that carry transaction i. *)
Carrying(i) == {m \in sent : m.about = i /\ m.event # "NewTokens"}

(* The rooms that a transaction concerns: whoever it takes from, gives to  *)
(* or mints for, its currencies and coti, its node, itself and everybody.  *)
Concerned(i) ==
  LET bases == batch[i].bases
      data == UNION {b.data : b \in {b \in bases : b.kind = "tokenMinting"}}
  IN {b.addressHash : b \in bases} \cup {d.receiverAddress : d \in data}
     \cup {Native} \cup {b.currencyHash : b \in bases} \cup {d.mintingCurrencyHash : d \in data}
     \cup {"node", "own", "general"}

(* A transaction is told to all the rooms it concerns and to no other, or  *)
(* to none; and an address that is told of a transaction is told a balance *)
(* and a total that were read for it.                                      *)
ConcernedRoomsAreTold ==
  /\ \A i \in All : {m.room : m \in Carrying(i)} \in {{}, Concerned(i) \ {None}}
  /\ \A m \in sent : m.event = "AddressBalanceUpdate" => m.room \in addresses

(* A batch of which one transaction was told and another was not stopped   *)
(* at a generation that lacks a part of its service data, and in which     *)
(* nothing was missed before: it has no consensus, or the originator data  *)
(* of one of its generations is there.  Whatever else is missing stops a   *)
(* batch before anything is told of its transactions.                      *)
StopsOnlyAtGeneration ==
  step = "failed" /\ (\E i \in All : Carrying(i) # {}) =>
    LET generations == {b \in batch[next].bases : b.kind = "tokenGeneration"} IN
    /\ \E b \in generations : b.joined # Parts
    /\ batch[next].confirmed => \E b \in generations : HasSymbol(b)
    /\ \A i \in All : Carrying(i) # {} <=> i < next

(* A supply is announced only of a currency that a confirmed minting has   *)
(* to do with, and never of coti, though coti is in every set of targets.  *)
SuppliesOfConfirmedMintings ==
  \A m \in sent : m.event = "TokenCirculatingSupplyUpdate" =>
    /\ m.room # Native
    /\ \E i \in All : batch[i].type = "TokenMinting" /\ batch[i].confirmed /\ m.room \in Concerned(i)

=============================================================================
