---------------------------- MODULE Messages_proofs ----------------------------
(***************************************************************************)
(* Theorems of Messages, for any set of batches of any length.  The        *)
(* constructor of a message deletes the lists that the targets are taken   *)
(* from, so the invariant says which entities still have theirs, what each *)
(* earlier statement has made sure of, and what has been told of whom.     *)
(***************************************************************************)
EXTENDS Messages, TLAPS

Steps == {"supplies", "currencies", "balances", "tokens", "sendSupplies", "transactions",
          "done", "failed"}

Kept ==
  /\ batch \in Seq(Transaction) /\ step \in Steps
  /\ next \in Nat \ {0}
  /\ DOMAIN entity = All
  /\ \A i \in All : entity[i] = IF i < next THEN {} ELSE {batch[i].bases}
  /\ step \notin {"transactions", "done", "failed"} => next = 1
  /\ step \in {"supplies", "currencies", "balances"} => sent = {}
  /\ currencies \subseteq Currency

(* The mintings of a transaction have their service data. *)
MintingsHaveData(i) == \A b \in batch[i].bases : b.kind = "tokenMinting" => b.data # {}

(* A generation of a transaction that nothing notices before its message. *)
Unnoticed(i) ==
  LET generations == {b \in batch[i].bases : b.kind = "tokenGeneration"} IN
  /\ \E b \in generations : b.joined # Parts
  /\ batch[i].confirmed => \E b \in generations : HasSymbol(b)

(* What has been looked at before anything is sent of a transaction. *)
Looked ==
  /\ step \in {"balances", "tokens", "sendSupplies", "transactions"}
       => \A i \in All : MintingsHaveData(i)
  /\ step \in {"sendSupplies", "transactions"}
       => \A i \in All : batch[i].confirmed /\ (\E b \in batch[i].bases : b.kind = "tokenGeneration")
            => \E b \in batch[i].bases : b.kind = "tokenGeneration" /\ HasSymbol(b)
  /\ step = "failed" => next = 1 \/ Unnoticed(next)

(* The addresses that a transaction concerns. *)
ConcernedAddresses(i) ==
  {b.addressHash : b \in batch[i].bases}
  \cup {d.receiverAddress : d \in UNION {b.data : b \in {b \in batch[i].bases : b.kind = "tokenMinting"}}}

MintedBy(c, i) == batch[i].type = "TokenMinting" /\ batch[i].confirmed /\ c \in Concerned(i)

Told ==
  /\ \A i \in All : {m.room : m \in Carrying(i)} = IF i < next THEN Concerned(i) \ {None} ELSE {}
  /\ \A m \in sent : m.event = "AddressBalanceUpdate" => m.room \in addresses
  /\ step \in {"tokens", "sendSupplies", "transactions"}
       => \A i \in All : ConcernedAddresses(i) \subseteq addresses

Supplies ==
  /\ \A c \in supplies : c \in Currency /\ c # Native /\ \E i \in All : MintedBy(c, i)
  /\ \A m \in sent : m.event = "TokenCirculatingSupplyUpdate" => m.room \in supplies

IInv == Kept /\ Looked /\ Told /\ Supplies

-----------------------------------------------------------------------------
(* The targets.                                                            *)

LEMMA Typed ==
  ASSUME batch \in Seq(Transaction), NEW i \in All
  PROVE  /\ i \in Nat /\ batch[i] \in Transaction
         /\ \A b \in batch[i].bases :
              /\ b \in Base /\ b.addressHash \in Address /\ b.currencyHash \in Currency \cup {None}
              /\ \A d \in b.data : d.receiverAddress \in Address /\ d.mintingCurrencyHash \in Currency
<1>1. i \in Nat /\ batch[i] \in Transaction
  BY DEF All
<1> QED
  BY <1>1 DEF Transaction, Base, ServiceData

LEMMA BasesOf ==
  ASSUME NEW I \in SUBSET All, \A i \in I : entity[i] = {batch[i].bases}
  PROVE  \A b : b \in Bases(I) <=> \E i \in I : b \in batch[i].bases
BY DEF Bases

(* The targets of one transaction whose lists are there. *)
LEMMA Targets ==
  ASSUME batch \in Seq(Transaction), NEW i \in All, entity[i] = {batch[i].bases}
  PROVE  /\ AddressesToNotify({i}) = ConcernedAddresses(i)
         /\ AddressesToNotify({i}) \subseteq Address
         /\ CurrencyHashesToNotify({i}) \subseteq Currency
         /\ AddressesToNotify({i}) \cup CurrencyHashesToNotify({i}) \cup {"node", "own", "general"}
              = Concerned(i) \ {None}
<1>1. Bases({i}) = batch[i].bases
  BY BasesOf
<1>2. Minted({i}) = UNION {b.data : b \in {b \in batch[i].bases : b.kind = "tokenMinting"}}
  BY <1>1 DEF Minted, OfKind
<1>3. AddressesToNotify({i}) = ConcernedAddresses(i)
  BY <1>1, <1>2 DEF AddressesToNotify, ConcernedAddresses
<1>4. \A d \in Minted({i}) : d.receiverAddress \in Address /\ d.mintingCurrencyHash \in Currency
  BY <1>2, Typed
<1>5. AddressesToNotify({i}) \subseteq Address
  BY <1>1, <1>4, Typed DEF AddressesToNotify
<1>6. CurrencyHashesToNotify({i}) \subseteq Currency
  <2>1. {b.currencyHash : b \in batch[i].bases} \ {None} \subseteq Currency
    BY Typed
  <2>2. {d.mintingCurrencyHash : d \in Minted({i})} \subseteq Currency
    BY <1>4
  <2> QED
    BY <1>1, <2>1, <2>2, MessagesAssumption DEF CurrencyHashesToNotify
<1>7. Concerned(i) = ConcernedAddresses(i) \cup {Native} \cup {b.currencyHash : b \in batch[i].bases}
                     \cup {d.mintingCurrencyHash : d \in Minted({i})} \cup {"node", "own", "general"}
  BY <1>2 DEF Concerned, ConcernedAddresses
<1>8. /\ CurrencyHashesToNotify({i}) =
           {Native} \cup ({b.currencyHash : b \in batch[i].bases} \ {None})
           \cup {d.mintingCurrencyHash : d \in Minted({i})}
      /\ None \notin Address \cup Currency \cup {"node", "own", "general"}
  BY <1>1, MessagesAssumption DEF CurrencyHashesToNotify
<1>9. AddressesToNotify({i}) \cup CurrencyHashesToNotify({i}) \cup {"node", "own", "general"}
        = Concerned(i) \ {None}
  <2>1. None \notin AddressesToNotify({i}) \cup CurrencyHashesToNotify({i})
                    \cup {"node", "own", "general"}
    BY <1>5, <1>6, <1>8
  <2>2. Concerned(i) \ {None}
          = (AddressesToNotify({i}) \cup CurrencyHashesToNotify({i}) \cup {"node", "own", "general"})
            \ {None}
    BY <1>3, <1>7, <1>8
  <2> QED
    BY <2>1, <2>2
<1> QED
  BY <1>3, <1>5, <1>6, <1>9

(* The currencies of a set of transactions are those each concerns. *)
LEMMA CurrenciesConcern ==
  ASSUME batch \in Seq(Transaction), NEW I \in SUBSET All,
         \A i \in I : entity[i] = {batch[i].bases},
         NEW c \in CurrencyHashesToNotify(I)
  PROVE  c \in Currency /\ (c # Native => \E i \in I : c \in Concerned(i))
<1>1. CASE c = Native
  BY <1>1, MessagesAssumption
<1>2. CASE c \in {b.currencyHash : b \in Bases(I)} \ {None}
  <2>1. PICK b \in Bases(I) : c = b.currencyHash /\ c # None
    BY <1>2
  <2>2. PICK i \in I : b \in batch[i].bases
    BY <2>1, BasesOf
  <2> QED
    BY <2>1, <2>2, Typed DEF Concerned
<1>3. CASE c \in {d.mintingCurrencyHash : d \in Minted(I)}
  <2>1. PICK b \in Bases(I) : b.kind = "tokenMinting" /\ \E d \in b.data : c = d.mintingCurrencyHash
    BY <1>3 DEF Minted, OfKind
  <2>2. PICK i \in I : b \in batch[i].bases
    BY <2>1, BasesOf
  <2> QED
    BY <2>1, <2>2, Typed DEF Concerned
<1> QED
  BY <1>1, <1>2, <1>3 DEF CurrencyHashesToNotify

-----------------------------------------------------------------------------

LEMMA InitIInv == Init => IInv
<1> SUFFICES ASSUME Init PROVE IInv
  OBVIOUS
<1>1. batch \in Seq(Transaction)
  BY MessagesAssumption DEF Init
<1>2. \A i \in All : i \in Nat /\ ~(i < 1)
  BY <1>1 DEF All
<1>3. Kept
  BY <1>1, <1>2 DEF Init, Kept, Steps, All
<1>4. Told
  BY <1>2 DEF Init, Told, Carrying
<1> QED
  BY <1>3, <1>4 DEF Init, IInv, Looked, Supplies

(* Before the loop all lists are there. *)
LEMMA AllKept ==
  ASSUME Kept, next = 1
  PROVE  \A i \in All : i \in Nat /\ ~(i < next) /\ entity[i] = {batch[i].bases}
BY DEF Kept, All

(* The rest of a batch is given up at the first transaction, or where its  *)
(* the service data of a generation is not complete.                       *)
LEMMA ThrowKeeps ==
  ASSUME IInv, Throw, step # "failed", next = 1 \/ Unnoticed(next)
  PROVE  IInv'
<1>1. /\ step' = "failed"
      /\ UNCHANGED <<batch, entity, next, supplies, currencies, addresses, sent>>
  BY DEF Throw
<1>2. Kept'
  BY <1>1 DEF IInv, Kept, Steps, All
<1>3. Looked'
  BY <1>1 DEF Looked, Unnoticed
<1>4. Told'
  BY <1>1 DEF IInv, Told, Carrying, Concerned, All
<1>5. Supplies'
  BY <1>1 DEF IInv, Supplies, MintedBy, Concerned, All
<1> QED
  BY <1>2, <1>3, <1>4, <1>5 DEF IInv

LEMMA QueryFailsKeeps == IInv /\ QueryFails => IInv'
BY ThrowKeeps DEF QueryFails, IInv, Kept

LEMMA SymbolThrowsKeeps == IInv /\ SymbolThrows => IInv'
BY ThrowKeeps DEF SymbolThrows, IInv, Kept

(* What is told does not change with the statements that only read. *)
LEMMA OnlyReads ==
  ASSUME IInv, step \in {"supplies", "currencies", "balances"},
         step' \in {"currencies", "balances", "tokens"},
         step' \in {"currencies", "balances"} \/ addresses' = AddressesToNotify(All),
         UNCHANGED <<batch, entity, next, sent>>, currencies' \subseteq Currency
  PROVE  Kept' /\ Told'
<1>1. next = 1 /\ sent = {} /\ batch \in Seq(Transaction)
  BY DEF IInv, Kept
<1>2. Kept'
  BY <1>1 DEF IInv, Kept, Steps, All
<1>3. \A i \in All : ~(i < next) /\ {m.room : m \in Carrying(i)}' = {}
  BY <1>1, AllKept DEF IInv, Carrying
<1>4. addresses' = AddressesToNotify(All) => \A i \in All : ConcernedAddresses(i) \subseteq addresses'
  <2>1. \A b : b \in Bases(All) <=> \E i \in All : b \in batch[i].bases
    BY <1>1, AllKept, BasesOf DEF IInv
  <2>2. \A i \in All : ConcernedAddresses(i) \subseteq AddressesToNotify(All)
    BY <2>1 DEF ConcernedAddresses, AddressesToNotify, Minted, OfKind
  <2> QED
    BY <2>2
<1>5. Told'
  BY <1>1, <1>3, <1>4 DEF Told, ConcernedAddresses, All
<1> QED
  BY <1>2, <1>5

LEMMA ReadSuppliesKeeps ==
  ASSUME IInv, ReadSupplies
  PROVE  IInv'
<1> DEFINE mintings == {i \in All : batch[i].type = "TokenMinting" /\ batch[i].confirmed}
<1>1. next = 1 /\ step = "supplies" /\ sent = {} /\ batch \in Seq(Transaction) /\ Kept
  BY DEF ReadSupplies, IInv, Kept
<1>2. CASE Throw
  BY <1>1, <1>2, ThrowKeeps
<1>3. CASE ~Throw
  <2>1. /\ supplies' \subseteq CurrencyHashesToNotify(mintings) \ {Native}
        /\ step' = "currencies"
        /\ UNCHANGED <<batch, entity, next, currencies, addresses, sent>>
    BY <1>3 DEF ReadSupplies
  <2>2. Kept' /\ Told'
    BY <1>1, <2>1, OnlyReads DEF IInv, Kept
  <2>3. \A i \in mintings : entity[i] = {batch[i].bases}
    BY <1>1, AllKept
  <2>4. \A c \in supplies' : c \in Currency /\ c # Native /\ \E i \in mintings : c \in Concerned(i)
    BY <1>1, <2>1, <2>3, CurrenciesConcern
  <2>5. Supplies'
    BY <1>1, <2>1, <2>4 DEF Supplies, MintedBy, Concerned, All
  <2>6. Looked'
    BY <2>1 DEF Looked
  <2> QED
    BY <2>2, <2>5, <2>6 DEF IInv
<1> QED
  BY <1>2, <1>3

LEMMA ReadCurrenciesKeeps ==
  ASSUME IInv, ReadCurrencies
  PROVE  IInv'
<1>1. next = 1 /\ step = "currencies" /\ sent = {} /\ batch \in Seq(Transaction) /\ Kept
  BY DEF ReadCurrencies, IInv, Kept
<1>2. CASE TargetsThrow(All)
  BY <1>1, <1>2, ThrowKeeps DEF ReadCurrencies
<1>3. CASE ~TargetsThrow(All)
  <2>1. /\ currencies' \subseteq CurrencyHashesToNotify(All)
        /\ step' = "balances"
        /\ UNCHANGED <<batch, entity, next, supplies, addresses, sent>>
    BY <1>3 DEF ReadCurrencies
  <2>2. \A i \in All : entity[i] = {batch[i].bases}
    BY <1>1, AllKept
  <2>3. currencies' \subseteq Currency
    BY <1>1, <2>1, <2>2, CurrenciesConcern
  <2>4. Kept' /\ Told'
    BY <1>1, <2>1, <2>3, OnlyReads
  <2>5. \A i \in All : MintingsHaveData(i)
    BY <1>3, <2>2, BasesOf DEF TargetsThrow, OfKind, MintingsHaveData
  <2>6. Looked'
    BY <2>1, <2>5 DEF Looked, MintingsHaveData, All
  <2>7. Supplies'
    BY <2>1 DEF IInv, Supplies, MintedBy, Concerned, All
  <2> QED
    BY <2>4, <2>6, <2>7 DEF IInv
<1> QED
  BY <1>2, <1>3

LEMMA ReadBalancesKeeps ==
  ASSUME IInv, ReadBalances
  PROVE  IInv'
<1>1. /\ step = "balances" /\ step' = "tokens" /\ addresses' = AddressesToNotify(All)
      /\ UNCHANGED <<batch, entity, next, supplies, currencies, sent>>
  BY DEF ReadBalances
<1>2. Kept' /\ Told'
  BY <1>1, OnlyReads DEF IInv, Kept
<1>3. Looked'
  BY <1>1 DEF IInv, Looked, MintingsHaveData, All
<1>4. Supplies'
  BY <1>1 DEF IInv, Supplies, MintedBy, Concerned, All
<1> QED
  BY <1>2, <1>3, <1>4 DEF IInv

(* Messages that are about no transaction. *)
LEMMA SendKeeps ==
  ASSUME IInv, step \in {"tokens", "sendSupplies"}, step' \in {"sendSupplies", "transactions"},
         NEW M, sent' = sent \cup M,
         \A m \in M : \/ m.event = "NewTokens"
                      \/ m.event = "TokenCirculatingSupplyUpdate" /\ m.room \in supplies
                         /\ m.about \notin Nat,
         \/ step = "sendSupplies"
         \/ \A i \in Generations : \E b \in OfKind({i}, "tokenGeneration") : HasSymbol(b),
         UNCHANGED <<batch, entity, next, supplies, currencies, addresses>>
  PROVE  IInv'
<1>1. next = 1 /\ batch \in Seq(Transaction) /\ Kept
  BY DEF IInv, Kept
<1>2. Kept'
  BY <1>1 DEF IInv, Kept, Steps, All
<1>3. \A i \in All : Carrying(i)' = Carrying(i)
  BY <1>1, AllKept DEF Carrying
<1>4. Told'
  <2>1. \A m \in sent' : m.event = "AddressBalanceUpdate" => m.room \in addresses
    BY DEF IInv, Told
  <2>2. \A i \in All : {m.room : m \in Carrying(i)}' = {m.room : m \in Carrying(i)}
    BY <1>3
  <2> QED
    BY <2>1, <2>2 DEF IInv, Told, Concerned, ConcernedAddresses, All
<1>5. Supplies'
  BY DEF IInv, Supplies, MintedBy, Concerned, All
<1>6. \A i \in All : batch[i].confirmed /\ (\E b \in batch[i].bases : b.kind = "tokenGeneration")
        => \E b \in batch[i].bases : b.kind = "tokenGeneration" /\ HasSymbol(b)
  <2>1. CASE step = "sendSupplies"
    BY <2>1 DEF IInv, Looked
  <2>2. CASE \A i \in Generations : \E b \in OfKind({i}, "tokenGeneration") : HasSymbol(b)
    <3>1. \A i \in All : Bases({i}) = batch[i].bases
      BY <1>1, AllKept, BasesOf
    <3>2. \A i \in All : OfKind({i}, "tokenGeneration")
                            = {b \in batch[i].bases : b.kind = "tokenGeneration"}
      BY <3>1 DEF OfKind
    <3> QED
      BY <2>2, <3>2 DEF Generations
  <2> QED
    BY <2>1, <2>2
<1>7. Looked'
  BY <1>6 DEF IInv, Looked, MintingsHaveData, All
<1> QED
  BY <1>2, <1>4, <1>5, <1>7 DEF IInv

LEMMA SendTokensKeeps ==
  ASSUME IInv, SendTokens
  PROVE  IInv'
<1>1. PICK I \in {{}, Generations} :
        sent' = sent \cup {Message("Tokens", "NewTokens", i) : i \in I}
  BY DEF SendTokens
<1>2. \A m \in {Message("Tokens", "NewTokens", i) : i \in I} : m.event = "NewTokens"
  BY DEF Message
<1> QED
  BY <1>1, <1>2, SendKeeps DEF SendTokens

LEMMA SendSuppliesKeeps ==
  ASSUME IInv, SendSupplies
  PROVE  IInv'
<1> DEFINE M == {Message(c, "TokenCirculatingSupplyUpdate", c) : c \in supplies}
<1>1. \A m \in M : m.event = "TokenCirculatingSupplyUpdate" /\ m.room \in supplies /\ m.about \notin Nat
  BY MessagesAssumption DEF Message, IInv, Supplies
<1>2. sent' = sent \cup M /\ step = "sendSupplies" /\ step' = "transactions"
  BY DEF SendSupplies
<1> HIDE DEF M
<1> QED
  BY <1>1, <1>2, SendKeeps DEF SendSupplies

(* The messages of one transaction. *)
LEMMA MessagesOfTransaction ==
  ASSUME IInv, NEW i \in All, entity[i] = {batch[i].bases}
  PROVE  /\ {m.room : m \in {m \in MessagesOf(i) : m.about = i /\ m.event # "NewTokens"}}
              = Concerned(i) \ {None}
         /\ \A m \in MessagesOf(i) :
              /\ m.event \notin {"NewTokens", "TokenCirculatingSupplyUpdate"}
              /\ m.about = i \/ m.about \notin Nat
              /\ m.event = "AddressBalanceUpdate" => m.room \in ConcernedAddresses(i)
<1> DEFINE A == AddressesToNotify({i})
           C == CurrencyHashesToNotify({i})
<1>1. /\ A = ConcernedAddresses(i) /\ A \subseteq Address /\ C \subseteq Currency
      /\ A \cup C \cup {"node", "own", "general"} = Concerned(i) \ {None}
      /\ currencies \subseteq Currency /\ i \in Nat
  BY Targets, Typed DEF IInv, Kept
<1>2. \A x \in Address \cup Currency : x \notin Nat
  BY MessagesAssumption
<1> HIDE DEF A, C
<1>3. \A m : m \in MessagesOf(i) <=>
        \/ \E a \in A : m = Message(a, "AddressTransactionsNotification", i)
        \/ \E a \in A : m = Message(a, "AddressBalanceUpdate", a)
        \/ \E a \in A : m = Message(a, "AddressTransactionsTotalNotification", a)
        \/ \E c \in currencies : m = Message(c, "TokenTransactionsTotal", c)
        \/ \E c \in C : m = Message(c, "TokenTransactionsNotification", i)
        \/ m = Message("node", "NodeTransactionsNotification", i)
        \/ m = Message("own", "TransactionDetails", i)
        \/ m = Message("general", "GeneralTransactionsNotification", i)
  <2> DEFINE U == UNION {{Message(a, "AddressTransactionsNotification", i),
                          Message(a, "AddressBalanceUpdate", a),
                          Message(a, "AddressTransactionsTotalNotification", a)} : a \in A}
  <2>1. \A m : m \in U
          <=> \/ \E a \in A : m = Message(a, "AddressTransactionsNotification", i)
              \/ \E a \in A : m = Message(a, "AddressBalanceUpdate", a)
              \/ \E a \in A : m = Message(a, "AddressTransactionsTotalNotification", a)
    OBVIOUS
  <2>2. MessagesOf(i) =
          U \cup {Message(c, "TokenTransactionsTotal", c) : c \in currencies}
            \cup {Message(c, "TokenTransactionsNotification", i) : c \in C}
            \cup {Message("node", "NodeTransactionsNotification", i),
                  Message("own", "TransactionDetails", i),
                  Message("general", "GeneralTransactionsNotification", i)}
    BY DEF MessagesOf, A, C
  <2> DEFINE V == {Message(c, "TokenTransactionsTotal", c) : c \in currencies}
             W == {Message(c, "TokenTransactionsNotification", i) : c \in C}
             X == {Message("node", "NodeTransactionsNotification", i),
                   Message("own", "TransactionDetails", i),
                   Message("general", "GeneralTransactionsNotification", i)}
  <2>3. /\ \A m : m \in V <=> \E c \in currencies : m = Message(c, "TokenTransactionsTotal", c)
        /\ \A m : m \in W <=> \E c \in C : m = Message(c, "TokenTransactionsNotification", i)
        /\ \A m : m \in X <=> \/ m = Message("node", "NodeTransactionsNotification", i)
                              \/ m = Message("own", "TransactionDetails", i)
                              \/ m = Message("general", "GeneralTransactionsNotification", i)
    OBVIOUS
  <2>4. \A m : m \in MessagesOf(i) <=> m \in U \/ m \in V \/ m \in W \/ m \in X
    BY <2>2
  <2> HIDE DEF U, V, W, X
  <2> QED
    BY <2>1, <2>3, <2>4
<1>4. \A room, event, about :
        /\ Message(room, event, about).room = room
        /\ Message(room, event, about).event = event
        /\ Message(room, event, about).about = about
  BY DEF Message
<1>5. \A m \in MessagesOf(i) :
        /\ m.event \notin {"NewTokens", "TokenCirculatingSupplyUpdate"}
        /\ m.about = i \/ m.about \notin Nat
        /\ m.event = "AddressBalanceUpdate" => m.room \in A
  BY <1>1, <1>2, <1>3, <1>4
<1>6. \A x : x \in {m.room : m \in {m \in MessagesOf(i) : m.about = i /\ m.event # "NewTokens"}}
               <=> x \in A \cup C \cup {"node", "own", "general"}
  <2>1. ASSUME NEW m \in MessagesOf(i), m.about = i
        PROVE  m.room \in A \cup C \cup {"node", "own", "general"}
    BY <2>1, <1>1, <1>2, <1>3, <1>4
  <2>2. ASSUME NEW x \in A \cup C \cup {"node", "own", "general"}
        PROVE  \E m \in MessagesOf(i) : m.about = i /\ m.event # "NewTokens" /\ m.room = x
    BY <1>3, <1>4
  <2> QED
    BY <2>1, <2>2
<1> QED
  BY <1>1, <1>5, <1>6

LEMMA SendTransactionKeeps ==
  ASSUME IInv, SendTransaction
  PROVE  IInv'
<1>1. /\ step = "transactions" /\ next \in All /\ Kept
      /\ entity[next] = {batch[next].bases} /\ next \in Nat
      /\ Bases({next}) = batch[next].bases
  <2>1. step = "transactions" /\ next \in All /\ Kept
    BY DEF SendTransaction, IInv
  <2>2. next \in Nat /\ entity[next] = {batch[next].bases}
    BY <2>1 DEF Kept
  <2> QED
    BY <2>1, <2>2, BasesOf
<1>2. CASE TargetsThrow({next}) \/ DtoThrows(next)
  <2>1. Throw
    BY <1>2 DEF SendTransaction
  <2>2. MintingsHaveData(next)
    BY <1>1 DEF IInv, Looked
  <2>3. \E b \in batch[next].bases : b.kind = "tokenGeneration" /\ b.joined # Parts
    BY <1>1, <1>2, <2>2 DEF TargetsThrow, DtoThrows, OfKind, MintingsHaveData
  <2>4. ~batch[next].confirmed \/ \E b \in batch[next].bases : b.kind = "tokenGeneration" /\ HasSymbol(b)
    BY <1>1, <2>3 DEF IInv, Looked
  <2>5. Unnoticed(next)
    BY <2>3, <2>4 DEF Unnoticed
  <2> QED
    BY <1>1, <2>1, <2>5, ThrowKeeps
<1>3. CASE ~(TargetsThrow({next}) \/ DtoThrows(next))
  <2>1. /\ sent' = sent \cup MessagesOf(next)
        /\ entity' = [entity EXCEPT ![next] = {}]
        /\ next' = next + 1
        /\ UNCHANGED <<batch, step, supplies, currencies, addresses>>
    BY <1>3 DEF SendTransaction
  <2>2. \A i \in All : i \in Nat /\ (i < next + 1 <=> i < next \/ i = next)
    BY <1>1 DEF Kept, All
  <2>3. Kept'
    <3>1. \A i \in All : entity'[i] = IF i < next + 1 THEN {} ELSE {batch[i].bases}
      BY <1>1, <2>1, <2>2 DEF Kept
    <3>2. DOMAIN entity' = All /\ All' = All
      BY <1>1, <2>1 DEF Kept, All
    <3>3. next' = next + 1 /\ next' \in Nat \ {0}
      BY <1>1, <2>1
    <3> QED
      BY <1>1, <2>1, <3>1, <3>2, <3>3 DEF Kept, Steps
  <2>4. Looked'
    BY <1>1, <2>1 DEF IInv, Looked, MintingsHaveData, All
  <2>5. \A m \in MessagesOf(next) :
          /\ m.event \notin {"NewTokens", "TokenCirculatingSupplyUpdate"}
          /\ m.about = next \/ m.about \notin Nat
          /\ m.event = "AddressBalanceUpdate" => m.room \in addresses
    BY <1>1, MessagesOfTransaction DEF IInv, Told
  <2>6. \A i \in All : {m.room : m \in Carrying(i)}' = IF i < next + 1 THEN Concerned(i) \ {None} ELSE {}
    <3>1. PICK n \in All : n = next
      BY <1>1
    <3>2. ASSUME NEW i \in All, i # n
          PROVE  Carrying(i)' = Carrying(i)
      BY <2>1, <2>2, <2>5, <3>1, <3>2 DEF Carrying
    <3>3. Carrying(n)' = {m \in MessagesOf(n) : m.about = n /\ m.event # "NewTokens"}
      <4>1. {m.room : m \in Carrying(n)} = {}
        BY <1>1, <3>1 DEF IInv, Told
      <4>2. Carrying(n) = {}
        BY <4>1
      <4> QED
        BY <2>1, <3>1, <4>2 DEF Carrying
    <3>4. {m.room : m \in Carrying(n)}' = Concerned(n) \ {None}
      BY <1>1, <3>1, <3>3, MessagesOfTransaction
    <3>5. \A i \in All : i # n =>
            {m.room : m \in Carrying(i)}' = IF i < next THEN Concerned(i) \ {None} ELSE {}
      BY <3>2 DEF IInv, Told
    <3> QED
      BY <2>2, <3>1, <3>4, <3>5
  <2>7. Told'
    <3>1. \A m \in sent' : m.event = "AddressBalanceUpdate" => m.room \in addresses
      BY <2>1, <2>5 DEF IInv, Told
    <3> QED
      BY <1>1, <2>1, <2>6, <3>1 DEF IInv, Told, Concerned, ConcernedAddresses, All
  <2>8. Supplies'
    BY <2>1, <2>5 DEF IInv, Supplies, MintedBy, Concerned, All
  <2> QED
    BY <2>3, <2>4, <2>7, <2>8 DEF IInv
<1> QED
  BY <1>2, <1>3

LEMMA ReturnKeeps ==
  ASSUME IInv, Return \/ UNCHANGED vars
  PROVE  IInv'
<1>1. /\ UNCHANGED <<batch, entity, next, supplies, currencies, addresses, sent>>
      /\ step' = step \/ (step = "transactions" /\ step' = "done")
  BY DEF Return, vars
<1>2. Kept'
  BY <1>1 DEF IInv, Kept, Steps, All
<1>3. Looked'
  BY <1>1 DEF IInv, Looked, MintingsHaveData, Unnoticed, All
<1>4. Told'
  BY <1>1 DEF IInv, Told, Carrying, Concerned, ConcernedAddresses, All
<1>5. Supplies'
  BY <1>1 DEF IInv, Supplies, MintedBy, Concerned, All
<1> QED
  BY <1>2, <1>3, <1>4, <1>5 DEF IInv

LEMMA Inductive == Spec => []IInv
<1>1. IInv /\ [Next]_vars => IInv'
  BY ReadSuppliesKeeps, ReadCurrenciesKeeps, ReadBalancesKeeps, QueryFailsKeeps,
     SymbolThrowsKeeps, SendTokensKeeps, SendSuppliesKeeps, SendTransactionKeeps, ReturnKeeps
     DEF Next
<1> QED
  BY InitIInv, <1>1, PTL DEF Spec

-----------------------------------------------------------------------------

(* Each transaction of a batch is told to exactly the rooms it concerns,   *)
(* or to none, and the balances that are sent were read, for any batch.    *)
THEOREM AllConcernedAreTold == Spec => []ConcernedRoomsAreTold
<1>1. IInv => ConcernedRoomsAreTold
  BY DEF IInv, Told, ConcernedRoomsAreTold
<1> QED
  BY Inductive, <1>1, PTL

(* A batch stops halfway only at a generation with a part of its service   *)
(* data missing that nothing noticed before, and what was told are the     *)
(* transactions before it: a batch of any length is told up to one point.  *)
THEOREM OnlyGenerationsStop == Spec => []StopsOnlyAtGeneration
<1>1. IInv => StopsOnlyAtGeneration
  <2> SUFFICES ASSUME IInv, step = "failed", NEW i \in All, Carrying(i) # {}
               PROVE  /\ Unnoticed(next)
                      /\ \A j \in All : Carrying(j) # {} <=> j < next
    BY DEF StopsOnlyAtGeneration, Unnoticed
  <2>1. \A j \in All : Carrying(j) # {} <=> {m.room : m \in Carrying(j)} # {}
    OBVIOUS
  <2>2. \A j \in All : Native \in Concerned(j) \ {None}
    BY MessagesAssumption DEF Concerned
  <2>3. \A j \in All : Carrying(j) # {} <=> j < next
    BY <2>1, <2>2 DEF IInv, Told
  <2>4. i < next /\ i \in Nat \ {0}
    BY <2>3 DEF IInv, Kept, All
  <2>5. next # 1
    BY <2>4
  <2> QED
    BY <2>3, <2>5 DEF IInv, Looked
<1> QED
  BY Inductive, <1>1, PTL

(* Supplies are announced of the currencies of confirmed mintings only.    *)
THEOREM OnlyMintedSupplies == Spec => []SuppliesOfConfirmedMintings
<1>1. IInv => SuppliesOfConfirmedMintings
  BY DEF IInv, Supplies, MintedBy, SuppliesOfConfirmedMintings
<1> QED
  BY Inductive, <1>1, PTL
=============================================================================
