------------------------------ MODULE LiveFeed ------------------------------
(***************************************************************************)
(* MysqlLiveService of live-app: the connection to the db_app binlog, the  *)
(* two live selects, and the event handlers that turn a diff of a select   *)
(* into messages for socket.io rooms.                                      *)
(*                                                                         *)
(* The live-select library emits 'update' on an EventEmitter, which does   *)
(* not wait for the promise a listener returns: a second diff starts a     *)
(* second eventHandler while the first one is still between two awaits.    *)
(* Every await of eventHandler is a separate step here, so handlers        *)
(* interleave with each other and with the writers of the databases.       *)
(*                                                                         *)
(* A row of the database is known by its version: 0 is no row, and each    *)
(* update of the row by the indexer (a program outside this repository)    *)
(* raises it.  A transaction is attached from version 1 and has a          *)
(* consensus time from version Confirmed on.                               *)
(***************************************************************************)
EXTENDS Integers, FiniteSets

CONSTANTS
  Tx,           \* rows of `transactions`
  Addr,         \* addresses: rows of `address_balances` and of `address_transaction_counts`
  Handler,      \* invocations of eventHandler that may run at the same time
  ZeroSpend,    \* the transactions of type ZeroSpend
  TokenTx,      \* the transactions with a token-generation base transaction
  Touches,      \* Touches[t]: the addresses of t's base transactions
  Confirmed,    \* the version from which a transaction has a consensus time
  MaxVersion,   \* bound: the indexer writes a row at most this often
  MaxSaved,     \* bound: rows the confirmation-time task saves
  MaxRestarts   \* bound: restarts of the process

ASSUME LiveFeedAssumption ==
  /\ Tx \cap Addr = {}
  /\ ZeroSpend \subseteq Tx
  /\ TokenTx \subseteq Tx
  /\ Touches \in [Tx -> SUBSET Addr]
  /\ Confirmed \in Nat \ {0}
  /\ MaxVersion \in Nat /\ MaxSaved \in Nat /\ MaxRestarts \in Nat
  /\ IsFiniteSet(Tx) /\ IsFiniteSet(Addr)

Row == Tx \cup Addr

Version == 0..MaxVersion

(* The two live selects, named by the event each one raises. *)
Feed == {"transactionConfirmationUpdate", "numberOfActiveAddresses"}

RowsOf(f) == IF f = "transactionConfirmationUpdate" THEN Tx ELSE Addr

VARIABLES
  ver,       \* ver[r]: the committed version of row r
  saved,     \* rows of confirmation_times, written by the task of live-app
  phase,     \* the promise of init(): connecting, attached or failed
  linked,    \* whether the library still receives the binlog
  firstRun,  \* firstRunMap
  seen,      \* seen[r]: the version of r in the select's last result
  step,      \* step[h]: the await at which handler h is suspended
  batch,     \* batch[h]: the rows of diff.added that h was called with
  got,       \* got[h]: what h's queries have returned so far
  shown,     \* the last message sent to each room
  restarts,
  \* history variables: the code keeps none of them
  base,      \* base[r]: r's version in the select's first result
  since,     \* since[h]: the database when h's diff was computed
  missed,    \* rows whose last change was swallowed, or lost with its batch
  overlapped \* rows renewed by two handlers that ran at the same time

database   == <<ver, saved>>
connection == <<phase, linked, firstRun, seen, base, restarts>>
handlers   == <<step, batch, got, since>>
history    == <<missed, overlapped>>
vars == <<ver, saved, phase, linked, firstRun, seen, step, batch, got, shown,
          restarts, base, since, missed, overlapped>>

Steps == {"idle", "wallets", "sendWallets", "confirmation", "sendConfirmation",
          "transactions", "lookups", "balances", "counts", "tokens",
          "totalTokens", "publish"}

Nothing == [confirmation |-> 0, wallets |-> 0, tx |-> [t \in Tx |-> 0],
            balance |-> [a \in Addr |-> 0], total |-> [a \in Addr |-> 0],
            newTokens |-> {}, tokensTotal |-> 0]

Payload == [confirmation : Nat, wallets : 0..Cardinality(Addr), tx : [Tx -> Nat],
            balance : [Addr -> Nat], total : [Addr -> Nat],
            newTokens : SUBSET Tx, tokensTotal : Nat]

Init ==
  /\ ver = [r \in Row |-> 0]
  /\ saved = 0
  /\ phase = "connecting"
  /\ linked = FALSE
  /\ firstRun = [f \in Feed |-> FALSE]
  /\ seen = [r \in Row |-> 0]
  /\ step = [h \in Handler |-> "idle"]
  /\ batch = [h \in Handler |-> {}]
  /\ got = [h \in Handler |-> Nothing]
  /\ shown = Nothing
  /\ restarts = 0
  /\ base = [r \in Row |-> 0]
  /\ since = [h \in Handler |-> [r \in Row |-> 0]]
  /\ missed = {}
  /\ overlapped = {}

-----------------------------------------------------------------------------
(* The writers of the databases.                                           *)

(* The indexer inserts or updates a row of db_app. *)
WriteRow(r) ==
  /\ ver[r] < MaxVersion
  /\ ver' = [ver EXCEPT ![r] = @ + 1]
  /\ UNCHANGED <<saved, connection, handlers, history, shown>>

(* The task of live-app that keeps the confirmation times saves a row and  *)
(* then sends it; in between other steps of the process may run.           *)
SaveConfirmationTime ==
  /\ saved < MaxSaved
  /\ saved' = saved + 1
  /\ UNCHANGED <<ver, connection, handlers, history, shown>>

-----------------------------------------------------------------------------
(* init(): a promise settled by 'ready', by 'error' or after ten seconds.  *)

Ready ==
  /\ phase = "connecting"
  /\ phase' = "attached"
  /\ linked' = TRUE
  /\ UNCHANGED <<database, firstRun, seen, base, restarts, handlers, history, shown>>

(* 'error' before 'ready': init() rejects before it attaches a select, and *)
(* nothing calls it again.                                                 *)
ErrorInInit ==
  /\ phase = "connecting"
  /\ phase' = "failed"
  /\ UNCHANGED <<database, linked, firstRun, seen, base, restarts, handlers, history, shown>>

(* Mutation: a timer that 'error' or a lost connection has to arm. *)
InitTimeout_Unarmed ==
  /\ phase = "connecting" /\ linked
  /\ phase' = "failed"
  /\ UNCHANGED <<database, linked, firstRun, seen, base, restarts, handlers, history, shown>>

InitTimeout ==
  /\ phase = "connecting"
  /\ phase' = "failed"
  /\ UNCHANGED <<database, linked, firstRun, seen, base, restarts, handlers, history, shown>>

(* 'error' after 'ready': isInit is never set, so the listener rejects a   *)
(* promise that is settled and the error is not seen by anyone.            *)
ErrorAfterInit ==
  /\ phase = "attached" /\ linked
  /\ linked' = FALSE
  /\ UNCHANGED <<database, phase, firstRun, seen, base, restarts, handlers, history, shown>>

(* The process ends and is started again: firstRunMap, the handlers and    *)
(* the selects' results were in its memory.  The rooms' clients keep what  *)
(* they were sent.                                                         *)
Restart ==
  /\ restarts < MaxRestarts
  /\ restarts' = restarts + 1
  /\ phase' = "connecting"
  /\ linked' = FALSE
  /\ firstRun' = [f \in Feed |-> FALSE]
  /\ seen' = [r \in Row |-> 0]
  /\ base' = [r \in Row |-> 0]
  /\ step' = [h \in Handler |-> "idle"]
  /\ batch' = [h \in Handler |-> {}]
  /\ got' = [h \in Handler |-> Nothing]
  /\ since' = [h \in Handler |-> [r \in Row |-> 0]]
  /\ UNCHANGED <<database, history, shown>>

-----------------------------------------------------------------------------
(* The 'update' listeners.                                                 *)

Running(h) == step[h] # "idle"

Held == UNION {batch[h] : h \in {k \in Handler : Running(k)}}

(* The select's result restricted to f now holds the committed rows. *)
Refresh(f) == [r \in Row |-> IF r \in RowsOf(f) THEN ver[r] ELSE seen[r]]

(* The number of addresses that have a balance row. *)
ActiveWallets == Cardinality({a \in Addr : ver[a] > 0})

(* The rows of f whose rooms no longer show what is committed. *)
Behind(f) ==
  IF f = "transactionConfirmationUpdate"
  THEN {t \in Tx : shown.tx[t] # ver[t]}
  ELSE {a \in Addr : shown.wallets # ActiveWallets}

(* The first diff of a select is its whole first result: it only sets      *)
(* firstRunMap.                                                            *)
FirstDiff(f) ==
  /\ phase = "attached" /\ linked
  /\ ~firstRun[f]
  /\ firstRun' = [firstRun EXCEPT ![f] = TRUE]
  /\ seen' = Refresh(f)
  /\ base' = [r \in Row |-> IF r \in RowsOf(f) THEN ver[r] ELSE base[r]]
  /\ missed' = (missed \ RowsOf(f)) \cup Behind(f)
  /\ overlapped' = overlapped \ RowsOf(f)
  /\ UNCHANGED <<database, phase, linked, restarts, handlers, shown>>

(* diff.added: the rows that are new in the result or changed since the    *)
(* last one.  Several updates of a row within minInterval are one change.  *)
Added(f) == {r \in RowsOf(f) : ver[r] # seen[r]}

(* The rows whose rooms a batch of f renews, and those of them that a      *)
(* handler still running renews too.  The number of active addresses has   *)
(* one room for all of them.                                               *)
Renewed(f) == IF f = "transactionConfirmationUpdate" THEN Added(f) ELSE Addr

Contended(f) ==
  IF f = "transactionConfirmationUpdate"
  THEN Added(f) \cap Held
  ELSE {a \in Addr : Held \cap Addr # {}}

(* Mutation: one flag of firstRunMap for both selects. *)
Notice_OneFlag(f, h) ==
  /\ phase = "attached" /\ linked
  /\ \E g \in Feed : firstRun[g]
  /\ Added(f) # {}
  /\ ~Running(h)
  /\ seen' = Refresh(f)
  /\ step' = [step EXCEPT ![h] = IF f = "numberOfActiveAddresses" THEN "wallets" ELSE "confirmation"]
  /\ batch' = [batch EXCEPT ![h] = Added(f)]
  /\ since' = [since EXCEPT ![h] = ver]
  /\ missed' = missed \ Renewed(f)
  /\ overlapped' = (overlapped \ Renewed(f)) \cup Contended(f)
  /\ UNCHANGED <<database, phase, linked, firstRun, base, restarts, got, shown>>

(* A later diff calls eventHandler, which runs to its first await. *)
Notice(f, h) ==
  /\ phase = "attached" /\ linked
  /\ firstRun[f]
  /\ Added(f) # {}
  /\ ~Running(h)
  /\ seen' = Refresh(f)
  /\ step' = [step EXCEPT ![h] = IF f = "numberOfActiveAddresses" THEN "wallets" ELSE "confirmation"]
  /\ batch' = [batch EXCEPT ![h] = Added(f)]
  /\ since' = [since EXCEPT ![h] = ver]
  /\ missed' = missed \ Renewed(f)
  /\ overlapped' = (overlapped \ Renewed(f)) \cup Contended(f)
  /\ UNCHANGED <<database, phase, linked, firstRun, base, restarts, got, shown>>

-----------------------------------------------------------------------------
(* eventHandler, one action per await.                                     *)

Goto(h, s) == step' = [step EXCEPT ![h] = s]

(* A query of h returned and h is now suspended at s. *)
Keep(h, s, reply) ==
  /\ Goto(h, s)
  /\ got' = [got EXCEPT ![h] = reply]
  /\ UNCHANGED <<database, connection, batch, since, history, shown>>

Finish(h) ==
  /\ Goto(h, "idle")
  /\ batch' = [batch EXCEPT ![h] = {}]
  /\ got' = [got EXCEPT ![h] = Nothing]
  /\ since' = [since EXCEPT ![h] = [r \in Row |-> 0]]

(* Mutation: without DISTINCT an address counts once per row of its        *)
(* balances, one for each of its currencies.                               *)
ReadWallets_NotDistinct(h) ==
  /\ step[h] = "wallets"
  /\ \E currencies \in 1..2 : Keep(h, "sendWallets", [got[h] EXCEPT !.wallets = currencies * ActiveWallets])

(* Mutation: the addresses of the diff are counted, not those of the table. *)
ReadWallets_OfDiff(h) ==
  /\ step[h] = "wallets"
  /\ Keep(h, "sendWallets", [got[h] EXCEPT !.wallets = Cardinality(batch[h])])

(* getActiveWalletsCount: COUNT(DISTINCT addressHash) of address_balances. *)
ReadWallets(h) ==
  /\ step[h] = "wallets"
  /\ Keep(h, "sendWallets", [got[h] EXCEPT !.wallets = ActiveWallets])

SendWallets(h) ==
  /\ step[h] = "sendWallets"
  /\ shown' = [shown EXCEPT !.wallets = got[h].wallets]
  /\ Finish(h)
  /\ UNCHANGED <<database, connection, history>>

(* getConfirmationTime: the last row of confirmation_times.  With no row   *)
(* it throws, and Fail is the only step left.                              *)
ReadConfirmation(h) ==
  /\ step[h] = "confirmation"
  /\ saved > 0
  /\ Keep(h, "sendConfirmation", [got[h] EXCEPT !.confirmation = saved])

SendConfirmation(h) ==
  /\ step[h] = "sendConfirmation"
  /\ shown' = [shown EXCEPT !.confirmation = got[h].confirmation]
  /\ Goto(h, "transactions")
  /\ UNCHANGED <<database, connection, batch, got, since, history>>

(* Mutation: the type of a transaction is not looked at. *)
Wanted_All(h) == batch[h] \cap Tx

(* getTransactionsById of the ids in the diff, ZeroSpend left out. *)
Wanted(h) == (batch[h] \cap Tx) \ ZeroSpend

(* Mutation: the transactions are read from a replica that lags behind. *)
ReadTransactions_Lagging(h) ==
  /\ step[h] = "transactions"
  /\ \E lag \in {0, 1} :
       Keep(h, "lookups",
            [got[h] EXCEPT !.tx = [t \in Tx |-> IF t \in Wanted(h) /\ ver[t] > lag
                                                THEN ver[t] - lag ELSE 0]])

ReadTransactions(h) ==
  /\ step[h] = "transactions"
  /\ Keep(h, "lookups",
          [got[h] EXCEPT !.tx = [t \in Tx |-> IF t \in Wanted(h) THEN ver[t] ELSE 0]])

(* The transactions h found, and the addresses to notify of them. *)
Found(h) == {t \in Tx : got[h].tx[t] > 0}
AddressesOf(T) == UNION {Touches[t] : t \in T}
AddressesToNotify(h) == AddressesOf(Found(h))

(* Supplies, currency ids, counts per currency and symbols: four awaits in *)
(* a row whose replies no property tells apart.                            *)
ReadLookups(h) ==
  /\ step[h] = "lookups"
  /\ Keep(h, "balances", got[h])

(* Mutation: the rows of the select's last result instead of a query. *)
OfAddresses_Seen(h) == [a \in Addr |-> IF a \in AddressesToNotify(h) THEN seen[a] ELSE 0]

(* What a table holds of the addresses to notify; 0 where it has no row,   *)
(* and the message then carries undefined.                                 *)
OfAddresses(h) == [a \in Addr |-> IF a \in AddressesToNotify(h) THEN ver[a] ELSE 0]

ReadBalances(h) ==
  /\ step[h] = "balances"
  /\ Keep(h, "counts", [got[h] EXCEPT !.balance = OfAddresses(h)])

ReadCounts(h) ==
  /\ step[h] = "counts"
  /\ Keep(h, "tokens", [got[h] EXCEPT !.total = OfAddresses(h)])

(* Mutation: the error of getTotalTgbts is thrown instead of logged. *)
Fail_InTotalTokens(h) ==
  /\ step[h] \in {"wallets", "confirmation", "transactions", "lookups", "balances", "counts", "totalTokens"}
  /\ Finish(h)
  /\ missed' = missed \cup (IF step[h] = "wallets" THEN Addr ELSE batch[h])
  /\ UNCHANGED <<database, connection, overlapped, shown>>

(* Mutation: an empty confirmation_times leaves the promise unsettled. *)
Fail_NotWithoutRow(h) ==
  /\ step[h] \in {"wallets", "confirmation", "transactions", "lookups", "balances", "counts"}
  /\ step[h] = "confirmation" => saved > 0
  /\ Finish(h)
  /\ missed' = missed \cup (IF step[h] = "wallets" THEN Addr ELSE batch[h])
  /\ UNCHANGED <<database, connection, overlapped, shown>>

(* A query that is not wrapped by exec() with the error logged rejects:    *)
(* the catch of eventHandler logs it, and nothing more of the batch is     *)
(* sent, now or later.                                                     *)
Fail(h) ==
  /\ step[h] \in {"wallets", "confirmation", "transactions", "lookups", "balances", "counts"}
  /\ Finish(h)
  /\ missed' = missed \cup (IF step[h] = "wallets" THEN Addr ELSE batch[h])
  /\ UNCHANGED <<database, connection, overlapped, shown>>

(* getTokensInfoBySymbol for the token generations that are confirmed in   *)
(* what h read.                                                            *)
GeneratedTokens(h) == {t \in Found(h) \cap TokenTx : got[h].tx[t] >= Confirmed}

SendNewTokens(h) ==
  /\ step[h] = "tokens"
  /\ GeneratedTokens(h) # {}
  /\ shown' = [shown EXCEPT !.newTokens = @ \cup GeneratedTokens(h)]
  /\ got' = [got EXCEPT ![h].newTokens = GeneratedTokens(h)]
  /\ Goto(h, "totalTokens")
  /\ UNCHANGED <<database, connection, batch, since, history>>

(* Mutation: without new tokens the handler returns, as it does for the    *)
(* number of active addresses.                                             *)
SkipNewTokens_Return(h) ==
  /\ step[h] = "tokens"
  /\ Finish(h)
  /\ UNCHANGED <<database, connection, history, shown>>

(* There is no such token, or the query failed and the error is logged. *)
SkipNewTokens(h) ==
  /\ step[h] = "tokens"
  /\ Keep(h, "publish", got[h])

(* Mutation: the total was taken when the diff arrived. *)
ReadTotalTokens_OfDiff(h) ==
  /\ step[h] = "totalTokens"
  /\ Keep(h, "publish",
          [got[h] EXCEPT !.tokensTotal = Cardinality({t \in TokenTx : since[h][t] >= Confirmed})])

(* getTotalTgbts: the token generations that are confirmed now. *)
ReadTotalTokens(h) ==
  /\ step[h] = "totalTokens"
  /\ Keep(h, "publish",
          [got[h] EXCEPT !.tokensTotal = Cardinality({t \in TokenTx : ver[t] >= Confirmed})])

SkipTotalTokens(h) ==
  /\ step[h] = "totalTokens"
  /\ Keep(h, "publish", got[h])

(* What the rooms show once h has sent the total of the tokens and all     *)
(* messages of the transactions in told.                                   *)
Told(h, told) ==
  [shown EXCEPT
     !.tokensTotal = IF got[h].tokensTotal > 0 THEN got[h].tokensTotal ELSE @,
     !.tx = [t \in Tx |-> IF t \in told THEN got[h].tx[t] ELSE @[t]],
     !.balance = [a \in Addr |-> IF a \in AddressesOf(told) THEN got[h].balance[a] ELSE @[a]],
     !.total = [a \in Addr |-> IF a \in AddressesOf(told) THEN got[h].total[a] ELSE @[a]]]

(* From here to its end eventHandler runs without an await: nothing else   *)
(* runs between the messages of a batch.                                   *)
Publish(h) ==
  /\ step[h] = "publish"
  /\ shown' = Told(h, Found(h))
  /\ Finish(h)
  /\ UNCHANGED <<database, connection, history>>

(* new TransactionDto throws at a token generation t with something of its *)
(* currency missing: the transactions that come before t in the batch,     *)
(* which may be any of the others, have been told, and t and the rest      *)
(* never are.                                                              *)
StopPublishing(h) ==
  /\ step[h] = "publish"
  /\ \E t \in Found(h) \cap TokenTx : \E told \in SUBSET (Found(h) \ {t}) :
       /\ shown' = Told(h, told)
       /\ missed' = missed \cup (batch[h] \ told)
  /\ Finish(h)
  /\ UNCHANGED <<database, connection, overlapped>>

(* What h does once the query it waits for has settled. *)
Advance(h) ==
  \/ ReadWallets(h) \/ SendWallets(h)
  \/ ReadConfirmation(h) \/ SendConfirmation(h)
  \/ ReadTransactions(h) \/ ReadLookups(h)
  \/ ReadBalances(h) \/ ReadCounts(h)
  \/ SendNewTokens(h) \/ SkipNewTokens(h)
  \/ ReadTotalTokens(h) \/ SkipTotalTokens(h)
  \/ Publish(h) \/ StopPublishing(h)
  \/ Fail(h)

Next ==
  \/ \E r \in Row : WriteRow(r)
  \/ SaveConfirmationTime
  \/ Ready \/ ErrorInInit \/ InitTimeout \/ ErrorAfterInit \/ Restart
  \/ \E f \in Feed : FirstDiff(f)
  \/ \E f \in Feed, h \in Handler : Notice(f, h)
  \/ \E h \in Handler : Advance(h)

Spec == Init /\ [][Next]_vars

-----------------------------------------------------------------------------
(* Properties.                                                             *)

(* The variables have their types: no row is known in a version it never   *)
(* had, and no count of addresses is above their number.                   *)
TypeOK ==
  /\ ver \in [Row -> Version]
  /\ saved \in 0..MaxSaved
  /\ phase \in {"connecting", "attached", "failed"}
  /\ linked \in BOOLEAN
  /\ firstRun \in [Feed -> BOOLEAN]
  /\ seen \in [Row -> Version]
  /\ step \in [Handler -> Steps]
  /\ batch \in [Handler -> SUBSET Row]
  /\ got \in [Handler -> Payload]
  /\ shown \in Payload
  /\ restarts \in 0..MaxRestarts
  /\ base \in [Row -> Version]
  /\ since \in [Handler -> [Row -> Version]]
  /\ missed \subseteq Row
  /\ overlapped \subseteq Row

ReadsTransactions == {"confirmation", "sendConfirmation", "transactions", "lookups",
                      "balances", "counts", "tokens", "totalTokens", "publish"}
HasTransactions == {"lookups", "balances", "counts", "tokens", "totalTokens", "publish"}
HasBalances == {"counts", "tokens", "totalTokens", "publish"}
HasCounts == {"tokens", "totalTokens", "publish"}

(* What a handler is about to send was read after the change that called   *)
(* it: neither a transaction nor a balance nor a count in its messages is  *)
(* older than the diff, whatever ran between its awaits.                   *)
SentIsNotOlderThanDiff ==
  \A h \in Handler :
    /\ step[h] \in HasTransactions => \A t \in Wanted(h) : got[h].tx[t] >= since[h][t]
    /\ step[h] \in HasBalances =>
         \A a \in AddressesToNotify(h) : got[h].balance[a] >= since[h][a]
    /\ step[h] \in HasCounts =>
         \A a \in AddressesToNotify(h) : got[h].total[a] >= since[h][a]

(* The result a select starts with is never announced: a running handler   *)
(* was called after the first diff of its select, and each of its rows was *)
(* written since that diff.  firstRunMap is lost with the process, and the *)
(* first diff after a restart counts again.                                *)
FirstResultIsSwallowed ==
  \A h \in Handler : \A f \in Feed : \A r \in batch[h] \cap RowsOf(f) :
    firstRun[f] /\ since[h][r] > base[r]

(* The live feed heals: when the select has no unseen change of a          *)
(* transaction and no handler holds it, its room shows the committed       *)
(* version, unless its last change was lost with a batch or swallowed, or  *)
(* two handlers held it at the same time.                                  *)
RoomsConverge ==
  \A t \in Tx \ ZeroSpend :
    /\ firstRun["transactionConfirmationUpdate"]
    /\ seen[t] = ver[t]
    /\ t \notin Held \cup missed \cup overlapped
    => shown.tx[t] = ver[t]

(* The same of the number of active addresses, which has one room. *)
WalletCountConverges ==
  /\ firstRun["numberOfActiveAddresses"]
  /\ \A a \in Addr : seen[a] = ver[a]
  /\ Addr \cap (Held \cup missed \cup overlapped) = {}
  => shown.wallets = ActiveWallets

(* The total sent after the new tokens of a batch counts all of them. *)
TotalCountsNewTokens ==
  \A h \in Handler :
    step[h] = "publish" /\ got[h].tokensTotal > 0
      => got[h].tokensTotal >= Cardinality(got[h].newTokens)

(* The live select watches ZeroSpend transactions too, and they come in    *)
(* batches with others: none is ever sent, and no address is notified      *)
(* unless another transaction of the batch has touched it.                 *)
ZeroSpendIsSilent ==
  /\ \A t \in ZeroSpend : shown.tx[t] = 0 /\ t \notin shown.newTokens
  /\ \A h \in Handler : AddressesToNotify(h) \subseteq UNION {Touches[t] : t \in (batch[h] \cap Tx) \ ZeroSpend}

(* A room goes back to an older state of a transaction only when two       *)
(* handlers held that transaction at the same time.                        *)
GoesBackOnlyAfterOverlap ==
  [][\A t \in Tx : shown'.tx[t] < shown.tx[t] => t \in overlapped]_vars

(* Only a token generation leaves a batch half sent.  A handler that ends  *)
(* among its transactions, the process going on, has found all it looked   *)
(* for; it has told all of them, or there is a token generation it has not *)
(* told; and it has told a transaction and its addresses together.  A      *)
(* handler that ends earlier, because a query failed, has sent nothing     *)
(* about its batch, new tokens included.                                   *)
HalfSentOnlyByGeneration ==
  [][\A h \in Handler :
       Running(h) /\ ~Running(h)' /\ restarts' = restarts =>
         \/ /\ step[h] = "publish"
            /\ \A t \in Wanted(h) : t \in Found(h)
            /\ \E told \in SUBSET Found(h) :
                 /\ told # Found(h) => (Found(h) \ told) \cap TokenTx # {}
                 /\ \A t \in Tx :
                      shown'.tx[t] = IF t \in told THEN got[h].tx[t] ELSE shown.tx[t]
                 /\ \A a \in AddressesOf(told) :
                      /\ shown'.balance[a] = got[h].balance[a]
                      /\ shown'.total[a] = got[h].total[a]
         \/ /\ shown' = [shown EXCEPT !.wallets = shown'.wallets]
            /\ got[h].newTokens = {}]_vars

(* eventHandler as a sender of Notifier: it has to tell the rooms of the   *)
(* transactions of its diff, each in the version the diff has or a later   *)
(* one, until it returns.                                                  *)
Rooms == Tx \ ZeroSpend

Notified == INSTANCE Notifier WITH
  Room <- Rooms,
  Sender <- Handler,
  store <- [t \in Rooms |-> ver[t]],
  shown <- [t \in Rooms |-> shown.tx[t]],
  pending <- [h \in Handler |-> [t \in Wanted(h) |-> since[h][t]]]

(* The live feed keeps the promise of Notifier to the rooms of the         *)
(* transactions: each is told once or never, nothing older than the diff,  *)
(* nothing that is not committed, whatever else runs in between.           *)
ImplementsNotifier == Notified!Spec

(* The timer of init() fires; the library delivers the binlog while it is  *)
(* linked; a query settles, one way or the other, and the event loop runs  *)
(* its continuation.  Nothing forces the writers, the errors or a restart. *)
FairSpec ==
  /\ Spec
  /\ WF_vars(InitTimeout)
  /\ \A f \in Feed : WF_vars(FirstDiff(f))
  /\ \A f \in Feed : WF_vars(\E h \in Handler : Notice(f, h))
  /\ \A h \in Handler : WF_vars(Advance(h))

(* Nothing hangs: init() attaches the selects or gives up, and no batch     *)
(* stays between two awaits for ever.                                      *)
NothingHangs ==
  /\ []<>(phase # "connecting")
  /\ \A h \in Handler : Running(h) ~> ~Running(h)

(* While the library is linked, each change after the first result reaches *)
(* the transaction's room, in that version or a later one, unless a batch  *)
(* with that change is lost.                                               *)
ChangesAreSent ==
  \A t \in Tx \ ZeroSpend : \A v \in Version :
    (firstRun["transactionConfirmationUpdate"] /\ ver[t] = v /\ seen[t] # v)
      ~> (shown.tx[t] >= v \/ (t \in missed /\ seen[t] >= v) \/ ~linked)
=============================================================================
