--------------------------- MODULE LiveFeed_proofs ---------------------------
(***************************************************************************)
(* Theorems of LiveFeed, for every value of its constants.  They follow    *)
(* from one inductive invariant, IndInv: what a handler holds is ordered   *)
(* between the diff that called it and the database, and a transaction     *)
(* that is not in `overlapped` has at most one holder.  On top of it come  *)
(* what is never shown (NeverShown), the counts of tokens (TokensCounted)  *)
(* and of addresses (WalletsCounted), and the steps of Notifier.           *)
(***************************************************************************)
EXTENDS LiveFeed, TLAPS, FiniteSetTheorems

TxFeed == "transactionConfirmationUpdate"
AddrFeed == "numberOfActiveAddresses"

(* Versions only grow, so whatever was read is at most what is committed. *)
Ordered ==
  /\ \A r \in Row : base[r] <= seen[r] /\ seen[r] <= ver[r]
  /\ \A h \in Handler, r \in Row : since[h][r] <= ver[r]
  /\ \A h \in Handler, t \in Tx : got[h].tx[t] <= ver[t]
  /\ \A t \in Tx : shown.tx[t] <= ver[t]

(* What a handler holds at each await. *)
Shape ==
  \A h \in Handler :
    /\ step[h] = "idle" => batch[h] = {}
    /\ step[h] \in {"wallets", "sendWallets"} => batch[h] \subseteq Addr
    /\ step[h] \in ReadsTransactions => batch[h] \subseteq Tx
    /\ \A t \in Tx : got[h].tx[t] > 0 => t \in Wanted(h)
    /\ got[h].newTokens # {} => step[h] \in {"totalTokens", "publish"}

(* A transaction not in overlapped has one holder at most, *)
OneHolder ==
  \A t \in Tx \ overlapped : \A h, k \in Handler :
    t \in batch[h] /\ t \in batch[k] => h = k

(* whose diff is not older than what the room shows, *)
HolderIsNewest ==
  \A t \in Tx \ overlapped : \A h \in Handler :
    t \in batch[h] => shown.tx[t] <= since[h][t]

(* and is the last one the select noticed. *)
HolderIsLast ==
  \A t \in Tx \ (missed \cup overlapped) : \A h \in Handler :
    t \in batch[h] => since[h][t] = seen[t]

(* With no holder, the room shows at least what the select noticed. *)
ShowsSeen ==
  firstRun[TxFeed] =>
    \A t \in Tx \ (ZeroSpend \cup missed \cup overlapped) :
      (\A h \in Handler : t \notin batch[h]) => shown.tx[t] >= seen[t]

IndInv ==
  /\ TypeOK
  /\ Ordered
  /\ Shape
  /\ SentIsNotOlderThanDiff
  /\ FirstResultIsSwallowed
  /\ OneHolder
  /\ HolderIsNewest
  /\ HolderIsLast
  /\ ShowsSeen

-----------------------------------------------------------------------------
(* Type correctness.                                                       *)

(* COUNT over the address rows is a number, and at most the addresses. *)
LEMMA WalletsType == ActiveWallets \in 0..Cardinality(Addr)
<1>1. IsFiniteSet(Addr)
  BY LiveFeedAssumption
<1>2. {a \in Addr : ver[a] > 0} \subseteq Addr
  OBVIOUS
<1>3. /\ Cardinality({a \in Addr : ver[a] > 0}) \in Nat
      /\ Cardinality({a \in Addr : ver[a] > 0}) <= Cardinality(Addr)
      /\ Cardinality(Addr) \in Nat
  BY <1>1, <1>2, FS_Subset, FS_CardinalityType
<1>4. QED
  BY <1>3 DEF ActiveWallets

(* So is the COUNT of confirmed token generations. *)
LEMMA TotalType == Cardinality({t \in TokenTx : ver[t] >= Confirmed}) \in Nat
<1>1. IsFiniteSet(Tx)
  BY LiveFeedAssumption
<1>2. {t \in TokenTx : ver[t] >= Confirmed} \subseteq Tx
  BY LiveFeedAssumption
<1>3. QED
  BY <1>1, <1>2, FS_Subset, FS_CardinalityType

LEMMA NothingType == Nothing \in Payload
<1>1. 0 \in 0..Cardinality(Addr)
  <2>1. Cardinality(Addr) \in Nat
    BY FS_CardinalityType, LiveFeedAssumption
  <2>2. QED
    BY <2>1
<1>2. QED
  BY <1>1 DEF Nothing, Payload

(* A reply of the right type keeps the types of a handler. *)
LEMMA KeepType ==
  ASSUME TypeOK, NEW h \in Handler, NEW s \in Steps, NEW reply \in Payload, Keep(h, s, reply)
  PROVE  TypeOK'
BY DEF TypeOK, Keep, Goto, database, connection, history

(* Ending a handler keeps the types. *)
LEMMA FinishType ==
  ASSUME TypeOK, NEW h \in Handler, Finish(h)
  PROVE  /\ step' \in [Handler -> Steps]
         /\ batch' \in [Handler -> SUBSET Row]
         /\ got' \in [Handler -> Payload]
         /\ since' \in [Handler -> [Row -> Version]]
<1>1. 0 \in Version
  BY LiveFeedAssumption DEF Version
<1>2. QED
  BY <1>1, NothingType DEF TypeOK, Finish, Goto, Steps

(* What the end of a handler leaves in the rooms, whichever transactions   *)
(* it has told.                                                            *)
LEMMA ToldType ==
  ASSUME TypeOK, NEW h \in Handler, NEW told
  PROVE  /\ Told(h, told) \in Payload
         /\ \A t \in Tx : Told(h, told).tx[t] = IF t \in told THEN got[h].tx[t] ELSE shown.tx[t]
         /\ \A a \in Addr : a \in AddressesOf(told) =>
              Told(h, told).balance[a] = got[h].balance[a] /\ Told(h, told).total[a] = got[h].total[a]
         /\ Told(h, told).wallets = shown.wallets
         /\ Told(h, told).newTokens = shown.newTokens
<1> got[h] \in Payload /\ shown \in Payload
  BY DEF TypeOK
<1> QED
  BY DEF Told, Payload

(* The variables of LiveFeed always have their types. *)
LEMMA AdvanceType ==
  ASSUME TypeOK, NEW h \in Handler, Advance(h)
  PROVE  TypeOK'
<1>1. CASE ReadWallets(h)
  <2>1. [got[h] EXCEPT !.wallets = ActiveWallets] \in Payload
    BY WalletsType DEF TypeOK, Payload
  <2>2. QED
    BY <1>1, <2>1, KeepType DEF ReadWallets, Steps
<1>2. CASE SendWallets(h)
  <2>1. shown' \in Payload
    BY <1>2 DEF TypeOK, SendWallets, Payload
  <2>2. QED
    BY <1>2, <2>1, FinishType DEF TypeOK, SendWallets, database, connection, history
<1>3. CASE ReadConfirmation(h)
  <2>1. [got[h] EXCEPT !.confirmation = saved] \in Payload
    <3>1. saved \in Nat
      BY LiveFeedAssumption DEF TypeOK
    <3>2. QED
      BY <3>1 DEF TypeOK, Payload
  <2>2. QED
    BY <1>3, <2>1, KeepType DEF ReadConfirmation, Steps
<1>4. CASE SendConfirmation(h)
  <2>1. shown' \in Payload
    BY <1>4 DEF TypeOK, SendConfirmation, Payload
  <2>2. QED
    BY <1>4, <2>1 DEF TypeOK, SendConfirmation, Goto, Steps, database, connection, history
<1>5. CASE ReadTransactions(h)
  <2> DEFINE f == [t \in Tx |-> IF t \in Wanted(h) THEN ver[t] ELSE 0]
  <2>1. f \in [Tx -> Nat]
    BY LiveFeedAssumption DEF TypeOK, Row, Version
  <2> HIDE DEF f
  <2>2. [got[h] EXCEPT !.tx = f] \in Payload
    BY <2>1 DEF TypeOK, Payload
  <2>3. QED
    BY <1>5, <2>2, KeepType DEF ReadTransactions, Steps, f
<1>6. CASE ReadLookups(h)
  BY <1>6, KeepType DEF ReadLookups, Steps, TypeOK
<1>7. OfAddresses(h) \in [Addr -> Nat]
  BY LiveFeedAssumption DEF OfAddresses, TypeOK, Row, Version
<1>8. CASE ReadBalances(h)
  <2>1. [got[h] EXCEPT !.balance = OfAddresses(h)] \in Payload
    BY <1>7 DEF TypeOK, Payload
  <2>2. QED
    BY <1>8, <2>1, KeepType DEF ReadBalances, Steps
<1>9. CASE ReadCounts(h)
  <2>1. [got[h] EXCEPT !.total = OfAddresses(h)] \in Payload
    BY <1>7 DEF TypeOK, Payload
  <2>2. QED
    BY <1>9, <2>1, KeepType DEF ReadCounts, Steps
<1>10. CASE SendNewTokens(h)
  <2>1. GeneratedTokens(h) \in SUBSET Tx
    BY DEF GeneratedTokens, Found
  <2>2. shown' \in Payload
    BY <1>10, <2>1 DEF TypeOK, SendNewTokens, Payload
  <2>3. got' \in [Handler -> Payload]
    BY <1>10, <2>1 DEF TypeOK, SendNewTokens, Payload
  <2>4. QED
    BY <1>10, <2>2, <2>3 DEF TypeOK, SendNewTokens, Goto, Steps, database, connection, history
<1>11. CASE SkipNewTokens(h)
  BY <1>11, KeepType DEF SkipNewTokens, Steps, TypeOK
<1>12. CASE ReadTotalTokens(h)
  <2>1. [got[h] EXCEPT !.tokensTotal = Cardinality({t \in TokenTx : ver[t] >= Confirmed})] \in Payload
    BY TotalType DEF TypeOK, Payload
  <2>2. QED
    BY <1>12, <2>1, KeepType DEF ReadTotalTokens, Steps
<1>13. CASE SkipTotalTokens(h)
  BY <1>13, KeepType DEF SkipTotalTokens, Steps, TypeOK
<1>14. CASE Publish(h) \/ StopPublishing(h)
  <2>1. PICK told : shown' = Told(h, told)
    BY <1>14 DEF Publish, StopPublishing
  <2>2. shown' \in Payload
    BY <2>1, ToldType
  <2>3. missed' \subseteq Row
    BY <1>14 DEF TypeOK, Publish, StopPublishing, history
  <2>4. QED
    BY <1>14, <2>2, <2>3, FinishType DEF TypeOK, Publish, StopPublishing, database, connection, history
<1>15. CASE Fail(h)
  <2>1. missed' \subseteq Row
    BY <1>15 DEF TypeOK, Fail, Row
  <2>2. QED
    BY <1>15, <2>1, FinishType DEF TypeOK, Fail, database, connection
<1>16. QED
  BY <1>1, <1>2, <1>3, <1>4, <1>5, <1>6, <1>8, <1>9, <1>10, <1>11, <1>12, <1>13, <1>14, <1>15 DEF Advance

LEMMA NextType == TypeOK /\ [Next]_vars => TypeOK'
<1> SUFFICES ASSUME TypeOK, [Next]_vars
             PROVE  TypeOK'
  OBVIOUS
<1> USE DEF TypeOK, database, connection, handlers, history
<1>0. 0 \in Version
  BY LiveFeedAssumption DEF Version
<1>1. ASSUME NEW r \in Row, WriteRow(r)
      PROVE  TypeOK'
  <2>1. ver' \in [Row -> Version]
    BY <1>1, LiveFeedAssumption DEF WriteRow, Version
  <2>2. QED
    BY <1>1, <2>1 DEF WriteRow
<1>2. CASE SaveConfirmationTime
  <2>1. saved' \in 0..MaxSaved
    BY <1>2, LiveFeedAssumption DEF SaveConfirmationTime
  <2>2. QED
    BY <1>2, <2>1 DEF SaveConfirmationTime
<1>3. CASE Ready \/ ErrorInInit \/ InitTimeout \/ ErrorAfterInit
  BY <1>3 DEF Ready, ErrorInInit, InitTimeout, ErrorAfterInit
<1>4. CASE Restart
  <2>1. restarts' \in 0..MaxRestarts
    BY <1>4, LiveFeedAssumption DEF Restart
  <2>2. /\ seen' \in [Row -> Version] /\ base' \in [Row -> Version]
        /\ since' \in [Handler -> [Row -> Version]]
    BY <1>0, <1>4 DEF Restart
  <2>3. got' \in [Handler -> Payload] /\ step' \in [Handler -> Steps]
    BY <1>4, NothingType DEF Restart, Steps
  <2>4. QED
    BY <1>4, <2>1, <2>2, <2>3 DEF Restart
<1>5. ASSUME NEW f \in Feed, FirstDiff(f)
      PROVE  TypeOK'
  <2>1. Behind(f) \subseteq Row
    BY DEF Behind, Row
  <2>2. QED
    BY <1>5, <2>1 DEF FirstDiff, Refresh
<1>6. ASSUME NEW f \in Feed, NEW h \in Handler, Notice(f, h)
      PROVE  TypeOK'
  <2>1. Added(f) \subseteq Row
    BY DEF Added, RowsOf, Row
  <2>2. Contended(f) \subseteq Row
    BY <2>1 DEF Contended, Row
  <2>3. QED
    BY <1>6, <2>1, <2>2 DEF Notice, Refresh, Steps
<1>7. ASSUME NEW h \in Handler, Advance(h)
      PROVE  TypeOK'
  BY <1>7, AdvanceType
<1>8. CASE UNCHANGED vars
  BY <1>8 DEF vars
<1>9. QED
  BY <1>1, <1>2, <1>3, <1>4, <1>5, <1>6, <1>7, <1>8 DEF Next

LEMMA InitType == Init => TypeOK
<1> SUFFICES ASSUME Init
             PROVE  TypeOK
  OBVIOUS
<1>1. 0 \in Version /\ 0 \in 0..MaxSaved /\ 0 \in 0..MaxRestarts
  BY LiveFeedAssumption DEF Version
<1>2. QED
  BY <1>1, NothingType DEF Init, TypeOK, Steps

(* The variables always have their types: in particular the number of      *)
(* active addresses a handler sends is at most the number of addresses.    *)
THEOREM TypeCorrect == Spec => []TypeOK
BY InitType, NextType, PTL DEF Spec

-----------------------------------------------------------------------------
(* The inductive invariant.                                                *)

LEMMA InitInv == Init => IndInv
<1> SUFFICES ASSUME Init
             PROVE  IndInv
  OBVIOUS
<1>1. TypeOK
  BY InitType
<1>2. /\ \A t \in Tx : Nothing.tx[t] = 0
      /\ Nothing.newTokens = {}
  BY DEF Nothing
<1>3. Ordered
  BY <1>2 DEF Init, Ordered, Row
<1>4. Shape
  BY <1>2 DEF Init, Shape, ReadsTransactions
<1>5. SentIsNotOlderThanDiff
  BY DEF Init, SentIsNotOlderThanDiff, HasTransactions, HasBalances, HasCounts
<1>6. FirstResultIsSwallowed
  BY DEF Init, FirstResultIsSwallowed
<1>7. OneHolder /\ HolderIsNewest /\ HolderIsLast
  BY DEF Init, OneHolder, HolderIsNewest, HolderIsLast
<1>8. ShowsSeen
  BY DEF Init, ShowsSeen, Feed, TxFeed
<1>9. QED
  BY <1>1, <1>3, <1>4, <1>5, <1>6, <1>7, <1>8 DEF IndInv

(* The parts of IndInv about handlers read these variables only. *)
LEMMA SameHandlers ==
  ASSUME IndInv, UNCHANGED <<step, batch, got, since, firstRun, seen, base>>,
         UNCHANGED <<shown, missed, overlapped>>
  PROVE  /\ Shape' /\ SentIsNotOlderThanDiff' /\ FirstResultIsSwallowed'
         /\ OneHolder' /\ HolderIsNewest' /\ HolderIsLast' /\ ShowsSeen'
<1>1. Shape'
  BY DEF IndInv, Shape, Wanted
<1>2. SentIsNotOlderThanDiff'
  BY DEF IndInv, SentIsNotOlderThanDiff, Wanted, AddressesToNotify, AddressesOf, Found
<1>3. FirstResultIsSwallowed'
  BY DEF IndInv, FirstResultIsSwallowed
<1>4. OneHolder' /\ HolderIsNewest' /\ HolderIsLast' /\ ShowsSeen'
  BY DEF IndInv, OneHolder, HolderIsNewest, HolderIsLast, ShowsSeen
<1>5. QED
  BY <1>1, <1>2, <1>3, <1>4

(* The indexer only raises a version. *)
LEMMA WriteRowInv ==
  ASSUME IndInv, NEW r \in Row, WriteRow(r)
  PROVE  Ordered' /\ UNCHANGED <<step, batch, got, since, firstRun, seen, base, shown, missed, overlapped>>
<1>1. UNCHANGED <<step, batch, got, since, firstRun, seen, base, shown, missed, overlapped>>
  BY DEF WriteRow, connection, handlers, history
<1>2. \A q \in Row : ver[q] <= ver'[q] /\ ver[q] \in Int /\ ver'[q] \in Int
  BY LiveFeedAssumption DEF WriteRow, IndInv, TypeOK, Version
<1>3. \A q \in Row : base[q] \in Int /\ seen[q] \in Int
  BY LiveFeedAssumption DEF IndInv, TypeOK, Version
<1>4. \A h \in Handler : /\ \A q \in Row : since[h][q] \in Int
                         /\ \A t \in Tx : got[h].tx[t] \in Int
  BY LiveFeedAssumption DEF IndInv, TypeOK, Version, Payload
<1>5. \A t \in Tx : shown.tx[t] \in Int /\ t \in Row
  BY DEF IndInv, TypeOK, Payload, Row
<1>6. Ordered'
  BY <1>1, <1>2, <1>3, <1>4, <1>5 DEF IndInv, Ordered
<1>7. QED
  BY <1>1, <1>6

(* A restart empties every handler and forgets the first results. *)
LEMMA RestartInv ==
  ASSUME IndInv, Restart
  PROVE  Ordered' /\ Shape' /\ SentIsNotOlderThanDiff' /\ FirstResultIsSwallowed'
         /\ OneHolder' /\ HolderIsNewest' /\ HolderIsLast' /\ ShowsSeen'
<1>1. /\ \A t \in Tx : Nothing.tx[t] = 0
      /\ Nothing.newTokens = {}
  BY DEF Nothing
<1>2. /\ ver' = ver /\ shown' = shown
      /\ \A r \in Row : seen'[r] = 0 /\ base'[r] = 0
      /\ \A h \in Handler : /\ step'[h] = "idle" /\ batch'[h] = {} /\ got'[h] = Nothing
                            /\ \A r \in Row : since'[h][r] = 0
      /\ firstRun'[TxFeed] = FALSE
  BY DEF Restart, database, TxFeed, Feed
<1>3. \A r \in Row : ver[r] >= 0 /\ ver[r] \in Int
  BY LiveFeedAssumption DEF IndInv, TypeOK, Version
<1>4. Ordered'
  <2>1. \A t \in Tx : t \in Row
    BY DEF Row
  <2>2. QED
    BY <1>1, <1>2, <1>3, <2>1 DEF Ordered, IndInv
<1>5. Shape'
  BY <1>1, <1>2 DEF Shape, ReadsTransactions
<1>6. SentIsNotOlderThanDiff'
  BY <1>2 DEF SentIsNotOlderThanDiff, HasTransactions, HasBalances, HasCounts
<1>7. FirstResultIsSwallowed' /\ OneHolder' /\ HolderIsNewest' /\ HolderIsLast'
  BY <1>2 DEF FirstResultIsSwallowed, OneHolder, HolderIsNewest, HolderIsLast
<1>8. ShowsSeen'
  BY <1>2 DEF ShowsSeen
<1>9. QED
  BY <1>4, <1>5, <1>6, <1>7, <1>8

(* The rows of one select are not rows of the other. *)
LEMMA Rows == /\ RowsOf(TxFeed) = Tx /\ RowsOf(AddrFeed) = Addr
              /\ Tx \cap Addr = {} /\ Tx \subseteq Row /\ Addr \subseteq Row
              /\ Feed = {TxFeed, AddrFeed} /\ TxFeed # AddrFeed
BY LiveFeedAssumption DEF RowsOf, TxFeed, AddrFeed, Row, Feed

(* The first diff of a select comes before any handler of its rows. *)
LEMMA FirstDiffInv ==
  ASSUME IndInv, NEW f \in Feed, FirstDiff(f)
  PROVE  Ordered' /\ Shape' /\ SentIsNotOlderThanDiff' /\ FirstResultIsSwallowed'
         /\ OneHolder' /\ HolderIsNewest' /\ HolderIsLast' /\ ShowsSeen'
<1>1. UNCHANGED <<ver, step, batch, got, since, shown>>
  BY DEF FirstDiff, database, handlers
<1>2. /\ ~firstRun[f]
      /\ firstRun' = [firstRun EXCEPT ![f] = TRUE]
      /\ \A r \in Row : /\ r \in RowsOf(f) => seen'[r] = ver[r] /\ base'[r] = ver[r]
                        /\ r \notin RowsOf(f) => seen'[r] = seen[r] /\ base'[r] = base[r]
      /\ missed' = (missed \ RowsOf(f)) \cup Behind(f)
      /\ overlapped' = overlapped \ RowsOf(f)
  BY DEF FirstDiff, Refresh
<1>3. \A h \in Handler : batch[h] \cap RowsOf(f) = {}
  BY <1>2 DEF IndInv, FirstResultIsSwallowed
<1>4. \A r \in Row : ver[r] \in Int /\ seen[r] \in Int /\ base[r] \in Int
  BY LiveFeedAssumption DEF IndInv, TypeOK, Version
<1>5. Ordered'
  BY <1>1, <1>2, <1>4 DEF IndInv, Ordered
<1>6. Shape'
  BY <1>1 DEF IndInv, Shape, Wanted
<1>7. SentIsNotOlderThanDiff'
  BY <1>1 DEF IndInv, SentIsNotOlderThanDiff, Wanted, AddressesToNotify, AddressesOf, Found
<1>8. FirstResultIsSwallowed'
  <2>1. ASSUME NEW h \in Handler, NEW g \in Feed, NEW r \in batch[h] \cap RowsOf(g)
        PROVE  firstRun'[g] /\ since[h][r] > base'[r]
    <3>1. r \in Row /\ r \notin RowsOf(f)
      BY <1>3 DEF IndInv, TypeOK
    <3>2. firstRun[g] /\ since[h][r] > base[r]
      BY DEF IndInv, FirstResultIsSwallowed
    <3>3. QED
      BY <1>2, <3>1, <3>2 DEF IndInv, TypeOK
  <2>2. QED
    BY <1>1, <2>1 DEF FirstResultIsSwallowed
<1>9. CASE f = TxFeed
  <2>1. \A h \in Handler, t \in Tx : t \notin batch[h]
    BY <1>3, <1>9, Rows
  <2>2. OneHolder' /\ HolderIsNewest' /\ HolderIsLast'
    BY <1>1, <2>1 DEF OneHolder, HolderIsNewest, HolderIsLast
  <2>3. \A t \in Tx \ missed' : shown.tx[t] = ver[t] /\ seen'[t] = ver[t] /\ ver[t] \in Int
    BY <1>2, <1>4, <1>9, Rows DEF Behind, TxFeed
  <2>4. ShowsSeen'
    BY <1>1, <2>3 DEF ShowsSeen
  <2>5. QED
    BY <1>5, <1>6, <1>7, <1>8, <2>2, <2>4
<1>10. CASE f = AddrFeed
  <2>1. /\ \A t \in Tx : /\ t \in overlapped' <=> t \in overlapped
                         /\ t \in missed' <=> t \in missed
                         /\ seen'[t] = seen[t]
        /\ firstRun'[TxFeed] = firstRun[TxFeed]
    BY <1>2, <1>10, Rows DEF Behind, TxFeed, AddrFeed, IndInv, TypeOK
  <2>2. OneHolder'
    BY <1>1, <2>1 DEF IndInv, OneHolder
  <2>3. HolderIsNewest' /\ HolderIsLast'
    BY <1>1, <2>1 DEF IndInv, HolderIsNewest, HolderIsLast
  <2>4. ShowsSeen'
    BY <1>1, <2>1 DEF IndInv, ShowsSeen
  <2>5. QED
    BY <1>5, <1>6, <1>7, <1>8, <2>2, <2>3, <2>4
<1>11. QED
  BY <1>9, <1>10, Rows

(* A later diff gives its rows to an idle handler. *)
LEMMA NoticeInv ==
  ASSUME IndInv, NEW f \in Feed, NEW h \in Handler, Notice(f, h)
  PROVE  Ordered' /\ Shape' /\ SentIsNotOlderThanDiff' /\ FirstResultIsSwallowed'
         /\ OneHolder' /\ HolderIsNewest' /\ HolderIsLast' /\ ShowsSeen'
<1>1. UNCHANGED <<ver, firstRun, base, got, shown>>
  BY DEF Notice, database
<1>2. /\ step[h] = "idle" /\ firstRun[f]
      /\ step'[h] = IF f = AddrFeed THEN "wallets" ELSE "confirmation"
      /\ batch'[h] = Added(f)
      /\ since'[h] = ver
      /\ \A k \in Handler \ {h} : step'[k] = step[k] /\ batch'[k] = batch[k] /\ since'[k] = since[k]
      /\ missed' = missed \ Renewed(f)
      /\ overlapped' = (overlapped \ Renewed(f)) \cup Contended(f)
  BY DEF Notice, Running, AddrFeed, IndInv, TypeOK
<1>3. \A r \in Row : seen'[r] = IF r \in RowsOf(f) THEN ver[r] ELSE seen[r]
  BY DEF Notice, Refresh
<1>4. \A r \in Row : ver[r] \in Int /\ seen[r] \in Int /\ base[r] \in Int
  BY LiveFeedAssumption DEF IndInv, TypeOK, Version
<1>5. \A t \in Tx : shown.tx[t] \in Int
  BY DEF IndInv, TypeOK, Payload
<1>6. Ordered'
  BY <1>1, <1>2, <1>3, <1>4, Rows DEF IndInv, Ordered
<1>7. Added(f) = {r \in RowsOf(f) : ver[r] # seen[r]} /\ RowsOf(f) \subseteq Row
  BY Rows DEF Added
<1>8. batch[h] = {}
  BY <1>2 DEF IndInv, Shape
<1>9. Shape'
  <2>1. \A t \in Tx : ~(got[h].tx[t] > 0)
    BY <1>8 DEF IndInv, Shape, Wanted
  <2>2. got[h].newTokens = {}
    BY <1>2 DEF IndInv, Shape
  <2>3. f = AddrFeed => Added(f) \subseteq Addr
    BY <1>7, Rows
  <2>4. f = TxFeed => Added(f) \subseteq Tx
    BY <1>7, Rows
  <2>5. \A k \in Handler \ {h} : Wanted(k)' = Wanted(k)
    BY <1>2 DEF Wanted
  <2>6. QED
    BY <1>1, <1>2, <2>1, <2>2, <2>3, <2>4, <2>5, Rows DEF IndInv, Shape, ReadsTransactions
<1>10. SentIsNotOlderThanDiff'
  <2>1. step'[h] \notin HasTransactions \cup HasBalances \cup HasCounts
    BY <1>2 DEF HasTransactions, HasBalances, HasCounts
  <2>2. ASSUME NEW k \in Handler \ {h}
        PROVE  /\ Wanted(k)' = Wanted(k) /\ AddressesToNotify(k)' = AddressesToNotify(k)
               /\ step'[k] = step[k] /\ since'[k] = since[k] /\ got'[k] = got[k]
    BY <1>1, <1>2 DEF Wanted, AddressesToNotify, AddressesOf, Found
  <2>3. QED
    BY <2>1, <2>2 DEF IndInv, SentIsNotOlderThanDiff
<1>11. FirstResultIsSwallowed'
  <2>1. \A g \in Feed : \A r \in Added(f) \cap RowsOf(g) : g = f /\ ver[r] > base[r]
    <3>1. \A g \in Feed : \A r \in Added(f) \cap RowsOf(g) : g = f
      BY <1>7, Rows
    <3>2. \A r \in Added(f) : ver[r] > base[r]
      BY <1>4, <1>7 DEF IndInv, Ordered
    <3>3. QED
      BY <3>1, <3>2
  <2>2. QED
    BY <1>1, <1>2, <2>1 DEF IndInv, FirstResultIsSwallowed
<1>12. CASE f = TxFeed
  <2>1. Renewed(f) = Added(f) /\ Contended(f) = Added(f) \cap Held
    BY <1>12 DEF Renewed, Contended, TxFeed
  <2>2. \A t \in Tx : t \in Held <=> \E k \in Handler : t \in batch[k]
    <3>1. \A k \in Handler : Running(k) <=> step[k] # "idle"
      BY DEF Running
    <3>2. QED
      BY <3>1 DEF Held, IndInv, Shape
  <2>3. \A t \in Tx : t \notin Added(f) =>
           /\ seen'[t] = seen[t]
           /\ t \in missed' <=> t \in missed
           /\ t \in overlapped' <=> t \in overlapped
           /\ \A k \in Handler : t \in batch'[k] <=> (t \in batch[k] /\ k # h)
    BY <1>2, <1>3, <1>7, <1>12, <2>1, Rows
  <2>4. \A t \in Tx \cap Added(f) : t \notin overlapped' =>
           \A k \in Handler : t \in batch'[k] <=> k = h
    BY <1>2, <2>1, <2>2
  <2>5. OneHolder'
    BY <2>3, <2>4 DEF IndInv, OneHolder
  <2>6. HolderIsNewest'
    BY <1>1, <1>2, <2>3, <2>4 DEF IndInv, HolderIsNewest, Ordered
  <2>7. HolderIsLast'
    BY <1>2, <1>3, <1>7, <2>3, <2>4, Rows DEF IndInv, HolderIsLast
  <2>8. ShowsSeen'
    <3>1. \A t \in Tx : (\A k \in Handler : t \notin batch'[k]) =>
             t \notin Added(f) /\ (\A k \in Handler : t \notin batch[k])
      BY <1>2, <1>8
    <3>2. QED
      BY <1>1, <2>3, <3>1 DEF IndInv, ShowsSeen
  <2>9. QED
    BY <1>6, <1>9, <1>10, <1>11, <2>5, <2>6, <2>7, <2>8
<1>13. CASE f = AddrFeed
  <2>1. Renewed(f) \subseteq Addr /\ Contended(f) \subseteq Addr /\ Added(f) \subseteq Addr
    BY <1>7, <1>13, Rows DEF Renewed, Contended, TxFeed, AddrFeed
  <2>2. \A t \in Tx : /\ seen'[t] = seen[t]
                      /\ t \in missed' <=> t \in missed
                      /\ t \in overlapped' <=> t \in overlapped
                      /\ \A k \in Handler : t \in batch'[k] <=> (t \in batch[k] /\ k # h)
    BY <1>2, <1>3, <1>13, <2>1, Rows
  <2>3. OneHolder' /\ HolderIsNewest' /\ HolderIsLast'
    BY <1>1, <1>2, <2>2 DEF IndInv, OneHolder, HolderIsNewest, HolderIsLast
  <2>4. ShowsSeen'
    BY <1>1, <1>8, <2>2 DEF IndInv, ShowsSeen
  <2>5. QED
    BY <1>6, <1>9, <1>10, <1>11, <2>3, <2>4
<1>14. QED
  BY <1>12, <1>13, Rows

(* A reply moves h to its next await.  What has to be shown of the reply:  *)
(* it holds transactions of the batch, none newer than the database, and   *)
(* nothing in it is older than the diff.                                   *)
LEMMA KeepInv ==
  ASSUME IndInv, NEW h \in Handler, NEW s \in Steps \ {"idle"}, NEW reply \in Payload,
         Keep(h, s, reply),
         s \in {"wallets", "sendWallets"} => batch[h] \subseteq Addr,
         s \in ReadsTransactions => batch[h] \subseteq Tx,
         \A t \in Tx : reply.tx[t] <= ver[t] /\ (reply.tx[t] > 0 => t \in Wanted(h)),
         reply.newTokens # {} => s \in {"totalTokens", "publish"},
         s \in HasTransactions => \A t \in Wanted(h) : reply.tx[t] >= since[h][t],
         \A a \in UNION {Touches[t] : t \in {u \in Tx : reply.tx[u] > 0}} :
           /\ s \in HasBalances => reply.balance[a] >= since[h][a]
           /\ s \in HasCounts => reply.total[a] >= since[h][a]
  PROVE  Ordered' /\ Shape' /\ SentIsNotOlderThanDiff' /\ FirstResultIsSwallowed'
         /\ OneHolder' /\ HolderIsNewest' /\ HolderIsLast' /\ ShowsSeen'
<1>1. /\ UNCHANGED <<ver, firstRun, base, seen, batch, since, shown, missed, overlapped>>
      /\ step'[h] = s /\ got'[h] = reply
      /\ \A k \in Handler \ {h} : step'[k] = step[k] /\ got'[k] = got[k]
  BY DEF Keep, Goto, database, connection, history, IndInv, TypeOK
<1>2. Ordered'
  BY <1>1 DEF IndInv, Ordered
<1>3. \A k \in Handler : Wanted(k)' = Wanted(k)
  BY <1>1 DEF Wanted
<1>4. Shape'
  BY <1>1, <1>3 DEF IndInv, Shape
<1>5. SentIsNotOlderThanDiff'
  <2>1. AddressesToNotify(h)' = UNION {Touches[t] : t \in {u \in Tx : reply.tx[u] > 0}}
    BY <1>1 DEF AddressesToNotify, AddressesOf, Found
  <2>2. \A k \in Handler \ {h} : AddressesToNotify(k)' = AddressesToNotify(k)
    BY <1>1 DEF AddressesToNotify, AddressesOf, Found
  <2>3. QED
    BY <1>1, <1>3, <2>1, <2>2 DEF IndInv, SentIsNotOlderThanDiff
<1>6. FirstResultIsSwallowed' /\ OneHolder' /\ HolderIsNewest' /\ HolderIsLast'
  BY <1>1 DEF IndInv, FirstResultIsSwallowed, OneHolder, HolderIsNewest, HolderIsLast
<1>7. ShowsSeen'
  BY <1>1 DEF IndInv, ShowsSeen
<1>8. QED
  BY <1>2, <1>4, <1>5, <1>6, <1>7

(* What a reply that leaves the transactions alone has to satisfy of them  *)
(* is satisfied already.                                                   *)
LEMMA GotInv ==
  ASSUME IndInv, NEW h \in Handler
  PROVE  /\ got[h] \in Payload
         /\ \A t \in Tx : got[h].tx[t] <= ver[t] /\ (got[h].tx[t] > 0 => t \in Wanted(h))
         /\ AddressesToNotify(h) = UNION {Touches[t] : t \in {u \in Tx : got[h].tx[u] > 0}}
         /\ AddressesToNotify(h) \subseteq Addr
         /\ \A a \in Addr : ver[a] >= since[h][a] /\ ver[a] \in Nat
         /\ OfAddresses(h) \in [Addr -> Nat]
         /\ \A a \in AddressesToNotify(h) : OfAddresses(h)[a] = ver[a]
<1>1. got[h] \in Payload
  BY DEF IndInv, TypeOK
<1>2. \A t \in Tx : got[h].tx[t] <= ver[t] /\ (got[h].tx[t] > 0 => t \in Wanted(h))
  BY DEF IndInv, Ordered, Shape
<1>3. AddressesToNotify(h) = UNION {Touches[t] : t \in {u \in Tx : got[h].tx[u] > 0}}
  BY DEF AddressesToNotify, AddressesOf, Found
<1>4. AddressesToNotify(h) \subseteq Addr
  BY <1>3, LiveFeedAssumption
<1>5. \A a \in Addr : ver[a] >= since[h][a] /\ ver[a] \in Nat
  BY LiveFeedAssumption DEF IndInv, Ordered, TypeOK, Row, Version
<1>6. OfAddresses(h) \in [Addr -> Nat] /\ \A a \in AddressesToNotify(h) : OfAddresses(h)[a] = ver[a]
  BY <1>4, <1>5 DEF OfAddresses
<1>7. QED
  BY <1>1, <1>2, <1>3, <1>4, <1>5, <1>6

(* The queries of eventHandler. *)
LEMMA ReadInv ==
  ASSUME IndInv, NEW h \in Handler,
         \/ ReadWallets(h) \/ ReadConfirmation(h) \/ ReadTransactions(h) \/ ReadLookups(h)
         \/ ReadBalances(h) \/ ReadCounts(h) \/ SkipNewTokens(h)
         \/ ReadTotalTokens(h) \/ SkipTotalTokens(h)
  PROVE  Ordered' /\ Shape' /\ SentIsNotOlderThanDiff' /\ FirstResultIsSwallowed'
         /\ OneHolder' /\ HolderIsNewest' /\ HolderIsLast' /\ ShowsSeen'
<1> USE DEF Steps, ReadsTransactions, HasTransactions, HasBalances, HasCounts
<1>1. /\ step[h] \in {"wallets", "sendWallets"} => batch[h] \subseteq Addr
      /\ step[h] \in ReadsTransactions => batch[h] \subseteq Tx
      /\ got[h].newTokens # {} => step[h] \in {"totalTokens", "publish"}
  BY DEF IndInv, Shape
<1>2. /\ step[h] \in HasTransactions => \A t \in Wanted(h) : got[h].tx[t] >= since[h][t]
      /\ step[h] \in HasBalances =>
           \A a \in AddressesToNotify(h) : got[h].balance[a] >= since[h][a]
      /\ step[h] \in HasCounts =>
           \A a \in AddressesToNotify(h) : got[h].total[a] >= since[h][a]
  BY DEF IndInv, SentIsNotOlderThanDiff
<1>3. CASE ReadWallets(h)
  <2> DEFINE reply == [got[h] EXCEPT !.wallets = ActiveWallets]
  <2>1. /\ reply \in Payload
        /\ reply.tx = got[h].tx /\ reply.newTokens = got[h].newTokens
    BY GotInv, WalletsType DEF Payload
  <2>2. Keep(h, "sendWallets", reply) /\ step[h] = "wallets"
    BY <1>3 DEF ReadWallets
  <2> HIDE DEF reply
  <2>3. QED
    BY <1>1, <2>1, <2>2, GotInv, KeepInv
<1>4. CASE ReadConfirmation(h)
  <2> DEFINE reply == [got[h] EXCEPT !.confirmation = saved]
  <2>1. saved \in Nat
    BY LiveFeedAssumption DEF IndInv, TypeOK
  <2>2. /\ reply \in Payload
        /\ reply.tx = got[h].tx /\ reply.newTokens = got[h].newTokens
    BY <2>1, GotInv DEF Payload
  <2>3. Keep(h, "sendConfirmation", reply) /\ step[h] = "confirmation"
    BY <1>4 DEF ReadConfirmation
  <2> HIDE DEF reply
  <2>4. QED
    BY <1>1, <2>2, <2>3, GotInv, KeepInv
<1>5. CASE ReadTransactions(h)
  <2> DEFINE f == [t \in Tx |-> IF t \in Wanted(h) THEN ver[t] ELSE 0]
             reply == [got[h] EXCEPT !.tx = f]
  <2>1. \A t \in Tx : ver[t] \in Nat /\ ver[t] >= since[h][t]
    BY LiveFeedAssumption DEF IndInv, Ordered, TypeOK, Row, Version
  <2>2. /\ f \in [Tx -> Nat]
        /\ \A t \in Tx : f[t] <= ver[t] /\ (f[t] > 0 => t \in Wanted(h))
        /\ \A t \in Wanted(h) : f[t] >= since[h][t]
    BY <2>1 DEF Wanted
  <2> HIDE DEF f
  <2>3. /\ reply \in Payload
        /\ reply.tx = f /\ reply.newTokens = got[h].newTokens
    BY <2>2, GotInv DEF Payload
  <2>4. Keep(h, "lookups", reply) /\ step[h] = "transactions"
    BY <1>5 DEF ReadTransactions, f
  <2> HIDE DEF reply
  <2>5. QED
    BY <1>1, <2>2, <2>3, <2>4, KeepInv
<1>6. CASE ReadLookups(h)
  <2>1. Keep(h, "balances", got[h]) /\ step[h] = "lookups"
    BY <1>6 DEF ReadLookups
  <2>2. QED
    BY <1>1, <1>2, <2>1, GotInv, KeepInv
<1>7. CASE ReadBalances(h)
  <2> DEFINE reply == [got[h] EXCEPT !.balance = OfAddresses(h)]
  <2>1. /\ reply \in Payload
        /\ reply.tx = got[h].tx /\ reply.newTokens = got[h].newTokens
        /\ reply.balance = OfAddresses(h)
    BY GotInv DEF Payload
  <2>2. Keep(h, "counts", reply) /\ step[h] = "balances"
    BY <1>7 DEF ReadBalances
  <2>3. \A a \in AddressesToNotify(h) : reply.balance[a] >= since[h][a]
    BY <2>1, GotInv
  <2> HIDE DEF reply
  <2>4. QED
    BY <1>1, <1>2, <2>1, <2>2, <2>3, GotInv, KeepInv
<1>8. CASE ReadCounts(h)
  <2> DEFINE reply == [got[h] EXCEPT !.total = OfAddresses(h)]
  <2>1. /\ reply \in Payload
        /\ reply.tx = got[h].tx /\ reply.newTokens = got[h].newTokens
        /\ reply.balance = got[h].balance
        /\ reply.total = OfAddresses(h)
    BY GotInv DEF Payload
  <2>2. Keep(h, "tokens", reply) /\ step[h] = "counts"
    BY <1>8 DEF ReadCounts
  <2>3. \A a \in AddressesToNotify(h) : reply.total[a] >= since[h][a]
    BY <2>1, GotInv
  <2> HIDE DEF reply
  <2>4. QED
    BY <1>1, <1>2, <2>1, <2>2, <2>3, GotInv, KeepInv
<1>9. CASE SkipNewTokens(h) \/ SkipTotalTokens(h)
  <2>1. Keep(h, "publish", got[h]) /\ step[h] \in {"tokens", "totalTokens"}
    BY <1>9 DEF SkipNewTokens, SkipTotalTokens
  <2>2. QED
    BY <1>1, <1>2, <2>1, GotInv, KeepInv
<1>10. CASE ReadTotalTokens(h)
  <2> DEFINE n == Cardinality({t \in TokenTx : ver[t] >= Confirmed})
             reply == [got[h] EXCEPT !.tokensTotal = n]
  <2>1. n \in Nat
    BY TotalType
  <2> HIDE DEF n
  <2>2. /\ reply \in Payload
        /\ reply.tx = got[h].tx /\ reply.newTokens = got[h].newTokens
        /\ reply.balance = got[h].balance /\ reply.total = got[h].total
    BY <2>1, GotInv DEF Payload
  <2>3. Keep(h, "publish", reply) /\ step[h] = "totalTokens"
    BY <1>10 DEF ReadTotalTokens, n
  <2> HIDE DEF reply
  <2>4. QED
    BY <1>1, <1>2, <2>2, <2>3, GotInv, KeepInv
<1>11. QED
  BY <1>3, <1>4, <1>5, <1>6, <1>7, <1>8, <1>9, <1>10

(* Sending the confirmation time or the new tokens changes no room of a    *)
(* transaction, and neither the batch nor the replies about it.            *)
LEMMA SendInv ==
  ASSUME IndInv, NEW h \in Handler, SendConfirmation(h) \/ SendNewTokens(h)
  PROVE  Ordered' /\ Shape' /\ SentIsNotOlderThanDiff' /\ FirstResultIsSwallowed'
         /\ OneHolder' /\ HolderIsNewest' /\ HolderIsLast' /\ ShowsSeen'
<1>1. UNCHANGED <<ver, firstRun, base, seen, batch, since, missed, overlapped>> /\ shown'.tx = shown.tx
  BY DEF SendConfirmation, SendNewTokens, database, connection, history, IndInv, TypeOK, Payload
<1>2. /\ got \in [Handler -> Payload]
      /\ \A k \in Handler \ {h} : step'[k] = step[k] /\ got'[k] = got[k]
      /\ \A k \in Handler : /\ got'[k].tx = got[k].tx
                            /\ got'[k].balance = got[k].balance
                            /\ got'[k].total = got[k].total
  <2>1. got \in [Handler -> Payload] /\ step \in [Handler -> Steps]
    BY DEF IndInv, TypeOK
  <2>2. CASE SendConfirmation(h)
    BY <2>1, <2>2 DEF SendConfirmation, Goto
  <2>3. CASE SendNewTokens(h)
    <3>1. /\ got' = [got EXCEPT ![h] = [got[h] EXCEPT !.newTokens = GeneratedTokens(h)]]
          /\ \A k \in Handler \ {h} : step'[k] = step[k]
      BY <2>1, <2>3 DEF SendNewTokens, Goto
    <3>2. /\ [got[h] EXCEPT !.newTokens = GeneratedTokens(h)].tx = got[h].tx
          /\ [got[h] EXCEPT !.newTokens = GeneratedTokens(h)].balance = got[h].balance
          /\ [got[h] EXCEPT !.newTokens = GeneratedTokens(h)].total = got[h].total
      BY <2>1 DEF Payload
    <3>3. QED
      BY <2>1, <3>1, <3>2
  <2>4. QED
    BY <2>2, <2>3
<1>3. \/ step[h] = "sendConfirmation" /\ step'[h] = "transactions" /\ got'[h].newTokens = got[h].newTokens
      \/ step[h] = "tokens" /\ step'[h] = "totalTokens"
  BY DEF SendConfirmation, SendNewTokens, Goto, IndInv, TypeOK
<1>4. Ordered'
  BY <1>1, <1>2 DEF IndInv, Ordered
<1>5. \A k \in Handler : Wanted(k)' = Wanted(k) /\ AddressesToNotify(k)' = AddressesToNotify(k)
  BY <1>1, <1>2 DEF Wanted, AddressesToNotify, AddressesOf, Found
<1>6. Shape'
  BY <1>1, <1>2, <1>3, <1>5 DEF IndInv, Shape, ReadsTransactions
<1>7. SentIsNotOlderThanDiff'
  BY <1>1, <1>2, <1>3, <1>5 DEF IndInv, SentIsNotOlderThanDiff, HasTransactions, HasBalances, HasCounts
<1>8. FirstResultIsSwallowed' /\ OneHolder' /\ HolderIsNewest' /\ HolderIsLast'
  BY <1>1 DEF IndInv, FirstResultIsSwallowed, OneHolder, HolderIsNewest, HolderIsLast
<1>9. ShowsSeen'
  BY <1>1 DEF IndInv, ShowsSeen
<1>10. QED
  BY <1>4, <1>6, <1>7, <1>8, <1>9

(* The end of a handler, whatever it sends: the parts of IndInv that do    *)
(* not mention the rooms.                                                  *)
LEMMA FinishInv ==
  ASSUME IndInv, NEW h \in Handler, Finish(h),
         UNCHANGED <<ver, firstRun, base, seen, overlapped>>
  PROVE  /\ batch'[h] = {}
         /\ \A k \in Handler \ {h} : batch'[k] = batch[k] /\ since'[k] = since[k]
         /\ (\A t \in Tx : shown'.tx[t] <= ver[t]) => Ordered'
         /\ Shape' /\ SentIsNotOlderThanDiff' /\ FirstResultIsSwallowed' /\ OneHolder'
<1>1. /\ \A t \in Tx : Nothing.tx[t] = 0
      /\ Nothing.newTokens = {}
  BY DEF Nothing
<1>2. /\ step'[h] = "idle" /\ batch'[h] = {} /\ got'[h] = Nothing
      /\ \A r \in Row : since'[h][r] = 0
      /\ \A k \in Handler \ {h} : /\ step'[k] = step[k] /\ batch'[k] = batch[k]
                                  /\ got'[k] = got[k] /\ since'[k] = since[k]
  BY DEF Finish, Goto, IndInv, TypeOK
<1>3. \A r \in Row : ver[r] >= 0
  BY LiveFeedAssumption DEF IndInv, TypeOK, Version
<1>4. (\A t \in Tx : shown'.tx[t] <= ver[t]) => Ordered'
  BY <1>1, <1>2, <1>3, Rows DEF IndInv, Ordered
<1>5. \A k \in Handler \ {h} : Wanted(k)' = Wanted(k) /\ AddressesToNotify(k)' = AddressesToNotify(k)
  BY <1>2 DEF Wanted, AddressesToNotify, AddressesOf, Found
<1>6. Shape'
  BY <1>1, <1>2, <1>5 DEF IndInv, Shape, ReadsTransactions
<1>7. SentIsNotOlderThanDiff'
  <2>1. step'[h] \notin HasTransactions \cup HasBalances \cup HasCounts
    BY <1>2 DEF HasTransactions, HasBalances, HasCounts
  <2>2. QED
    BY <1>2, <1>5, <2>1 DEF IndInv, SentIsNotOlderThanDiff
<1>8. FirstResultIsSwallowed' /\ OneHolder'
  BY <1>2 DEF IndInv, FirstResultIsSwallowed, OneHolder
<1>9. QED
  BY <1>2, <1>4, <1>6, <1>7, <1>8

(* A handler of the number of active addresses holds no transaction. *)
LEMMA SendWalletsInv ==
  ASSUME IndInv, NEW h \in Handler, SendWallets(h)
  PROVE  Ordered' /\ Shape' /\ SentIsNotOlderThanDiff' /\ FirstResultIsSwallowed'
         /\ OneHolder' /\ HolderIsNewest' /\ HolderIsLast' /\ ShowsSeen'
<1>1. /\ Finish(h) /\ UNCHANGED <<ver, firstRun, base, seen, missed, overlapped>>
      /\ shown'.tx = shown.tx
  BY DEF SendWallets, database, connection, history, IndInv, TypeOK, Payload
<1>2. \A t \in Tx : t \notin batch[h]
  BY Rows DEF SendWallets, IndInv, Shape
<1>3. Ordered'
  <2>1. \A t \in Tx : shown'.tx[t] <= ver[t]
    BY <1>1 DEF IndInv, Ordered
  <2>2. QED
    BY <1>1, <2>1, FinishInv
<1>4. Shape' /\ SentIsNotOlderThanDiff' /\ FirstResultIsSwallowed' /\ OneHolder'
  BY <1>1, FinishInv
<1>5. HolderIsNewest' /\ HolderIsLast'
  BY <1>1, FinishInv DEF IndInv, HolderIsNewest, HolderIsLast
<1>6. ShowsSeen'
  BY <1>1, <1>2, FinishInv DEF IndInv, ShowsSeen
<1>7. QED
  BY <1>3, <1>4, <1>5, <1>6

(* A lost batch is missed. *)
LEMMA FailInv ==
  ASSUME IndInv, NEW h \in Handler, Fail(h)
  PROVE  Ordered' /\ Shape' /\ SentIsNotOlderThanDiff' /\ FirstResultIsSwallowed'
         /\ OneHolder' /\ HolderIsNewest' /\ HolderIsLast' /\ ShowsSeen'
<1>1. /\ Finish(h) /\ UNCHANGED <<ver, firstRun, base, seen, shown, overlapped>>
      /\ missed \subseteq missed'
  BY DEF Fail, database, connection
<1>2. \A t \in Tx : t \in batch[h] => t \in missed'
  BY Rows DEF Fail, IndInv, Shape
<1>3. Ordered'
  BY <1>1, FinishInv DEF IndInv, Ordered
<1>4. Shape' /\ SentIsNotOlderThanDiff' /\ FirstResultIsSwallowed' /\ OneHolder'
  BY <1>1, FinishInv
<1>5. HolderIsNewest' /\ HolderIsLast'
  BY <1>1, FinishInv DEF IndInv, HolderIsNewest, HolderIsLast
<1>6. ShowsSeen'
  BY <1>1, <1>2, FinishInv DEF IndInv, ShowsSeen
<1>7. QED
  BY <1>3, <1>4, <1>5, <1>6

(* How a handler that has read everything ends: it has found every         *)
(* transaction it was to find, since the diff has a row of it, and tells   *)
(* all of them, or all but some that are missed, a generation among them.  *)
Tells(h, told) ==
  /\ shown' = Told(h, told)
  /\ missed \subseteq missed'
  /\ \A t \in Wanted(h) \ told : t \in missed'
  /\ told # Wanted(h) => (Wanted(h) \ told) \cap TokenTx # {}

LEMMA PublishShows ==
  ASSUME IndInv, NEW h \in Handler, Publish(h) \/ StopPublishing(h)
  PROVE  /\ Finish(h) /\ UNCHANGED <<ver, firstRun, base, seen, overlapped>>
         /\ Found(h) = Wanted(h)
         /\ \A t \in Wanted(h) : got[h].tx[t] >= since[h][t]
         /\ \E told \in SUBSET Wanted(h) : Tells(h, told)
<1>1. Finish(h) /\ UNCHANGED <<ver, firstRun, base, seen, overlapped>> /\ step[h] = "publish"
  BY DEF Publish, StopPublishing, database, connection, history
<1>2. \A t \in Wanted(h) : got[h].tx[t] >= since[h][t]
  BY <1>1 DEF IndInv, SentIsNotOlderThanDiff, HasTransactions
<1>3. ASSUME NEW t \in Wanted(h)
      PROVE  got[h].tx[t] > 0
  <2>1. t \in Tx /\ t \in batch[h] \cap RowsOf(TxFeed) /\ TxFeed \in Feed /\ t \in Row
    BY Rows DEF Wanted
  <2>2. since[h][t] > base[t]
    BY <2>1 DEF IndInv, FirstResultIsSwallowed
  <2>3. base[t] \in Nat /\ since[h][t] \in Nat /\ got[h].tx[t] \in Nat
    BY <2>1, LiveFeedAssumption DEF IndInv, TypeOK, Version, Payload
  <2> QED
    BY <1>2, <2>2, <2>3
<1>4. Found(h) = Wanted(h) /\ Wanted(h) \subseteq batch[h]
  BY <1>3, GotInv DEF Found, Wanted
<1>5. CASE Publish(h)
  <2>1. shown' = Told(h, Wanted(h)) /\ missed' = missed
    BY <1>4, <1>5 DEF Publish, history
  <2>2. Tells(h, Wanted(h))
    BY <2>1 DEF Tells
  <2> QED
    BY <1>1, <1>2, <1>4, <2>2
<1>6. CASE StopPublishing(h)
  <2>0. PICK t \in Found(h) \cap TokenTx : \E told \in SUBSET (Found(h) \ {t}) :
          shown' = Told(h, told) /\ missed' = missed \cup (batch[h] \ told)
    BY <1>6 DEF StopPublishing
  <2>1. PICK told \in SUBSET (Found(h) \ {t}) :
          shown' = Told(h, told) /\ missed' = missed \cup (batch[h] \ told)
    BY <2>0
  <2>2. told \in SUBSET Wanted(h) /\ t \in (Wanted(h) \ told) \cap TokenTx
    BY <1>4, <2>1
  <2>3. \A u \in Wanted(h) \ told : u \in missed'
    BY <1>4, <2>1
  <2>4. Tells(h, told)
    BY <2>1, <2>2, <2>3 DEF Tells
  <2> QED
    BY <1>1, <1>2, <1>4, <2>2, <2>4
<1> QED
  BY <1>5, <1>6

LEMMA PublishInv ==
  ASSUME IndInv, NEW h \in Handler, Publish(h) \/ StopPublishing(h)
  PROVE  Ordered' /\ Shape' /\ SentIsNotOlderThanDiff' /\ FirstResultIsSwallowed'
         /\ OneHolder' /\ HolderIsNewest' /\ HolderIsLast' /\ ShowsSeen'
<1>0. PICK told \in SUBSET Wanted(h) : Tells(h, told)
  BY PublishShows
<1>1. /\ Finish(h) /\ UNCHANGED <<ver, firstRun, base, seen, overlapped>>
      /\ missed \subseteq missed'
      /\ \A t \in Tx : /\ t \in told => /\ shown'.tx[t] = got[h].tx[t]
                                        /\ got[h].tx[t] >= since[h][t]
                       /\ t \notin told => shown'.tx[t] = shown.tx[t]
                       /\ t \in Wanted(h) \ told => t \in missed'
      /\ told \subseteq batch[h]
  BY <1>0, PublishShows, ToldType DEF Tells, IndInv, Wanted
<1>2. Ordered'
  <2>1. \A t \in Tx : shown'.tx[t] <= ver[t]
    BY <1>1 DEF IndInv, Ordered
  <2>2. QED
    BY <1>1, <2>1, FinishInv
<1>3. Shape' /\ SentIsNotOlderThanDiff' /\ FirstResultIsSwallowed' /\ OneHolder'
  BY <1>1, FinishInv
<1>4. HolderIsNewest'
  <2>1. ASSUME NEW t \in Tx \ overlapped, NEW k \in Handler, t \in batch'[k]
        PROVE  shown'.tx[t] <= since'[k][t]
    <3>1. k # h /\ t \in batch[k] /\ since'[k] = since[k]
      BY <1>1, <2>1, FinishInv
    <3>2. t \notin batch[h]
      BY <3>1 DEF IndInv, OneHolder
    <3>3. shown'.tx[t] = shown.tx[t]
      BY <1>1, <3>2
    <3>4. QED
      BY <3>1, <3>3 DEF IndInv, HolderIsNewest
  <2>2. QED
    BY <1>1, <2>1 DEF HolderIsNewest
<1>5. HolderIsLast'
  BY <1>1, FinishInv DEF IndInv, HolderIsLast
<1>6. ShowsSeen'
  <2>1. ASSUME firstRun[TxFeed], NEW t \in Tx \ (ZeroSpend \cup missed' \cup overlapped),
               \A k \in Handler : t \notin batch'[k]
        PROVE  shown'.tx[t] >= seen[t]
    <3>1. CASE t \in batch[h]
      <4>1. t \in told
        BY <1>1, <2>1, <3>1 DEF Wanted
      <4>2. since[h][t] = seen[t]
        BY <1>1, <2>1, <3>1 DEF IndInv, HolderIsLast
      <4> QED
        BY <1>1, <4>1, <4>2
    <3>2. CASE t \notin batch[h]
      <4>1. \A k \in Handler : t \notin batch[k]
        BY <1>1, <2>1, <3>2, FinishInv
      <4>2. QED
        BY <1>1, <2>1, <3>2, <4>1 DEF IndInv, ShowsSeen
    <3>3. QED
      BY <3>1, <3>2
  <2>2. QED
    BY <1>1, <2>1 DEF ShowsSeen
<1>7. QED
  BY <1>2, <1>3, <1>4, <1>5, <1>6

LEMMA NextInv == IndInv /\ [Next]_vars => IndInv'
<1> SUFFICES ASSUME IndInv, [Next]_vars
             PROVE  IndInv'
  OBVIOUS
<1>1. TypeOK'
  BY NextType DEF IndInv
<1>2. ASSUME NEW r \in Row, WriteRow(r)
      PROVE  IndInv'
  BY <1>1, <1>2, WriteRowInv, SameHandlers DEF IndInv
<1>3. ASSUME UNCHANGED <<ver, step, batch, got, since, firstRun, seen, base, shown, missed, overlapped>>
      PROVE  IndInv'
  <2>1. Ordered'
    BY <1>3 DEF IndInv, Ordered
  <2>2. QED
    BY <1>1, <1>3, <2>1, SameHandlers DEF IndInv
<1>4. CASE SaveConfirmationTime \/ Ready \/ ErrorInInit \/ InitTimeout \/ ErrorAfterInit
  <2>1. UNCHANGED <<ver, step, batch, got, since, firstRun, seen, base, shown, missed, overlapped>>
    BY <1>4 DEF SaveConfirmationTime, Ready, ErrorInInit, InitTimeout, ErrorAfterInit,
                database, connection, handlers, history
  <2>2. QED
    BY <1>3, <2>1
<1>5. CASE Restart
  BY <1>1, <1>5, RestartInv DEF IndInv
<1>6. ASSUME NEW f \in Feed, FirstDiff(f)
      PROVE  IndInv'
  BY <1>1, <1>6, FirstDiffInv DEF IndInv
<1>7. ASSUME NEW f \in Feed, NEW h \in Handler, Notice(f, h)
      PROVE  IndInv'
  BY <1>1, <1>7, NoticeInv DEF IndInv
<1>8. ASSUME NEW h \in Handler, Advance(h)
      PROVE  IndInv'
  <2>1. CASE \/ ReadWallets(h) \/ ReadConfirmation(h) \/ ReadTransactions(h) \/ ReadLookups(h)
             \/ ReadBalances(h) \/ ReadCounts(h) \/ SkipNewTokens(h)
             \/ ReadTotalTokens(h) \/ SkipTotalTokens(h)
    BY <1>1, <2>1, ReadInv DEF IndInv
  <2>2. CASE SendConfirmation(h) \/ SendNewTokens(h)
    BY <1>1, <2>2, SendInv DEF IndInv
  <2>3. CASE SendWallets(h)
    BY <1>1, <2>3, SendWalletsInv DEF IndInv
  <2>4. CASE Fail(h)
    BY <1>1, <2>4, FailInv DEF IndInv
  <2>5. CASE Publish(h) \/ StopPublishing(h)
    BY <1>1, <2>5, PublishInv DEF IndInv
  <2>6. QED
    BY <1>8, <2>1, <2>2, <2>3, <2>4, <2>5 DEF Advance
<1>9. CASE UNCHANGED vars
  BY <1>3, <1>9 DEF vars
<1>10. QED
  BY <1>2, <1>4, <1>5, <1>6, <1>7, <1>8, <1>9 DEF Next

LEMMA InvariantHolds == Spec => []IndInv
BY InitInv, NextInv, PTL DEF Spec

-----------------------------------------------------------------------------
(* The theorems.                                                           *)

(* For every set of transactions, addresses and overlapping handlers, what *)
(* a handler is about to send is not older than the diff that called it.   *)
THEOREM SentIsFresh == Spec => []SentIsNotOlderThanDiff
<1>1. IndInv => SentIsNotOlderThanDiff
  BY DEF IndInv
<1>2. QED
  BY <1>1, InvariantHolds, PTL

(* No handler is ever called with a row of a select's first result that    *)
(* has not been written since, in any run of the process.                  *)
THEOREM FirstResultNeverAnnounced == Spec => []FirstResultIsSwallowed
<1>1. IndInv => FirstResultIsSwallowed
  BY DEF IndInv
<1>2. QED
  BY <1>1, InvariantHolds, PTL

(* A transaction's room shows what is committed once the feed is quiet on  *)
(* it, unless its last change was missed or two handlers overlapped on it. *)
THEOREM Convergence == Spec => []RoomsConverge
<1>1. IndInv => RoomsConverge
  <2> SUFFICES ASSUME IndInv, NEW t \in Tx \ ZeroSpend,
                      firstRun[TxFeed], seen[t] = ver[t],
                      t \notin Held \cup missed \cup overlapped
               PROVE  shown.tx[t] = ver[t]
    BY DEF RoomsConverge, TxFeed
  <2>1. \A h \in Handler : t \notin batch[h]
    BY DEF Held, Running, IndInv, Shape
  <2>2. shown.tx[t] >= seen[t]
    BY <2>1 DEF IndInv, ShowsSeen
  <2>3. shown.tx[t] <= ver[t]
    BY DEF IndInv, Ordered
  <2>4. shown.tx[t] \in Int /\ ver[t] \in Int
    BY LiveFeedAssumption, Rows DEF IndInv, TypeOK, Payload, Version
  <2>5. QED
    BY <2>2, <2>3, <2>4
<1>2. QED
  BY <1>1, InvariantHolds, PTL

(* A room goes back to an older state of a transaction in no step other    *)
(* than the end of a handler that overlapped with another one on it.       *)
THEOREM NoRegressWithoutOverlap == Spec => GoesBackOnlyAfterOverlap
<1>1. ASSUME IndInv, [Next]_vars, NEW t \in Tx, shown'.tx[t] < shown.tx[t]
      PROVE  t \in overlapped
  <2>1. ASSUME shown'.tx = shown.tx
        PROVE  FALSE
    <3>1. shown.tx[t] \in Int
      BY <1>1 DEF IndInv, TypeOK, Payload
    <3>2. QED
      BY <1>1, <2>1, <3>1
  <2>2. shown' # shown
    BY <2>1
  <2>3. PICK h \in Handler : \/ SendWallets(h) \/ SendConfirmation(h) \/ SendNewTokens(h)
                            \/ Publish(h) \/ StopPublishing(h)
    BY <1>1, <2>2 DEF Next, vars, WriteRow, SaveConfirmationTime, Ready, ErrorInInit, InitTimeout,
       ErrorAfterInit, Restart, FirstDiff, Notice, Advance, Keep, ReadWallets, ReadConfirmation,
       ReadTransactions, ReadLookups, ReadBalances, ReadCounts, SkipNewTokens, ReadTotalTokens,
       SkipTotalTokens, Fail
  <2>4. Publish(h) \/ StopPublishing(h)
    BY <1>1, <2>1, <2>3 DEF SendWallets, SendConfirmation, SendNewTokens, IndInv, TypeOK, Payload
  <2>5. t \in Wanted(h) /\ shown'.tx[t] = got[h].tx[t] /\ got[h].tx[t] >= since[h][t]
    <3>1. PICK told \in SUBSET Wanted(h) : Tells(h, told)
      BY <1>1, <2>4, PublishShows
    <3>2. shown'.tx[t] # shown.tx[t]
      BY <1>1 DEF IndInv, TypeOK, Payload
    <3> QED
      BY <1>1, <2>4, <3>1, <3>2, PublishShows, ToldType DEF Tells, IndInv
  <2>6. t \in batch[h] /\ ~(shown.tx[t] <= since[h][t])
    <3>1. shown.tx[t] \in Int /\ got[h].tx[t] \in Int /\ since[h][t] \in Int
      BY <1>1, LiveFeedAssumption, Rows DEF IndInv, TypeOK, Payload, Version
    <3>2. QED
      BY <1>1, <2>5, <3>1 DEF Wanted
  <2>7. QED
    BY <1>1, <2>6 DEF IndInv, HolderIsNewest
<1>2. IndInv /\ [Next]_vars => [\A t \in Tx : shown'.tx[t] < shown.tx[t] => t \in overlapped]_vars
  BY <1>1
<1>3. QED
  BY <1>2, InvariantHolds, PTL DEF Spec, GoesBackOnlyAfterOverlap

(* For any batch and whatever runs beside its handler, only a token        *)
(* generation leaves it half sent, and the rooms of a transaction and of   *)
(* its addresses are told together.                                        *)
THEOREM OnlyGenerationsHalve == Spec => HalfSentOnlyByGeneration
<1> DEFINE Sent(h, told) ==
      /\ told # Found(h) => (Found(h) \ told) \cap TokenTx # {}
      /\ \A t \in Tx :
           shown'.tx[t] = IF t \in told THEN got[h].tx[t] ELSE shown.tx[t]
      /\ \A a \in AddressesOf(told) :
           /\ shown'.balance[a] = got[h].balance[a]
           /\ shown'.total[a] = got[h].total[a]
<1> DEFINE Ends(h) ==
      \/ /\ step[h] = "publish"
         /\ \A t \in Wanted(h) : t \in Found(h)
         /\ \E told \in SUBSET Found(h) : Sent(h, told)
      \/ /\ shown' = [shown EXCEPT !.wallets = shown'.wallets]
         /\ got[h].newTokens = {}
<1>1. ASSUME IndInv, [Next]_vars, NEW h \in Handler,
             Running(h), ~Running(h)', restarts' = restarts
      PROVE  Ends(h)
  <2>1. step[h] # "idle" /\ step'[h] = "idle"
    BY <1>1 DEF Running
  <2>2. SendWallets(h) \/ Fail(h) \/ Publish(h) \/ StopPublishing(h)
    <3>1. PICK k \in Handler : Advance(k) \/ \E f \in Feed : Notice(f, k)
      BY <1>1, <2>1, LiveFeedAssumption DEF Next, vars, WriteRow, SaveConfirmationTime, Ready, ErrorInInit,
         InitTimeout, ErrorAfterInit, Restart, FirstDiff, handlers, IndInv, TypeOK
    <3>2. k = h
      BY <1>1, <2>1, <3>1 DEF Advance, Notice, ReadWallets, SendWallets, ReadConfirmation, SendConfirmation,
         ReadTransactions, ReadLookups, ReadBalances, ReadCounts, SendNewTokens, SkipNewTokens,
         ReadTotalTokens, SkipTotalTokens, Publish, StopPublishing, Fail, Keep, Finish, Goto, IndInv, TypeOK
    <3>3. QED
      BY <1>1, <2>1, <3>1, <3>2 DEF Advance, Notice, ReadWallets, ReadConfirmation, SendConfirmation,
         ReadTransactions, ReadLookups, ReadBalances, ReadCounts, SendNewTokens, SkipNewTokens,
         ReadTotalTokens, SkipTotalTokens, Keep, Goto, Running, IndInv, TypeOK
  <2>3. got[h].newTokens # {} => step[h] \in {"totalTokens", "publish"}
    BY <1>1 DEF IndInv, Shape
  <2>4. CASE SendWallets(h)
    <3>1. got[h].newTokens = {}
      BY <2>3, <2>4 DEF SendWallets
    <3>2. shown' = [shown EXCEPT !.wallets = shown'.wallets]
      BY <1>1, <2>4 DEF SendWallets, IndInv, TypeOK, Payload
    <3>3. QED
      BY <3>1, <3>2
  <2>5. CASE Fail(h)
    <3>1. got[h].newTokens = {}
      BY <2>3, <2>5 DEF Fail
    <3>2. shown' = [shown EXCEPT !.wallets = shown'.wallets]
      BY <1>1, <2>5 DEF Fail, IndInv, TypeOK, Payload
    <3>3. QED
      BY <3>1, <3>2
  <2>6. CASE Publish(h) \/ StopPublishing(h)
    <3>1. Found(h) = Wanted(h)
      BY <1>1, <2>6, PublishShows
    <3>2. PICK told \in SUBSET Wanted(h) : Tells(h, told)
      BY <1>1, <2>6, PublishShows
    <3>3. AddressesOf(told) \subseteq Addr
      BY LiveFeedAssumption DEF AddressesOf, Wanted
    <3>4. Sent(h, told)
      BY <1>1, <3>1, <3>2, <3>3, ToldType DEF Tells, IndInv
    <3>5. step[h] = "publish"
      BY <2>6 DEF Publish, StopPublishing
    <3> QED
      BY <3>1, <3>2, <3>4, <3>5
  <2>7. QED
    BY <2>2, <2>4, <2>5, <2>6
<1>2. IndInv /\ [Next]_vars =>
        [\A h \in Handler : Running(h) /\ ~Running(h)' /\ restarts' = restarts => Ends(h)]_vars
  BY <1>1
<1>3. QED
  BY <1>2, InvariantHolds, PTL DEF Spec, HalfSentOnlyByGeneration

(* The rooms know nothing of a ZeroSpend transaction. *)
NeverShown == \A t \in ZeroSpend : shown.tx[t] = 0 /\ t \notin shown.newTokens

(* No step of the live feed tells a room of a ZeroSpend transaction: what  *)
(* a handler has read are transactions it wanted.                          *)
LEMMA NeverShownStep == IndInv /\ NeverShown /\ [Next]_vars => NeverShown'
<1> SUFFICES ASSUME IndInv, NeverShown, [Next]_vars, shown' # shown
             PROVE  NeverShown'
  BY DEF NeverShown
<1>1. PICK h \in Handler : \/ SendWallets(h) \/ SendConfirmation(h) \/ SendNewTokens(h)
                          \/ Publish(h) \/ StopPublishing(h)
  BY DEF Next, vars, WriteRow, SaveConfirmationTime, Ready, ErrorInInit, InitTimeout,
     ErrorAfterInit, Restart, FirstDiff, Notice, Advance, Keep, ReadWallets, ReadConfirmation,
     ReadTransactions, ReadLookups, ReadBalances, ReadCounts, SkipNewTokens, ReadTotalTokens,
     SkipTotalTokens, Fail
<1>2. ZeroSpend \subseteq Tx /\ shown \in Payload
  BY LiveFeedAssumption DEF IndInv, TypeOK
<1>3. Found(h) \cap ZeroSpend = {}
  BY GotInv DEF Found, Wanted, IndInv, Shape
<1>4. CASE SendWallets(h) \/ SendConfirmation(h)
  BY <1>2, <1>4 DEF SendWallets, SendConfirmation, NeverShown, Payload
<1>5. CASE SendNewTokens(h)
  BY <1>2, <1>3, <1>5 DEF SendNewTokens, GeneratedTokens, NeverShown, Payload
<1>6. CASE Publish(h) \/ StopPublishing(h)
  <2>1. PICK told \in SUBSET Wanted(h) : Tells(h, told)
    BY <1>6, PublishShows
  <2>2. told \cap ZeroSpend = {}
    BY DEF Wanted
  <2> QED
    BY <1>2, <2>1, <2>2, ToldType DEF Tells, NeverShown, IndInv
<1>7. QED
  BY <1>1, <1>4, <1>5, <1>6

(* Whatever else is in its batch, a ZeroSpend transaction is never sent,   *)
(* and notifies no address.                                                *)
THEOREM ZeroSpendNeverSent == Spec => []ZeroSpendIsSilent
<1>1. Init => NeverShown
  BY LiveFeedAssumption DEF Init, Nothing, NeverShown
<1>2. Spec => []NeverShown
  BY <1>1, NeverShownStep, InvariantHolds, PTL DEF Spec
<1>3. IndInv /\ NeverShown => ZeroSpendIsSilent
  <2> SUFFICES ASSUME IndInv, NeverShown, NEW h \in Handler
               PROVE  AddressesToNotify(h) \subseteq UNION {Touches[t] : t \in (batch[h] \cap Tx) \ ZeroSpend}
    BY DEF NeverShown, ZeroSpendIsSilent
  <2>1. Found(h) \subseteq (batch[h] \cap Tx) \ ZeroSpend
    BY DEF Found, Wanted, IndInv, Shape
  <2>2. QED
    BY <2>1 DEF AddressesToNotify, AddressesOf
<1>4. QED
  BY <1>2, <1>3, InvariantHolds, PTL

-----------------------------------------------------------------------------
(* The new tokens of a batch and their total.                              *)

ConfirmedTokens == {t \in TokenTx : ver[t] >= Confirmed}

(* The new tokens a handler has sent are confirmed, and a total it has     *)
(* counted since has counted them.                                         *)
TokensCounted ==
  \A h \in Handler :
    /\ got[h].newTokens \subseteq ConfirmedTokens
    /\ step[h] # "publish" => got[h].tokensTotal = 0
    /\ got[h].tokensTotal > 0 => got[h].tokensTotal >= Cardinality(got[h].newTokens)

LEMMA ConfirmedTokensFinite == IsFiniteSet(ConfirmedTokens) /\ Cardinality(ConfirmedTokens) \in Nat
<1>1. IsFiniteSet(Tx) /\ ConfirmedTokens \subseteq Tx
  BY LiveFeedAssumption DEF ConfirmedTokens
<1> QED
  BY <1>1, FS_Subset, FS_CardinalityType

(* A step that touches no handler but h, and of h what the invariant is    *)
(* not about.                                                              *)
LEMMA TokensKept ==
  ASSUME IndInv, IndInv', TokensCounted,
         \A t \in TokenTx : ver[t] <= ver'[t],
         \A h \in Handler : /\ got'[h].newTokens = got[h].newTokens
                            /\ got'[h].tokensTotal = got[h].tokensTotal
                            /\ step'[h] = "publish" \/ got[h].tokensTotal = 0
  PROVE  TokensCounted'
<1>1. ConfirmedTokens \subseteq ConfirmedTokens'
  <2>1. \A t \in TokenTx : ver[t] \in Int /\ ver'[t] \in Int
    BY LiveFeedAssumption DEF IndInv, TypeOK, Version, Row
  <2> QED
    BY <2>1, LiveFeedAssumption DEF ConfirmedTokens
<1> QED
  BY <1>1 DEF TokensCounted

(* Nothing at all: what a handler holds before its first query.            *)
LEMMA NothingCounted ==
  /\ Nothing.newTokens = {} /\ Nothing.tokensTotal = 0 /\ Nothing.wallets = 0
BY DEF Nothing

LEMMA TokensNext == IndInv /\ IndInv' /\ TokensCounted /\ [Next]_vars => TokensCounted'
<1> SUFFICES ASSUME IndInv, IndInv', TokensCounted, [Next]_vars PROVE TokensCounted'
  OBVIOUS
<1>t. /\ \A h \in Handler : got[h] \in Payload /\ step[h] \in Steps
      /\ got \in [Handler -> Payload] /\ step \in [Handler -> Steps]
      /\ \A t \in TokenTx : ver[t] \in Int /\ ver'[t] \in Int /\ t \in Row
  BY LiveFeedAssumption DEF IndInv, TypeOK, Version, Row
<1>e. \A h \in Handler : got[h].tokensTotal = 0 \/ step[h] = "publish"
  BY DEF TokensCounted
<1>1. ASSUME NEW r \in Row, WriteRow(r) PROVE TokensCounted'
  <2>1. \A t \in TokenTx : ver[t] <= ver'[t]
    BY <1>1, <1>t, WriteRowInv DEF WriteRow, IndInv, TypeOK
  <2> QED
    BY <1>1, <1>e, <2>1, TokensKept DEF WriteRow, handlers
<1>2. CASE \/ SaveConfirmationTime \/ Ready \/ ErrorInInit \/ InitTimeout \/ ErrorAfterInit
           \/ \E f \in Feed : FirstDiff(f)
           \/ UNCHANGED vars
  <2>1. UNCHANGED <<ver, step, got>>
    BY <1>2 DEF SaveConfirmationTime, Ready, ErrorInInit, InitTimeout, ErrorAfterInit, FirstDiff,
                database, handlers, vars
  <2> QED
    BY <1>e, <1>t, <2>1, TokensKept
<1>3. CASE Restart
  <2>1. \A h \in Handler : got'[h] = Nothing
    BY <1>3 DEF Restart
  <2> QED
    BY <2>1, NothingCounted DEF TokensCounted
<1>4. ASSUME NEW f \in Feed, NEW h \in Handler, Notice(f, h) PROVE TokensCounted'
  <2>1. /\ UNCHANGED <<ver, got>> /\ step[h] = "idle"
        /\ \A k \in Handler \ {h} : step'[k] = step[k]
    BY <1>4, <1>t DEF Notice, database, Running
  <2>2. got[h].tokensTotal = 0
    BY <1>e, <2>1
  <2> QED
    BY <1>e, <1>t, <2>1, <2>2, TokensKept
<1>5. ASSUME NEW h \in Handler, NEW s \in Steps, NEW reply \in Payload, Keep(h, s, reply),
             reply.newTokens = got[h].newTokens, reply.tokensTotal = got[h].tokensTotal,
             step[h] # "publish"
      PROVE TokensCounted'
  <2>1. /\ UNCHANGED ver /\ got'[h] = reply
        /\ \A k \in Handler \ {h} : step'[k] = step[k] /\ got'[k] = got[k]
    BY <1>5, <1>t DEF Keep, Goto, database
  <2>2. got[h].tokensTotal = 0
    BY <1>e, <1>5
  <2> QED
    BY <1>e, <1>t, <1>5, <2>1, <2>2, TokensKept
<1>6. ASSUME NEW h \in Handler, Finish(h), UNCHANGED ver PROVE TokensCounted'
  <2>1. /\ got'[h] = Nothing
        /\ \A k \in Handler \ {h} : step'[k] = step[k] /\ got'[k] = got[k]
    BY <1>6, <1>t DEF Finish, Goto
  <2> QED
    BY <1>6, <2>1, NothingCounted DEF TokensCounted, ConfirmedTokens
<1>7. ASSUME NEW h \in Handler, Advance(h) PROVE TokensCounted'
  <2>1. CASE ReadWallets(h)
    <3>1. Keep(h, "sendWallets", [got[h] EXCEPT !.wallets = ActiveWallets]) /\ step[h] # "publish"
      BY <2>1 DEF ReadWallets
    <3> QED
      BY <1>5, <1>t, <3>1, WalletsType DEF Steps, Payload
  <2>2. CASE ReadConfirmation(h)
    <3>1. /\ Keep(h, "sendConfirmation", [got[h] EXCEPT !.confirmation = saved]) /\ step[h] # "publish"
          /\ saved \in Nat
      BY <2>2, LiveFeedAssumption DEF ReadConfirmation, IndInv, TypeOK
    <3> QED
      BY <1>5, <1>t, <3>1 DEF Steps, Payload
  <2>3. CASE ReadTransactions(h)
    <3> DEFINE f == [t \in Tx |-> IF t \in Wanted(h) THEN ver[t] ELSE 0]
    <3>1. Keep(h, "lookups", [got[h] EXCEPT !.tx = f]) /\ step[h] # "publish"
      BY <2>3 DEF ReadTransactions
    <3>2. f \in [Tx -> Nat]
      BY LiveFeedAssumption DEF IndInv, TypeOK, Row, Version
    <3> HIDE DEF f
    <3> QED
      BY <1>5, <1>t, <3>1, <3>2 DEF Steps, Payload
  <2>4. CASE ReadLookups(h) \/ SkipNewTokens(h) \/ SkipTotalTokens(h)
    <3>1. \E s \in Steps : Keep(h, s, got[h]) /\ step[h] # "publish"
      BY <2>4 DEF ReadLookups, SkipNewTokens, SkipTotalTokens, Steps
    <3> QED
      BY <1>5, <1>t, <3>1
  <2>5. CASE ReadBalances(h) \/ ReadCounts(h)
    <3>1. \/ Keep(h, "counts", [got[h] EXCEPT !.balance = OfAddresses(h)]) /\ step[h] # "publish"
          \/ Keep(h, "tokens", [got[h] EXCEPT !.total = OfAddresses(h)]) /\ step[h] # "publish"
      BY <2>5 DEF ReadBalances, ReadCounts
    <3>2. OfAddresses(h) \in [Addr -> Nat]
      BY GotInv
    <3>3. /\ [got[h] EXCEPT !.balance = OfAddresses(h)] \in Payload
          /\ [got[h] EXCEPT !.total = OfAddresses(h)] \in Payload
      BY <1>t, <3>2 DEF Payload
    <3>4. /\ [got[h] EXCEPT !.balance = OfAddresses(h)].newTokens = got[h].newTokens
          /\ [got[h] EXCEPT !.balance = OfAddresses(h)].tokensTotal = got[h].tokensTotal
          /\ [got[h] EXCEPT !.total = OfAddresses(h)].newTokens = got[h].newTokens
          /\ [got[h] EXCEPT !.total = OfAddresses(h)].tokensTotal = got[h].tokensTotal
      BY <1>t DEF Payload
    <3>5. "counts" \in Steps /\ "tokens" \in Steps
      BY DEF Steps
    <3> QED
      BY <1>5, <3>1, <3>3, <3>4, <3>5
  <2>6. CASE SendConfirmation(h)
    <3>1. UNCHANGED <<ver, got>> /\ \A k \in Handler \ {h} : step'[k] = step[k]
      BY <1>t, <2>6 DEF SendConfirmation, Goto, database
    <3>2. got[h].tokensTotal = 0
      BY <1>e, <2>6 DEF SendConfirmation
    <3> QED
      BY <1>e, <1>t, <3>1, <3>2, TokensKept
  <2>7. CASE SendNewTokens(h)
    <3>1. /\ UNCHANGED ver
          /\ got' = [got EXCEPT ![h] = [got[h] EXCEPT !.newTokens = GeneratedTokens(h)]]
          /\ \A k \in Handler \ {h} : step'[k] = step[k]
          /\ step[h] # "publish"
      BY <1>t, <2>7 DEF SendNewTokens, Goto, database
    <3>2. GeneratedTokens(h) \subseteq ConfirmedTokens
      <4>1. \A t \in TokenTx : got[h].tx[t] <= ver[t] /\ got[h].tx[t] \in Int
        BY LiveFeedAssumption, GotInv DEF Payload
      <4> QED
        BY <1>t, <4>1, LiveFeedAssumption DEF GeneratedTokens, Found, ConfirmedTokens
    <3>3. /\ got'[h].newTokens = GeneratedTokens(h) /\ got'[h].tokensTotal = 0
          /\ \A k \in Handler \ {h} : got'[k] = got[k]
      BY <1>e, <1>t, <3>1 DEF Payload
    <3> QED
      BY <3>1, <3>2, <3>3 DEF TokensCounted, ConfirmedTokens
  <2>8. CASE ReadTotalTokens(h)
    <3> DEFINE n == Cardinality(ConfirmedTokens)
    <3>1. /\ Keep(h, "publish", [got[h] EXCEPT !.tokensTotal = n])
      BY <2>8 DEF ReadTotalTokens, ConfirmedTokens
    <3>2. Cardinality(got[h].newTokens) <= n
      BY ConfirmedTokensFinite, FS_Subset DEF TokensCounted
    <3> HIDE DEF n
    <3>3. /\ UNCHANGED ver
          /\ got'[h].newTokens = got[h].newTokens /\ got'[h].tokensTotal = n /\ step'[h] = "publish"
          /\ \A k \in Handler \ {h} : got'[k] = got[k] /\ step'[k] = step[k]
      BY <1>t, <3>1 DEF Keep, Goto, database, Payload
    <3>4. ConfirmedTokens' = ConfirmedTokens
      BY <3>3 DEF ConfirmedTokens
    <3> QED
      BY <3>2, <3>3, <3>4 DEF TokensCounted, n
  <2>9. CASE SendWallets(h) \/ Publish(h) \/ StopPublishing(h) \/ Fail(h)
    BY <1>6, <2>9 DEF SendWallets, Publish, StopPublishing, Fail, database
  <2> QED
    BY <1>7, <2>1, <2>2, <2>3, <2>4, <2>5, <2>6, <2>7, <2>8, <2>9 DEF Advance
<1> QED
  BY <1>1, <1>2, <1>3, <1>4, <1>7 DEF Next

(* The total sent after the new tokens of a batch counts every one of      *)
(* them, whatever has been confirmed in between.                           *)
THEOREM TotalsCountTheNew == Spec => []TotalCountsNewTokens
<1>1. Init => TokensCounted
  BY NothingCounted DEF Init, TokensCounted
<1>2. TokensCounted => TotalCountsNewTokens
  BY DEF TokensCounted, TotalCountsNewTokens
<1> QED
  BY <1>1, <1>2, TokensNext, InvariantHolds, PTL DEF Spec

-----------------------------------------------------------------------------
(* The number of active addresses.                                         *)

Counting(h) == step[h] \in {"wallets", "sendWallets"}

(* The addresses that had a balance row in the select's last result. *)
SeenWallets == Cardinality({a \in Addr : seen[a] > 0})

(* The room of the count never shows more than there are; it has one       *)
(* handler unless two overlapped, and shows at least what the select       *)
(* noticed when there is none and the last count was not lost.             *)
WalletsCounted ==
  /\ shown.wallets <= ActiveWallets
  /\ \A h \in Handler : got[h].wallets <= ActiveWallets
  /\ \A h \in Handler : Counting(h) => batch[h] \cap Addr # {}
  /\ Addr \cap overlapped = {} =>
       /\ \A h, k \in Handler : Counting(h) /\ Counting(k) => h = k
       /\ \A h \in Handler : step[h] = "sendWallets" => SeenWallets <= got[h].wallets
  /\ firstRun[AddrFeed] /\ Addr \cap (missed \cup overlapped) = {} /\ (\A h \in Handler : ~Counting(h))
       => SeenWallets <= shown.wallets

(* Rows are never deleted: with more addresses there the count is higher. *)
LEMMA CountGrows ==
  ASSUME NEW S \in SUBSET Addr, NEW T \in SUBSET S
  PROVE  Cardinality(T) <= Cardinality(S) /\ Cardinality(S) \in Nat /\ Cardinality(T) \in Nat
<1>1. IsFiniteSet(S) /\ IsFiniteSet(T)
  BY LiveFeedAssumption, FS_Subset
<1> QED
  BY <1>1, FS_Subset, FS_CardinalityType

(* The select never counts more than there are. *)
LEMMA SeenAreActive ==
  ASSUME IndInv
  PROVE  SeenWallets <= ActiveWallets /\ SeenWallets \in Nat /\ ActiveWallets \in Nat
<1>1. \A a \in Addr : seen[a] <= ver[a] /\ seen[a] \in Int /\ ver[a] \in Int
  BY LiveFeedAssumption, Rows DEF IndInv, Ordered, TypeOK, Version
<1>2. {a \in Addr : seen[a] > 0} \subseteq {a \in Addr : ver[a] > 0}
  BY <1>1
<1> QED
  BY <1>2, CountGrows DEF SeenWallets, ActiveWallets

LEMMA ActiveGrow ==
  ASSUME IndInv, IndInv', \A a \in Addr : ver[a] <= ver'[a]
  PROVE  ActiveWallets <= ActiveWallets'
<1>1. \A a \in Addr : ver[a] \in Int /\ ver'[a] \in Int
  BY LiveFeedAssumption, Rows DEF IndInv, TypeOK, Version
<1>2. {a \in Addr : ver[a] > 0} \subseteq {a \in Addr : ver'[a] > 0}
  BY <1>1
<1> QED
  BY <1>2, CountGrows DEF ActiveWallets

CountsAreNumbers ==
  /\ ActiveWallets \in Nat /\ SeenWallets \in Nat /\ shown.wallets \in Nat
  /\ SeenWallets <= ActiveWallets
  /\ \A h \in Handler : got[h].wallets \in Nat

LEMMA CountTypes == IndInv => CountsAreNumbers
<1>1. IndInv => shown.wallets \in Nat /\ \A h \in Handler : got[h].wallets \in Nat
  BY FS_CardinalityType, LiveFeedAssumption DEF IndInv, TypeOK, Payload
<1> QED
  BY <1>1, SeenAreActive DEF CountsAreNumbers

LEMMA CountTypesNext == IndInv' => CountsAreNumbers'
BY CountTypes, PTL

(* A step that neither starts nor ends a handler of the count, and where   *)
(* the select notices no address.                                          *)
LEMMA CountUntouched ==
  ASSUME IndInv, IndInv', WalletsCounted,
         ActiveWallets <= ActiveWallets',
         shown'.wallets = shown.wallets,
         SeenWallets' = SeenWallets,
         firstRun'[AddrFeed] = firstRun[AddrFeed],
         Addr \cap missed \subseteq missed',
         Addr \cap overlapped \subseteq overlapped',
         \A h \in Handler :
           /\ got'[h].wallets \in {0, got[h].wallets}
           /\ step'[h] = "sendWallets" => step[h] = "sendWallets" /\ got'[h].wallets = got[h].wallets
           /\ Counting(h)' <=> Counting(h)
           /\ Counting(h) => batch'[h] = batch[h]
  PROVE  WalletsCounted'
<1>1. shown'.wallets <= ActiveWallets' /\ \A h \in Handler : got'[h].wallets <= ActiveWallets'
  BY CountTypes, CountTypesNext DEF WalletsCounted, CountsAreNumbers
<1>2. \A h \in Handler : Counting(h)' => batch'[h] \cap Addr # {}
  BY DEF WalletsCounted
<1>3. Addr \cap overlapped' = {} => Addr \cap overlapped = {}
  OBVIOUS
<1>4. Addr \cap (missed' \cup overlapped') = {} => Addr \cap (missed \cup overlapped) = {}
  OBVIOUS
<1> QED
  BY <1>1, <1>2, <1>3, <1>4 DEF WalletsCounted

LEMMA CountNext == IndInv /\ IndInv' /\ WalletsCounted /\ [Next]_vars => WalletsCounted'
<1> SUFFICES ASSUME IndInv, IndInv', WalletsCounted, [Next]_vars PROVE WalletsCounted'
  OBVIOUS
<1>t. /\ step \in [Handler -> Steps] /\ got \in [Handler -> Payload] /\ shown \in Payload
      /\ batch \in [Handler -> SUBSET Row] /\ firstRun \in [Feed -> BOOLEAN]
      /\ \A r \in Row : ver[r] \in Int /\ seen[r] \in Int
  BY LiveFeedAssumption DEF IndInv, TypeOK, Version
<1>n. Nothing.wallets = 0
  BY NothingCounted
<1>v. ActiveWallets \in Nat /\ (UNCHANGED ver => ActiveWallets' = ActiveWallets)
  BY CountTypes DEF ActiveWallets, CountsAreNumbers
<1>s. UNCHANGED seen => SeenWallets' = SeenWallets
  BY DEF SeenWallets
<1>1. ASSUME NEW r \in Row, WriteRow(r) PROVE WalletsCounted'
  <2>1. /\ UNCHANGED <<seen, firstRun, step, batch, got, shown, missed, overlapped>>
        /\ \A a \in Addr : ver[a] <= ver'[a]
    BY <1>1, <1>t, Rows DEF WriteRow, connection, handlers, history, IndInv, TypeOK
  <2>2. ActiveWallets <= ActiveWallets'
    BY <2>1, ActiveGrow
  <2> QED
    BY <1>s, <2>1, <2>2, CountUntouched DEF Counting
<1>2. CASE \/ SaveConfirmationTime \/ Ready \/ ErrorInInit \/ InitTimeout \/ ErrorAfterInit
           \/ UNCHANGED vars
  <2>1. UNCHANGED <<ver, seen, firstRun, step, batch, got, shown, missed, overlapped>>
    BY <1>2 DEF SaveConfirmationTime, Ready, ErrorInInit, InitTimeout, ErrorAfterInit,
                database, connection, handlers, history, vars
  <2> QED
    BY <1>s, <1>v, <2>1, CountUntouched DEF Counting
<1>3. CASE Restart
  <2>1. /\ UNCHANGED <<ver, shown>> /\ firstRun'[AddrFeed] = FALSE
        /\ \A h \in Handler : step'[h] = "idle" /\ got'[h].wallets = 0
    BY <1>3, <1>n, Rows DEF Restart, database
  <2> QED
    BY <1>v, <2>1 DEF WalletsCounted, Counting
<1>4. ASSUME NEW f \in Feed, FirstDiff(f) PROVE WalletsCounted'
  <2>1. /\ UNCHANGED <<ver, step, batch, got, shown>> /\ ~firstRun[f]
        /\ firstRun' = [firstRun EXCEPT ![f] = TRUE]
        /\ missed' = (missed \ RowsOf(f)) \cup Behind(f)
        /\ overlapped' = overlapped \ RowsOf(f)
        /\ \A r \in Row : seen'[r] = IF r \in RowsOf(f) THEN ver[r] ELSE seen[r]
    BY <1>4 DEF FirstDiff, database, handlers, Refresh
  <2>2. CASE f = TxFeed
    <3>1. /\ \A a \in Addr : seen'[a] = seen[a]
          /\ firstRun'[AddrFeed] = firstRun[AddrFeed]
          /\ Addr \cap missed \subseteq missed' /\ Addr \cap overlapped \subseteq overlapped'
      BY <1>t, <2>1, <2>2, Rows
    <3>2. SeenWallets' = SeenWallets
      BY <3>1 DEF SeenWallets
    <3> QED
      BY <1>v, <2>1, <3>1, <3>2, CountUntouched DEF Counting
  <2>3. CASE f = AddrFeed
    <3>1. \A h \in Handler : ~Counting(h)
      BY <2>1, <2>3, Rows DEF WalletsCounted, IndInv, FirstResultIsSwallowed
    <3>2. SeenWallets' = ActiveWallets
      BY <2>1, <2>3, Rows DEF SeenWallets, ActiveWallets
    <3>3. Addr \cap missed' = {} => ActiveWallets <= shown.wallets
      <4>1. Behind(f) = {a \in Addr : shown.wallets # ActiveWallets}
        BY <2>3 DEF Behind, AddrFeed
      <4>2. Addr = {} => ActiveWallets = 0
        BY FS_EmptySet DEF ActiveWallets
      <4> QED
        BY <1>v, <2>1, <4>1, <4>2, CountTypes DEF CountsAreNumbers
    <3> QED
      BY <1>v, <2>1, <3>1, <3>2, <3>3 DEF WalletsCounted, Counting
  <2> QED
    BY <2>2, <2>3, Rows
<1>5. ASSUME NEW f \in Feed, NEW h \in Handler, Notice(f, h) PROVE WalletsCounted'
  <2>1. /\ UNCHANGED <<ver, firstRun, got, shown>> /\ step[h] = "idle"
        /\ step'[h] = (IF f = AddrFeed THEN "wallets" ELSE "confirmation")
        /\ batch'[h] = Added(f) /\ Added(f) # {}
        /\ \A k \in Handler \ {h} : step'[k] = step[k] /\ batch'[k] = batch[k]
        /\ missed' = missed \ Renewed(f)
        /\ overlapped' = (overlapped \ Renewed(f)) \cup Contended(f)
        /\ \A r \in Row : seen'[r] = IF r \in RowsOf(f) THEN ver[r] ELSE seen[r]
    BY <1>5, <1>t DEF Notice, database, Running, AddrFeed, Refresh
  <2>2. Added(f) \subseteq RowsOf(f)
    BY DEF Added
  <2>3. CASE f = TxFeed
    <3>1. /\ \A a \in Addr : seen'[a] = seen[a]
          /\ Renewed(f) = Added(f)
      BY <2>1, <2>3, Rows DEF Renewed, TxFeed
    <3>2. Addr \cap missed \subseteq missed' /\ Addr \cap overlapped \subseteq overlapped'
      BY <2>1, <2>2, <2>3, <3>1, Rows
    <3>3. SeenWallets' = SeenWallets
      BY <3>1 DEF SeenWallets
    <3> QED
      BY <1>v, <2>1, <2>3, <3>2, <3>3, Rows, CountUntouched DEF Counting
  <2>4. CASE f = AddrFeed
    <3>1. Added(f) \subseteq Addr /\ Contended(f) = {a \in Addr : Held \cap Addr # {}}
      BY <2>2, <2>4, Rows DEF Contended, AddrFeed
    <3>2. Addr \cap overlapped' = {} => \A k \in Handler : ~Counting(k)
      <4>1. SUFFICES ASSUME NEW k \in Handler, Counting(k) PROVE Held \cap Addr # {}
        BY <2>1, <3>1
      <4>2. Running(k)
        BY <4>1 DEF Counting, Running
      <4> QED
        BY <4>1, <4>2 DEF WalletsCounted, Held
    <3>3. /\ Counting(h)' /\ step'[h] # "sendWallets"
          /\ \A k \in Handler \ {h} : Counting(k)' <=> Counting(k)
      BY <2>1, <2>4 DEF Counting
    <3>4. \A k \in Handler : Counting(k)' => batch'[k] \cap Addr # {}
      BY <2>1, <3>1, <3>3 DEF WalletsCounted
    <3>5. Addr \cap overlapped' = {} =>
            /\ \A i, j \in Handler : Counting(i)' /\ Counting(j)' => i = j
            /\ \A k \in Handler : step'[k] # "sendWallets"
      <4>1. \A k \in Handler : step'[k] = "sendWallets" => k # h /\ Counting(k)
        BY <2>1, <3>3 DEF Counting
      <4> QED
        BY <3>2, <3>3, <4>1
    <3> QED
      BY <1>v, <2>1, <3>3, <3>4, <3>5 DEF WalletsCounted
  <2> QED
    BY <2>3, <2>4, Rows
<1>6. ASSUME NEW h \in Handler, NEW s \in Steps \ {"wallets", "sendWallets"}, NEW reply,
             Keep(h, s, reply), reply.wallets = got[h].wallets, ~Counting(h)
      PROVE WalletsCounted'
  <2>1. /\ UNCHANGED <<ver, firstRun, seen, batch, shown, missed, overlapped>>
        /\ step'[h] = s /\ got'[h] = reply
        /\ \A k \in Handler \ {h} : step'[k] = step[k] /\ got'[k] = got[k]
    BY <1>6, <1>t DEF Keep, Goto, database, connection, history
  <2> QED
    BY <1>s, <1>v, <1>6, <2>1, CountUntouched DEF Counting
<1>7. ASSUME NEW h \in Handler, Finish(h), ~Counting(h), UNCHANGED <<ver, firstRun, seen, overlapped>>,
             shown'.wallets = shown.wallets, missed \subseteq missed'
      PROVE WalletsCounted'
  <2>1. /\ step'[h] = "idle" /\ got'[h].wallets = 0
        /\ \A k \in Handler \ {h} : step'[k] = step[k] /\ got'[k] = got[k] /\ batch'[k] = batch[k]
    BY <1>n, <1>t, <1>7 DEF Finish, Goto
  <2> QED
    BY <1>s, <1>v, <1>7, <2>1, CountUntouched DEF Counting
<1>8. ASSUME NEW h \in Handler, Advance(h) PROVE WalletsCounted'
  <2>1. CASE ReadWallets(h)
    <3>1. /\ UNCHANGED <<ver, firstRun, seen, batch, shown, missed, overlapped>>
          /\ step[h] = "wallets" /\ step'[h] = "sendWallets" /\ got'[h].wallets = ActiveWallets
          /\ \A k \in Handler \ {h} : step'[k] = step[k] /\ got'[k] = got[k]
      BY <2>1, <1>t DEF ReadWallets, Keep, Goto, database, connection, history, Payload
    <3>2. \A k \in Handler : Counting(k)' <=> Counting(k)
      BY <3>1 DEF Counting
    <3> QED
      BY <1>s, <1>v, <3>1, <3>2, CountTypes DEF WalletsCounted, CountsAreNumbers
  <2>2. CASE SendWallets(h)
    <3>1. /\ UNCHANGED <<ver, firstRun, seen, missed, overlapped>>
          /\ step[h] = "sendWallets" /\ shown'.wallets = got[h].wallets
          /\ step'[h] = "idle" /\ got'[h].wallets = 0
          /\ \A k \in Handler \ {h} : step'[k] = step[k] /\ got'[k] = got[k] /\ batch'[k] = batch[k]
      BY <2>2, <1>n, <1>t DEF SendWallets, Finish, Goto, database, connection, history, Payload
    <3>2. ~Counting(h)' /\ \A k \in Handler \ {h} : Counting(k)' <=> Counting(k)
      BY <3>1 DEF Counting
    <3>3. Addr \cap (missed \cup overlapped) = {} => Addr \cap overlapped = {}
      OBVIOUS
    <3>4. \A k \in Handler : step'[k] = "sendWallets" => k # h
      BY <3>1
    <3> QED
      BY <1>s, <1>v, <3>1, <3>2, <3>3, <3>4 DEF WalletsCounted
  <2>3. CASE Fail(h)
    <3>1. /\ Finish(h) /\ UNCHANGED <<ver, firstRun, seen, overlapped, shown>>
          /\ missed' = missed \cup (IF step[h] = "wallets" THEN Addr ELSE batch[h])
          /\ step[h] # "sendWallets"
      BY <2>3 DEF Fail, database, connection
    <3>2. CASE ~Counting(h)
      BY <1>7, <3>1, <3>2
    <3>3. CASE step[h] = "wallets"
      <4>1. /\ step'[h] = "idle" /\ got'[h].wallets = 0
            /\ \A k \in Handler \ {h} : step'[k] = step[k] /\ got'[k] = got[k] /\ batch'[k] = batch[k]
        BY <1>n, <1>t, <3>1 DEF Finish, Goto
      <4>2. Addr \cap missed' # {}
        BY <3>1, <3>3 DEF WalletsCounted, Counting
      <4>3. ~Counting(h)' /\ \A k \in Handler \ {h} : Counting(k)' <=> Counting(k)
        BY <4>1 DEF Counting
      <4>4. \A k \in Handler : step'[k] = "sendWallets" => k # h
        BY <4>1
      <4> QED
        BY <1>s, <1>v, <3>1, <4>1, <4>2, <4>3, <4>4 DEF WalletsCounted
    <3> QED
      BY <3>1, <3>2, <3>3 DEF Counting
  <2>4. CASE Publish(h) \/ StopPublishing(h)
    <3>1. PICK told \in SUBSET Wanted(h) : Tells(h, told)
      BY <2>4, PublishShows
    <3>2. shown'.wallets = shown.wallets /\ missed \subseteq missed'
      BY <3>1, ToldType DEF Tells, IndInv
    <3>3. Finish(h) /\ UNCHANGED <<ver, firstRun, seen, overlapped>> /\ step[h] = "publish"
      BY <2>4, PublishShows DEF Publish, StopPublishing
    <3> QED
      BY <1>7, <3>2, <3>3 DEF Counting
  <2>5. CASE SendConfirmation(h)
    <3>1. /\ UNCHANGED <<ver, firstRun, seen, batch, got, missed, overlapped>>
          /\ step[h] = "sendConfirmation" /\ step'[h] = "transactions" /\ shown'.wallets = shown.wallets
          /\ \A k \in Handler \ {h} : step'[k] = step[k]
      BY <2>5, <1>t DEF SendConfirmation, Goto, database, connection, history, Payload
    <3> QED
      BY <1>s, <1>v, <3>1, CountUntouched DEF Counting
  <2>6. CASE SendNewTokens(h)
    <3>1. /\ UNCHANGED <<ver, firstRun, seen, batch, missed, overlapped>>
          /\ step[h] = "tokens" /\ step'[h] = "totalTokens" /\ shown'.wallets = shown.wallets
          /\ got' = [got EXCEPT ![h] = [got[h] EXCEPT !.newTokens = GeneratedTokens(h)]]
          /\ \A k \in Handler \ {h} : step'[k] = step[k]
      BY <2>6, <1>t DEF SendNewTokens, Goto, database, connection, history, Payload
    <3>2. \A k \in Handler : got'[k].wallets = got[k].wallets
      BY <1>t, <3>1 DEF Payload
    <3> QED
      BY <1>s, <1>v, <3>1, <3>2, CountUntouched DEF Counting
  <2>7. CASE \/ ReadConfirmation(h) \/ ReadTransactions(h) \/ ReadLookups(h) \/ ReadBalances(h)
             \/ ReadCounts(h) \/ SkipNewTokens(h) \/ ReadTotalTokens(h) \/ SkipTotalTokens(h)
    <3>1. /\ \A x : [got[h] EXCEPT !.confirmation = x].wallets = got[h].wallets
          /\ \A x : [got[h] EXCEPT !.tx = x].wallets = got[h].wallets
          /\ \A x : [got[h] EXCEPT !.balance = x].wallets = got[h].wallets
          /\ \A x : [got[h] EXCEPT !.total = x].wallets = got[h].wallets
          /\ \A x : [got[h] EXCEPT !.tokensTotal = x].wallets = got[h].wallets
      BY <1>t DEF Payload
    <3>2. \E s \in Steps \ {"wallets", "sendWallets"} : \E reply :
            Keep(h, s, reply) /\ reply.wallets = got[h].wallets /\ ~Counting(h)
      <4>1. CASE ReadConfirmation(h)
        BY <3>1, <4>1 DEF ReadConfirmation, Counting, Steps
      <4>2. CASE ReadTransactions(h)
        BY <3>1, <4>2 DEF ReadTransactions, Counting, Steps
      <4>3. CASE ReadBalances(h) \/ ReadCounts(h)
        BY <3>1, <4>3 DEF ReadBalances, ReadCounts, Counting, Steps
      <4>4. CASE ReadTotalTokens(h)
        BY <3>1, <4>4 DEF ReadTotalTokens, Counting, Steps
      <4>5. CASE ReadLookups(h) \/ SkipNewTokens(h) \/ SkipTotalTokens(h)
        BY <4>5 DEF ReadLookups, SkipNewTokens, SkipTotalTokens, Counting, Steps
      <4> QED
        BY <2>7, <4>1, <4>2, <4>3, <4>4, <4>5
    <3> QED
      BY <1>6, <3>2
  <2> QED
    BY <1>8, <2>1, <2>2, <2>3, <2>4, <2>5, <2>6, <2>7 DEF Advance
<1> QED
  BY <1>1, <1>2, <1>3, <1>4, <1>5, <1>8 DEF Next

(* The number of active addresses heals like the rooms of the transactions *)
(* do: with nothing unseen, held, lost or overlapped its room shows what   *)
(* the table holds.                                                        *)
THEOREM WalletCountHeals == Spec => []WalletCountConverges
<1>1. Init => WalletsCounted
  <2> SUFFICES ASSUME Init PROVE WalletsCounted
    OBVIOUS
  <2>1. shown.wallets = 0 /\ \A h \in Handler : step[h] = "idle" /\ got[h].wallets = 0
    BY NothingCounted DEF Init
  <2>2. ~firstRun[AddrFeed]
    BY Rows DEF Init
  <2>3. ActiveWallets \in Nat
    BY InitInv, CountTypes DEF CountsAreNumbers
  <2> QED
    BY <2>1, <2>2, <2>3 DEF WalletsCounted, Counting
<1>2. IndInv /\ WalletsCounted => WalletCountConverges
  <2> SUFFICES ASSUME IndInv, WalletsCounted, firstRun[AddrFeed], \A a \in Addr : seen[a] = ver[a],
                      Addr \cap (Held \cup missed \cup overlapped) = {}
               PROVE  shown.wallets = ActiveWallets
    BY DEF WalletCountConverges, AddrFeed
  <2>1. \A h \in Handler : ~Counting(h)
    <3> SUFFICES ASSUME NEW h \in Handler, Counting(h) PROVE Held \cap Addr # {}
      OBVIOUS
    <3>1. Running(h)
      BY DEF Counting, Running
    <3> QED
      BY <3>1 DEF WalletsCounted, Held
  <2>2. SeenWallets = ActiveWallets
    BY DEF SeenWallets, ActiveWallets
  <2>3. Addr \cap (missed \cup overlapped) = {}
    OBVIOUS
  <2> QED
    BY <2>1, <2>2, <2>3, CountTypes DEF WalletsCounted, CountsAreNumbers
<1> QED
  BY <1>1, <1>2, CountNext, InvariantHolds, PTL DEF Spec

-----------------------------------------------------------------------------
(* LiveFeed implements Notifier: each step of the live feed is a step of   *)
(* Notifier, seen from the rooms of the transactions, or leaves these      *)
(* rooms and their senders alone.                                          *)

(* Notifier's variables as functions of the variables of LiveFeed. *)
Store == [t \in Rooms |-> ver[t]]
Shown == [t \in Rooms |-> shown.tx[t]]
Owed(h) == [t \in Wanted(h) |-> since[h][t]]
Pending == [h \in Handler |-> Owed(h)]

(* Who has no transaction in his batch owes nothing. *)
LEMMA NothingOwed ==
  ASSUME NEW h \in Handler, Wanted(h) = {}
  PROVE  Owed(h) = Notified!Done
BY DEF Owed, Notified!Done

(* A step that changes no room and no batch is a stutter. *)
LEMMA Stutter ==
  ASSUME \A t \in Rooms : ver'[t] = ver[t],
         \A t \in Rooms : shown'.tx[t] = shown.tx[t],
         \A h \in Handler : Owed(h)' = Owed(h)
  PROVE  UNCHANGED Notified!vars
BY DEF Notified!vars, Owed, Rooms, Wanted

LEMMA SameOwed ==
  ASSUME UNCHANGED <<batch, since>>
  PROVE  \A h \in Handler : Owed(h)' = Owed(h)
BY DEF Owed, Wanted

(* When h ends, it owes nothing, and the others owe what they did. *)
LEMMA FinishOwed ==
  ASSUME IndInv, NEW h \in Handler, Finish(h)
  PROVE  /\ Owed(h)' = Notified!Done
         /\ Pending' = [Pending EXCEPT ![h] = Notified!Done]
<1>1. batch'[h] = {}
  BY DEF IndInv, TypeOK, Finish
<1>2. Owed(h)' = Notified!Done
  BY <1>1 DEF Owed, Wanted, Notified!Done
<1>3. \A k \in Handler \ {h} : Owed(k)' = Owed(k)
  BY DEF Owed, Wanted, IndInv, TypeOK, Finish
<1> QED
  BY <1>2, <1>3 DEF Pending

LEMMA Typed ==
  ASSUME IndInv
  PROVE  /\ Rooms \subseteq Tx
         /\ \A t \in Rooms : ver[t] \in Nat /\ shown.tx[t] \in Nat
         /\ \A h \in Handler : \A t \in Wanted(h) : t \in Rooms /\ since[h][t] \in Nat
<1>1. Rooms \subseteq Row /\ Rooms \subseteq Tx
  BY DEF Rooms, Row
<1>2. Version \subseteq Nat
  BY DEF Version
<1>3. \A t \in Rooms : ver[t] \in Nat /\ shown.tx[t] \in Nat
  BY <1>1, <1>2 DEF IndInv, TypeOK, Payload
<1>4. \A h \in Handler : \A t \in Wanted(h) : t \in Rooms /\ since[h][t] \in Nat
  <2> TAKE h \in Handler
  <2>1. since[h] \in [Row -> Version]
    BY DEF IndInv, TypeOK
  <2>2. Wanted(h) \subseteq Rooms
    BY DEF Wanted, Rooms
  <2> QED
    BY <1>1, <1>2, <2>1, <2>2
<1> QED
  BY <1>1, <1>3, <1>4

-----------------------------------------------------------------------------

LEMMA InitMaps == Init => Notified!Init
<1> SUFFICES ASSUME Init PROVE Notified!Init
  OBVIOUS
<1>1. \A h \in Handler : Owed(h) = Notified!Done
  <2> TAKE h \in Handler
  <2>1. Wanted(h) = {}
    BY DEF Init, Wanted
  <2> QED
    BY <2>1, NothingOwed
<1>2. \A t \in Rooms : ver[t] = 0 /\ shown.tx[t] = 0
  BY DEF Init, Rooms, Row, Nothing
<1> QED
  BY <1>1, <1>2 DEF Notified!Init, Owed

(* The indexer writes a row: a write of Notifier if a room shows the row. *)
LEMMA WriteMaps ==
  ASSUME IndInv, NEW r \in Row, WriteRow(r)
  PROVE  [Notified!Next]_(Notified!vars)
<1>1. \A h \in Handler : Owed(h)' = Owed(h)
  BY SameOwed DEF WriteRow, handlers
<1>2. \A t \in Rooms : shown'.tx[t] = shown.tx[t]
  BY DEF WriteRow
<1>3. CASE r \in Rooms
  <2>1. \A t \in Rooms : ver'[t] = IF t = r THEN ver[t] + 1 ELSE ver[t]
    <3>1. Rooms \subseteq Row
      BY DEF Rooms, Row
    <3>2. ver \in [Row -> Version]
      BY DEF IndInv, TypeOK
    <3> QED
      BY <3>1, <3>2 DEF WriteRow
  <2>2. \A t \in Rooms : ver[t] \in Nat
    BY Typed
  <2>3. Notified!Commit({r})
    BY <1>3, <2>1, <2>2 DEF Notified!Commit, Notified!Version
  <2>4. Notified!Write(r)
    BY <1>1, <1>2, <2>3 DEF Notified!Write, Owed, Rooms
  <2> QED
    BY <1>3, <2>4 DEF Notified!Next
<1>4. CASE r \notin Rooms
  <2>1. \A t \in Rooms : ver'[t] = ver[t]
    BY <1>4 DEF WriteRow, IndInv, TypeOK, Rooms, Row
  <2> QED
    BY <1>1, <1>2, <2>1, Stutter
<1> QED
  BY <1>3, <1>4

(* A diff calls h: it begins to owe the rooms of the transactions in it. *)
LEMMA NoticeMaps ==
  ASSUME IndInv, NEW f \in Feed, NEW h \in Handler, Notice(f, h)
  PROVE  [Notified!Next]_(Notified!vars)
<1> DEFINE K == (Added(f) \cap Tx) \ ZeroSpend
<1>1. Wanted(h) = {}
  BY DEF IndInv, Shape, Notice, Running, Wanted
<1>2. Owed(h) = Notified!Done
  BY <1>1, NothingOwed
<1>3. \A k \in Handler \ {h} : Owed(k)' = Owed(k)
  BY DEF Notice, IndInv, TypeOK, Owed, Wanted
<1>4. /\ \A t \in Rooms : ver'[t] = ver[t]
      /\ \A t \in Rooms : shown'.tx[t] = shown.tx[t]
  BY DEF Notice, database
<1>5. K \subseteq Rooms
  BY DEF Rooms
<1>6. Owed(h)' = [t \in K |-> ver[t]]
  <2>1. since'[h] = ver /\ batch'[h] = Added(f)
    BY DEF Notice, IndInv, TypeOK
  <2> QED
    BY <2>1 DEF Owed, Wanted
<1>7. CASE K = {}
  <2>1. Owed(h)' = Owed(h)
    BY <1>2, <1>6, <1>7 DEF Notified!Done
  <2> QED
    BY <1>3, <1>4, <2>1, Stutter
<1>8. CASE K # {}
  <2>1. Notified!Idle(h)
    BY <1>2 DEF Notified!Idle, Owed
  <2>2. Notified!Commit(K)
    BY <1>4, Typed DEF Notified!Commit, Notified!Version
  <2>3. Pending' = [Pending EXCEPT ![h] = [t \in K |-> Store'[t]]]
    BY <1>3, <1>4, <1>5, <1>6 DEF Pending, Store
  <2>4. Notified!Begin(h, K)
    BY <1>4, <2>1, <2>2, <2>3 DEF Notified!Begin, Pending, Store, Owed, Rooms
  <2>5. K \in (SUBSET Rooms) \ {{}}
    BY <1>5, <1>8
  <2>6. \E B \in (SUBSET Rooms) \ {{}} : Notified!Begin(h, B)
    <3> HIDE DEF K
    <3> QED
      BY <2>4, <2>5 DEF Notified!Begin, Notified!Commit
  <2> QED
    BY <2>6 DEF Notified!Next, Notified!Begin, Notified!Commit
<1> QED
  BY <1>7, <1>8

(* A batch is lost. *)
LEMMA FailMaps ==
  ASSUME IndInv, NEW h \in Handler, Fail(h)
  PROVE  [Notified!Next]_(Notified!vars)
<1>1. Pending' = [Pending EXCEPT ![h] = Notified!Done]
  BY FinishOwed DEF Fail
<1>2. UNCHANGED <<Store, Shown>>
  BY DEF Fail, database, Store, Shown
<1>3. \A t \in Rooms : shown.tx[t] \in Nat
  BY Typed
<1>4. Notified!Tell(h, {})
  BY <1>1, <1>2, <1>3 DEF Notified!Tell, Notified!Version, Pending, Owed, Store, Shown
<1>5. {} \in SUBSET DOMAIN Pending[h]
  OBVIOUS
<1> QED
  BY <1>4, <1>5 DEF Notified!Next, Notified!Tell, Pending, Owed

(* The messages of a batch leave, or some of them. *)
LEMMA PublishMaps ==
  ASSUME IndInv, NEW h \in Handler, Publish(h) \/ StopPublishing(h)
  PROVE  [Notified!Next]_(Notified!vars)
<1>1. Pending' = [Pending EXCEPT ![h] = Notified!Done]
  BY FinishOwed DEF Publish, StopPublishing
<1>2. PICK told \in SUBSET Wanted(h) : Tells(h, told)
  BY PublishShows
<1>3. ASSUME NEW t \in Rooms
      PROVE  /\ shown'.tx[t] \in Nat
             /\ IF t \in told THEN since[h][t] <= shown'.tx[t] /\ shown'.tx[t] <= ver[t]
                              ELSE shown'.tx[t] = shown.tx[t]
  <2>1. t \in Tx
    BY Typed
  <2>2. shown'.tx[t] = IF t \in told THEN got[h].tx[t] ELSE shown.tx[t]
    BY <1>2, <2>1, ToldType DEF Tells, IndInv
  <2>3. got[h].tx[t] \in Nat /\ shown.tx[t] \in Nat /\ got[h].tx[t] <= ver[t]
    BY <2>1 DEF IndInv, TypeOK, Payload, Ordered
  <2>4. t \in told => since[h][t] <= got[h].tx[t]
    <3>1. SUFFICES ASSUME t \in told PROVE since[h][t] <= got[h].tx[t]
      OBVIOUS
    <3>2. t \in Wanted(h)
      BY <3>1
    <3>3. got[h].tx[t] >= since[h][t]
      BY <3>2, PublishShows
    <3>4. since[h][t] \in Nat
      BY <3>2, Typed
    <3> QED
      BY <2>3, <3>3, <3>4
  <2> QED
    BY <2>2, <2>3, <2>4
<1>4. DOMAIN Pending[h] = Wanted(h)
  BY DEF Pending, Owed
<1>5. \A t \in told : Pending[h][t] = since[h][t]
  BY DEF Pending, Owed
<1>6. UNCHANGED Store
  BY DEF Publish, StopPublishing, database, Store
<1>7. Notified!Tell(h, told)
  BY <1>1, <1>3, <1>4, <1>5, <1>6
     DEF Notified!Tell, Notified!Version, Pending, Owed, Store
<1> QED
  BY <1>4, <1>7 DEF Notified!Next, Notified!Tell, Pending, Owed

(* The other awaits of eventHandler change no room of a transaction. *)
LEMMA AdvanceMaps ==
  ASSUME IndInv, NEW h \in Handler, Advance(h)
  PROVE  [Notified!Next]_(Notified!vars)
<1>1. CASE SendWallets(h)
  <2>1. Wanted(h) = {}
    BY <1>1, LiveFeedAssumption DEF SendWallets, IndInv, Shape, Wanted
  <2>2. Owed(h)' = Owed(h)
    BY <1>1, <2>1, NothingOwed, FinishOwed DEF SendWallets
  <2>3. \A k \in Handler \ {h} : Owed(k)' = Owed(k)
    BY <1>1 DEF SendWallets, Finish, IndInv, TypeOK, Owed, Wanted
  <2>4. \A t \in Rooms : ver'[t] = ver[t] /\ shown'.tx[t] = shown.tx[t]
    BY <1>1 DEF SendWallets, database, IndInv, TypeOK, Payload
  <2> QED
    BY <2>2, <2>3, <2>4, Stutter
<1>2. CASE \/ ReadWallets(h) \/ ReadConfirmation(h) \/ ReadTransactions(h) \/ ReadLookups(h)
           \/ ReadBalances(h) \/ ReadCounts(h) \/ SkipNewTokens(h)
           \/ ReadTotalTokens(h) \/ SkipTotalTokens(h)
  <2>1. \E reply : \E s \in Steps : Keep(h, s, reply)
    BY <1>2 DEF ReadWallets, ReadConfirmation, ReadTransactions, ReadLookups, ReadBalances,
                ReadCounts, SkipNewTokens, ReadTotalTokens, SkipTotalTokens, Steps
  <2>2. UNCHANGED <<batch, since, ver, shown>>
    BY <2>1 DEF Keep, database
  <2> QED
    BY <2>2, SameOwed, Stutter
<1>3. CASE SendConfirmation(h) \/ SendNewTokens(h)
  <2>1. UNCHANGED <<batch, since, ver>>
    BY <1>3 DEF SendConfirmation, SendNewTokens, database
  <2>2. shown'.tx = shown.tx
    BY <1>3 DEF SendConfirmation, SendNewTokens, IndInv, TypeOK, Payload
  <2> QED
    BY <2>1, <2>2, SameOwed, Stutter
<1>4. CASE Fail(h)
  BY <1>4, FailMaps
<1>5. CASE Publish(h) \/ StopPublishing(h)
  BY <1>5, PublishMaps
<1> QED
  BY <1>1, <1>2, <1>3, <1>4, <1>5 DEF Advance

(* A restart: all senders are gone. *)
LEMMA RestartMaps ==
  ASSUME IndInv, Restart
  PROVE  [Notified!Next]_(Notified!vars)
<1>1. \A h \in Handler : Owed(h)' = Notified!Done
  BY DEF Restart, Owed, Wanted, Notified!Done
<1>2. Notified!DropAll
  BY <1>1 DEF Notified!DropAll, Owed, Restart, database, Rooms
<1> QED
  BY <1>2 DEF Notified!Next

LEMMA NextMaps ==
  ASSUME IndInv, [Next]_vars
  PROVE  [Notified!Next]_(Notified!vars)
<1>1. CASE \/ SaveConfirmationTime \/ Ready \/ ErrorInInit \/ InitTimeout \/ ErrorAfterInit
           \/ \E f \in Feed : FirstDiff(f)
           \/ UNCHANGED vars
  <2>1. UNCHANGED <<batch, since, ver, shown>>
    BY <1>1 DEF SaveConfirmationTime, Ready, ErrorInInit, InitTimeout, ErrorAfterInit,
                FirstDiff, database, handlers, vars
  <2> QED
    BY <2>1, SameOwed, Stutter
<1> QED
  BY <1>1, WriteMaps, NoticeMaps, AdvanceMaps, RestartMaps DEF Next

(* The live feed implements Notifier: whatever its handlers interleave     *)
(* with, a room of its transactions is told once or never, in a version    *)
(* that is committed and not older than its diff, and no other room is.    *)
THEOREM LiveFeedImplementsNotifier == Spec => ImplementsNotifier
<1>1. Init => Notified!Init
  BY InitMaps
<1>2. IndInv /\ [Next]_vars => [Notified!Next]_(Notified!vars)
  BY NextMaps
<1> QED
  BY <1>1, <1>2, InvariantHolds, PTL DEF Spec, ImplementsNotifier, Notified!Spec
=============================================================================
