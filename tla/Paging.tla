------------------------------- MODULE Paging -------------------------------
(***************************************************************************)
(* The listings of TransactionService of explorer-api: all transactions,   *)
(* those of an address, of a currency and of a node, newest first, a page  *)
(* at a time.  A client asks for the pages of one listing one after the    *)
(* other, with the same limit, while the indexer keeps inserting.  A limit *)
(* of 0 is one too, but in the listing of all transactions.                *)
(*                                                                         *)
(* The listings read the ids of a page first and its transactions in a     *)
(* second query, but for a node's, whose one query puts the limit on the   *)
(* rows of the join with the base transactions.  All of them order by      *)
(* attachmentTime alone: rows attached at the same time come in any order, *)
(* and in another one for the next page.                                   *)
(***************************************************************************)
EXTENDS Integers, FiniteSets

CONSTANTS
  Tx,         \* transactions of the listing
  ZeroSpend,  \* those of type ZeroSpend
  AttachedAt, \* attachmentTime
  Parts,      \* Parts[t]: the rows t has in the join with its base transactions
  Limits,     \* the limits a client may choose
  Window,     \* the 200 transactions that getTransactions allows
  MaxOffset   \* bound: the client's last offset

ASSUME PagingAssumption ==
  /\ IsFiniteSet(Tx) /\ ZeroSpend \subseteq Tx
  /\ AttachedAt \in [Tx -> Nat]
  /\ Parts \in [Tx -> Nat \ {0}]
  /\ Limits \subseteq Nat /\ Window \in Nat /\ MaxOffset \in Nat

Listing == {"all", "address", "currency", "node"}

VARIABLES
  table,    \* the transactions in the database
  listing,  \* the listing the client reads, "none" before it does
  limit,    \* the limit of its pages
  offset,   \* the offset of the page it asks for next
  step,     \* "ids" between the two queries of a request, else "idle"
  page,     \* the ids that the first query returned
  \* history variables
  seen,     \* what the answered pages held
  start,    \* the table when the client asked for the first page
  answer    \* the last answered page, with its offset and the table it was read from

vars == <<table, listing, limit, offset, step, page, seen, start, answer>>

Unasked == [offset |-> 0, of |-> {}, rows |-> {}, joined |-> {}]

Init ==
  /\ table = {}
  /\ listing = "none"
  /\ limit = 0
  /\ offset = 0
  /\ step = "idle"
  /\ page = {}
  /\ seen = {}
  /\ start = {}
  /\ answer = Unasked

-----------------------------------------------------------------------------
(* ORDER BY ... DESC LIMIT ... OFFSET ... of a set of rows.                *)

(* The sets of the first n rows in some order by descending time. *)
Newest(rows, time, n) ==
  {s \in SUBSET rows :
    /\ Cardinality(s) = IF n < Cardinality(rows) THEN n ELSE Cardinality(rows)
    /\ \A r \in s, q \in rows \ s : time[r] >= time[q]}

(* Mutation: the offset counts pages, not rows. *)
Slices_OffsetInPages(rows, time, lim, off) ==
  UNION {{b \ a : b \in {x \in Newest(rows, time, (off \div lim) + lim) : a \subseteq x}} :
           a \in Newest(rows, time, off \div lim)}

(* Mutation: an offset is one too far. *)
Slices_OneFurther(rows, time, lim, off) ==
  LET from == IF off = 0 THEN 0 ELSE off + 1 IN
  UNION {{b \ a : b \in {x \in Newest(rows, time, from + lim) : a \subseteq x}} :
           a \in Newest(rows, time, from)}

(* Mutation: one row more than the limit. *)
Slices_OneMore(rows, time, lim, off) ==
  UNION {{b \ a : b \in {x \in Newest(rows, time, off + lim + 1) : a \subseteq x}} :
           a \in Newest(rows, time, off)}

(* Mutation: the rows of the page come in any order. *)
Slices_Unordered(rows, time, lim, off) ==
  {s \in SUBSET rows : Cardinality(s) = IF off >= Cardinality(rows) THEN 0
                                        ELSE IF off + lim > Cardinality(rows)
                                        THEN Cardinality(rows) - off ELSE lim}

(* The first off + lim rows without the first off, in one of the orders.   *)
Slices(rows, time, lim, off) ==
  UNION {{b \ a : b \in {x \in Newest(rows, time, off + lim) : a \subseteq x}} :
           a \in Newest(rows, time, off)}

(* Of limit 0 TypeORM makes no LIMIT at all: all rows are in the page.     *)
(* With an offset it would throw, as MySQL has no OFFSET without a LIMIT.  *)
Pages(rows, time, lim, off) ==
  IF lim = 0 THEN {s \in {rows} : off = 0} ELSE Slices(rows, time, lim, off)

-----------------------------------------------------------------------------

(* The indexer inserts a transaction with its rows in the other tables.  A *)
(* transaction may have been attached before some that are there already.  *)
Insert(t) ==
  /\ t \notin table
  /\ table' = table \cup {t}
  /\ UNCHANGED <<listing, limit, offset, step, page, seen, start, answer>>

(* The client turns to a listing, with a limit of its own. *)
Open(l, n) ==
  /\ listing = "none"
  /\ l = "all" => n # 0
  /\ listing' = l
  /\ limit' = n
  /\ start' = table
  /\ UNCHANGED <<table, offset, step, page, seen, answer>>

(* getTransactions lets nobody look further back than Window. *)
TooFar == listing = "all" /\ limit + offset > Window

(* Mutation: ZeroSpend is left out by the second query only. *)
Listed_Unfiltered == table

(* The ids of the page: of the transactions that are not ZeroSpend, or of  *)
(* the rows that link transactions to the address or the currency.         *)
Listed == IF listing = "all" THEN table \ ZeroSpend ELSE table

ReadIds ==
  /\ step = "idle" /\ offset <= MaxOffset
  /\ listing \in {"all", "address", "currency"}
  /\ ~TooFar
  /\ page' \in Pages(Listed, AttachedAt, limit, offset)
  /\ answer' = [answer EXCEPT !.of = table]
  /\ step' = "ids"
  /\ UNCHANGED <<table, listing, limit, offset, seen, start>>

Answered(rows, joined) ==
  /\ answer' = [answer EXCEPT !.offset = offset, !.rows = rows, !.joined = joined]
  /\ seen' = seen \cup rows
  /\ offset' = offset + limit
  /\ step' = "idle"
  /\ page' = {}
  /\ UNCHANGED <<table, listing, limit, start>>

(* getTransactionsById of the page, ZeroSpend left out; the totals, the    *)
(* symbols and the balances are read after it and change nothing here.     *)
ReadTransactions ==
  /\ step = "ids"
  /\ Answered(page \ ZeroSpend, {})

(* The one query of a node's listing. *)
Joined == UNION {{t} \X (1..Parts[t]) : t \in table \ ZeroSpend}

ReadJoined ==
  /\ step = "idle" /\ offset <= MaxOffset
  /\ listing = "node"
  /\ \E rows \in Pages(Joined, [r \in Joined |-> AttachedAt[r[1]]], limit, offset) :
       /\ answer' = [offset |-> offset, of |-> table, rows |-> {r[1] : r \in rows}, joined |-> rows]
       /\ seen' = seen \cup {r[1] : r \in rows}
  /\ offset' = offset + limit
  /\ UNCHANGED <<table, listing, limit, step, page, start>>

(* A query fails, the first one or a later one: the client gets an error   *)
(* and may ask for the page again.                                         *)
Fail ==
  /\ step = "ids"
  /\ step' = "idle"
  /\ page' = {}
  /\ answer' = Unasked
  /\ UNCHANGED <<table, listing, limit, offset, seen, start>>

Next ==
  \/ \E t \in Tx : Insert(t)
  \/ \E l \in Listing, n \in Limits : Open(l, n)
  \/ ReadIds \/ ReadTransactions \/ ReadJoined \/ Fail

Spec == Init /\ [][Next]_vars

-----------------------------------------------------------------------------
(* Properties.                                                             *)

(* The variables have their types; no page is longer than the limit, but   *)
(* for the limit of 0, which is answered with the whole listing.           *)
TypeOK ==
  /\ table \subseteq Tx
  /\ listing \in Listing \cup {"none"}
  /\ limit \in Limits \cup {0}
  /\ offset \in 0..(MaxOffset + limit)
  /\ step \in {"idle", "ids"}
  /\ page \subseteq table
  /\ seen \subseteq table
  /\ start \subseteq table
  /\ answer.of \subseteq table /\ answer.rows \subseteq table
  /\ limit # 0 => Cardinality(page) <= limit /\ Cardinality(answer.rows) <= limit
  /\ limit = 0 /\ step = "idle" => answer.rows = answer.of \ ZeroSpend

ByIds == listing \in {"all", "address", "currency"}

Untied(t) == \A u \in Tx \ {t} : AttachedAt[u] # AttachedAt[t]

Newer(t, rows) == {u \in rows : AttachedAt[u] > AttachedAt[t]}

(* Reading on while the indexer inserts skips nothing: a transaction that  *)
(* was there when the client began, and that fewer rows precede than it    *)
(* has asked for, was in a page it got.  Two rows attached at the same     *)
(* time may change places between two pages, and then one can be skipped.  *)
NothingSkipped ==
  ByIds => \A t \in start \ ZeroSpend :
             Untied(t) /\ Cardinality(Newer(t, Listed)) < offset => t \in seen

(* A page further on brings a transaction a second time only when one was  *)
(* inserted since the client began; in the listing of a node also when the *)
(* limit cut its rows between two pages.                                   *)
RepeatsOnlyAfterInsert ==
  [][\A t \in answer'.rows \cap seen :
       offset' # offset /\ Untied(t)
         => \/ answer'.of # start
            \/ listing = "node" /\ \E j \in 1..Parts[t] : <<t, j>> \notin answer'.joined]_vars

(* In the listing of all transactions a short page is the last one: what   *)
(* is left out is left out before the limit.  In the other two a page may  *)
(* be short, or empty, because of ZeroSpend.                               *)
ShortPageIsLast ==
  listing = "all" /\ step = "idle" /\ answer.of # {} /\ Cardinality(answer.rows) < limit
    => Cardinality(answer.of \ ZeroSpend) <= answer.offset + Cardinality(answer.rows)

(* A page of a node's listing holds its transactions with all their base   *)
(* transactions, except for the first and the last one, which the limit    *)
(* may have cut.                                                           *)
CutOnlyAtTheEdges ==
  listing = "node" =>
    \A t \in answer.rows : Untied(t) /\ (\E j \in 1..Parts[t] : <<t, j>> \notin answer.joined)
      => \/ Newer(t, answer.rows) = {}
         \/ \A u \in answer.rows : AttachedAt[u] >= AttachedAt[t]
=============================================================================
