------------------------------ MODULE Requests ------------------------------
(***************************************************************************)
(* The HTTP requests of explorer-api: the admin guard, the awaits of the   *)
(* services, the two connection pools their queries share, and the error   *)
(* reply each failure ends in.                                             *)
(*                                                                         *)
(* A service is the sequence of its awaits.  An await is a set of chains   *)
(* that run side by side, and a chain is a sequence of leases: a lease     *)
(* takes a connection of a pool, or waits in the pool's queue for one,     *)
(* sends queries over it and gives it back.  A query outside a database    *)
(* transaction is a lease of its own.  What the queries ask for is not     *)
(* modelled, only whether they fail or find nothing.  A query that fails   *)
(* has changed nothing.                                                    *)
(***************************************************************************)
EXTENDS Integers, FiniteSets, Sequences, SequencesExt

CONSTANTS
  Request,  \* requests that may run at the same time
  Kind,     \* the routes that requests arrive at
  Limit     \* connections of a pool: 10 of each in the code

(* The routes of the five controllers that query or call something. *)
Routes == {"search", "addressTransactions", "tokenTransactions", "lastTransactions",
  "nodeTransactions", "transaction", "tokenInfo", "tokenInfoBySymbol", "tokens", "nodeInfo",
  "nodes", "walletCount", "confirmationTime", "treasuryTotals", "cotiPrice", "updateNode",
  "createToken", "nodeIcon", "tokenIcon"}

ASSUME RequestsAssumption == Limit \in Nat \ {0} /\ Kind \subseteq Routes

Pool == {"default", "db_app"}

-----------------------------------------------------------------------------
(* The services.                                                           *)

(* A query; "none" says what finding nothing means: "" if it is a result   *)
(* like any other, "unknown" if the client named what does not exist,      *)
(* "absent" if it did and the service takes it for a failure like others,  *)
(* "missing" if the tables lack a row the client did not name.             *)
Find(p, none) == [pool |-> p, queries |-> 1, none |-> none]
Query(p) == Find(p, "")

(* manager.transaction(): its queries share one connection until it        *)
(* commits or rolls back.  How many they are makes no difference.          *)
Transaction(p) == [pool |-> p, queries |-> 2, none |-> ""]

(* A call that needs no connection: the upload to S3, the treasury. *)
Call == Query("web")

(* An await.  "checks": a wrong input is refused before its first query.   *)
Await(chains) == [chains |-> chains, guards |-> FALSE, checks |-> FALSE, writes |-> FALSE]
InTurn(leases) == Await(<<leases>>)
Checked(await) == [await EXCEPT !.checks = TRUE]
Writing(await) == [await EXCEPT !.writes = TRUE]

(* canActivate: the address of the client is looked for with a query       *)
(* runner, whose connection is released also when the query fails.         *)
Guard == [InTurn(<<Find("default", "unknown")>>) EXCEPT !.guards = TRUE]

(* The queries that several services send. *)
TransactionsById == Query("db_app")
TokensSymbols == Query("db_app")
TotalTgbts == Query("db_app")
TransactionCount == Query("db_app")
TransactionCurrenciesCount == Query("db_app")
TokenBalances == Query("db_app")

(* The amount is read of whatever was found. *)
NativeBalance == Find("db_app", "missing")

TokenInfo == Checked(InTurn(<<Find("db_app", "unknown"), Query("default"), Query("db_app")>>))
NodeInfo == InTurn(<<Find("default", "unknown")>>)

Search ==
  <<Await(<< <<Query("db_app"), Query("default")>>, <<Query("default")>>,
             <<Query("db_app")>>, <<Query("db_app")>> >>)>>

AddressTransactions ==
  <<InTurn(<<Find("db_app", "absent"), Query("db_app"), TransactionsById, TransactionCount>>),
    Await(<< <<TokensSymbols>>, <<TokenBalances>>, <<NativeBalance>> >>)>>

TokenTransactions ==
  <<Checked(InTurn(<<Find("db_app", "absent"), Query("db_app"), TransactionsById>>)),
    Await(<< <<TransactionCurrenciesCount>>, <<TokensSymbols>> >>)>>

LastTransactions == <<Checked(InTurn(<<Query("db_app"), TransactionsById, TokensSymbols>>))>>
NodeTransactions == <<InTurn(<<Query("db_app"), TokensSymbols>>)>>
TransactionDetails == <<InTurn(<<Find("db_app", "absent"), TokensSymbols>>)>>
Tokens == <<InTurn(<<TotalTgbts, Query("db_app"), Query("default"), Query("db_app")>>)>>
Nodes == <<InTurn(<<Query("default")>>)>>
WalletCount == <<InTurn(<<Query("db_app")>>)>>
ConfirmationTime == <<InTurn(<<Find("default", "missing")>>)>>
TreasuryTotals == <<InTurn(<<Find("default", "missing")>>)>>
CotiPrice == <<InTurn(<<Call>>)>>

UpdateNode == <<Guard, Writing(InTurn(<<Transaction("default")>>)), NodeInfo>>
CreateToken == <<Guard, Writing(InTurn(<<Query("default"), Query("default")>>)), TokenInfo>>
NodeIcon == <<Guard, NodeInfo, Checked(InTurn(<<Call>>))>>
TokenIcon ==
  <<Guard, InTurn(<<Find("db_app", "absent"), Find("default", "unknown")>>), Checked(InTurn(<<Call>>))>>

Service == [k \in Kind |->
  CASE k = "search" -> Search
    [] k = "addressTransactions" -> AddressTransactions
    [] k = "tokenTransactions" -> TokenTransactions
    [] k = "lastTransactions" -> LastTransactions
    [] k = "nodeTransactions" -> NodeTransactions
    [] k = "transaction" -> TransactionDetails
    [] k \in {"tokenInfo", "tokenInfoBySymbol"} -> <<TokenInfo>>
    [] k = "tokens" -> Tokens
    [] k = "nodeInfo" -> <<NodeInfo>>
    [] k = "nodes" -> Nodes
    [] k = "walletCount" -> WalletCount
    [] k = "confirmationTime" -> ConfirmationTime
    [] k = "treasuryTotals" -> TreasuryTotals
    [] k = "cotiPrice" -> CotiPrice
    [] k = "updateNode" -> UpdateNode
    [] k = "createToken" -> CreateToken
    [] k = "nodeIcon" -> NodeIcon
    [] k = "tokenIcon" -> TokenIcon]

Admin(k) == Service[k][1].guards

HasInput(k) == \E i \in DOMAIN Service[k] : Service[k][i].checks

(* The routes whose body is validated. *)
HasBody(k) == k \notin {"nodes", "walletCount", "confirmationTime", "treasuryTotals", "cotiPrice",
                        "nodeIcon", "tokenIcon"}

(* FileExtender copies the hash onto the file that must come with it.      *)
HasFile(k) == k \in {"nodeIcon", "tokenIcon"}

(* uploadIcon of a token tests another error than that of the upload. *)
UploadErrorIsMissed(k, lease) == k = "tokenIcon" /\ lease = Call

-----------------------------------------------------------------------------
(* The replies.  An absent field, and an empty message, is "".  A message  *)
(* that says what went wrong is "cause", the fallback "generic".           *)

Or(a, b) == IF a = "" THEN b ELSE a

Failure == [type |-> "Error", statusCode |-> "", status |-> "", message |-> "cause"]
HttpException(code) == [type |-> "HttpException", statusCode |-> "", status |-> code, message |-> "cause"]
Rejected == [type |-> "PromiseRejectedResult", statusCode |-> "", status |-> "rejected", message |-> ""]

(* Mutation: the constructor takes over the message alone. *)
ExplorerError_MessageOnly(e) ==
  [type |-> "ExplorerError", statusCode |-> "500", status |-> "Error", message |-> e.message]

ExplorerError(e) ==
  [type |-> "ExplorerError", statusCode |-> Or(e.statusCode, "500"), status |-> Or(e.status, "Error"),
   message |-> e.message]

BadRequest == ExplorerError([Failure EXCEPT !.statusCode = "400"])

(* What a service first throws.  Of chains side by side it throws the      *)
(* result of allSettled, not the error.                                    *)
Thrown(k, cause, parallel) ==
  IF parallel THEN Rejected
  ELSE IF cause \in {"input", "unknown"}
  THEN IF k = "tokenIcon" \/ (k = "nodeIcon" /\ cause = "input") THEN HttpException("400") ELSE BadRequest
  ELSE IF k = "tokenIcon" THEN ExplorerError(Failure) ELSE Failure

(* What its catch makes of it. *)
Rethrown(k, e) ==
  IF k \in {"search", "walletCount", "tokenInfoBySymbol"}
  THEN ExplorerError([Failure EXCEPT !.message = e.message])
  ELSE IF k \in {"cotiPrice", "tokenIcon"} THEN e ELSE ExplorerError(e)

(* ExplorerExceptionFilter *)
Caught(e) ==
  IF e.type = "ExplorerError"
  THEN [http |-> e.statusCode, status |-> e.status, message |-> e.message]
  ELSE [http |-> Or(e.status, "500"), status |-> Or(e.status, "Error"),
        message |-> IF e.type = "HttpException" THEN e.message ELSE "generic"]

(* The guard, the interceptor that needs the file, the pipe that validates *)
(* the body, and the service.                                              *)
ErrorReply(k, i, cause, parallel) == Caught(
  IF Service[k][i].guards THEN HttpException(IF cause = "header" THEN "401" ELSE "403")
  ELSE CASE cause = "file" -> Failure
         [] cause = "body" -> HttpException("400")
         [] cause \notin {"file", "body"} -> Rethrown(k, Thrown(k, cause, parallel)))

(* PUT answers 200 and POST 201, unless @HttpCode says otherwise. *)
Success(k) == [http |-> IF k \in {"updateNode", "createToken", "tokenIcon"} THEN "201" ELSE "200",
               status |-> "", message |-> ""]

NoReply == [http |-> "", status |-> "", message |-> ""]

-----------------------------------------------------------------------------

VARIABLES
  kind,    \* kind[r]: the kind of request r
  wrong,   \* wrong[r]: what the client did wrong: "", "header", "key", "file", "body" or "input"
  at,      \* at[r]: the await it is suspended at, 0 when it is answered
  chain,   \* chain[r]: of each chain of that await, its lease, the queries left of it, its failure
  pools,   \* pools[p]: the chains that hold a connection, and the queue of those that wait
  written, \* written[r]: it has changed the tables
  reply,   \* reply[r]: what it was answered
  cause    \* cause[r]: the await that ended it and what went wrong there

vars == <<kind, wrong, at, chain, pools, written, reply, cause>>

Init ==
  /\ kind = [r \in Request |-> ""]
  /\ wrong = [r \in Request |-> ""]
  /\ at = [r \in Request |-> 0]
  /\ chain = [r \in Request |-> <<>>]
  /\ pools = [p \in Pool |-> [busy |-> {}, queue |-> <<>>]]
  /\ written = [r \in Request |-> FALSE]
  /\ reply = [r \in Request |-> NoReply]
  /\ cause = [r \in Request |-> <<0, "">>]

-----------------------------------------------------------------------------
(* The pools of mysql2: a queue without a bound and without a timeout.     *)

(* Chain x asks pool p for a connection. *)
Acquired(ps, p, x) ==
  IF p \notin Pool THEN ps
  ELSE IF Cardinality(ps[p].busy) < Limit
       THEN [ps EXCEPT ![p].busy = @ \cup {x}]
       ELSE [ps EXCEPT ![p].queue = Append(@, x)]

(* Mutation: a connection that is given back is not handed on. *)
Released_Unnoticed(ps, p, x) ==
  IF p \notin Pool THEN ps ELSE [ps EXCEPT ![p].busy = @ \ {x}]

(* It gives the connection back, and the first in the queue gets it. *)
Released(ps, p, x) ==
  IF p \notin Pool THEN ps
  ELSE [ps EXCEPT ![p] =
         [busy  |-> (@.busy \ {x}) \cup (IF @.queue = <<>> THEN {} ELSE {Head(@.queue)}),
          queue |-> IF @.queue = <<>> THEN <<>> ELSE Tail(@.queue)]]

(* The chains of an await that begin with a lease of p, and the place that *)
(* each of them has among them.                                            *)
Asking(await, p) == {c \in DOMAIN await.chains : await.chains[c][1].pool = p}
Place(c, asking) == Cardinality({d \in asking : d <= c})

(* The chains of an await are started in their order, without an await in  *)
(* between: the first of them get what is free, the others wait.           *)
Started(ps, r, await) == [p \in Pool |->
  LET asking == Asking(await, p)
      free == Limit - Cardinality(ps[p].busy)
      waiting == {c \in asking : Place(c, asking) > free}
  IN [busy  |-> ps[p].busy \cup {<<r, c>> : c \in asking \ waiting},
      queue |-> ps[p].queue \o
        [i \in 1..Cardinality(waiting) |-> <<r, CHOOSE c \in asking : Place(c, asking) = free + i>>]]]

-----------------------------------------------------------------------------
(* The handlers.                                                           *)

(* r is answered at await i. *)
Answer(r, answer, i, why) ==
  /\ reply' = [reply EXCEPT ![r] = answer]
  /\ cause' = [cause EXCEPT ![r] = <<i, why>>]
  /\ at' = [at EXCEPT ![r] = 0]
  /\ chain' = [chain EXCEPT ![r] = <<>>]

(* What the client did wrong stops it before the first query of await i.   *)
(* The file and the body are looked at between the guard and the handler.  *)
Stops(k, w, i) ==
  \/ w = "header" /\ Service[k][i].guards
  \/ w \in {"file", "body"} /\ i = (IF Admin(k) THEN 2 ELSE 1)
  \/ w = "input" /\ Service[k][i].checks

(* A chain at its first lease, and one that ended. *)
Begun(leases) == [lease |-> 1, left |-> leases[1].queries, failure |-> ""]
Ended(failure) == [lease |-> 0, left |-> 0, failure |-> failure]

(* r goes on with await i, with the pools in state ps, or is answered.     *)
GoOn(r, k, w, i, ps) ==
  IF i > Len(Service[k])
  THEN Answer(r, Success(k), i, "") /\ pools' = ps
  ELSE IF Stops(k, w, i)
  THEN Answer(r, ErrorReply(k, i, w, FALSE), i, w) /\ pools' = ps
  ELSE LET chains == Service[k][i].chains IN
       /\ at' = [at EXCEPT ![r] = i]
       /\ chain' = [chain EXCEPT ![r] = [c \in DOMAIN chains |-> Begun(chains[c])]]
       /\ pools' = Started(ps, r, Service[k][i])
       /\ UNCHANGED <<reply, cause>>

(* A request arrives once. *)
Arrive(r) ==
  /\ kind[r] = ""
  /\ \E k \in Kind, w \in {"", "header", "key", "file", "body", "input"} :
       /\ w \in {"header", "key"} => Admin(k)
       /\ w = "file" => HasFile(k)
       /\ w = "body" => HasBody(k)
       /\ w = "input" => HasInput(k)
       /\ kind' = [kind EXCEPT ![r] = k]
       /\ wrong' = [wrong EXCEPT ![r] = w]
       /\ GoOn(r, k, w, 1, pools)
       /\ UNCHANGED written

Suspended(r) == Service[kind[r]][at[r]]
Lease(r, c) == Suspended(r).chains[c][chain[r][c].lease]

(* Chain c of r has its connection and sends a query. *)
Sends(r, c) ==
  /\ at[r] # 0
  /\ chain[r][c].lease # 0
  /\ Lease(r, c).pool \in Pool => <<r, c>> \in pools[Lease(r, c).pool].busy

LastQuery(r, c) == chain[r][c].left = 1
LastLease(r, c) == chain[r][c].lease = Len(Suspended(r).chains[c])

(* A query of a database transaction, with more to come. *)
NextQuery(r, c) ==
  /\ Sends(r, c) /\ ~LastQuery(r, c)
  /\ chain' = [chain EXCEPT ![r][c].left = @ - 1]
  /\ UNCHANGED <<kind, wrong, at, pools, written, reply, cause>>

NextLease(r, c) ==
  /\ Sends(r, c) /\ LastQuery(r, c) /\ ~LastLease(r, c)
  /\ LET next == Suspended(r).chains[c][chain[r][c].lease + 1] IN
       /\ chain' = [chain EXCEPT ![r][c].lease = @ + 1, ![r][c].left = next.queries]
       /\ pools' = Acquired(Released(pools, Lease(r, c).pool, <<r, c>>), next.pool, <<r, c>>)
  /\ UNCHANGED <<kind, wrong, at, written, reply, cause>>

(* The first chain that failed, in their order, decides what is thrown. *)
GoOnOrThrow(r, chains, failed, ps) ==
  IF failed = {} THEN GoOn(r, kind[r], wrong[r], at[r] + 1, ps)
  ELSE LET why == chains[Min(failed)].failure IN
       /\ Answer(r, ErrorReply(kind[r], at[r], why, Len(chains) > 1), at[r], why)
       /\ pools' = ps

(* Mutation: the queries of a transaction are not rolled back. *)
AwaitEnds_NoRollback(r, chains, ps) ==
  LET failed == {c \in DOMAIN chains : chains[c].failure # ""} IN
  /\ written' = [written EXCEPT ![r] = @ \/ Suspended(r).writes]
  /\ GoOnOrThrow(r, chains, failed, ps)

(* All chains of the await are settled.                                    *)
AwaitEnds(r, chains, ps) ==
  LET failed == {c \in DOMAIN chains : chains[c].failure # ""} IN
  /\ written' = [written EXCEPT ![r] = @ \/ (Suspended(r).writes /\ failed = {})]
  /\ GoOnOrThrow(r, chains, failed, ps)

(* Mutation: Promise.all, which does not wait for the others. *)
Settled_FailFast(chains) ==
  (\E c \in DOMAIN chains : chains[c].failure # "") \/ (\A c \in DOMAIN chains : chains[c].lease = 0)

(* Promise.allSettled; of a single chain, its own end. *)
Settled(chains) == \A c \in DOMAIN chains : chains[c].lease = 0

(* Chain c of r ends. *)
ChainEnds(r, c, failure) ==
  LET chains == [chain[r] EXCEPT ![c] = Ended(failure)]
      ps == Released(pools, Lease(r, c).pool, <<r, c>>)
  IN
  /\ UNCHANGED <<kind, wrong>>
  /\ IF Settled(chains) THEN AwaitEnds(r, chains, ps)
     ELSE /\ chain' = [chain EXCEPT ![r] = chains]
          /\ pools' = ps
          /\ UNCHANGED <<at, written, reply, cause>>

(* Its last query is answered.  The guard compares the key as well.        *)
Succeed(r, c) ==
  /\ Sends(r, c) /\ LastQuery(r, c) /\ LastLease(r, c)
  /\ ChainEnds(r, c, IF Suspended(r).guards /\ wrong[r] = "key" THEN "key" ELSE "")

(* A query finds nothing where a row is needed. *)
FindNone(r, c) ==
  /\ Sends(r, c) /\ Lease(r, c).none # ""
  /\ ChainEnds(r, c, Lease(r, c).none)

(* A query or a call fails; a transaction rolls back. *)
Fail(r, c) ==
  /\ Sends(r, c) /\ ~UploadErrorIsMissed(kind[r], Lease(r, c))
  /\ ChainEnds(r, c, "database")

Progress(r) ==
  \E c \in DOMAIN chain[r] :
    NextQuery(r, c) \/ NextLease(r, c) \/ Succeed(r, c) \/ FindNone(r, c) \/ Fail(r, c)

Next == \E r \in Request : Arrive(r) \/ Progress(r)

Spec == Init /\ [][Next]_vars

(* r waits for the upload or the treasury.  A call has no connection.      *)
Calling(r) == at[r] # 0 /\ \E c \in DOMAIN chain[r] : chain[r][c].lease # 0 /\ Lease(r, c) = Call

(* Every query is answered or fails at last.  A call need not be: the HTTP *)
(* client of the treasury has no timeout.                                  *)
FairSpec == Spec /\ \A r \in Request : WF_vars(~Calling(r) /\ Progress(r))

-----------------------------------------------------------------------------
(* Properties.                                                             *)

(* A request that is answered neither holds a connection nor waits for     *)
(* one, though one of its parallel queries failed early; and whoever waits *)
(* is a chain of a request that is suspended on it.                        *)
AnsweredHoldsNothing ==
  \A p \in Pool : \A x \in pools[p].busy \cup Range(pools[p].queue) :
    /\ at[x[1]] # 0
    /\ chain[x[1]][x[2]].lease # 0
    /\ Lease(x[1], x[2]).pool = p

(* An error leaves the tables as they were, unless the read-back after the *)
(* write failed: createTokenExtraDetails and updateNodeExtraDetails answer *)
(* what they have carried out with an error.                               *)
ErrorMeansUnwritten ==
  \A r \in Request : written[r] =>
    \/ at[r] # 0
    \/ reply[r].http = "201"
    \/ cause[r][1] = 3 /\ cause[r][2] \in {"input", "unknown", "database"}

ClientsFault == {"header", "key", "file", "body", "input", "unknown", "absent"}

(* A client is blamed with a 4xx exactly for its own faults, except: a     *)
(* guard that cannot read the table refuses with 403, and a 500 is the     *)
(* answer to an unknown address, transaction or currency of a listing or   *)
(* an icon, to a missing file, and to any fault with a token's symbol or   *)
(* the file of a node's icon.  The reply names the fault, but for the      *)
(* missing file.  The message is lost only for the queries that run side   *)
(* by side.                                                                *)
BlameIsTold ==
  \A r \in Request : LET why == cause[r][2] IN why # "" =>
    /\ reply[r].http # "500" => why \in ClientsFault \/ (why = "database" /\ reply[r].http = "403")
    /\ why \in ClientsFault /\ reply[r].http = "500" =>
         \/ kind[r] = "tokenInfoBySymbol"
         \/ why \in {"file", "absent"}
         \/ kind[r] = "nodeIcon" /\ why = "input" /\ reply[r].status = "400"
    /\ why \in ClientsFault /\ reply[r].message = "generic" => why = "file"
    /\ reply[r].message = "" => Len(Service[kind[r]][cause[r][1]].chains) > 1

(* However few connections there are, no query waits in a queue for ever:  *)
(* every request is answered in the end, or else waits for nothing but a   *)
(* call, and however many calls hang, the other requests are answered.     *)
EveryRequestIsAnswered == \A r \in Request : at[r] # 0 ~> at[r] = 0 \/ Calling(r)

=============================================================================
