# Verification of coti-explorer-api

TLA+ specifications of the two services of this repository, the TLC configurations that
check them, and TLAPS proofs about each of them. Paths below are relative to the root of
the repository.

* `apps/explorer-api` answers REST requests from two MySQL databases and keeps the
  socket.io rooms its clients join.
* `apps/live-app` follows the binlog of `db_app`, runs the periodic tasks, and sends
  messages to the rooms.
* `libs/shared` holds the entities, queries and DTOs of both.

`db_app` (transactions, balances, currencies) is written by an indexer outside this
repository; the default database (nodes, tokens, confirmation times, treasury totals)
is written by the two services.

## Inventory

| Component | State | Operations | Interacts with | What is hard |
|---|---|---|---|---|
| Live feed: `mysql-live.service.ts` | the promise of `init()`, `firstRunMap`, the selects' results, running `eventHandler`s | `init`, two `update` listeners, `eventHandler` with about a dozen awaits | the indexer through the binlog and queries; rooms through `AppGateway` | handlers interleave at every await; a failing query loses a batch; restarts swallow a first result; an error after `ready` is not noticed |
| Node registry: `node.service.ts` of both services | tables `nodes`, `node_hashes` | `updateNodeExtraDetails` (a transaction), `updateNodesData` (a task) | two processes on the same rows; the node manager over HTTP | find-then-insert without unique indexes; the task saves entities it loaded several HTTP calls ago |
| Tasks: `task.service.ts`, `cache.service.ts` | the loops; tables `confirmation_times`, `treasury_totals` | `runEveryXSeconds`, three update functions | HTTP, the database, rooms; `eventHandler` sends to one of the rooms too | wall clock against timers; failures; crash between save and message; requests without timeout |
| Rooms: `app.gateway.ts` of both services | who is in which room | `subscribe`, `unsubscribe`, connect, disconnect, `sendMessageToRoom` | Redis adapter | messages under way while sockets join and leave; four kinds of names share the rooms |
| Token details: `token.service.ts` | table `tokens`, the icons' bucket | `createTokenExtraDetails`, `uploadIcon`, `getTokenInfo` | `db_app`, S3 | find-then-write without a transaction; a read-back in separate queries |
| Listings: `transaction.service.ts` | none of its own | four paged listings | the indexer inserts meanwhile | offsets that move; ties in the order; a limit on joined rows |
| Targets and DTOs: `mysql-live.service.ts`, `libs/shared` | the entities of a batch | which addresses and currencies a transaction concerns; the supplies; the DTO constructors | run inside `eventHandler` | constructors that delete the fields the targets are taken from, and that read service data a LEFT JOIN may not have found |
| Requests: the services of `explorer-api`, `auth.service.ts`, `db.init.ts`, `explorer-error.ts`, `http-exception.filter.ts` | two pools of ten connections and their queues; what each request waits for | nineteen kinds of requests: the guard, the queries in turn or side by side, the reply | every query of every request shares the pools | a request that needs several connections, or fails with some still in use; what of an error reaches the client, and whether it is blamed for it |
| Search, wallets, statistics | none | reads | the pools | part of the requests |

What makes each component correct:

* **Live feed** - what a handler sends is not older than the change that called it; a
  batch is sent whole or not at all, unless a token generation stops it; rooms end up with
  the committed state unless the change is known to be lost or overtaken; every batch
  ends.
* **Registry** - one active hash per node after an activation; duplicates only from a
  race; the task undoes a binding only when it worked with entities that were stale.
* **Tasks** - rooms never show what is not stored; a room lags behind its table only after
  a crash or an old read; loops are spaced and survive failures.
* **Rooms** - a socket gets what it follows and nothing else.
* **Token details** - an answer shows what the request wrote; duplicates only from a race.
* **Targets and DTOs** - a transaction is told to every room it concerns and to no other;
  a batch is not told in part, and where it is, it is known why.
* **Requests** - every request is answered and then holds nothing; an error says that
  nothing was written; clients are blamed for their own faults only.
* **Listings** - a client that reads page after page misses nothing it could have seen.

`PROJECT.json` lists the hazards behind these with the line where each one bites.

## Modules

| Module | Models | TLC | Proofs |
|---|---|---|---|
| `Notifier` | what senders promise to the rooms of versioned things: the abstract specification of `LiveFeed` and `Tasks` | through the two | `Tasks_proofs` |
| `LiveFeed` | the connection, the selects and `eventHandler` | `MCLiveFeed`, `LiveFeed_batch.cfg`, `LiveFeed_overlap.cfg`, `LiveFeed_live.cfg` | `LiveFeed_proofs` |
| `Messages` | one `eventHandler` from the entities on: targets, supplies, DTOs, the loop that sends | `MCMessages`, `Messages.cfg` | `Messages_proofs` |
| `NodeRegistry` | the admin request and the monitoring task on their tables | `MCNodeRegistry`, `NodeRegistry.cfg`, `NodeRegistry_comment.cfg` | `NodeRegistry_proofs` |
| `Tasks` | the loops and the functions of `CacheService` | `MCTasks`, `Tasks.cfg` | `Tasks_proofs` |
| `Rooms` | `AppGateway` and the delivery of messages | `MCRooms`, `Rooms.cfg` | `Rooms_proofs` |
| `TokenDetails` | `createTokenExtraDetails` and `uploadIcon` | `MCTokenDetails`, `TokenDetails_details.cfg`, `TokenDetails_icon.cfg` | `TokenDetails_proofs` |
| `Requests` | the requests as sequences of awaits over two pools, and their replies | `MCRequests`, `Requests.cfg` | `Requests_proofs` |
| `Paging` | the four listings | `MCPaging`, `Paging.cfg` | `Paging_proofs` |

The modules cut the system where its parts share little. `LiveFeed` and `Tasks` send to
the rooms, `Rooms` delivers. `LiveFeed` has the interleavings of handlers and takes the
addresses of a transaction as a constant; `Messages` has one handler and derives them.
`NodeRegistry`, `TokenDetails` and `Paging` have what requests do to the tables, or see
of them; `Requests` has what all of them wait for and how they end.

History variables (marked as such in each module) record what happened and are never
read by a guard. Operators named `X_...` with the comment "Mutation" are variants of
`X` with a plausible mistake; each property is known to fail under one of them, so none
of them holds by the shape of the model alone.

### Notifier

What a client of a room may rely on, without a word about queries. Rows are written
(`Write`); a sender learns that some rooms have changed (`Begin`) and owes each of them a
version at least as new; it ends (`Tell`) and tells all of them, each in a version committed by
then, or some of them, or none (a sender that fails); `DropAll` is the end of the process.
`LiveFeed` and `Tasks` implement it: a handler owes the rooms of its transactions
(`Wanted`) from its diff on, pays all of them in `Publish`, some in `StopPublishing`, none
in `Fail` and `Restart`; a task owes the room of its row from the save on,
and `eventHandler`, which sends the last confirmation time too, from its query on.

### LiveFeed

A row is known by its version: 0 before it exists, then one more per update by the indexer
(`WriteRow`). `seen` is what the select's last result held; an `update` event
(`FirstDiff`, `Notice`) carries the rows whose version differs, so several updates within
`minInterval` are one change. `FirstDiff` only sets `firstRunMap`. `Notice` starts a
handler; since the emitter does not wait for the listener's promise, several handlers run
at once. `step[h]` is the await at which handler `h` is suspended, and each query that
settles is one action (`ReadWallets` ... `ReadTotalTokens`). Four lookups in a row whose
replies no property tells apart are one step. `SendConfirmation` and `SendNewTokens` send
before a later await may fail; everything from the supply messages to the end runs without
an await and is one action: `Publish`, or `StopPublishing` where `new TransactionDto`
throws in the middle of the loop, which it can at a token generation only (why, is in
`Messages`): what comes before it in the batch has been told, and neither it nor the rest
ever is. `Fail` stands for the rejection of any query that leads to the `catch`, and for a
TypeError in the statements between two queries; the two queries whose errors are only
logged have `Skip...` steps instead. With an empty table of confirmation times
`ReadConfirmation` cannot happen, and `Fail` is the only way on.

`shown` is the last message of each room. History variables: `base` (the first result),
`since` (the database when a handler's diff was computed), `missed` (rows whose last
change was swallowed or lost with its batch), `overlapped` (rows that two running
handlers held).

Left out: circulating supplies and per-currency counts, which follow the same pattern as
balances; the ten-minute window of the select, whose rows leave the result without being
`added`; message layout.

### Messages

One run of `eventHandler`. An entity holds its base transactions, each of a kind, with an
address, a currency and the service data that the query joined, if any. `Bases` and the
operators after it are the functions of `transaction.entity.ts` and of the service that
derive addresses and currencies; they throw for a minting without service data.
`SendTransaction` is one turn of the loop: the targets of the transaction, then the DTO,
whose constructor deletes the lists from the entity, then the messages. `ReadSupplies`,
`ReadCurrencies` and `ReadBalances` are the queries before it that use the targets of all
transactions; the queries that do not are in `LiveFeed`. The service data of a generation
has two `Parts`, each with a LEFT JOIN of its own, and the DTO needs both. `SymbolThrows`
looks at the originator data alone, of confirmed generations only, and of several base
transactions of a transaction at one: whatever else is missing is met in the loop for the
first time, and this is where a batch can stop halfway (`StopsOnlyAtGeneration`).
`LiveFeed` takes from here that it is at a generation.

### Requests

A service is a sequence of awaits, an await a set of chains side by side, a chain a
sequence of leases of a connection; each operator from `Guard` to `TokenIcon` translates
one service to this form. `AwaitEnds` and `Settled` are `allSettled`: an await ends when
all of its chains have, and the first that failed decides. `Acquired` and `Released` are
the pool of mysql2 (external): a queue without a bound and without a timeout, and a
connection that is given back goes to the first in the queue. `Calling` is a request that
waits for S3 or the treasury, with no connection and perhaps for ever. `Thrown`, `Rethrown`,
`ExplorerError` and `Caught` are the way of an error from where it is thrown, through the
service's catch, the constructor of `ExplorerError` and the filter, to the reply. What a
client may do wrong is one of `header`, `key`, `file` (an upload without one, of which
`FileExtender` reads), `body` (validation) and `input` (what the service itself checks).
What it names may be `unknown`, or `absent` where the service makes no difference to a
query that fails, as with the address of a listing; a row it did not name may be
`missing`; a query may fail. What queries ask for is left out, and a query that fails is
taken to have changed nothing.

### NodeRegistry

The request is two steps and an answer: `Begin` reads hash and name from the snapshot of
the transaction, one of `CommitNewHash`, `CommitKnownHash`, `TypeErrorOnNewNode` and
`RollBack` ends it. Writes of a transaction become visible together. What
`save(nodeHashFound)` writes follows TypeORM: it compares the entity with the row as the
transaction sees it and writes the columns that differ. The task loads all nodes with
their hashes (`Load`), fetches (`Fetch`), sends each node's data (`UpdateNode`), and
saves (`Save`); `Reconciled` is TypeORM's treatment of the loaded one-to-many relation,
and external. Data of a node is represented by the number of the pass that fetched it.

### Tasks

A value is the number of the change of its source. `Tick` is the passing of time, which
continuations do not take; `elapsed` is what `moment.now()` differences show and
`SetClock` changes it, `timer` counts down regardless. `Hang` is an HTTP request that is
never answered. `ReadRow`/`SendRow` are the steps of `eventHandler` that touch the same
room. `updateNodesData`, which sends before it saves, is in `NodeRegistry`.

### Rooms

A payload names one thing per kind and sets flags. `due` of a message is the set of
sockets that followed its room when it was sent and have not stopped since; `Deliver`
emits to whoever is in the room at that moment. `LoseLink` drops what is under way. A
name followed as two kinds is one room and is left with either kind: `shadowed` keeps
track of such subscriptions so that the properties say precisely what is lost by it.
Nothing is ever sent to the room `nodeUpdates`: the task sends to the room of the node's
hash. One instance of explorer-api is modelled; instances share nothing.

### TokenDetails

`Find`, then `Update` or `Insert`, then `FindCurrency` and `AnswerInfo`, each a query of
its own. `Update` writes every row of the hash. `known` are the currencies with originator
data, which is all that `uploadIcon` joins (`CheckIcon`); `generated` are those with their
transaction too, which `getTokenInfo` needs (`FindCurrency`). `UploadFails` answers with
the address of the icon, as the code does.

### Paging

A client turns to one listing with a limit (`Open`) and asks for its pages in order.
`Slices` is the external `ORDER BY attachmentTime DESC LIMIT ... OFFSET ...`: rows with
equal times come in any order, a different one each time. `Pages` is what TypeORM makes of
the limit: the DTOs of the listings of an address, a node and a currency allow 0
(`@Min(0)`, transaction.dto.ts:92, 109, 126), of which TypeORM makes no `LIMIT`, so that
the page is the whole listing. The listings by ids read the ids first (`ReadIds`) and
the transactions in a second query (`ReadTransactions`); the listing of a node is one
query whose limit counts joined rows (`ReadJoined`).

## Runs

| Run | Bounds | Shows |
|---|---|---|
| `live_batch` | 2 transactions (a token generation and a ZeroSpend), 2 addresses, 2 handlers, 1 version per row, 1 restart | `TypeOK`, `SentIsNotOlderThanDiff`, `WalletCountConverges`, `ZeroSpendIsSilent`, `HalfSentOnlyByGeneration` |
| `live_overlap` | 2 transactions with 2 versions, 2 handlers, 1 restart | `FirstResultIsSwallowed`, `RoomsConverge`, `TotalCountsNewTokens`, `GoesBackOnlyAfterOverlap`, `ImplementsNotifier` |
| `live_progress` | 1 token generation with 3 versions, 2 handlers, 1 restart, fairness | `NothingHangs`, `ChangesAreSent` |
| `messages` | batches of up to 2 transactions, 2 addresses, 2 currencies, transfers, mintings with and without service data, generations with all, one or none of its parts | `ConcernedRoomsAreTold`, `StopsOnlyAtGeneration`, `SuppliesOfConfirmedMintings` |
| `registry` | 2 requests, 1 pass of the task, 2 of these three at once; 2 hashes, 2 names, 2 rows of each table | `TypeOK`, `DuplicatesOnlyByRace`, `StoredWasSent`, `ActivationIsExclusive`, `ActiveNeverComesBack`, `TaskRebindsOnlyStale` |
| `registry_comment` | 1 request | `UnknownNameIsCreated` is violated (finding) |
| `tasks` | one task that saves, one over HTTP, a second sender, 1 restart, 1 setting of the clock, fairness | `TypeOK`, `ApiIsNotBehindRoom`, `RoomShowsLastRow`, `CallsAreSpaced`, `LoopsGoOn`, `ImplementsNotifier` |
| `rooms` | 2 sockets, 1 name, 2 kinds, 2 flags, 2 messages | `NothingMissed`, `NothingUnwanted` |
| `paging` | 5 transactions, 2 of them tied and one of these ZeroSpend, limits 0 and 3 | `TypeOK`, `NothingSkipped`, `ShortPageIsLast`, `CutOnlyAtTheEdges`, `RepeatsOnlyAfterInsert` |
| `token_details` | 2 concurrent requests, 2 currencies, 3 rows | `DuplicatesOnlyByRace`, `AnswerShowsRequest` |
| `token_icon` | 1 request | `IconUrlMeansStored` is violated (finding) |
| `requests` | 2 requests of all 19 kinds, every fault of the client, pools of 1 connection, fairness | `AnsweredHoldsNothing`, `ErrorMeansUnwritten`, `BlameIsTold`, `EveryRequestIsAnswered` |

Why the bounds are enough to be of use. Two handlers, requests or sockets are the fewest
that interleave, and the properties of the code that relate actors relate two of them.
A row needs two versions for a reader to be older than a writer; where a run has one
version per row to afford more rows (`live_batch`), `LiveFeed_proofs` covers the same
properties for every bound. In `registry` `MaxActors` lets two of three actors run at
once, so that every pair of a request and another request or the pass of the task
interleaves, and what three would do, or longer tables, is covered by
`NodeRegistry_proofs`. A pool of one connection is where a request that held one while it
waited for another would stop, and where two chains of one request queue for each other;
a request arrives once, since nothing but the pools connects it with another. Two
transactions in a batch are the fewest of which one is told and the other is not; that is
what `messages` has. In `live_batch`, where one of the two is ZeroSpend, a half-sent batch
is one whose new tokens and total were sent and its transaction was not; `live_overlap` has
half-sent batches of two, and `OnlyGenerationsHalve` covers any. Five
transactions and pages of three give a second page and a page with a middle; limit 0 is
the case apart. Runs with
`CHECK_DEADLOCK FALSE` do stop: their writers, messages, requests and restarts are
bounded. `Tasks` has no such end, and deadlock is checked there.

Symmetry is used over handlers, requests, hashes, names, sockets and kinds, only in runs
without liveness.

Where nothing is wrong with the code the properties still tell what a reader of it
should know. `RoomsConverge` and `GoesBackOnlyAfterOverlap` say that a room is left
behind only by a lost batch, a swallowed first result, or two handlers with the same
transaction, and all three do happen. `ActiveNeverComesBack` says that a hash that was
deactivated stays so, also when a request asks for the opposite. `TaskRebindsOnlyStale`
says when the task undoes what an admin did. `ErrorMeansUnwritten` and `BlameIsTold` list
the exceptions: a token or a node may have been written although the request is answered
with an error, because the read-back failed; a failed query of the guard is a 403; an
icon of a node with a wrong file, an upload without a file, an unknown symbol, and an
unknown address, transaction or currency of a listing or an icon are a 500; queries side
by side lose the message of their error. `NothingSkipped` leaves out rows with equal
times, which may indeed be skipped. `TypeOK` of `Paging` says that no page is longer than
its limit, but for limit 0. `HalfSentOnlyByGeneration` and `StopsOnlyAtGeneration` say that
a batch can be told in part, and what it takes: a generation without its originator data
that line 224 of mysql-live.service.ts did not look at, or without its type data, which
nothing looks at before the loop.

### Fairness

`LiveFeed`: the ten-second timer fires; the library delivers while it is linked; a query
settles, one way or the other, and its continuation runs. Nothing makes the indexer, the
errors or a restart happen. `Tasks`: time passes, and a loop that may take a step does; a
request over HTTP may settle or hang, since it has no timeout. `Requests`: each request
that can go on and waits for queries does (`Progress`), since every query is answered or
fails at last, and a continuation is run by the event loop; that a connection is free is
not assumed, and a query that waits in the queue of a pool is not enabled. Nothing is
assumed of a request that waits for the treasury or S3 (`Calling`): the HTTP client has no
timeout (transaction.service.ts:301). Such a call may never end, in `Requests` as in
`Tasks`, and `EveryRequestIsAnswered` says that it keeps no other request from its answer.
The other modules state no liveness.

### Findings

* `registry_comment`: node.service.ts:86 of explorer-api says "if we didn't have node
  data with this name create it"; with a hash that has a row, line 117 reads `id` of
  `undefined` and the transaction, new node included, is rolled back.
* `token_icon`: after a failed upload token.service.ts:245 tests the error of an earlier
  query, so the request is answered with the address of an icon that is not stored,
  although `uploadFile` throws "file upload failed" (file-upload.service.ts:14).

## Proofs

Each theorem holds for every value of the constants that satisfies the module's one named
assumption (`LiveFeedAssumption`, `TasksAssumption`, ...), which TLC evaluates in each run
of the module.

| Module | Theorem | Statement |
|---|---|---|
| `LiveFeed_proofs` | `TypeCorrect` | `Spec => []TypeOK` |
| | `SentIsFresh` | `Spec => []SentIsNotOlderThanDiff` |
| | `FirstResultNeverAnnounced` | `Spec => []FirstResultIsSwallowed` |
| | `Convergence` | `Spec => []RoomsConverge` |
| | `NoRegressWithoutOverlap` | `Spec => GoesBackOnlyAfterOverlap` |
| | `OnlyGenerationsHalve` | `Spec => HalfSentOnlyByGeneration` |
| | `ZeroSpendNeverSent` | `Spec => []ZeroSpendIsSilent` |
| | `TotalsCountTheNew` | `Spec => []TotalCountsNewTokens` |
| | `WalletCountHeals` | `Spec => []WalletCountConverges` |
| | `LiveFeedImplementsNotifier` | `Spec => ImplementsNotifier` |
| `Tasks_proofs` | `TypeCorrect` | `Spec => []TypeOK` |
| | `RoomNeverAhead` | `Spec => []ApiIsNotBehindRoom` |
| | `RoomCurrent` | `Spec => []RoomShowsLastRow` |
| | `Spaced` | `Spec => CallsAreSpaced` |
| | `TasksImplementNotifier` | `Spec => ImplementsNotifier` |
| | `RoomsShowCommitted` | `Any!Spec => []Any!ShownIsCommitted`, where `Any` is `Notifier` |
| `NodeRegistry_proofs` | `TypeCorrect` | `Spec => []TypeOK` |
| | `OnlyARaceDuplicates` | `Spec => []DuplicatesOnlyByRace` |
| | `StoredIsSent` | `Spec => []StoredWasSent` |
| | `InactiveForEver` | `Spec => ActiveNeverComesBack` |
| | `OneActiveHash` | `Spec => ActivationIsExclusive` |
| | `OnlyStaleRowsRebound` | `Spec => TaskRebindsOnlyStale` |
| `Rooms_proofs` | `TypeCorrect` | `Spec => []TypeOK` |
| | `RoomsAreFollowed` | `Spec => []JoinedIsFollowed` |
| | `DueAreReached` | `Spec => NothingMissed` |
| | `OnlyFollowedIsSent` | `Spec => NothingUnwanted` |
| `TokenDetails_proofs` | `OnlyARaceDuplicates` | `Spec => []DuplicatesOnlyByRace` |
| | `AnswersAreCurrent` | `Spec => []AnswerShowsRequest` |
| `Messages_proofs` | `AllConcernedAreTold` | `Spec => []ConcernedRoomsAreTold` |
| | `OnlyGenerationsStop` | `Spec => []StopsOnlyAtGeneration` |
| | `OnlyMintedSupplies` | `Spec => []SuppliesOfConfirmedMintings` |
| `Requests_proofs` | `NothingLeftBehind` | `Spec => []AnsweredHoldsNothing` |
| | `NobodyForgotten` | `Spec => []PoolsOK` |
| | `ErrorsChangeNothing` | `Spec => []ErrorMeansUnwritten` |
| | `BlameTold` | `Spec => []BlameIsTold` |
| `Paging_proofs` | `TypeCorrect` | `Spec => []TypeOK` |
| | `NobodySkipped` | `Spec => []NothingSkipped` |
| | `ShortIsLast` | `Spec => []ShortPageIsLast` |
| | `CutAtTheEdges` | `Spec => []CutOnlyAtTheEdges` |
| | `RepeatsNeedAnInsert` | `Spec => RepeatsOnlyAfterInsert` |

### LiveFeed

`LiveFeedAssumption` says that transactions and addresses are finite and disjoint, that
`ZeroSpend` and `TokenTx` are transactions, that `Touches` gives each transaction a set
of addresses, and that the bounds are numbers.

None of the invariants is inductive. `IndInv` adds what makes them so: versions only
grow (`Ordered`); what a handler can hold at each await (`Shape`); and, for the
transactions that are not in `overlapped`, that there is one holder at most
(`OneHolder`), that its diff is not older than what the room shows (`HolderIsNewest`)
and is the last the select noticed (`HolderIsLast`), and that without a holder the room
shows what the select noticed (`ShowsSeen`). The last two do without the transactions in
`missed`. A step of a handler falls into one of a few kinds - a query that returns
(`ReadInv`), a message between two awaits (`SendInv`), an end (`FinishInv`, used by
`SendWalletsInv`, `FailInv`, `PublishInv`) - and `NextInv` puts them together. The two
action properties follow from `IndInv` in the state before the step. `NeverShownStep`
needs only that a handler has read nothing it did not want.

Two properties count. That a total counts the new tokens (`TokensCounted`) holds because
the new tokens and the total are two queries, the total the later one, and transactions
are never deleted, so that what was read is a part of what is counted later. That the
number of active addresses heals (`WalletsCounted`) holds because every address that is
active in the select's last result is counted by whoever counts next, unless two handlers
count at once; that such a handler holds an address, or that an address is among
`missed` or `overlapped`, is what is left when it does not.

The last part maps each action to one of `Notifier` or to a stutter: `Notice` to
`Begin`, `Publish`, `StopPublishing` and `Fail` to `Tell` of all, some and none of the
rooms, `Restart` to `DropAll`, `WriteRow` to `Write`, and the queries, which change
nothing that is owed (`SameOwed`), to nothing. That
what is published is not older than what is owed is `SentIsNotOlderThanDiff`, from
`IndInv`. What the refinement is worth to a client is `RoomsShowCommitted`
(`Tasks_proofs`): whoever implements `Notifier` shows only what has been committed.

### Tasks

`Clocks` relates what the loop measures to the ticks that passed (off by one per setting
of the clock at most), `Rows` what each sender holds to the last row saved. With
`TypeOK` and `RoomShowsLastRow` they are inductive.

### NodeRegistry

`Snapshots` says what a request may rely on between its reads and its writes: rows it
found keep the hash or the name they were found by, and where it found nothing there
still is nothing, or the hash is `raced`. `Entities` says that a row whose nodeId differs
from what the task loaded is `dirty`, and that what the task is about to store was sent.
The three action properties follow from these in the state before the step.

### Rooms

`JoinedIsFollowed`: the rooms of a socket are those of what it follows. `subscribe` and
`unsubscribe` keep it because a payload joins, and leaves, the rooms of exactly what it
names (`AskedRooms`). With it, `DueAreJoined` says that whoever a message is due to is in
its room.

### TokenDetails

`Knows` says, for each step of a request that is not in `others`, what the rows of its
hash hold: none before its insert, its own values in all of them after its write.

### Messages

`Kept` says which entities still have their lists, `Looked` what each earlier statement
has made sure of (in the loop, a minting has its service data, and one generation of each
confirmed transaction its originator data), `Told` which rooms have
been told of which transaction, `Supplies` where a supply comes from. The statements
before the loop change nothing that was told (`OnlyReads`).

### Requests

`RequestsAssumption` says that a pool has at least one connection and that requests are
of the kinds that the controllers route; the number of requests and of connections is
any.

`PoolsOK` says that the chains which hold or await a connection of a pool are exactly the
unfinished chains of suspended requests whose current lease is of that pool (`Users`),
that each of them holds one or stands in the queue once, and that the queue is empty
while a connection is free (`Serves`). A query that returns, fails or goes on to its next
lease takes one chain out and may put one in (`Acquires` and the lemmas after it); an
await that begins puts all its chains in, in the order of their indices. That order is the
`Place` of a chain among those that ask for the pool, a cardinality instead of a fold over
the chains, which is what makes this step provable (`WaitInTurn`).

The other two properties need nothing of the pools. `Fits` states once what they use of
the nineteen services - where the guard is, which awaits check, write and read back, how a
result may be missing - and `ServiceFits` that each service has that shape. From it,
`CanFail` says what an await may fail with, `WrittenOK` that only the read-back comes
after a write, and `Told` how the reply is related to the failure, a case for each way
through `Thrown`, `Rethrown` and `ExplorerError`. Those three operators are IF-chains in
the order in which the code tests. They had been CASEs with overlapping guards, of which
TLC takes the first that is true but TLA+ does not say which: the attempt to prove
`BlameIsTold` showed it.

### Paging

`PagingAssumption` says that the transactions are finitely many, that each has a time and
at least one base transaction, and that limits are numbers, 0 among them or not.

A page is a difference of two sets that are the first rows in one of the orders by time,
and two pages may take different orders. The lemmas up to `InItsSlice` are about any rows
with times and a limit above 0: a row whose time no other has is in the page of `offset`
just if the number of newer rows, its place, is at least `offset` and less than `offset +
limit`. An insert can only raise a place (`Places`, `RowPlaces`). `PageOK` says, between
the two queries of a listing, that the ids are those of the page by the table as it was
then, and that whatever has a place below its end has been seen or is in it; `SeenOK` that
the client has asked for the place, at the start, of all it has seen. A row that came
twice without an insert would have one place in two pages, unless the limit cut its rows.
For a node the places are those of the joined rows (`NodePage`).

### Only model-checked

Liveness: `NothingHangs`, `ChangesAreSent`, `LoopsGoOn` and `EveryRequestIsAnswered`.
TLAPS as installed proves nothing under fairness and nothing about `ENABLED`. The
induction theorems of its library take an operator as a parameter and cannot be used;
where a proof needs a least number it takes it from the well-foundedness of their order
(`WFMin`), and cardinalities are compared by way of subsets and surjections.

## Plan

1. `LiveFeed`, the core; `NodeRegistry`, `Tasks`, `Rooms`, `TokenDetails`, `Messages`,
   `Requests`, `Paging`: modelled and checked; their safety and action properties proved.
2. `Notifier` and the two refinements: done.
3. Left: an abstract registry that `NodeRegistry` implements while no two requests share
   a hash or a name.

## Not modelled

Entry points, configuration and environment validation: they run once, before the first
request or diff. What requests return, beyond who is told what: rows, sorting and layout
of the replies, and the DTOs of the listings, in which values are converted one by one.
The Swagger decorators, the interceptor of responses, which passes them on, and
`uploadTest` (token.service.ts:256), which no controller calls. The figures of nodes,
among them the uptimes of 14 and 30 days that are taken from those of seven
(node.service.ts:78 of live-app): values of one expression, with nothing to interleave. In
`LiveFeed`, the ten-minute window of the select. In `Requests`, a query that fails after
it has changed the tables, and the process ending while requests run: nothing is kept of
them.
