---------------------------- MODULE TokenDetails ----------------------------
(***************************************************************************)
(* The details that an admin keeps of a token: the table tokens, and the   *)
(* requests of TokenService of explorer-api that write it                  *)
(* (createTokenExtraDetails) or need it (uploadIcon).                      *)
(*                                                                         *)
(* createTokenExtraDetails is no transaction: it looks the row up, then    *)
(* updates every row of the hash or inserts one, then reads the token back *)
(* with getTokenInfo, and each of these is a query of its own.  tokens has *)
(* no unique index.                                                        *)
(***************************************************************************)
EXTENDS Integers, FiniteSets

CONSTANTS
  Currency,  \* currency hashes
  Coti,      \* the hash of the native currency
  Field,     \* website, discord, ...
  Value,     \* what an admin may write into a field
  Null,      \* a field without a value, or one that the request leaves out
  Request,   \* requests that may run at the same time
  MaxRows    \* bound: rows of tokens

ASSUME TokenDetailsAssumption ==
  /\ Coti \in Currency
  /\ "none" \notin Currency  \* NoHash is no hash
  /\ Null \notin Value
  /\ MaxRows \in Nat

RowId == 1..MaxRows
Params == [Field -> Value \cup {Null}]
Empty == [f \in Field |-> Null]
NoHash == "none"

VARIABLES
  known,     \* the currencies that db_app has, with their originator's data
  generated, \* those of them whose transaction it has as well
  hashOf,    \* hashOf[i]: the currencyHash of row i of tokens, NoHash without a row
  details,   \* details[i]: its fields
  icons,     \* hashes whose icon is in the bucket
  request,   \* request[r]: its parameters, its step and, at the end, its answer
  \* history variables
  raced,     \* hashes inserted while another request had not found them
  others     \* requests since whose lookup another one wrote the same hash

vars == <<known, generated, hashOf, details, icons, request, raced, others>>

Idle == [step |-> "idle", hash |-> NoHash, params |-> Empty, answer |-> Empty]

Init ==
  /\ known = {}
  /\ generated = {}
  /\ hashOf = [i \in RowId |-> NoHash]
  /\ details = [i \in RowId |-> Empty]
  /\ icons = {}
  /\ request = [r \in Request |-> Idle]
  /\ raced = {}
  /\ others = {}

Rows(h) == {i \in RowId : hashOf[i] = h}

Over == {"idle", "answered", "error", "iconUrl"}

Running(r) == request[r].step \notin Over

Goto(r, s) == request' = [request EXCEPT ![r].step = s]

(* The request is over; what it was about is kept for the properties until *)
(* the next one begins.                                                    *)
Error(r) ==
  /\ request' = [request EXCEPT ![r] = [Idle EXCEPT !.step = "error"]]
  /\ others' = others \ {r}
  /\ UNCHANGED <<known, generated, hashOf, details, icons, raced>>

(* The requests on the same hash that run while r writes it. *)
Besides(r) == {k \in Request \ {r} : Running(k) /\ request[k].hash = request[r].hash}

(* The indexer stores a currency, and its transaction. *)
StoreCurrency(h) ==
  /\ h \notin known
  /\ known' = known \cup {h}
  /\ UNCHANGED <<generated, hashOf, details, icons, request, raced, others>>

StoreTransaction(h) ==
  /\ h \in known \ generated
  /\ generated' = generated \cup {h}
  /\ UNCHANGED <<known, hashOf, details, icons, request, raced, others>>

-----------------------------------------------------------------------------
(* createTokenExtraDetails.                                                *)

(* tokens is searched for the hash. *)
Find(r) ==
  /\ ~Running(r)
  /\ \E h \in Currency, p \in Params :
       request' = [request EXCEPT ![r] =
         [step |-> IF Rows(h) # {} THEN "update" ELSE "insert",
          hash |-> h, params |-> p, answer |-> Empty]]
  /\ others' = others \ {r}
  /\ UNCHANGED <<known, generated, hashOf, details, icons, raced>>

(* What a row holds once p is written over it. *)
Overwritten(d, p) == [f \in Field |-> IF p[f] = Null THEN d[f] ELSE p[f]]

(* Mutation: only the row that was found is updated. *)
Update_OneRow(r) ==
  LET q == request[r] IN
  /\ q.step = "update"
  /\ \E i \in Rows(q.hash) :
       details' = [details EXCEPT ![i] = Overwritten(@, q.params)]
  /\ others' = others \cup Besides(r)
  /\ Goto(r, "currency")
  /\ UNCHANGED <<known, generated, hashOf, icons, raced>>

(* update({currencyHash}, params): every row of the hash, the fields that  *)
(* the request gives.                                                      *)
Update(r) ==
  LET q == request[r] IN
  /\ q.step = "update"
  /\ details' = [i \in RowId |-> IF i \in Rows(q.hash) THEN Overwritten(details[i], q.params)
                                 ELSE details[i]]
  /\ others' = others \cup Besides(r)
  /\ Goto(r, "currency")
  /\ UNCHANGED <<known, generated, hashOf, icons, raced>>

(* Mutation: an update becomes an insert. *)
Insert_Always(r) ==
  LET q == request[r] IN
  /\ q.step \in {"insert", "update"}
  /\ \E i \in {j \in Rows(NoHash) : \A k \in Rows(NoHash) : j <= k} :
       /\ hashOf' = [hashOf EXCEPT ![i] = q.hash]
       /\ details' = [details EXCEPT ![i] = q.params]
  /\ raced' = raced \cup {request[k].hash : k \in {k \in Besides(r) : request[k].step = "insert"}}
  /\ others' = others \cup Besides(r)
  /\ Goto(r, "currency")
  /\ UNCHANGED <<known, generated, icons>>

Insert(r) ==
  LET q == request[r] IN
  /\ q.step = "insert"
  /\ \E i \in {j \in Rows(NoHash) : \A k \in Rows(NoHash) : j <= k} :
       /\ hashOf' = [hashOf EXCEPT ![i] = q.hash]
       /\ details' = [details EXCEPT ![i] = q.params]
  /\ raced' = raced \cup {request[k].hash : k \in {k \in Besides(r) : request[k].step = "insert"}}
  /\ others' = others \cup Besides(r)
  /\ Goto(r, "currency")
  /\ UNCHANGED <<known, generated, icons>>

(* getTokenInfo: the native currency is not supported, and a currency that *)
(* db_app does not have with its transaction is an error; the row has been *)
(* written by then.                                                        *)
FindCurrency(r) ==
  /\ request[r].step = "currency"
  /\ request[r].hash \in generated \ {Coti}
  /\ Goto(r, "token")
  /\ UNCHANGED <<known, generated, hashOf, details, icons, raced, others>>

NoCurrency(r) ==
  /\ request[r].step = "currency"
  /\ request[r].hash \notin generated \ {Coti}
  /\ Error(r)

(* getOne() of the rows of the hash, and the answer made of it; the supply *)
(* is read in between.                                                     *)
AnswerInfo(r) ==
  /\ request[r].step = "token"
  /\ \E i \in Rows(request[r].hash) :
       request' = [request EXCEPT ![r].step = "answered", ![r].answer = details[i]]
  /\ UNCHANGED <<known, generated, hashOf, details, icons, raced, others>>

(* A query fails. *)
Fail(r) ==
  /\ Running(r)
  /\ Error(r)

-----------------------------------------------------------------------------
(* uploadIcon.                                                             *)

(* The currency, its transaction or none, and the token's details are      *)
(* looked for; without one of them, or with a file that is too large or of *)
(* another type, an error.                                                 *)
CheckIcon(r) ==
  /\ ~Running(r)
  /\ \E h \in Currency :
       request' = [request EXCEPT ![r] =
         [step |-> IF h \in known /\ Rows(h) # {} THEN "upload" ELSE "error",
          hash |-> h, params |-> Empty, answer |-> Empty]]
  /\ others' = others \ {r}
  /\ UNCHANGED <<known, generated, hashOf, details, icons, raced>>

RefuseFile(r) ==
  /\ request[r].step = "upload"
  /\ Error(r)

AnswerUrl(r) == Goto(r, "iconUrl")

Upload(r) ==
  /\ request[r].step = "upload"
  /\ icons' = icons \cup {request[r].hash}
  /\ AnswerUrl(r)
  /\ UNCHANGED <<known, generated, hashOf, details, raced, others>>

(* uploadFile() rejects, but the code then looks at the error of the       *)
(* query before it, which is null.                                         *)
UploadFails(r) ==
  /\ request[r].step = "upload"
  /\ AnswerUrl(r)
  /\ UNCHANGED <<known, generated, hashOf, details, icons, raced, others>>

Next ==
  \/ \E h \in Currency : StoreCurrency(h) \/ StoreTransaction(h)
  \/ \E r \in Request :
       \/ Find(r) \/ Update(r) \/ Insert(r)
       \/ FindCurrency(r) \/ NoCurrency(r) \/ AnswerInfo(r) \/ Fail(r)
       \/ CheckIcon(r) \/ RefuseFile(r) \/ Upload(r) \/ UploadFails(r)

Spec == Init /\ [][Next]_vars

-----------------------------------------------------------------------------
(* Properties.                                                             *)

Steps == Over \cup {"update", "insert", "currency", "token", "upload"}

(* The variables have their types, and a row has a hash as soon as it has  *)
(* details.                                                                *)
TypeOK ==
  /\ generated \subseteq known /\ known \subseteq Currency
  /\ hashOf \in [RowId -> Currency \cup {NoHash}]
  /\ details \in [RowId -> Params]
  /\ icons \subseteq Currency
  /\ request \in [Request -> [step : Steps, hash : Currency \cup {NoHash},
                              params : Params, answer : Params]]
  /\ raced \subseteq Currency
  /\ others \subseteq Request
  /\ \A i \in RowId : hashOf[i] = NoHash => details[i] = Empty

(* A token has two rows only when two requests that had both found none    *)
(* insert one.                                                             *)
DuplicatesOnlyByRace ==
  \A i, j \in RowId : i # j /\ hashOf[i] = hashOf[j] /\ hashOf[i] # NoHash => hashOf[i] \in raced

(* A request is answered with what it wrote, also of a token with several  *)
(* rows, of which getTokenInfo takes any one; unless another request wrote *)
(* the token since this one looked for it.                                 *)
AnswerShowsRequest ==
  \A r \in Request : request[r].step = "answered" /\ r \notin others =>
    \A f \in Field : request[r].params[f] # Null => request[r].answer[f] = request[r].params[f]

(* uploadFile() throws 'file upload failed' when S3 refuses the file, and  *)
(* uploadIcon has an error for it: an icon's address is answered only when *)
(* the icon is there.                                                      *)
IconUrlMeansStored ==
  \A r \in Request : request[r].step = "iconUrl" => request[r].hash \in icons
=============================================================================
