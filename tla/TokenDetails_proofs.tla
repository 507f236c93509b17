-------------------------- MODULE TokenDetails_proofs --------------------------
(***************************************************************************)
(* Theorems of TokenDetails, for any currencies, fields, values, requests  *)
(* and rows.  The lookup, the write and the read-back of a request are     *)
(* queries of their own: Knows says what it may still rely on in between,  *)
(* and why it no longer can.                                               *)
(***************************************************************************)
EXTENDS TokenDetails, TLAPS

(* Every field that the request gives. *)
Shows(d, p) == \A f \in Field : p[f] # Null => d[f] = p[f]

Knows(r) ==
  LET q == request[r] IN
  /\ Running(r) => q.hash \in Currency
  /\ q.step = "insert" => q.hash \in raced \/ Rows(q.hash) = {}
  /\ q.step = "insert" /\ r \notin others => Rows(q.hash) = {}
  /\ q.step \in {"currency", "token"} /\ r \notin others
       => \A i \in Rows(q.hash) : Shows(details[i], q.params)
  /\ q.step = "answered" /\ r \notin others => Shows(q.answer, q.params)

IInv == TypeOK /\ (\A r \in Request : Knows(r)) /\ DuplicatesOnlyByRace

RequestType == [step : Steps, hash : Currency \cup {NoHash}, params : Params, answer : Params]

LEMMA Types == TypeOK => request \in [Request -> RequestType]
BY DEF TypeOK, RequestType

LEMMA InitIInv == Init => IInv
<1> SUFFICES ASSUME Init PROVE IInv
  OBVIOUS
<1>1. Empty \in Params
  BY DEF Empty, Params
<1>2. Idle \in RequestType
  BY <1>1 DEF Idle, RequestType, Steps, Over
<1>3. TypeOK
  BY <1>1, <1>2, TokenDetailsAssumption DEF Init, TypeOK, RequestType
<1>4. \A r \in Request : Knows(r)
  BY DEF Init, Knows, Idle, Running, Over
<1> QED
  BY <1>3, <1>4 DEF Init, IInv, DuplicatesOnlyByRace

(* A step of r alone, which writes no row and takes r out of what others   *)
(* wrote at most.                                                          *)
LEMMA RequestMoves ==
  ASSUME IInv, NEW r \in Request, NEW q \in RequestType,
         request' = [request EXCEPT ![r] = q],
         UNCHANGED <<hashOf, details, raced>>,
         others' \in {others, others \ {r}},
         UNCHANGED <<known, generated>>, icons' \subseteq Currency,
         Knows(r)'
  PROVE  IInv'
<1>1. TypeOK'
  BY Types DEF IInv, TypeOK, RequestType
<1>2. ASSUME NEW k \in Request \ {r} PROVE Knows(k)'
  <2>1. request'[k] = request[k] /\ (k \in others' <=> k \in others) /\ Knows(k)
    BY DEF IInv, TypeOK
  <2> QED
    BY <2>1 DEF Knows, Rows, Running
<1> QED
  BY <1>1, <1>2 DEF IInv, DuplicatesOnlyByRace

LEMMA ErrorKeeps ==
  ASSUME IInv, NEW r \in Request, Error(r)
  PROVE  IInv'
<1> DEFINE q == [Idle EXCEPT !.step = "error"]
<1>1. q = [step |-> "error", hash |-> NoHash, params |-> Empty, answer |-> Empty]
  BY DEF Idle
<1>2. q \in RequestType
  BY <1>1 DEF RequestType, Steps, Over, Empty, Params
<1>3. request'[r] = q
  BY DEF Error, IInv, TypeOK
<1>4. Knows(r)'
  BY <1>1, <1>3 DEF Knows, Running, Over
<1> QED
  BY <1>2, <1>4, RequestMoves DEF Error, IInv, TypeOK

LEMMA FindKeeps ==
  ASSUME IInv, NEW r \in Request, Find(r)
  PROVE  IInv'
<1>1. PICK h \in Currency, p \in Params :
        request' = [request EXCEPT ![r] =
          [step |-> IF Rows(h) # {} THEN "update" ELSE "insert",
           hash |-> h, params |-> p, answer |-> Empty]]
  BY DEF Find
<1> DEFINE q == [step |-> IF Rows(h) # {} THEN "update" ELSE "insert",
                 hash |-> h, params |-> p, answer |-> Empty]
<1>2. q \in RequestType
  BY DEF RequestType, Steps, Over, Empty, Params
<1>3. request'[r] = q
  BY <1>1 DEF IInv, TypeOK
<1>4. Knows(r)'
  BY <1>3 DEF Find, Knows, Running, Over, Rows
<1> HIDE DEF q
<1> QED
  BY <1>1, <1>2, <1>4, RequestMoves DEF Find, IInv, TypeOK, q

LEMMA CheckIconKeeps ==
  ASSUME IInv, NEW r \in Request, CheckIcon(r)
  PROVE  IInv'
<1>1. PICK h \in Currency :
        request' = [request EXCEPT ![r] =
          [step |-> IF h \in known /\ Rows(h) # {} THEN "upload" ELSE "error",
           hash |-> h, params |-> Empty, answer |-> Empty]]
  BY DEF CheckIcon
<1> DEFINE q == [step |-> IF h \in known /\ Rows(h) # {} THEN "upload" ELSE "error",
                 hash |-> h, params |-> Empty, answer |-> Empty]
<1>2. q \in RequestType
  BY DEF RequestType, Steps, Over, Empty, Params
<1>3. request' = [request EXCEPT ![r] = q] /\ request'[r] = q
  BY <1>1 DEF IInv, TypeOK
<1>4. Knows(r)'
  BY <1>3 DEF Knows, Running, Over
<1> HIDE DEF q
<1> QED
  BY <1>2, <1>3, <1>4, RequestMoves DEF CheckIcon, IInv, TypeOK

(* A request that goes on to a later query. *)
LEMMA GotoKeeps ==
  ASSUME IInv, NEW r \in Request,
         \/ FindCurrency(r)
         \/ Upload(r)
         \/ UploadFails(r)
  PROVE  IInv'
<1>1. PICK s \in {"token", "iconUrl"} :
        /\ Goto(r, s)
        /\ s = "token" => request[r].step = "currency"
        /\ Running(r) /\ UNCHANGED <<known, generated, hashOf, details, raced, others>>
        /\ icons' = icons \/ icons' = icons \cup {request[r].hash}
  BY DEF FindCurrency, Upload, UploadFails, AnswerUrl, Running, Over
<1> DEFINE q == [request[r] EXCEPT !.step = s]
<1>2. request[r] \in RequestType
  BY Types DEF IInv
<1>3. q \in RequestType
  BY <1>2 DEF RequestType, Steps, Over
<1>4. request' = [request EXCEPT ![r] = q] /\ request'[r] = q
  BY <1>1 DEF Goto, IInv, TypeOK
<1>5. q.step = s /\ q.hash = request[r].hash /\ q.params = request[r].params
  BY <1>2 DEF RequestType
<1>6. Knows(r)
  BY DEF IInv
<1>7. Knows(r)'
  BY <1>1, <1>4, <1>5, <1>6 DEF Knows, Running, Over, Rows
<1>8. icons' \subseteq Currency
  BY <1>1, <1>6 DEF Knows, IInv, TypeOK
<1> HIDE DEF q
<1> QED
  BY <1>1, <1>3, <1>4, <1>7, <1>8, RequestMoves

LEMMA AnswerInfoKeeps ==
  ASSUME IInv, NEW r \in Request, AnswerInfo(r)
  PROVE  IInv'
<1>1. PICK i \in Rows(request[r].hash) :
        request' = [request EXCEPT ![r].step = "answered", ![r].answer = details[i]]
  BY DEF AnswerInfo
<1>2. request[r] \in RequestType /\ i \in RowId /\ details[i] \in Params
  BY Types DEF IInv, TypeOK, Rows
<1> DEFINE q == [request[r] EXCEPT !.step = "answered", !.answer = details[i]]
<1>3. /\ q.step = "answered" /\ q.answer = details[i]
      /\ q.hash = request[r].hash /\ q.params = request[r].params
      /\ q \in RequestType
  BY <1>2 DEF RequestType, Steps, Over
<1>4. request' = [request EXCEPT ![r] = q] /\ request'[r] = q
  BY <1>1 DEF IInv, TypeOK
<1>5. Knows(r) /\ UNCHANGED <<known, generated, hashOf, details, icons, raced, others>>
  BY DEF AnswerInfo, IInv
<1>6. Knows(r)'
  BY <1>1, <1>3, <1>4, <1>5 DEF AnswerInfo, Knows, Running, Over
<1> HIDE DEF q
<1> QED
  BY <1>3, <1>4, <1>5, <1>6, RequestMoves DEF IInv, TypeOK

-----------------------------------------------------------------------------
(* The writes.                                                             *)

(* The request that wrote goes on to the read-back; of the others, those   *)
(* on the same hash know that it was written.                              *)
LEMMA Written ==
  ASSUME IInv, NEW r \in Request, Running(r), Goto(r, "currency"),
         others' = others \cup Besides(r)
  PROVE  /\ request' \in [Request -> RequestType]
         /\ request'[r].step = "currency" /\ request'[r].hash = request[r].hash
         /\ request'[r].params = request[r].params
         /\ \A k \in Request \ {r} :
              /\ request'[k] = request[k]
              /\ k \in others' <=> k \in others \/ (Running(k) /\ request[k].hash = request[r].hash)
         /\ r \in others' <=> r \in others
         /\ others' \subseteq Request
<1>1. request \in [Request -> RequestType] /\ request[r] \in RequestType
  BY Types DEF IInv
<1>2. [request[r] EXCEPT !.step = "currency"] \in RequestType
  BY <1>1 DEF RequestType, Steps
<1>3. request' = [request EXCEPT ![r] = [request[r] EXCEPT !.step = "currency"]]
  BY <1>1 DEF Goto
<1>4. \A k \in Request : k \in others' <=> k \in others \/ k \in Besides(r)
  BY DEF Besides
<1> QED
  BY <1>1, <1>2, <1>3, <1>4 DEF Besides, RequestType, IInv, TypeOK

LEMMA UpdateKeeps ==
  ASSUME IInv, NEW r \in Request, Update(r)
  PROVE  IInv'
<1> DEFINE q == request[r]
<1>1. /\ q.step = "update" /\ Running(r) /\ q \in RequestType
      /\ details' = [i \in RowId |-> IF i \in Rows(q.hash) THEN Overwritten(details[i], q.params)
                                     ELSE details[i]]
      /\ others' = others \cup Besides(r) /\ Goto(r, "currency")
      /\ UNCHANGED <<known, generated, hashOf, icons, raced>>
  BY Types DEF Update, Running, Over, IInv
<1>2. q.hash \in Currency /\ q.hash # NoHash
  BY <1>1, TokenDetailsAssumption DEF IInv, Knows, NoHash
<1>3. \A i \in RowId : Overwritten(details[i], q.params) \in Params
  BY <1>1 DEF Overwritten, Params, RequestType, IInv, TypeOK
<1>4. TypeOK'
  <2>1. details' \in [RowId -> Params]
    BY <1>1, <1>3 DEF IInv, TypeOK
  <2>2. \A i \in RowId : hashOf'[i] = NoHash => details'[i] = Empty
    BY <1>1, <1>2 DEF Rows, IInv, TypeOK
  <2> QED
    BY <1>1, <2>1, <2>2, Written DEF IInv, TypeOK, RequestType
<1>5. \A d \in Params : Shows(Overwritten(d, q.params), q.params)
  BY DEF Shows, Overwritten
<1>6. Knows(r)'
  <2>1. \A i \in Rows(q.hash) : Shows(details'[i], q.params)
    BY <1>1, <1>5 DEF Rows, IInv, TypeOK
  <2> QED
    BY <1>1, <1>2, <2>1, Written DEF Knows, Rows, Running
<1>7. ASSUME NEW k \in Request \ {r} PROVE Knows(k)'
  <2>1. Knows(k) /\ request'[k] = request[k]
    BY <1>1, Written DEF IInv
  <2>2. CASE request[k].hash = q.hash /\ Running(k)
    BY <1>1, <2>1, <2>2, Written DEF Knows, Rows, Running, Over
  <2>3. CASE request[k].hash # q.hash /\ Running(k)
    <3>1. \A i \in Rows(request[k].hash) : details'[i] = details[i]
      BY <1>1, <2>3 DEF Rows
    <3> QED
      BY <1>1, <2>1, <2>3, <3>1, Written DEF Knows, Rows, Running
  <2>4. CASE ~Running(k)
    BY <1>1, <2>1, <2>4, Written DEF Knows, Running, Over
  <2> QED
    BY <2>2, <2>3, <2>4
<1> QED
  BY <1>1, <1>4, <1>6, <1>7 DEF IInv, DuplicatesOnlyByRace

LEMMA InsertKeeps ==
  ASSUME IInv, NEW r \in Request, Insert(r)
  PROVE  IInv'
<1> DEFINE q == request[r]
<1>1. /\ q.step = "insert" /\ Running(r) /\ q \in RequestType
      /\ raced' = raced \cup {request[k].hash : k \in {k \in Besides(r) : request[k].step = "insert"}}
      /\ others' = others \cup Besides(r) /\ Goto(r, "currency")
      /\ UNCHANGED <<known, generated, icons>>
  BY Types DEF Insert, Running, Over, IInv
<1>2. PICK i \in RowId :
        /\ hashOf[i] = NoHash
        /\ hashOf' = [hashOf EXCEPT ![i] = q.hash]
        /\ details' = [details EXCEPT ![i] = q.params]
  BY DEF Insert, Rows
<1>3. q.hash \in Currency /\ q.hash # NoHash /\ NoHash \notin Currency
  BY <1>1, TokenDetailsAssumption DEF IInv, Knows, NoHash
<1>4. \A j \in RowId :
        /\ hashOf'[j] = IF j = i THEN q.hash ELSE hashOf[j]
        /\ details'[j] = IF j = i THEN q.params ELSE details[j]
  BY <1>2 DEF IInv, TypeOK
<1>5. TypeOK'
  <2>1. /\ hashOf' \in [RowId -> Currency \cup {NoHash}]
        /\ details' \in [RowId -> Params]
    BY <1>1, <1>2, <1>3 DEF IInv, TypeOK, RequestType
  <2>2. raced' \subseteq Currency
    BY <1>1 DEF Besides, IInv, TypeOK, Knows
  <2>3. \A j \in RowId : hashOf'[j] = NoHash => details'[j] = Empty
    BY <1>3, <1>4 DEF IInv, TypeOK
  <2> QED
    BY <1>1, <2>1, <2>2, <2>3, Written DEF IInv, TypeOK, RequestType
<1>6. Knows(r)'
  <2>1. r \notin others => Rows(q.hash) = {}
    BY <1>1 DEF IInv, Knows
  <2>2. r \notin others => \A j \in RowId : hashOf'[j] = q.hash => details'[j] = q.params
    BY <1>4, <2>1 DEF Rows
  <2> QED
    BY <1>1, <1>3, <2>2, Written DEF Knows, Rows, Running, Shows
<1>7. ASSUME NEW k \in Request \ {r} PROVE Knows(k)'
  <2>1. Knows(k) /\ request'[k] = request[k] /\ raced \subseteq raced'
    BY <1>1, Written DEF IInv
  <2>2. CASE request[k].hash = q.hash /\ Running(k)
    <3>1. request[k].step = "insert" => request[k].hash \in raced'
      BY <1>1, <2>2 DEF Besides
    <3>2. k \in others'
      BY <1>1, <2>2, Written
    <3> QED
      BY <2>1, <2>2, <3>1, <3>2 DEF Knows, Running, Over
  <2>3. CASE request[k].hash # q.hash /\ Running(k)
    <3>1. /\ Rows(request[k].hash)' = Rows(request[k].hash)
          /\ \A j \in Rows(request[k].hash) : details'[j] = details[j]
      BY <1>3, <1>4, <2>1, <2>3, <1>2 DEF Rows, Knows
    <3> QED
      BY <1>1, <2>1, <2>3, <3>1, Written DEF Knows, Running
  <2>4. CASE ~Running(k)
    BY <1>1, <2>1, <2>4, Written DEF Knows, Running, Over
  <2> QED
    BY <2>2, <2>3, <2>4
<1>8. DuplicatesOnlyByRace'
  <2>1. \A j \in RowId : hashOf[j] = q.hash => q.hash \in raced
    BY <1>1 DEF IInv, Knows, Rows
  <2>2. raced \subseteq raced'
    BY <1>1
  <2> QED
    BY <1>4, <2>1, <2>2 DEF IInv, DuplicatesOnlyByRace
<1> QED
  BY <1>5, <1>6, <1>7, <1>8 DEF IInv

LEMMA NextIInv == IInv /\ [Next]_vars => IInv'
<1> SUFFICES ASSUME IInv, [Next]_vars PROVE IInv'
  OBVIOUS
<1>1. CASE \E h \in Currency : StoreCurrency(h) \/ StoreTransaction(h)
  BY <1>1 DEF StoreCurrency, StoreTransaction, IInv, TypeOK, Knows, Rows, Running, DuplicatesOnlyByRace
<1>2. CASE \E r \in Request : NoCurrency(r) \/ Fail(r) \/ RefuseFile(r)
  BY <1>2, ErrorKeeps DEF NoCurrency, Fail, RefuseFile
<1>3. CASE UNCHANGED vars
  BY <1>3 DEF vars, IInv, TypeOK, Knows, Rows, Running, DuplicatesOnlyByRace
<1> QED
  BY <1>1, <1>2, <1>3, FindKeeps, UpdateKeeps, InsertKeeps, GotoKeeps, AnswerInfoKeeps,
     CheckIconKeeps DEF Next

LEMMA Inductive == Spec => []IInv
BY InitIInv, NextIInv, PTL DEF Spec

-----------------------------------------------------------------------------

(* A token has two rows only when two requests that had both found none    *)
(* inserted one, for any number of requests (createTokenExtraDetails).     *)
THEOREM OnlyARaceDuplicates == Spec => []DuplicatesOnlyByRace
<1>1. IInv => DuplicatesOnlyByRace
  BY DEF IInv
<1> QED
  BY Inductive, <1>1, PTL

(* A request is answered with what it wrote unless another one wrote the   *)
(* token since its lookup, however many rows the token has and whichever   *)
(* of them getTokenInfo takes.                                             *)
THEOREM AnswersAreCurrent == Spec => []AnswerShowsRequest
<1>1. IInv => AnswerShowsRequest
  BY DEF IInv, Knows, Shows, AnswerShowsRequest
<1> QED
  BY Inductive, <1>1, PTL
=============================================================================
