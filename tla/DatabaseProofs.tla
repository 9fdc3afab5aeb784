--------------------------- MODULE DatabaseProofs ---------------------------
(***************************************************************************)
(* Proofs about the nginx module over LevelDB and the clients of SQLite and *)
(* PostgreSQL, for every set of requests, keys, values, Statement objects,  *)
(* scripts, calls and rows, and every number of failures, locks, attempts   *)
(* and lost sessions.                                                       *)
(***************************************************************************)
EXTENDS NginxLevelDB, SqliteClient, PgConnection, TLAPS

-----------------------------------------------------------------------------
(* The nginx module: RequestsAreAnswered.                                   *)

RequestStates == {"none", "header", "body", "done", "dropped"}
StatusCodes == {0, 200, 204, 400, 404, 405, 413, 500}
Outcomes == {None, "ok", "error", "empty"}

Request == [state : RequestStates, method : Methods, uri : Uris,
            key : LevelKeys \cup {None}, value : Values \cup {None},
            status : StatusCodes, kept : Outcomes, seen : Values \cup {None}]

\* A request that is being served names a key, is not answered yet, and waits for
\* a body only if it is a PUT.
GoodRequest(q) ==
    /\ q.state \in {"header", "body"} => q.key \in LevelKeys /\ q.status = 0
    /\ q.state = "body" => q.uri = "/put/"
    /\ q.uri = "/get/" /\ q.status = 204 => q.kept = "ok" /\ q.seen = None

\* The type invariant without the requests.
WorkerTypes ==
    /\ {opened, pathSet, running, locked} \subseteq BOOLEAN
    /\ store \in [LevelKeys -> Values \cup {None}]
    /\ dbFaults \in 0 .. MaxDatabaseFaults

NginxInv ==
    /\ WorkerTypes
    /\ requestOf \in [Requests -> Request]
    /\ StoredByAPut
    /\ \A r \in Requests : GoodRequest(requestOf[r])

\* A step that replaces one unanswered request by a good one and keeps the
\* database.
LEMMA RequestReplaced ==
    ASSUME NginxInv, NEW r \in Requests, NEW q \in Request, GoodRequest(q),
           requestOf[r].state # "done",
           requestOf' = [requestOf EXCEPT ![r] = q], UNCHANGED store, WorkerTypes'
    PROVE  NginxInv'
<1>1. requestOf' \in [Requests -> Request]
  BY DEF NginxInv
<1>2. \A s \in Requests : requestOf'[s] = IF s = r THEN q ELSE requestOf[s]
  BY DEF NginxInv
<1>3. StoredByAPut'
  BY <1>2 DEF NginxInv, StoredByAPut
<1>4. \A s \in Requests : GoodRequest(requestOf'[s])
  BY <1>2 DEF NginxInv
<1> QED
  BY <1>1, <1>3, <1>4 DEF NginxInv

\* At the start no worker has the database open and no request was made.
LEMMA NginxInvInit == NginxInit => NginxInv
<1> SUFFICES ASSUME NginxInit PROVE NginxInv
  OBVIOUS
<1>1. NoRequest \in Request /\ GoodRequest(NoRequest)
  BY DEF NoRequest, Request, RequestStates, StatusCodes, Outcomes, GoodRequest, Methods, Uris
<1>2. {opened, pathSet, running, locked} \subseteq BOOLEAN
  BY Zenon DEF NginxInit
<1>3. WorkerTypes
  BY <1>2, NginxAssumption DEF NginxInit, WorkerTypes
<1>4. StoredByAPut
  BY DEF NginxInit, StoredByAPut
<1>5. requestOf = [r \in Requests |-> NoRequest]
  BY DEF NginxInit
<1> HIDE DEF NoRequest, Request, RequestStates, StatusCodes, Outcomes, GoodRequest
<1> QED
  BY <1>1, <1>3, <1>4, <1>5 DEF NginxInv

\* The fields of a request after one of them was assigned.
LEMMA SetState ==
    ASSUME NEW q \in Request, NEW state \in RequestStates
    PROVE  LET t == [q EXCEPT !.state = state]
           IN  /\ t \in Request
               /\ t.state = state /\ t.uri = q.uri /\ t.key = q.key /\ t.value = q.value
               /\ t.status = q.status /\ t.kept = q.kept /\ t.seen = q.seen
BY DEF Request

\* ... after its status was assigned.
LEMMA SetStatus ==
    ASSUME NEW q \in Request, NEW status \in StatusCodes
    PROVE  LET t == [q EXCEPT !.status = status]
           IN  /\ t \in Request
               /\ t.status = status /\ t.uri = q.uri /\ t.key = q.key /\ t.value = q.value
               /\ t.state = q.state /\ t.kept = q.kept /\ t.seen = q.seen
BY DEF Request

\* ... after kept was assigned.
LEMMA SetKept ==
    ASSUME NEW q \in Request, NEW kept \in Outcomes
    PROVE  LET t == [q EXCEPT !.kept = kept]
           IN  /\ t \in Request
               /\ t.kept = kept /\ t.uri = q.uri /\ t.key = q.key /\ t.value = q.value
               /\ t.state = q.state /\ t.status = q.status /\ t.seen = q.seen
BY DEF Request

\* ... after seen was assigned.
LEMMA SetSeen ==
    ASSUME NEW q \in Request, NEW seen \in Values \cup {None}
    PROVE  LET t == [q EXCEPT !.seen = seen]
           IN  /\ t \in Request
               /\ t.seen = seen /\ t.uri = q.uri /\ t.key = q.key /\ t.value = q.value
               /\ t.state = q.state /\ t.status = q.status /\ t.kept = q.kept
BY DEF Request

\* What a request becomes when it is answered.
LEMMA AnsweredFields ==
    ASSUME NEW r \in Requests, requestOf[r] \in Request,
           NEW status \in StatusCodes
    PROVE  /\ Answered(r, status) \in Request
           /\ Answered(r, status).state = "done" /\ Answered(r, status).status = status
           /\ Answered(r, status).uri = requestOf[r].uri
           /\ Answered(r, status).key = requestOf[r].key
           /\ Answered(r, status).value = requestOf[r].value
           /\ Answered(r, status).kept = requestOf[r].kept
           /\ Answered(r, status).seen = requestOf[r].seen
<1> DEFINE t == [requestOf[r] EXCEPT !.state = "done"]
<1>1. Answered(r, status) = [t EXCEPT !.status = status]
  BY DEF Answered
<1>2. /\ t \in Request /\ t.state = "done" /\ t.uri = requestOf[r].uri /\ t.key = requestOf[r].key
      /\ t.value = requestOf[r].value /\ t.kept = requestOf[r].kept /\ t.seen = requestOf[r].seen
  BY SetState DEF RequestStates
<1> HIDE DEF t
<1> QED
  BY <1>1, <1>2, SetStatus

\* ... with its history fields.
LEMMA AnsweredRequest ==
    ASSUME NEW r \in Requests, requestOf[r] \in Request,
           NEW status \in StatusCodes,
           NEW kept \in Outcomes, NEW seen \in Values \cup {None},
           status = 204 => kept = "ok" /\ seen = None
    PROVE  LET q == [Answered(r, status) EXCEPT !.kept = kept, !.seen = seen]
           IN  /\ q \in Request
               /\ GoodRequest(q)
               /\ q.state = "done" /\ q.status = status /\ q.kept = kept
               /\ q.uri = requestOf[r].uri
               /\ q.key = requestOf[r].key
               /\ q.value = requestOf[r].value
<1> DEFINE t == [Answered(r, status) EXCEPT !.kept = kept]
           q == [t EXCEPT !.seen = seen]
<1>1. q = [Answered(r, status) EXCEPT !.kept = kept, !.seen = seen]
  OBVIOUS
<1>2. /\ t \in Request /\ t.state = "done" /\ t.status = status /\ t.kept = kept
      /\ t.uri = requestOf[r].uri /\ t.key = requestOf[r].key /\ t.value = requestOf[r].value
  BY AnsweredFields, SetKept
<1> HIDE DEF t
<1>3. /\ q \in Request /\ q.state = "done" /\ q.status = status /\ q.kept = kept /\ q.seen = seen
      /\ q.uri = requestOf[r].uri /\ q.key = requestOf[r].key /\ q.value = requestOf[r].value
  BY <1>2, SetSeen
<1> HIDE DEF q
<1>4. GoodRequest(q)
  BY <1>3 DEF GoodRequest
<1> QED
  BY <1>1, <1>3, <1>4

\* Where nothing but the status is known, the other fields stay.
LEMMA AnsweredPlainly ==
    ASSUME NEW r \in Requests, requestOf[r] \in Request, GoodRequest(requestOf[r]),
           NEW status \in StatusCodes \ {204}
    PROVE  Answered(r, status) \in Request /\ GoodRequest(Answered(r, status))
BY AnsweredFields DEF GoodRequest

\* A rejected request has a status of an error.
LEMMA RejectStatus ==
    ASSUME NEW r \in Requests, Reject(r)
    PROVE  \E status \in {400, 404, 405, 413} :
              requestOf' = [requestOf EXCEPT ![r] = Answered(r, status)]
<1> DEFINE S == IF requestOf[r].method \notin {"GET", "POST"} THEN {405}
                ELSE IF requestOf[r].uri = "/get/" THEN {400}
                ELSE IF requestOf[r].uri # "/put/" THEN {404}
                ELSE IF requestOf[r].method # "POST" THEN {405} ELSE {413}
       Gives(status) == requestOf' = [requestOf EXCEPT ![r] = Answered(r, status)]
<1>1. S \subseteq {400, 404, 405, 413}
  OBVIOUS
<1>2. \E status \in S : Gives(status)
  BY Zenon DEF Reject
<1> SUFFICES \E status \in {400, 404, 405, 413} : Gives(status)
  OBVIOUS
<1> HIDE DEF S, Gives
<1> QED
  BY <1>1, <1>2

\* A request that is rejected changes nothing else.
LEMMA RejectStep ==
    ASSUME NginxInv, NEW r \in Requests, Reject(r)
    PROVE  NginxInv'
<1>1. PICK status \in {400, 404, 405, 413} :
          requestOf' = [requestOf EXCEPT ![r] = Answered(r, status)]
  BY RejectStatus
<1>2. /\ requestOf[r].state = "header"
      /\ UNCHANGED <<opened, pathSet, running, locked, store, dbFaults>>
  BY DEF Reject
<1>3. requestOf[r] \in Request /\ GoodRequest(requestOf[r])
  BY DEF NginxInv
<1>4. Answered(r, status) \in Request /\ GoodRequest(Answered(r, status))
  BY <1>3, AnsweredPlainly DEF StatusCodes
<1>5. WorkerTypes'
  BY <1>2 DEF NginxInv, WorkerTypes
<1> QED
  BY <1>1, <1>2, <1>4, <1>5, RequestReplaced

\* A GET answers with what the database holds at that moment.
LEMMA GetStep ==
    ASSUME NginxInv, NEW r \in Requests, Get(r)
    PROVE  NginxInv'
<1> DEFINE key == requestOf[r].key
           kept(result) == IF result = -1 THEN "error" ELSE "ok"
           q(result) == [Answered(r, GetStatus(result)) EXCEPT
                            !.kept = kept(result), !.seen = store[key]]
<1>1. PICK result \in LevelDB_Get(key) :
          requestOf' = [requestOf EXCEPT ![r] = q(result)] /\ CountDbFault(result)
  BY DEF Get
<1>2. requestOf[r].state = "header" /\ UNCHANGED <<opened, pathSet, running, locked, store>>
  BY DEF Get
<1>3. /\ result \in {-1, 0, 1}
      /\ result = 1 => store[key] = None
      /\ opened /\ result = -1 => dbFaults < MaxDatabaseFaults
  BY DEF LevelDB_Get
<1>4. requestOf[r] \in Request /\ key \in LevelKeys /\ store[key] \in Values \cup {None}
  BY <1>2 DEF NginxInv, WorkerTypes, GoodRequest
<1>5. GetStatus(result) = IF result = 1 THEN 204 ELSE 500
  BY <1>3 DEF GetStatus
<1>6. q(result) \in Request /\ GoodRequest(q(result))
  <2>1. /\ GetStatus(result) \in {204, 500}
        /\ kept(result) \in Outcomes
        /\ GetStatus(result) = 204 => kept(result) = "ok" /\ store[key] = None
    BY <1>3, <1>5 DEF Outcomes
  <2> DEFINE k == kept(result)
             status == GetStatus(result)
             v == store[key]
  <2>2. /\ status \in StatusCodes /\ k \in Outcomes
        /\ v \in Values \cup {None}
        /\ status = 204 => k = "ok" /\ v = None
    BY <1>4, <2>1 DEF StatusCodes, Outcomes
  <2> HIDE DEF k, status, v
  <2>3. LET t == [Answered(r, status) EXCEPT !.kept = k, !.seen = v]
        IN  t \in Request /\ GoodRequest(t)
    BY <1>4, <2>2, AnsweredRequest
  <2> QED
    BY <2>3 DEF k, status, v
<1>7. dbFaults' \in 0 .. MaxDatabaseFaults
  BY <1>1, <1>3, NginxAssumption DEF CountDbFault, NginxInv, WorkerTypes
<1>8. WorkerTypes'
  BY <1>2, <1>7 DEF NginxInv, WorkerTypes
<1> HIDE DEF q
<1> QED
  BY <1>1, <1>2, <1>6, <1>8, RequestReplaced

\* The ways command_put ends.
LEMMA CommandPutCases ==
    ASSUME NginxInv, NEW r \in Requests, CommandPut(r)
    PROVE  /\ requestOf[r].state = "body" /\ requestOf[r].uri = "/put/"
           /\ requestOf[r].key \in LevelKeys /\ requestOf[r].status = 0
           /\ UNCHANGED <<opened, pathSet, running, locked>>
           /\ dbFaults' \in 0 .. MaxDatabaseFaults
           /\ \/ requestOf' = [requestOf EXCEPT ![r] = Answered(r, 500)] /\ UNCHANGED store
              \/ \E kept \in {"empty", "error"} :
                    /\ requestOf' = [requestOf EXCEPT ![r] =
                          [Answered(r, 200) EXCEPT !.kept = kept]]
                    /\ UNCHANGED store
              \/ /\ requestOf' = [requestOf EXCEPT ![r] =
                       [Answered(r, 200) EXCEPT !.kept = "ok"]]
                 /\ store' = [store EXCEPT ![requestOf[r].key] = requestOf[r].value]
<1>1. requestOf[r].state = "body" /\ UNCHANGED <<opened, pathSet, running, locked>>
  BY DEF CommandPut
<1>2. requestOf[r].uri = "/put/" /\ requestOf[r].key \in LevelKeys /\ requestOf[r].status = 0
  BY <1>1 DEF NginxInv, GoodRequest
<1>3. ASSUME NEW result \in LevelDB_Put, CountDbFault(result)
      PROVE  result \in {0, -1} /\ dbFaults' \in 0 .. MaxDatabaseFaults
  BY <1>3, NginxAssumption DEF LevelDB_Put, CountDbFault, NginxInv, WorkerTypes
<1>4. dbFaults \in 0 .. MaxDatabaseFaults
  BY DEF NginxInv, WorkerTypes
<1> QED
  BY <1>1, <1>2, <1>3, <1>4 DEF CommandPut, StoreAfterPut

\* A PUT is stored, or answered with an error.
LEMMA CommandPutStep ==
    ASSUME NginxInv, NEW r \in Requests, CommandPut(r)
    PROVE  NginxInv'
<1> DEFINE q(kept) == [Answered(r, 200) EXCEPT !.kept = kept]
<1>1. /\ requestOf[r].state = "body" /\ requestOf[r].uri = "/put/"
      /\ requestOf[r].key \in LevelKeys
      /\ UNCHANGED <<opened, pathSet, running, locked>>
      /\ dbFaults' \in 0 .. MaxDatabaseFaults
  BY CommandPutCases
<1>2. requestOf[r] \in Request /\ GoodRequest(requestOf[r])
  BY DEF NginxInv
<1>3. ASSUME NEW kept \in {"ok", "error", "empty"}
      PROVE  /\ q(kept) \in Request /\ GoodRequest(q(kept))
             /\ q(kept).state = "done" /\ q(kept).status = 200 /\ q(kept).kept = kept
             /\ q(kept).uri = requestOf[r].uri
             /\ q(kept).key = requestOf[r].key /\ q(kept).value = requestOf[r].value
  <2>0. 200 \in StatusCodes /\ kept \in Outcomes
    BY DEF StatusCodes, Outcomes
  <2>1. /\ q(kept) \in Request
        /\ q(kept).state = "done" /\ q(kept).status = 200 /\ q(kept).kept = kept
        /\ q(kept).uri = requestOf[r].uri
        /\ q(kept).key = requestOf[r].key /\ q(kept).value = requestOf[r].value
    BY <1>2, <2>0, AnsweredFields, SetKept
  <2> HIDE DEF q
  <2> QED
    BY <2>1 DEF GoodRequest
<1>4. CASE requestOf' = [requestOf EXCEPT ![r] = Answered(r, 500)] /\ UNCHANGED store
  <2>1. WorkerTypes'
    BY <1>1, <1>4 DEF NginxInv, WorkerTypes
  <2>2. Answered(r, 500) \in Request /\ GoodRequest(Answered(r, 500))
    BY <1>2, AnsweredPlainly DEF StatusCodes
  <2> QED
    BY <1>1, <1>4, <2>1, <2>2, RequestReplaced
<1> HIDE DEF q
<1>5. ASSUME NEW kept \in {"empty", "error"},
             requestOf' = [requestOf EXCEPT ![r] = q(kept)], UNCHANGED store
      PROVE  NginxInv'
  <2>1. WorkerTypes'
    BY <1>1, <1>5 DEF NginxInv, WorkerTypes
  <2> QED
    BY <1>1, <1>3, <1>5, <2>1, RequestReplaced
<1>6. CASE /\ requestOf' = [requestOf EXCEPT ![r] = q("ok")]
           /\ store' = [store EXCEPT ![requestOf[r].key] = requestOf[r].value]
  <2>1. requestOf[r].value \in Values \cup {None}
    BY <1>2 DEF Request
  <2>2. WorkerTypes'
    BY <1>1, <1>6, <2>1 DEF NginxInv, WorkerTypes
  <2>3. \A s \in Requests : requestOf'[s] = IF s = r THEN q("ok") ELSE requestOf[s]
    BY <1>6 DEF NginxInv
  <2>4. StoredByAPut'
    <3> SUFFICES ASSUME NEW k \in LevelKeys, store'[k] # None
                 PROVE  \E s \in Requests :
                           /\ requestOf'[s].state = "done" /\ requestOf'[s].status = 200
                           /\ requestOf'[s].uri = "/put/" /\ requestOf'[s].kept = "ok"
                           /\ requestOf'[s].key = k /\ requestOf'[s].value = store'[k]
      BY DEF StoredByAPut
    <3>1. CASE k = requestOf[r].key
      <4>1. store'[k] = requestOf[r].value
        BY <1>6, <3>1 DEF NginxInv, WorkerTypes
      <4> QED
        BY <1>1, <1>3, <2>3, <3>1, <4>1
    <3>2. CASE k # requestOf[r].key
      <4>1. store'[k] = store[k]
        BY <1>6, <3>2 DEF NginxInv, WorkerTypes
      <4>2. PICK s \in Requests :
                /\ requestOf[s].state = "done" /\ requestOf[s].status = 200
                /\ requestOf[s].uri = "/put/" /\ requestOf[s].kept = "ok"
                /\ requestOf[s].key = k /\ requestOf[s].value = store[k]
        BY <4>1 DEF NginxInv, StoredByAPut
      <4> QED
        BY <1>1, <2>3, <4>1, <4>2
    <3> QED
      BY <3>1, <3>2
  <2>5. requestOf' \in [Requests -> Request]
    BY <1>3, <1>6 DEF NginxInv
  <2>6. \A s \in Requests : GoodRequest(requestOf'[s])
    BY <1>3, <2>3 DEF NginxInv
  <2> QED
    BY <2>2, <2>4, <2>5, <2>6 DEF NginxInv
<1> QED
  BY <1>4, <1>5, <1>6, CommandPutCases DEF q

\* A worker that exits releases the database it had.
LEMMA ExitWorkerStep ==
    ASSUME NginxInv, ExitWorker
    PROVE  NginxInv'
<1>1. requestOf' = [r \in Requests |->
                      IF requestOf[r].state \in {"header", "body"}
                      THEN [requestOf[r] EXCEPT !.state = "dropped"] ELSE requestOf[r]]
  BY DEF ExitWorker
<1>2. ASSUME NEW r \in Requests
      PROVE  /\ requestOf'[r] \in Request
             /\ GoodRequest(requestOf'[r])
             /\ requestOf[r].state = "done" => requestOf'[r] = requestOf[r]
  <2>1. requestOf[r] \in Request /\ GoodRequest(requestOf[r])
    BY DEF NginxInv
  <2>2. CASE requestOf[r].state \in {"header", "body"}
    <3>1. requestOf'[r] = [requestOf[r] EXCEPT !.state = "dropped"]
      BY <1>1, <2>2
    <3> QED
      BY <2>1, <2>2, <3>1 DEF Request, RequestStates, GoodRequest
  <2>3. CASE requestOf[r].state \notin {"header", "body"}
    BY <1>1, <2>1, <2>3
  <2> QED
    BY <2>2, <2>3
<1>3. requestOf' \in [Requests -> Request]
  BY <1>1, <1>2
<1>4. WorkerTypes'
  BY DEF ExitWorker, NginxInv, WorkerTypes
<1>5. StoredByAPut'
  BY <1>2 DEF ExitWorker, NginxInv, StoredByAPut
<1> QED
  BY <1>2, <1>3, <1>4, <1>5 DEF NginxInv

\* Every step of the workers and their requests preserves the invariant.
LEMMA NginxInvStep ==
    ASSUME NginxInv, [NginxNext]_nginxVars
    PROVE  NginxInv'
<1>1. CASE InitWorker \/ InitWorkerFails \/ OtherProcess \/ UNCHANGED nginxVars
  <2>1. UNCHANGED <<store, dbFaults, requestOf>>
    BY <1>1 DEF InitWorker, InitWorkerFails, OtherProcess, nginxVars
  <2>2. {opened', pathSet', running', locked'} \subseteq BOOLEAN
    BY <1>1, Zenon DEF InitWorker, InitWorkerFails, OtherProcess, nginxVars, NginxInv, WorkerTypes
  <2>3. WorkerTypes'
    BY <2>1, <2>2 DEF NginxInv, WorkerTypes
  <2> QED
    BY <2>1, <2>3 DEF NginxInv, StoredByAPut
<1>2. CASE ExitWorker
  BY <1>2, ExitWorkerStep
<1>3. ASSUME NEW r \in Requests, NEW method \in Methods, NEW uri \in Uris, NEW key \in LevelKeys,
             NEW value \in Values \cup {None}, Arrive(r, method, uri, key, value)
      PROVE  NginxInv'
  <2> DEFINE q == [state |-> "header", method |-> method, uri |-> uri, key |-> key,
                   value |-> value, status |-> 0, kept |-> None, seen |-> None]
  <2>1. q \in Request /\ GoodRequest(q)
    BY DEF Request, RequestStates, StatusCodes, Outcomes, GoodRequest
  <2>2. /\ requestOf' = [requestOf EXCEPT ![r] = q] /\ requestOf[r].state = "none"
        /\ UNCHANGED <<opened, pathSet, running, locked, store, dbFaults>>
    BY <1>3 DEF Arrive
  <2>3. WorkerTypes'
    BY <2>2 DEF NginxInv, WorkerTypes
  <2> HIDE DEF q
  <2> QED
    BY <2>1, <2>2, <2>3, RequestReplaced
<1>4. ASSUME NEW r \in Requests, PutHeader(r) PROVE NginxInv'
  <2> DEFINE q == [requestOf[r] EXCEPT !.state = "body"]
  <2>1. /\ requestOf' = [requestOf EXCEPT ![r] = q]
        /\ requestOf[r].state = "header" /\ requestOf[r].uri = "/put/"
        /\ UNCHANGED <<opened, pathSet, running, locked, store, dbFaults>>
    BY <1>4 DEF PutHeader
  <2>2. requestOf[r] \in Request /\ GoodRequest(requestOf[r])
    BY DEF NginxInv
  <2>3. q \in Request /\ GoodRequest(q)
    BY <2>1, <2>2 DEF Request, RequestStates, GoodRequest
  <2>4. WorkerTypes'
    BY <2>1 DEF NginxInv, WorkerTypes
  <2> HIDE DEF q
  <2> QED
    BY <2>1, <2>3, <2>4, RequestReplaced
<1>5. ASSUME NEW r \in Requests, PutBodyFails(r) PROVE NginxInv'
  <2>1. /\ requestOf' = [requestOf EXCEPT ![r] = Answered(r, 500)]
        /\ requestOf[r].state = "body"
        /\ UNCHANGED <<opened, pathSet, running, locked, store, dbFaults>>
    BY <1>5 DEF PutBodyFails
  <2>2. requestOf[r] \in Request /\ GoodRequest(requestOf[r])
    BY DEF NginxInv
  <2>3. Answered(r, 500) \in Request /\ GoodRequest(Answered(r, 500))
    BY <2>2, AnsweredPlainly DEF StatusCodes
  <2>4. WorkerTypes'
    BY <2>1 DEF NginxInv, WorkerTypes
  <2> QED
    BY <2>1, <2>3, <2>4, RequestReplaced
<1> QED
  BY <1>1, <1>2, <1>3, <1>4, <1>5, RejectStep, GetStep, CommandPutStep DEF NginxNext

\* A step answers a PUT with 200 and LevelDB's consent only where it stores it.
LEMMA AcceptedStep ==
    ASSUME NginxInv, NginxNext, NEW r \in Requests,
           requestOf'[r].status = 200, requestOf[r].status # 200, requestOf'[r].kept = "ok"
    PROVE  store'[requestOf[r].key] = requestOf[r].value
<1>0. requestOf \in [Requests -> Request] /\ store \in [LevelKeys -> Values \cup {None}]
  BY DEF NginxInv, WorkerTypes
<1>1. ASSUME NEW s \in Requests, NEW q, requestOf' = [requestOf EXCEPT ![s] = q],
             q.status # 200 \/ q.kept # "ok"
      PROVE  FALSE
  BY <1>0, <1>1
<1>2. ASSUME NEW s \in Requests, NEW status \in Nat PROVE Answered(s, status).status = status
  BY <1>0 DEF Answered, Request
<1>3. ASSUME NEW s \in Requests, CommandPut(s)
      PROVE  store'[requestOf[r].key] = requestOf[r].value
  <2>1. Answered(s, 500).status = 500
    BY <1>2
  <2>2. ASSUME NEW kept PROVE [Answered(s, 200) EXCEPT !.kept = kept].kept = kept
    BY <1>0 DEF Answered, Request
  <2>3. CASE requestOf' = [requestOf EXCEPT ![s] = Answered(s, 500)]
    BY <1>1, <2>1, <2>3
  <2>4. ASSUME NEW kept \in {"empty", "error"},
               requestOf' = [requestOf EXCEPT ![s] = [Answered(s, 200) EXCEPT !.kept = kept]]
        PROVE  FALSE
    BY <1>1, <2>2, <2>4
  <2>5. CASE /\ requestOf' = [requestOf EXCEPT ![s] = [Answered(s, 200) EXCEPT !.kept = "ok"]]
             /\ store' = [store EXCEPT ![requestOf[s].key] = requestOf[s].value]
    <3>1. s = r
      BY <1>0, <2>5
    <3>2. requestOf[s].key \in LevelKeys
      BY <1>3, CommandPutCases
    <3> QED
      BY <1>0, <2>5, <3>1, <3>2
  <2> QED
    BY <1>3, <2>3, <2>4, <2>5, CommandPutCases
<1>4. ASSUME NEW s \in Requests, Reject(s) PROVE FALSE
  <2>1. PICK status \in {400, 404, 405, 413} :
            requestOf' = [requestOf EXCEPT ![s] = Answered(s, status)]
    BY <1>4, RejectStatus
  <2> QED
    BY <1>1, <1>2, <2>1
<1>5. ASSUME NEW s \in Requests, Get(s) PROVE FALSE
  <2>1. PICK result \in LevelDB_Get(requestOf[s].key) :
            requestOf' = [requestOf EXCEPT ![s] =
                [Answered(s, GetStatus(result)) EXCEPT
                    !.seen = store[requestOf[s].key],
                    !.kept = IF result = -1 THEN "error" ELSE "ok"]]
    BY <1>5 DEF Get
  <2>2. GetStatus(result) \in {204, 500}
    BY DEF GetStatus, LevelDB_Get
  <2>3. ASSUME NEW kept, NEW seen
        PROVE  [Answered(s, GetStatus(result)) EXCEPT !.seen = seen, !.kept = kept].status
                   = GetStatus(result)
    BY <1>0, <2>2 DEF Answered, Request
  <2> QED
    BY <1>1, <2>1, <2>2, <2>3
<1>6. ASSUME NEW s \in Requests, PutHeader(s) PROVE FALSE
  BY <1>0, <1>6 DEF PutHeader, Request
<1>7. ASSUME NEW s \in Requests, PutBodyFails(s) PROVE FALSE
  BY <1>1, <1>2, <1>7 DEF PutBodyFails
<1>8. ASSUME NEW s \in Requests, NEW method, NEW uri, NEW key, NEW value,
             Arrive(s, method, uri, key, value)
      PROVE  FALSE
  BY <1>1, <1>8 DEF Arrive
<1>9. CASE InitWorker \/ InitWorkerFails \/ OtherProcess
  BY <1>9 DEF InitWorker, InitWorkerFails, OtherProcess, nginxVars
<1>10. CASE ExitWorker
  BY <1>0, <1>10 DEF ExitWorker, Request
<1> QED
  BY <1>3, <1>4, <1>5, <1>6, <1>7, <1>8, <1>9, <1>10 DEF NginxNext

\* However requests are interleaved, the worker restarted and LevelDB fails: what
\* the database holds was put there by an accepted PUT, a PUT is accepted with
\* LevelDB's consent only where it is stored, and "no content" is true.
THEOREM NginxCorrect == NginxSpec => RequestsAreAnswered
<1>1. NginxInv /\ [NginxNext]_nginxVars => NginxInv'
  BY NginxInvStep
<1>2. NginxInv => NginxTypeOK /\ StoredByAPut /\ NoContentIsTrue
  <2> SUFFICES ASSUME NginxInv PROVE NginxTypeOK /\ StoredByAPut /\ NoContentIsTrue
    OBVIOUS
  <2>1. NginxTypeOK
    BY DEF NginxInv, WorkerTypes, Request, RequestStates, StatusCodes, Outcomes,
           NginxTypeOK
  <2>2. NoContentIsTrue
    BY DEF NginxInv, NoContentIsTrue, GoodRequest
  <2> QED
    BY <2>1, <2>2 DEF NginxInv
<1>3. NginxInv /\ [NginxNext]_nginxVars =>
        [\A r \in Requests :
            requestOf'[r].status = 200 /\ requestOf[r].status # 200 /\ requestOf'[r].kept = "ok"
                => store'[requestOf[r].key] = requestOf[r].value]_nginxVars
  BY AcceptedStep DEF nginxVars
<1> QED
  BY <1>1, <1>2, <1>3, NginxInvInit, PTL DEF NginxSpec, RequestsAreAnswered, AcceptedIsStored

-----------------------------------------------------------------------------
(* The SQLite client: StatementsAreKept.                                    *)

\* Numbers are given out in order, so a new connection or statement is new.
HandlesInv ==
    /\ sqlBudget \in [opened : Nat, prepared : Nat, locks : Nat, scripts : Nat]
    /\ db \in 0 .. sqlBudget.opened
    /\ connections \subseteq 1 .. sqlBudget.opened
    /\ db # 0 => db \in connections
    /\ DOMAIN prepared \subseteq 1 .. sqlBudget.prepared
    /\ prepared \in [DOMAIN prepared -> [conn : connections, failed : BOOLEAN]]

\* A step is taken on a statement that its object holds.
OwnersInv ==
    /\ lostAssign \in BOOLEAN
    /\ DOMAIN stmtOf \subseteq Objects
    /\ stmtOf \in [DOMAIN stmtOf -> 0 .. sqlBudget.prepared]
    /\ sqlPc = "step" => ~lostAssign /\ stepping \in DOMAIN stmtOf /\ stmtOf[stepping] # 0
    /\ StatementsHaveOneOwner

\* During Execute the statements before the next one were executed, the last one
\* was not, and how often the others were is bounded by the locks waited for.
RunsInv ==
    /\ script.length \in Nat \ {0}
    /\ script.next \in 1 .. script.length
    /\ script.runs \in [1 .. script.length -> Nat]
    /\ script.runs[script.length] = 0
    /\ \A i \in 1 .. script.length :
          /\ i < script.next => script.runs[i] >= 1
          /\ \/ script.runs[i] <= sqlBudget.locks
             \/ ~lockedByOther /\ i < script.next /\ script.runs[i] = 1 + sqlBudget.locks

ScriptInv ==
    /\ sqlPc \in {"idle", "exec", "step", "returned", "threw"}
    /\ script \in [length : Nat, next : Nat, runs : [1 .. script.length -> Nat]]
    /\ sqlPc = "exec" => RunsInv
    /\ ScriptRunsToItsEnd

SqliteInv == HandlesInv /\ OwnersInv /\ ScriptInv

\* At the start no object has a statement.
LEMMA SqliteInvInit == SqliteInit => SqliteInv
<1> SUFFICES ASSUME SqliteInit PROVE SqliteInv
  OBVIOUS
<1>1. HandlesInv
  BY DEF SqliteInit, HandlesInv
<1>2. OwnersInv
  BY DEF SqliteInit, OwnersInv, StatementsHaveOneOwner, Held
<1>3. ScriptInv
  BY DEF SqliteInit, ScriptInv, NoScript, ScriptRunsToItsEnd
<1> QED
  BY <1>1, <1>2, <1>3 DEF SqliteInv

\* What Spend does to the counters.
LEMMA Spent ==
    ASSUME sqlBudget \in [opened : Nat, prepared : Nat, locks : Nat, scripts : Nat]
    PROVE  /\ Spend("opened") => sqlBudget' = [sqlBudget EXCEPT !.opened = @ + 1]
           /\ Spend("prepared") => sqlBudget' = [sqlBudget EXCEPT !.prepared = @ + 1]
           /\ Spend("locks") => sqlBudget' = [sqlBudget EXCEPT !.locks = @ + 1]
           /\ Spend("scripts") => sqlBudget' = [sqlBudget EXCEPT !.scripts = @ + 1]
BY DEF Spend

-----------------------------------------------------------------------------
(* Connections and statements.                                              *)

\* Neither Close nor the Close that Open begins with takes the connection of a
\* live statement away.
LEMMA CloseKeeps ==
    ASSUME HandlesInv
    PROVE  /\ ConnectionsAfterClose \subseteq connections
           /\ \A s \in DOMAIN prepared : prepared[s].conn \in ConnectionsAfterClose
           /\ ~Closed => ConnectionsAfterClose = connections
           /\ 0 \notin connections
BY DEF HandlesInv, ConnectionsAfterClose, Closed, MayClose

\* Each step preserves what is known of handles and live statements.
LEMMA HandlesStep ==
    ASSUME SqliteInv, SqliteNext
    PROVE  HandlesInv'
<1> USE SqliteAssumption DEF SqliteInv
<1>0. HandlesInv
  OBVIOUS
<1>1. CASE CloseDatabase
  BY <1>0, <1>1, CloseKeeps DEF CloseDatabase, HandlesInv
<1>2. CASE OpenDatabase
  <2>1. sqlBudget' = [sqlBudget EXCEPT !.opened = @ + 1] /\ UNCHANGED prepared
    BY <1>2, Spent DEF OpenDatabase, HandlesInv
  <2>2. \/ /\ db' = sqlBudget.opened + 1
           /\ connections' = ConnectionsAfterClose \cup {sqlBudget.opened + 1}
        \/ db' = 0 /\ connections' = ConnectionsAfterClose
    BY <1>2 DEF OpenDatabase
  <2> QED
    BY <1>0, <2>1, <2>2, CloseKeeps DEF HandlesInv
<1>3. ASSUME NEW n \in ScriptLengths, ExecuteScript(n) PROVE HandlesInv'
  BY <1>3, Spent, SMTT(30) DEF ExecuteScript, HandlesInv
<1>4. CASE ExecuteNext \/ ScriptEnds \/ OtherUnlocks
  BY <1>4 DEF ExecuteNext, ScriptEnds, OtherUnlocks, HandlesInv
<1>5. CASE OtherLocks
  BY <1>5, Spent DEF OtherLocks, HandlesInv
<1>6. CASE SqliteStep
  <2>1. PICK failure \in BOOLEAN :
            prepared' = [prepared EXCEPT ![stmtOf[stepping]].failed = failure]
    BY <1>6, Zenon DEF SqliteStep, StepEnds
  <2>2. UNCHANGED <<db, connections, sqlBudget>>
    BY <1>6 DEF SqliteStep
  <2> QED
    BY <2>1, <2>2 DEF HandlesInv
<1>7. ASSUME NEW o \in Objects, Construct(o) PROVE HandlesInv'
  <2>1. sqlBudget' = [sqlBudget EXCEPT !.prepared = @ + 1] /\ UNCHANGED <<db, connections>>
    BY <1>7, Spent DEF Construct, HandlesInv
  <2>2. \/ prepared' = WithPrepared(prepared, FreshStatement)
        \/ UNCHANGED prepared
    BY <1>7 DEF Construct
  <2>3. db \in connections
    BY <1>7 DEF Construct, MayPrepare, HandlesInv
  <2>4. CASE UNCHANGED prepared
    BY <2>1, <2>4 DEF HandlesInv
  <2>5. CASE prepared' = WithPrepared(prepared, FreshStatement)
    BY <2>1, <2>3, <2>5 DEF HandlesInv, WithPrepared, FreshStatement
  <2> QED
    BY <2>2, <2>4, <2>5
<1>8. ASSUME NEW o \in Objects, AssignPrepared(o) PROVE HandlesInv'
  <2>1. sqlBudget' = [sqlBudget EXCEPT !.prepared = @ + 1] /\ UNCHANGED <<db, connections>>
    BY <1>8, Spent DEF AssignPrepared, HandlesInv
  <2>2. prepared' = WithPrepared(PreparedAfterFinalize(stmtOf[o]), FreshStatement)
    BY <1>8 DEF AssignPrepared
  <2>3. db \in connections
    BY <1>8 DEF AssignPrepared, MayPrepare, HandlesInv
  <2> QED
    BY <2>1, <2>2, <2>3 DEF HandlesInv, WithPrepared, FreshStatement, PreparedAfterFinalize, Restrict
<1>9. ASSUME NEW o \in Objects, NEW other \in Objects, MoveConstruct(o, other) PROVE HandlesInv'
  BY <1>9 DEF MoveConstruct, HandlesInv
<1>10. ASSUME NEW o \in Objects, NEW other \in Objects, Assign(o, other) PROVE HandlesInv'
  BY <1>10 DEF Assign, HandlesInv, PreparedAfterFinalize, Restrict
<1>11. ASSUME NEW o \in Objects, DestroyStatement(o) PROVE HandlesInv'
  BY <1>11 DEF DestroyStatement, HandlesInv, PreparedAfterFinalize, Restrict
<1>12. ASSUME NEW o \in Objects, StartStep(o) PROVE HandlesInv'
  BY <1>12 DEF StartStep, HandlesInv
<1>13. ASSUME NEW o \in Objects, ResetStatement(o) PROVE HandlesInv'
  BY <1>13 DEF ResetStatement, HandlesInv
<1> QED
  BY <1>1, <1>2, <1>3, <1>4, <1>5, <1>6, <1>7, <1>8, <1>9, <1>10, <1>11, <1>12, <1>13
     DEF SqliteNext

\* The objects of f hold the statements D, each statement by one object.
OneOwner(f, D) ==
    /\ \A s \in D : s # 0 /\ \E o \in DOMAIN f : f[o] = s
    /\ \A o \in DOMAIN f : f[o] # 0 => f[o] \in D
    /\ \A o, p \in DOMAIN f : f[o] = f[p] /\ f[o] # 0 => o = p

\* StatementsHaveOneOwner, object by object.
LEMMA OneOwnerMeaning ==
    StatementsHaveOneOwner <=> (~lostAssign => OneOwner(stmtOf, DOMAIN prepared))
<1>1. Held = DOMAIN prepared <=>
        /\ \A s \in DOMAIN prepared : s # 0 /\ \E o \in DOMAIN stmtOf : stmtOf[o] = s
        /\ \A o \in DOMAIN stmtOf : stmtOf[o] # 0 => stmtOf[o] \in DOMAIN prepared
  BY DEF Held
<1> QED
  BY <1>1 DEF StatementsHaveOneOwner, OneOwner

\* An object, new or not, gets a new statement and gives up the one it had.
LEMMA NewOwner ==
    ASSUME NEW f, NEW D, OneOwner(f, D), NEW o, NEW s, s \notin D, s # 0,
           NEW E, E = {t \in D : o \notin DOMAIN f \/ t # f[o]} \cup {s},
           NEW g, g = [p \in DOMAIN f \cup {o} |-> IF p = o THEN s ELSE f[p]]
    PROVE  OneOwner(g, E)
<1>1. DOMAIN g = DOMAIN f \cup {o}
  OBVIOUS
<1>2. \A p \in DOMAIN g : g[p] = IF p = o THEN s ELSE f[p]
  OBVIOUS
<1>3. ASSUME NEW t \in E PROVE t # 0 /\ \E p \in DOMAIN g : g[p] = t
  BY <1>1, <1>2 DEF OneOwner
<1>4. ASSUME NEW p \in DOMAIN g, g[p] # 0 PROVE g[p] \in E
  BY <1>1, <1>2, <1>4 DEF OneOwner
<1>5. ASSUME NEW p \in DOMAIN g, NEW q \in DOMAIN g, g[p] = g[q], g[p] # 0 PROVE p = q
  BY <1>1, <1>2, <1>5 DEF OneOwner
<1> QED
  BY <1>3, <1>4, <1>5 DEF OneOwner

\* A statement moves from one object to another, which gives up the one it had.
LEMMA MovedOwner ==
    ASSUME NEW f, NEW D, OneOwner(f, D), NEW o, NEW other \in DOMAIN f,
           NEW E, E = {t \in D : o \notin DOMAIN f \/ t # f[o]},
           NEW g, DOMAIN g = DOMAIN f \cup {o},
           \A p \in DOMAIN g : g[p] = IF p = other THEN 0
                                      ELSE IF p = o THEN f[other] ELSE f[p]
    PROVE  OneOwner(g, E)
<1>1. ASSUME NEW t \in E PROVE t # 0 /\ \E p \in DOMAIN g : g[p] = t
  <2>1. PICK p \in DOMAIN f : f[p] = t /\ t # 0
    BY DEF OneOwner
  <2>2. p # o
    BY <2>1
  <2>3. CASE p = other
    BY <2>1, <2>2, <2>3
  <2>4. CASE p # other
    BY <2>1, <2>2, <2>4
  <2> QED
    BY <2>3, <2>4
<1>2. ASSUME NEW p \in DOMAIN g, g[p] # 0 PROVE g[p] \in E
  BY <1>2 DEF OneOwner
<1>3. ASSUME NEW p \in DOMAIN g, NEW q \in DOMAIN g, g[p] = g[q], g[p] # 0 PROVE p = q
  BY <1>3 DEF OneOwner
<1> QED
  BY <1>1, <1>2, <1>3 DEF OneOwner

\* The conjuncts of OwnersInv after a step in which no SqliteStep is going on.
LEMMA OwnersKept ==
    ASSUME NEW n \in Nat, sqlBudget'.prepared = n, sqlPc' # "step",
           DOMAIN stmtOf' \subseteq Objects, stmtOf' \in [DOMAIN stmtOf' -> 0 .. n],
           lostAssign' \in BOOLEAN,
           ~lostAssign' => OneOwner(stmtOf', DOMAIN prepared')
    PROVE  OwnersInv'
<1>1. (StatementsHaveOneOwner <=> (~lostAssign => OneOwner(stmtOf, DOMAIN prepared)))'
  BY OneOwnerMeaning, PTL
<1> QED
  BY <1>1 DEF OwnersInv

\* Each step preserves that a statement has one owner.
LEMMA OwnersStep ==
    ASSUME SqliteInv, SqliteNext
    PROVE  OwnersInv'
<1>0. /\ OwnersInv
      /\ sqlBudget \in [opened : Nat, prepared : Nat, locks : Nat, scripts : Nat]
      /\ ~lostAssign => OneOwner(stmtOf, DOMAIN prepared)
      /\ DOMAIN prepared \subseteq 1 .. sqlBudget.prepared
  BY OneOwnerMeaning DEF SqliteInv, OwnersInv, HandlesInv
<1>1. ASSUME UNCHANGED <<stmtOf, lostAssign>>, DOMAIN prepared' = DOMAIN prepared,
             sqlBudget'.prepared = sqlBudget.prepared,
             sqlPc' # "step" \/ UNCHANGED <<sqlPc, stepping>>
      PROVE  OwnersInv'
  BY <1>0, <1>1 DEF OwnersInv, StatementsHaveOneOwner, Held
<1>2. CASE CloseDatabase \/ ScriptEnds \/ OtherUnlocks \/ ExecuteNext
  BY <1>1, <1>2 DEF CloseDatabase, ExecuteNext, ScriptEnds, OtherUnlocks
<1>3. CASE OpenDatabase
  BY <1>0, <1>1, <1>3, Spent DEF OpenDatabase
<1>4. ASSUME NEW n \in ScriptLengths, ExecuteScript(n) PROVE OwnersInv'
  BY <1>0, <1>1, <1>4, Spent DEF ExecuteScript
<1>5. CASE OtherLocks
  BY <1>0, <1>1, <1>5, Spent DEF OtherLocks
<1>6. CASE SqliteStep
  <2>1. /\ UNCHANGED <<stmtOf, lostAssign, sqlBudget>> /\ sqlPc' = "idle"
        /\ DOMAIN prepared' = DOMAIN prepared
    BY <1>6 DEF SqliteStep, StepEnds
  <2> QED
    BY <1>1, <2>1
<1>7. ASSUME NEW o \in Objects, ResetStatement(o) PROVE OwnersInv'
  BY <1>1, <1>7 DEF ResetStatement
<1>8. ASSUME NEW o \in Objects, StartStep(o) PROVE OwnersInv'
  BY <1>0, <1>8 DEF StartStep, OwnersInv, StatementsHaveOneOwner, Held
<1> DEFINE fresh == sqlBudget.prepared + 1
           Numbers == 0 .. sqlBudget.prepared
<1>9. /\ fresh \notin DOMAIN prepared /\ fresh # 0 /\ sqlBudget.prepared \in Nat /\ fresh \in Nat
      /\ Numbers \subseteq 0 .. fresh /\ fresh \in 0 .. fresh /\ 0 \in Numbers
      /\ DOMAIN stmtOf \subseteq Objects /\ \A o \in DOMAIN stmtOf : stmtOf[o] \in Numbers
      /\ lostAssign \in BOOLEAN
  BY <1>0 DEF OwnersInv
<1>10. ASSUME NEW o \in Objects, Construct(o) PROVE OwnersInv'
  <2>1. /\ sqlBudget'.prepared = fresh /\ UNCHANGED <<sqlPc, lostAssign>>
        /\ sqlPc = "idle" /\ o \notin DOMAIN stmtOf
    BY <1>0, <1>10, Spent DEF Construct, MayPrepare
  <2> HIDE DEF fresh, Numbers
  <2>2. CASE UNCHANGED <<prepared, stmtOf>>
    <3>1. stmtOf \in [DOMAIN stmtOf -> 0 .. fresh]
      BY <1>0, <1>9 DEF OwnersInv
    <3> QED
      BY <1>0, <1>9, <2>1, <2>2, <3>1, OwnersKept
  <2>3. CASE prepared' = WithPrepared(prepared, FreshStatement) /\ Holds(o, FreshStatement)
    <3>1. DOMAIN prepared' = DOMAIN prepared \cup {fresh}
      BY <2>3 DEF WithPrepared, FreshStatement, fresh
    <3>2. stmtOf' = [p \in DOMAIN stmtOf \cup {o} |-> IF p = o THEN fresh ELSE stmtOf[p]]
      BY <2>3 DEF Holds, FreshStatement, fresh
    <3>3. DOMAIN stmtOf' \subseteq Objects /\ stmtOf' \in [DOMAIN stmtOf' -> 0 .. fresh]
      BY <1>9, <3>2
    <3>4. DOMAIN prepared' = {t \in DOMAIN prepared : o \notin DOMAIN stmtOf \/ t # stmtOf[o]} \cup {fresh}
      BY <2>1, <3>1
    <3>5. ~lostAssign' => OneOwner(stmtOf', DOMAIN prepared')
      BY <1>0, <1>9, <2>1, <3>2, <3>4, NewOwner
    <3> QED
      BY <1>9, <2>1, <3>3, <3>5, OwnersKept
  <2> QED
    BY <1>10, <2>2, <2>3 DEF Construct
<1>11. ASSUME NEW o \in Objects, AssignPrepared(o) PROVE OwnersInv'
  <2>1. /\ sqlBudget'.prepared = fresh /\ UNCHANGED sqlPc
        /\ sqlPc = "idle" /\ o \in DOMAIN stmtOf /\ ~lostAssign
        /\ prepared' = WithPrepared(PreparedAfterFinalize(stmtOf[o]), FreshStatement)
    BY <1>0, <1>11, Spent DEF AssignPrepared, MayPrepare
  <2> HIDE DEF fresh, Numbers
  <2>2. CASE lostAssign' = TRUE /\ UNCHANGED stmtOf
    <3>1. stmtOf \in [DOMAIN stmtOf -> 0 .. fresh]
      BY <1>0, <1>9 DEF OwnersInv
    <3> QED
      BY <1>9, <2>1, <2>2, <3>1, OwnersKept
  <2>3. CASE Holds(o, FreshStatement) /\ UNCHANGED lostAssign
    <3>1. DOMAIN prepared' = (DOMAIN prepared \ {stmtOf[o]}) \cup {fresh}
      BY <2>1 DEF WithPrepared, PreparedAfterFinalize, Restrict, FreshStatement, fresh
    <3>2. stmtOf' = [p \in DOMAIN stmtOf \cup {o} |-> IF p = o THEN fresh ELSE stmtOf[p]]
      BY <2>3 DEF Holds, FreshStatement, fresh
    <3>3. DOMAIN stmtOf' \subseteq Objects /\ stmtOf' \in [DOMAIN stmtOf' -> 0 .. fresh]
      BY <1>9, <3>2
    <3>4. DOMAIN prepared' = {t \in DOMAIN prepared : o \notin DOMAIN stmtOf \/ t # stmtOf[o]} \cup {fresh}
      BY <2>1, <3>1
    <3>5. ~lostAssign' => OneOwner(stmtOf', DOMAIN prepared')
      BY <1>0, <1>9, <2>1, <3>2, <3>4, NewOwner
    <3> QED
      BY <1>9, <2>1, <2>3, <3>3, <3>5, OwnersKept
  <2> QED
    BY <1>11, <2>2, <2>3 DEF AssignPrepared
<1>12. ASSUME NEW o \in Objects, NEW other \in Objects, MoveConstruct(o, other) PROVE OwnersInv'
  <2>1. /\ o \notin DOMAIN stmtOf /\ other \in DOMAIN stmtOf
        /\ UNCHANGED <<sqlBudget, sqlPc, lostAssign>> /\ ~lostAssign /\ sqlPc = "idle"
        /\ DOMAIN stmtOf' = DOMAIN stmtOf \cup {o}
        /\ \A p \in DOMAIN stmtOf' : stmtOf'[p] = IF p = other THEN 0
                                                  ELSE IF p = o THEN stmtOf[other] ELSE stmtOf[p]
        /\ stmtOf' \in [DOMAIN stmtOf' -> Numbers]
    BY <1>9, <1>12 DEF MoveConstruct, OtherAfterMove
  <2> HIDE DEF fresh, Numbers
  <2>2. DOMAIN prepared' = {t \in DOMAIN prepared : o \notin DOMAIN stmtOf \/ t # stmtOf[o]}
    BY <1>12, <2>1 DEF MoveConstruct
  <2>3. ~lostAssign' => OneOwner(stmtOf', DOMAIN prepared')
    BY <1>0, <2>1, <2>2, MovedOwner
  <2> QED
    BY <1>9, <2>1, <2>3, OwnersKept DEF Numbers
<1>13. ASSUME NEW o \in Objects, NEW other \in Objects, Assign(o, other) PROVE OwnersInv'
  <2>1. /\ o \in DOMAIN stmtOf /\ other \in DOMAIN stmtOf
        /\ UNCHANGED <<sqlBudget, sqlPc>> /\ ~lostAssign /\ sqlPc = "idle"
        /\ prepared' = PreparedAfterFinalize(stmtOf[o])
    BY <1>13 DEF Assign
  <2>2. CASE lostAssign' = TRUE /\ UNCHANGED stmtOf
    BY <1>0, <1>9, <2>1, <2>2, OwnersKept DEF OwnersInv
  <2>3. CASE /\ stmtOf' = [stmtOf EXCEPT ![o] = IF o = other THEN 0 ELSE stmtOf[other],
                                         ![other] = OtherAfterMove(other)]
             /\ UNCHANGED lostAssign
    <3>1. /\ DOMAIN stmtOf' = DOMAIN stmtOf \cup {o}
          /\ \A p \in DOMAIN stmtOf' : stmtOf'[p] = IF p = other THEN 0
                                                    ELSE IF p = o THEN stmtOf[other] ELSE stmtOf[p]
          /\ stmtOf' \in [DOMAIN stmtOf' -> Numbers]
      BY <1>0, <1>9, <2>1, <2>3 DEF OtherAfterMove, OwnersInv
    <3> HIDE DEF fresh, Numbers
    <3>2. DOMAIN prepared' = {t \in DOMAIN prepared : o \notin DOMAIN stmtOf \/ t # stmtOf[o]}
      BY <2>1 DEF PreparedAfterFinalize, Restrict
    <3>3. ~lostAssign' => OneOwner(stmtOf', DOMAIN prepared')
      BY <1>0, <2>1, <3>1, <3>2, MovedOwner
    <3> QED
      BY <1>9, <2>1, <2>3, <3>1, <3>3, OwnersKept DEF Numbers
  <2> QED
    BY <1>13, <2>2, <2>3 DEF Assign
<1>14. ASSUME NEW o \in Objects, DestroyStatement(o) PROVE OwnersInv'
  <2>1. /\ o \in DOMAIN stmtOf
        /\ UNCHANGED <<sqlBudget, sqlPc, lostAssign>> /\ ~lostAssign /\ sqlPc = "idle"
        /\ DOMAIN stmtOf' = DOMAIN stmtOf \ {o}
        /\ \A p \in DOMAIN stmtOf' : stmtOf'[p] = stmtOf[p]
        /\ stmtOf' \in [DOMAIN stmtOf' -> Numbers]
        /\ DOMAIN prepared' = DOMAIN prepared \ {stmtOf[o]}
    BY <1>9, <1>14 DEF DestroyStatement, PreparedAfterFinalize, Restrict
  <2> HIDE DEF fresh, Numbers
  <2>2. ~lostAssign' => OneOwner(stmtOf', DOMAIN prepared')
    BY <1>0, <2>1 DEF OneOwner
  <2> QED
    BY <1>9, <2>1, <2>2, OwnersKept DEF Numbers
<1> QED
  BY <1>2, <1>3, <1>4, <1>5, <1>6, <1>7, <1>8, <1>10, <1>11, <1>12, <1>13, <1>14
     DEF SqliteNext

-----------------------------------------------------------------------------
(* Scripts.                                                                 *)

\* Steps that leave the script and the locks alone.
LEMMA ScriptSame ==
    ASSUME ScriptInv, UNCHANGED <<script, lockedByOther>>, sqlBudget'.locks = sqlBudget.locks,
           sqlPc' = sqlPc \/ sqlPc' \in {"idle", "step"}
    PROVE  ScriptInv'
BY DEF ScriptInv, RunsInv, ScriptRunsToItsEnd

\* One statement of a script is executed, waits for a lock, or fails.
LEMMA ExecuteNextStep ==
    ASSUME SqliteInv, ExecuteNext
    PROVE  ScriptInv'
<1>0. /\ sqlPc = "exec" /\ RunsInv /\ sqlBudget.locks \in Nat
      /\ script \in [length : Nat, next : Nat, runs : [1 .. script.length -> Nat]]
      /\ UNCHANGED <<sqlBudget, lockedByOther>>
  BY DEF ExecuteNext, SqliteInv, HandlesInv, ScriptInv
<1> DEFINE n == script.next
           l == script.length
<1>1. CASE /\ ~lockedByOther
           /\ script' = [script EXCEPT !.next = @ + 1, !.runs[script.next] = @ + 1]
           /\ sqlPc' = IF script.next = script.length THEN "returned" ELSE "exec"
  <2> DEFINE runs == [script.runs EXCEPT ![n] = @ + 1]
             advanced == [script EXCEPT !.next = @ + 1]
  <2>0. /\ runs \in [1 .. l -> Nat] /\ n + 1 \in Nat /\ l \in Nat
        /\ script' = [advanced EXCEPT !.runs = runs]
        /\ advanced \in [length : Nat, next : Nat, runs : [1 .. l -> Nat]]
        /\ advanced.length = l /\ advanced.next = n + 1
    BY <1>0, <1>1 DEF RunsInv
  <2>1. /\ script'.length = l /\ script'.next = n + 1
        /\ script'.runs = [script.runs EXCEPT ![n] = @ + 1]
        /\ script' \in [length : Nat, next : Nat, runs : [1 .. l -> Nat]]
    <3> HIDE DEF runs, advanced
    <3>1. /\ script'.length = l /\ script'.next = n + 1 /\ script'.runs = runs
          /\ script' \in [length : Nat, next : Nat, runs : [1 .. l -> Nat]]
      BY <2>0
    <3> QED
      BY <3>1 DEF runs
  <2>2. /\ n \in 1 .. l /\ l \in Nat \ {0}
        /\ script.runs[l] = 0
        /\ \A i \in 1 .. l :
              /\ script.runs[i] \in Nat
              /\ script'.runs[i] = IF i = n THEN script.runs[i] + 1 ELSE script.runs[i]
              /\ i < n => script.runs[i] >= 1
              /\ \/ script.runs[i] <= sqlBudget.locks
                 \/ i < n /\ script.runs[i] = 1 + sqlBudget.locks
    BY <1>0, <2>1 DEF RunsInv
  <2>3. \A i \in 1 .. l :
           /\ i <= n => script'.runs[i] >= 1
           /\ \/ script'.runs[i] <= sqlBudget.locks
              \/ i <= n /\ script'.runs[i] = 1 + sqlBudget.locks
    BY <1>0, <2>2
  <2>4. CASE n = l
    <3>1. sqlPc' = "returned" /\ script'.runs[l] = 1
      BY <1>1, <2>2, <2>4
    <3>2. \A i \in 1 .. l : script'.runs[i] \in 1 .. 1 + sqlBudget.locks
      BY <1>0, <2>2, <2>3, <2>4
    <3> QED
      BY <1>0, <2>1, <3>1, <3>2 DEF ScriptInv, ScriptRunsToItsEnd
  <2>5. CASE n # l
    <3>1. sqlPc' = "exec" /\ script'.runs[l] = 0 /\ n + 1 \in 1 .. l
      BY <1>1, <2>2, <2>5
    <3>2. RunsInv'
      BY <1>0, <1>1, <2>1, <2>2, <2>3, <3>1 DEF RunsInv
    <3> QED
      BY <2>1, <3>1, <3>2 DEF ScriptInv, ScriptRunsToItsEnd
  <2> QED
    BY <2>4, <2>5
<1>2. CASE /\ lockedByOther
           /\ script' = [script EXCEPT !.next = NextAfterBusy]
           /\ sqlPc' = IF NextAfterBusy > script.length THEN "returned" ELSE "exec"
  <2>1. sqlPc' = "exec" /\ script'.next = 1 /\ script'.length = l /\ script'.runs = script.runs
        /\ script' \in [length : Nat, next : Nat, runs : [1 .. l -> Nat]]
    BY <1>0, <1>2 DEF NextAfterBusy, RunsInv
  <2>2. RunsInv'
    BY <1>0, <1>2, <2>1 DEF RunsInv
  <2> QED
    BY <2>1, <2>2 DEF ScriptInv, ScriptRunsToItsEnd
<1>3. CASE sqlPc' = "threw" /\ UNCHANGED script
  BY <1>0, <1>3 DEF ScriptInv, ScriptRunsToItsEnd
<1> QED
  BY <1>1, <1>2, <1>3 DEF ExecuteNext

\* Each step preserves what is known of the script in progress.
LEMMA ScriptStep ==
    ASSUME SqliteInv, SqliteNext
    PROVE  ScriptInv'
<1> USE SqliteAssumption DEF SqliteInv
<1>1. CASE CloseDatabase \/ OtherUnlocks
  BY <1>1 DEF CloseDatabase, OtherUnlocks, ScriptInv, RunsInv, ScriptRunsToItsEnd
<1>2. CASE OpenDatabase
  BY <1>2, Spent, ScriptSame DEF OpenDatabase, HandlesInv
<1>3. ASSUME NEW n \in ScriptLengths, ExecuteScript(n) PROVE ScriptInv'
  <2>1. /\ script' = [length |-> n, next |-> 1, runs |-> [i \in 1 .. n |-> 0]]
        /\ sqlPc' = "exec" /\ UNCHANGED lockedByOther
        /\ sqlBudget'.locks = sqlBudget.locks /\ sqlBudget.locks \in Nat
        /\ n \in Nat \ {0}
    BY <1>3, Spent DEF ExecuteScript, HandlesInv
  <2>2. /\ script'.length = n /\ script'.next = 1 /\ script'.runs = [i \in 1 .. n |-> 0]
        /\ script' \in [length : Nat, next : Nat, runs : [1 .. n -> Nat]]
    BY <2>1
  <2>3. RunsInv'
    BY <2>1, <2>2 DEF RunsInv
  <2> QED
    BY <2>1, <2>2, <2>3 DEF ScriptInv, ScriptRunsToItsEnd
<1>4. CASE ExecuteNext
  BY <1>4, ExecuteNextStep
<1>5. CASE ScriptEnds
  BY <1>5 DEF ScriptEnds, NoScript, ScriptInv, ScriptRunsToItsEnd
<1>6. CASE OtherLocks
  <2>1. /\ sqlBudget'.locks = sqlBudget.locks + 1 /\ sqlBudget.locks \in Nat
        /\ lockedByOther' = TRUE /\ UNCHANGED <<sqlPc, script>>
    BY <1>6, Spent DEF OtherLocks, HandlesInv
  <2>2. sqlPc = "exec" => RunsInv'
    BY <2>1, SMTT(30) DEF ScriptInv, RunsInv
  <2>3. ScriptRunsToItsEnd'
    BY <2>1 DEF ScriptInv, ScriptRunsToItsEnd
  <2> QED
    BY <2>1, <2>2, <2>3 DEF ScriptInv
<1>7. CASE SqliteStep
  BY <1>7, ScriptSame DEF SqliteStep, StepEnds
<1>8. ASSUME NEW o \in Objects, Construct(o) \/ AssignPrepared(o) PROVE ScriptInv'
  BY <1>8, Spent, ScriptSame DEF Construct, AssignPrepared, HandlesInv
<1>9. ASSUME NEW o \in Objects, DestroyStatement(o) \/ StartStep(o) \/ ResetStatement(o)
      PROVE  ScriptInv'
  BY <1>9, ScriptSame DEF DestroyStatement, StartStep, ResetStatement
<1>10. ASSUME NEW o \in Objects, NEW other \in Objects, MoveConstruct(o, other) \/ Assign(o, other)
       PROVE  ScriptInv'
  BY <1>10, ScriptSame DEF MoveConstruct, Assign
<1> QED
  BY <1>1, <1>2, <1>3, <1>4, <1>5, <1>6, <1>7, <1>8, <1>9, <1>10 DEF SqliteNext

\* Until an assignment throws, every live statement belongs to exactly one
\* Statement object; its connection is open whatever Close and Open are called;
\* and Execute that waits for locks executes its script to the end.
THEOREM SqliteCorrect == SqliteSpec => []StatementsAreKept
<1>1. SqliteInv /\ [SqliteNext]_sqlVars => SqliteInv'
  <2> SUFFICES ASSUME SqliteInv, [SqliteNext]_sqlVars PROVE SqliteInv'
    OBVIOUS
  <2>1. CASE SqliteNext
    BY <2>1, HandlesStep, OwnersStep, ScriptStep DEF SqliteInv
  <2>2. CASE UNCHANGED sqlVars
    BY <2>2 DEF sqlVars, SqliteInv, HandlesInv, OwnersInv, ScriptInv, RunsInv,
                StatementsHaveOneOwner, Held, ScriptRunsToItsEnd
  <2> QED
    BY <2>1, <2>2
<1>2. SqliteInv => StatementsAreKept
  BY DEF SqliteInv, HandlesInv, OwnersInv, ScriptInv, StatementsAreKept,
         LiveStatementsHaveConnections
<1> QED
  BY <1>1, <1>2, SqliteInvInit, PTL DEF SqliteSpec

-----------------------------------------------------------------------------
(* The PostgreSQL client: RepeatsAreSafe and TransactionsAreWhole.          *)


Queries == {"execute", "begin", "commit", "rollback", "declare", "close", "reopen", "fetch"}
Kinds == Queries \cup {"none", "copy"}
QueryPcs == {"loop", "send", "check", "refused"}
CopyPcs == {"copy", "rows", "cut", "ended", "failed"}
Results == {"none", "success", "error", "lost", "terminated"}
LostResults == {"lost", "terminated"}
Hows == {"none", "ok", "ConnectError", "QueryError", "logic_error", "Exception", "cut"}
TxStates == {"none", "open", "aborted"}

Pcs == {"idle"} \cup QueryPcs \cup CopyPcs
Ids == 0 .. MaxCalls
Attempts == 0 .. (MAX_ATTEMPTS - 1)
RowCounts == 0 .. TableRows

Statements == SUBSET Calls
Session == [alive : BOOLEAN, tx : TxStates, pending : Statements, cursor : BOOLEAN]
Trans == [open : BOOLEAN, clean : BOOLEAN, fresh : BOOLEAN, failed : BOOLEAN, done : Statements]
Call == [pc : Pcs, kind : Kinds, id : Ids, attempt : Attempts, result : Results, rows : RowCounts]
Outcome == [how : Hows, kind : Kinds, id : Ids, result : Results, rows : RowCounts, trans : Trans]

TypesInv ==
    /\ handle \in {"null", "ok", "bad"}
    /\ session \in Session
    /\ durable \in [Calls -> Nat]
    /\ losses \in 0 .. MaxLosses
    /\ current \in Call
    /\ name \in BOOLEAN
    /\ copies \in Nat
    /\ trans \in Trans
    /\ outcome \in Outcome

\* A statement has been answered, or its connection was lost.
AnsweredWell(result) == current.pc = "check" /\ current.result = result
Lost == current.pc = "check" /\ current.result \in LostResults

\* A handle that is not good has no session, a dead session holds nothing, and a
\* session without a transaction neither.
SessionInv ==
    /\ handle # "ok" => ~session.alive
    /\ ~session.alive => session.tx = "none"
    /\ session.tx = "none" => session.pending = {} /\ ~session.cursor

\* The call in progress: its number, its kind and the handle it uses.
CallInv ==
    /\ current.pc = "idle" => current.kind = "none" /\ current.id = 0 /\ current.result = "none"
    /\ current.pc # "idle" => current.id = outcome.id + 1
    /\ current.pc \in QueryPcs => current.kind \in Queries
    /\ current.pc \in CopyPcs => current.kind = "copy" /\ current.result = "none"
    /\ current.pc = "ended" => current.rows = TableRows
    /\ current.pc = "send" => handle = "ok"
    /\ current.pc = "refused" => handle = "bad"
    /\ current.pc = "loop" /\ current.attempt > 0 => handle # "ok"
    /\ current.pc = "check" => current.result # "none"
    /\ Lost => handle = "bad"
    /\ AnsweredWell("success") \/ AnsweredWell("error") => handle = "ok"
    /\ current.kind = "begin" => ~trans.open
    /\ current.kind \in {"commit", "rollback"} => trans.open

\* A statement is carried out at most once per attempt and once more than
\* sessions were lost; what has not been sent is nowhere, and what is pending is
\* not in the database yet.
RepeatInv ==
    /\ RepeatsAreBounded
    /\ \A c \in Calls : c > outcome.id /\ c # current.id => durable[c] = 0 /\ c \notin session.pending
    /\ current.pc # "idle" /\ current.kind # "execute" =>
           durable[current.id] = 0 /\ current.id \notin session.pending
    /\ current.pc \in {"loop", "send"} =>
           /\ durable[current.id] <= current.attempt
           /\ durable[current.id] <= losses
           /\ current.id \notin session.pending
    /\ Lost => durable[current.id] <= current.attempt + 1 /\ durable[current.id] <= losses
    /\ \A c \in session.pending : durable[c] = 0

\* The server is in a transaction only if the user is, or is about to be told so;
\* no second attempt is made inside one, and nothing succeeds in an aborted one.
TxInv ==
    /\ session.tx # "none" => trans.open \/ (current.kind = "begin" /\ AnsweredWell("success"))
    /\ current.kind = "execute" /\ AnsweredWell("success") /\ ~trans.open => durable[current.id] >= 1
    /\ current.kind \in {"begin", "commit", "rollback"} => ~AnsweredWell("error")
    /\ current.kind \in {"commit", "rollback"} /\ AnsweredWell("success") => session.tx = "none"
    /\ session.tx = "aborted" => ~AnsweredWell("success")
    /\ current.pc = "send" /\ current.attempt > 0 => session.tx = "none"
    /\ current.kind = "begin" /\ AnsweredWell("success") /\ session.alive =>
           session.tx = "open" /\ session.pending = {} /\ ~session.cursor
    /\ outcome.kind = "execute" => outcome.id \in Calls
    /\ SuccessIsDurable

\* Every attempt that was lost has cost a session.
LossInv ==
    /\ handle = "ok" /\ ~session.alive => losses >= 1
    /\ current.pc \in {"loop", "send"} => losses >= current.attempt
    /\ current.pc = "send" /\ ~session.alive => losses >= current.attempt + 1
    /\ Lost => losses >= current.attempt + 1
    /\ OneLossIsHidden

\* The transaction was ended by the call in progress; a call of it has failed.
EndAnswered == current.kind \in {"commit", "rollback"} /\ AnsweredWell("success")
Failing == trans.failed \/ AnsweredWell("error") \/ current.pc \in {"failed", "cut"}
InOneSession == trans.open /\ trans.clean

\* A transaction whose session lives: the server holds back exactly what has
\* returned, or has aborted it if anything failed, until the call that ends it.
AtomicInv ==
    /\ InOneSession => session.alive
    /\ \A c \in trans.done : c <= outcome.id
    /\ InOneSession /\ ~EndAnswered =>
           /\ \A c \in trans.done : durable[c] = 0
           /\ session.tx = IF Failing THEN "aborted" ELSE "open"
           /\ ~Failing => session.pending = trans.done \cup
                  (IF current.kind = "execute" /\ AnsweredWell("success") THEN {current.id} ELSE {})
    /\ InOneSession /\ EndAnswered =>
           \A c \in trans.done :
               durable[c] = IF current.kind = "commit" /\ ~trans.failed THEN 1 ELSE 0
    /\ outcome.kind \in {"commit", "rollback"} =>
           /\ \A c \in outcome.trans.done : c <= outcome.id
           /\ \A c \in session.pending : c > outcome.id
    /\ TransactionIsAtomic

\* The object's name and the server's cursor during the calls of a Cursor.
CursorInv ==
    InOneSession /\ trans.fresh /\ ~Failing /\ ~EndAnswered =>
        CASE current.kind = "declare" /\ current.pc # "check" -> ~name /\ ~session.cursor
          [] current.kind = "declare" /\ current.pc = "check" -> session.cursor
          [] current.kind \in {"close", "reopen"} -> ~name /\ (session.cursor <=> current.pc # "check")
          [] current.kind \notin {"declare", "close", "reopen"} -> name = session.cursor

PgInv ==
    /\ TypesInv /\ SessionInv /\ CallInv
    /\ RepeatInv /\ TxInv /\ LossInv /\ ResultsAreFreed
    /\ AtomicInv /\ CursorInv /\ CopyIsWhole

-----------------------------------------------------------------------------
(* The records.                                                             *)

\* The sessions and transactions that the program makes anew.
LEMMA NewRecords ==
    /\ Dead \in Session /\ Dead.alive = FALSE /\ Dead.tx = "none"
    /\ Dead.pending = {} /\ Dead.cursor = FALSE
    /\ FreshSession \in Session /\ FreshSession.alive = TRUE /\ FreshSession.tx = "none"
    /\ FreshSession.pending = {} /\ FreshSession.cursor = FALSE
    /\ NoTrans \in Trans /\ ~NoTrans.open /\ ~NoTrans.clean /\ ~NoTrans.failed /\ NoTrans.done = {}
<1>0. {} \in Statements
  BY DEF Statements
<1>1. /\ Dead \in Session /\ Dead.alive = FALSE /\ Dead.tx = "none"
      /\ Dead.pending = {} /\ Dead.cursor = FALSE
  BY <1>0 DEF Dead, Session, TxStates
<1>2. /\ FreshSession \in Session /\ FreshSession.alive = TRUE /\ FreshSession.tx = "none"
      /\ FreshSession.pending = {} /\ FreshSession.cursor = FALSE
  BY <1>1 DEF FreshSession, Session
<1>3. NoTrans \in Trans /\ ~NoTrans.open /\ ~NoTrans.clean /\ ~NoTrans.failed /\ NoTrans.done = {}
  BY <1>0 DEF NoTrans, Trans
<1> QED
  BY <1>1, <1>2, <1>3

\* No call in progress.
LEMMA IdleCall ==
    /\ Idle \in Call /\ Idle.pc = "idle" /\ Idle.kind = "none" /\ Idle.id = 0
    /\ Idle.result = "none" /\ Idle.attempt = 0 /\ Idle.rows = 0
<1>0. /\ 0 \in Ids /\ 0 \in Attempts /\ 0 \in RowCounts
      /\ "idle" \in Pcs /\ "none" \in Kinds /\ "none" \in Results
  BY PgAssumption DEF Ids, Attempts, RowCounts, Pcs, Kinds, Results
<1> QED
  BY <1>0 DEF Idle, Call

\* The fields of the variables.
LEMMA FieldTypes ==
    ASSUME TypesInv
    PROVE  /\ session.alive \in BOOLEAN /\ session.tx \in TxStates
           /\ session.pending \in Statements /\ session.cursor \in BOOLEAN
           /\ trans.open \in BOOLEAN /\ trans.clean \in BOOLEAN /\ trans.fresh \in BOOLEAN
           /\ trans.failed \in BOOLEAN /\ trans.done \in Statements
           /\ current.pc \in Pcs /\ current.kind \in Kinds /\ current.id \in Ids
           /\ current.attempt \in Attempts /\ current.result \in Results /\ current.rows \in RowCounts
           /\ outcome.how \in Hows /\ outcome.kind \in Kinds /\ outcome.id \in Ids
           /\ outcome.result \in Results /\ outcome.rows \in RowCounts /\ outcome.trans \in Trans
           /\ outcome.trans.done \in Statements
<1>1. /\ session.alive \in BOOLEAN /\ session.tx \in TxStates
      /\ session.pending \in Statements /\ session.cursor \in BOOLEAN
  BY DEF TypesInv, Session
<1>2. /\ trans.open \in BOOLEAN /\ trans.clean \in BOOLEAN /\ trans.fresh \in BOOLEAN
      /\ trans.failed \in BOOLEAN /\ trans.done \in Statements
  BY DEF TypesInv, Trans
<1>3. /\ current.pc \in Pcs /\ current.kind \in Kinds /\ current.id \in Ids
      /\ current.attempt \in Attempts /\ current.result \in Results /\ current.rows \in RowCounts
  BY DEF TypesInv, Call
<1>4. /\ outcome.how \in Hows /\ outcome.kind \in Kinds /\ outcome.id \in Ids
      /\ outcome.result \in Results /\ outcome.rows \in RowCounts /\ outcome.trans \in Trans
  BY DEF TypesInv, Outcome
<1>5. outcome.trans.done \in Statements
  BY <1>4 DEF Trans
<1> QED
  BY <1>1, <1>2, <1>3, <1>4, <1>5

\* The numbers among them.
LEMMA FieldNumbers ==
    ASSUME TypesInv
    PROVE  /\ current.id \in Nat /\ current.id <= MaxCalls
           /\ current.attempt \in Nat /\ current.attempt < MAX_ATTEMPTS
           /\ current.rows \in Nat /\ current.rows <= TableRows
           /\ outcome.id \in Nat /\ outcome.id <= MaxCalls
           /\ outcome.rows \in Nat
           /\ losses \in Nat /\ losses <= MaxLosses
           /\ copies \in Nat
           /\ \A c \in Calls : durable[c] \in Nat
           /\ Calls \subseteq Nat
           /\ MAX_ATTEMPTS \in Nat /\ MAX_ATTEMPTS >= 1 /\ TableRows \in Nat
           /\ MaxCalls \in Nat /\ MaxLosses \in Nat
<1>1. /\ MAX_ATTEMPTS \in Nat /\ MAX_ATTEMPTS >= 1 /\ TableRows \in Nat
      /\ MaxCalls \in Nat /\ MaxLosses \in Nat /\ Calls \subseteq Nat
  BY PgAssumption DEF Calls
<1>2. /\ current.id \in Nat /\ current.id <= MaxCalls /\ outcome.id \in Nat /\ outcome.id <= MaxCalls
  BY <1>1, FieldTypes DEF Ids
<1>3. current.attempt \in Nat /\ current.attempt < MAX_ATTEMPTS
  BY <1>1, FieldTypes DEF Attempts
<1>4. current.rows \in Nat /\ current.rows <= TableRows /\ outcome.rows \in Nat
  BY <1>1, FieldTypes DEF RowCounts
<1>5. losses \in Nat /\ losses <= MaxLosses /\ copies \in Nat /\ \A c \in Calls : durable[c] \in Nat
  BY <1>1 DEF TypesInv
<1> QED
  BY <1>1, <1>2, <1>3, <1>4, <1>5

\* The call in progress has the number of a call.
LEMMA CurrentIsACall ==
    ASSUME TypesInv, CallInv, current.pc # "idle"
    PROVE  current.id \in Calls /\ durable[current.id] \in Nat /\ current.id > outcome.id
<1>1. current.id \in Calls /\ current.id > outcome.id
  BY FieldNumbers DEF CallInv, Calls
<1> QED
  BY <1>1, FieldNumbers

-----------------------------------------------------------------------------
(* The invariant holds initially.                                           *)

\* A new connection, and no call yet.
LEMMA InitPgInv == PgInit => PgInv
<1> SUFFICES ASSUME PgInit PROVE PgInv
  OBVIOUS
<1>1. /\ handle = "null" /\ durable = [c \in Calls |-> 0] /\ losses = 0 /\ name = FALSE
      /\ live = 0 /\ copies = 0
      /\ session = Dead /\ trans = NoTrans /\ current = Idle /\ outcome = NoOutcome
  BY DEF PgInit
<1>2. /\ session \in Session /\ ~session.alive /\ session.tx = "none"
      /\ session.pending = {} /\ ~session.cursor
      /\ trans \in Trans /\ ~trans.open /\ trans.done = {}
  BY <1>1, NewRecords
<1>3. /\ current \in Call /\ current.pc = "idle" /\ current.kind = "none" /\ current.id = 0
      /\ current.result = "none"
  BY <1>1, IdleCall
<1>4. /\ outcome \in Outcome /\ outcome.how = "none" /\ outcome.kind = "none" /\ outcome.id = 0
  <2>1. 0 \in Ids /\ 0 \in RowCounts /\ "none" \in Hows /\ "none" \in Kinds /\ "none" \in Results
    BY PgAssumption DEF Ids, RowCounts, Hows, Kinds, Results
  <2> QED
    BY <1>1, <2>1, NewRecords DEF NoOutcome, Outcome
<1>5. TypesInv
  <2>1. durable \in [Calls -> Nat] /\ losses \in 0 .. MaxLosses
    BY <1>1, PgAssumption
  <2> QED
    BY <1>1, <1>2, <1>3, <1>4, <2>1 DEF TypesInv
<1>6. \A c \in Calls : durable[c] = 0 /\ c # 0
  BY <1>1, PgAssumption DEF Calls
<1>7. SessionInv /\ CallInv
  BY <1>1, <1>2, <1>3 DEF SessionInv, CallInv, Lost, AnsweredWell, QueryPcs, CopyPcs
<1>8. RepeatInv
  BY <1>1, <1>2, <1>3, <1>6, PgAssumption DEF RepeatInv, RepeatsAreBounded, Lost
<1>9. TxInv
  BY <1>2, <1>3, <1>4 DEF TxInv, SuccessIsDurable, AnsweredWell
<1>10. LossInv
  BY <1>1, <1>3, <1>4 DEF LossInv, Lost, OneLossIsHidden
<1>11. ResultsAreFreed
  BY <1>1, <1>3 DEF ResultsAreFreed
<1>12. AtomicInv
  BY <1>2, <1>3, <1>4 DEF AtomicInv, InOneSession, TransactionIsAtomic
<1>13. CursorInv /\ CopyIsWhole
  BY <1>2, <1>4 DEF CursorInv, InOneSession, CopyIsWhole
<1> QED
  BY <1>5, <1>7, <1>8, <1>9, <1>10, <1>11, <1>12, <1>13 DEF PgInv

-----------------------------------------------------------------------------
(* The session ends.                                                        *)

\* The server closes the session, or the user does: what it held is gone, and the
\* transaction's history is tainted.
LEMMA SessionEndsPgInv ==
    ASSUME PgInv, session' = Dead, trans' = Tainted,
           UNCHANGED <<durable, current, name, live, copies, outcome>>,
           \/ losses' = losses + 1 /\ losses' <= MaxLosses /\ handle' = handle
           \/ losses' = losses /\ handle' = "null" /\ current.pc = "idle"
    PROVE  PgInv'
<1>0. /\ TypesInv /\ SessionInv /\ CallInv /\ RepeatInv /\ TxInv /\ LossInv
      /\ ResultsAreFreed /\ AtomicInv /\ CursorInv /\ CopyIsWhole
  BY DEF PgInv
<1>1. /\ session' \in Session /\ ~session'.alive /\ session'.tx = "none"
      /\ session'.pending = {} /\ ~session'.cursor
  BY NewRecords
<1>2. /\ trans' \in Trans /\ ~trans'.clean
      /\ trans'.open = trans.open /\ trans'.failed = trans.failed /\ trans'.done = trans.done
  BY <1>0 DEF Tainted, TypesInv, Trans
<1>3. UNCHANGED <<durable, current, name, live, copies, outcome>>
  OBVIOUS
<1>4. losses \in Nat /\ losses' \in Nat /\ losses' >= losses /\ losses' <= MaxLosses
  BY <1>0, FieldNumbers
<1>5. TypesInv'
  BY <1>0, <1>1, <1>2, <1>3, <1>4, FieldNumbers DEF TypesInv
<1>6. SessionInv' /\ CallInv'
  BY <1>0, <1>1, <1>2, <1>3 DEF SessionInv, CallInv, Lost, AnsweredWell
<1>7. RepeatInv'
  <2>1. RepeatsAreBounded'
    BY <1>0, <1>3, <1>4, FieldNumbers DEF RepeatInv, RepeatsAreBounded
  <2> QED
    BY <1>0, <1>1, <1>3, <1>4, <2>1, CurrentIsACall, FieldNumbers DEF RepeatInv, Lost
<1>8. TxInv'
  BY <1>0, <1>1, <1>2, <1>3 DEF TxInv, SuccessIsDurable, AnsweredWell
<1>9. LossInv'
  BY <1>0, <1>1, <1>3, <1>4, FieldNumbers DEF LossInv, Lost, OneLossIsHidden, CallInv
<1>10. ResultsAreFreed' /\ CopyIsWhole'
  BY <1>0, <1>3 DEF ResultsAreFreed, CopyIsWhole
<1>11. AtomicInv'
  BY <1>0, <1>1, <1>2, <1>3 DEF AtomicInv, InOneSession, TransactionIsAtomic
<1>12. CursorInv'
  BY <1>2 DEF CursorInv, InOneSession
<1> QED
  BY <1>5, <1>6, <1>7, <1>8, <1>9, <1>10, <1>11, <1>12 DEF PgInv

-----------------------------------------------------------------------------
(* A call starts.                                                           *)

\* What the call actions have in common, and what each of them asks of the user.
Starts(pc, kind) ==
    /\ pc = IF kind = "copy" THEN "copy" ELSE "loop"
    /\ MoreCalls /\ current.pc = "idle"
    /\ kind = "begin" => ~trans.open
    /\ kind \in {"commit", "rollback"} => trans.open
    /\ kind = "declare" => ~name
    /\ kind \in {"close", "reopen"} => name
    /\ current' = [Idle EXCEPT !.pc = pc, !.kind = kind, !.id = NextId]
    /\ name' = IF kind \in {"close", "reopen"} THEN FALSE ELSE name
    /\ UNCHANGED <<handle, session, durable, losses, live, copies, trans, outcome>>

\* A call begins: only the call record changes, and it gets the next number.
LEMMA CallsStart ==
    ASSUME \/ CallExecute \/ CallBegin \/ CallCommit \/ CallRollback
           \/ CallCursorOpen \/ CallCursorClose \/ CallCursorReopen \/ CallFetch \/ CallCopy
    PROVE  \E pc \in Pcs, kind \in Queries \cup {"copy"} : Starts(pc, kind)
<1> USE DEF StartQuery, CursorClose, NameWhileClosing
<1>0. "loop" \in Pcs /\ "copy" \in Pcs /\ Queries \subseteq Queries \cup {"copy"}
  BY DEF Pcs, QueryPcs, CopyPcs
<1>1. CASE CallExecute
  <2>1. Starts("loop", "execute")
    BY <1>1 DEF CallExecute, Starts
  <2> QED
    BY <1>0, <2>1 DEF Queries
<1>2. CASE CallBegin
  <2>1. Starts("loop", "begin")
    BY <1>2 DEF CallBegin, Starts
  <2> QED
    BY <1>0, <2>1 DEF Queries
<1>3. CASE CallCommit
  <2>1. Starts("loop", "commit")
    BY <1>3 DEF CallCommit, Starts
  <2> QED
    BY <1>0, <2>1 DEF Queries
<1>4. CASE CallRollback
  <2>1. Starts("loop", "rollback")
    BY <1>4 DEF CallRollback, Starts
  <2> QED
    BY <1>0, <2>1 DEF Queries
<1>5. CASE CallCursorOpen
  <2>1. Starts("loop", "declare")
    BY <1>5 DEF CallCursorOpen, Starts
  <2> QED
    BY <1>0, <2>1 DEF Queries
<1>6. CASE CallCursorClose
  <2>1. Starts("loop", "close")
    BY <1>6 DEF CallCursorClose, Starts
  <2> QED
    BY <1>0, <2>1 DEF Queries
<1>7. CASE CallCursorReopen
  <2>1. Starts("loop", "reopen")
    BY <1>7 DEF CallCursorReopen, Starts
  <2> QED
    BY <1>0, <2>1 DEF Queries
<1>8. CASE CallFetch
  <2>1. Starts("loop", "fetch")
    BY <1>8 DEF CallFetch, Starts
  <2> QED
    BY <1>0, <2>1 DEF Queries
<1>9. CASE CallCopy
  <2>1. Starts("copy", "copy")
    BY <1>9 DEF CallCopy, Starts
  <2> QED
    BY <1>0, <2>1 DEF Queries
<1> QED
  BY <1>1, <1>2, <1>3, <1>4, <1>5, <1>6, <1>7, <1>8, <1>9

\* A call that starts finds the transaction and the cursor as the last one left
\* them, and its own number nowhere.
LEMMA StartsPgInv ==
    ASSUME PgInv, NEW pc \in Pcs, NEW kind \in Queries \cup {"copy"}, Starts(pc, kind)
    PROVE  PgInv'
<1>0. /\ TypesInv /\ SessionInv /\ CallInv /\ RepeatInv /\ TxInv /\ LossInv
      /\ ResultsAreFreed /\ AtomicInv /\ CursorInv /\ CopyIsWhole
  BY DEF PgInv
<1>1. /\ current' \in Call /\ current'.pc = pc /\ current'.kind = kind /\ current'.id = outcome.id + 1
      /\ current'.attempt = 0 /\ current'.result = "none" /\ current'.rows = 0
  <2>1. NextId \in Ids /\ NextId = outcome.id + 1 /\ kind \in Kinds
    BY <1>0, FieldNumbers DEF Starts, MoreCalls, NextId, Calls, Ids, Kinds
  <2>2. current' = [Idle EXCEPT !.pc = pc, !.kind = kind, !.id = NextId]
    BY DEF Starts
  <2>3. LET r == [Idle EXCEPT !.pc = pc, !.kind = kind, !.id = NextId]
        IN  /\ r \in Call /\ r.pc = pc /\ r.kind = kind /\ r.id = NextId
            /\ r.attempt = 0 /\ r.result = "none" /\ r.rows = 0
    BY <2>1, IdleCall DEF Call
  <2> QED
    BY <2>1, <2>2, <2>3
<1>2. /\ UNCHANGED <<handle, session, durable, losses, live, copies, trans, outcome>>
      /\ current.pc = "idle" /\ current.kind = "none" /\ current.result = "none"
      /\ pc \in {"loop", "copy"} /\ (pc = "copy" <=> kind = "copy")
  BY <1>0 DEF Starts, CallInv
<1>3. /\ kind = "begin" => ~trans.open
      /\ kind \in {"commit", "rollback"} => trans.open
      /\ kind = "declare" => ~name
      /\ kind \in {"close", "reopen"} => name
      /\ name' = IF kind \in {"close", "reopen"} THEN FALSE ELSE name
  BY DEF Starts
<1>4. /\ outcome.id + 1 \in Calls /\ outcome.id \in Nat /\ losses \in Nat
      /\ \A c \in Calls : c \in Nat /\ (c > outcome.id => durable[c] = 0 /\ c \notin session.pending)
  <2>1. outcome.id + 1 \in Calls /\ outcome.id \in Nat /\ Calls \subseteq Nat /\ losses \in Nat
    BY <1>0, FieldNumbers DEF Starts, MoreCalls, NextId
  <2>2. current.id = 0
    BY <1>0, <1>2 DEF CallInv
  <2>3. \A c \in Calls : c > outcome.id /\ c # current.id => durable[c] = 0 /\ c \notin session.pending
    BY <1>0 DEF RepeatInv
  <2>4. \A c \in Calls : c \in Nat /\ (c > outcome.id => c # current.id)
    BY <2>1, <2>2
  <2> QED
    BY <2>1, <2>3, <2>4
<1>5. TypesInv'
  BY <1>0, <1>1, <1>2, <1>3 DEF TypesInv
<1>6. SessionInv'
  BY <1>0, <1>2 DEF SessionInv
<1>7. CallInv'
  BY <1>1, <1>2, <1>3 DEF CallInv, Lost, AnsweredWell, Queries, QueryPcs, CopyPcs
<1>8. RepeatInv'
  BY <1>0, <1>1, <1>2, <1>4 DEF RepeatInv, RepeatsAreBounded, Lost
<1>9. TxInv'
  BY <1>0, <1>1, <1>2, <1>3 DEF TxInv, SuccessIsDurable, AnsweredWell
<1>10. LossInv'
  BY <1>0, <1>1, <1>2, <1>4 DEF LossInv, Lost, OneLossIsHidden, CallInv
<1>11. ResultsAreFreed' /\ CopyIsWhole'
  BY <1>0, <1>1, <1>2 DEF ResultsAreFreed, CopyIsWhole
<1>12. ~EndAnswered /\ ~EndAnswered' /\ (Failing <=> trans.failed) /\ (Failing' <=> trans.failed)
       /\ InOneSession' = InOneSession
  BY <1>1, <1>2 DEF EndAnswered, Failing, AnsweredWell, InOneSession
<1>13. AtomicInv'
  BY <1>0, <1>1, <1>2, <1>12 DEF AtomicInv, TransactionIsAtomic, AnsweredWell
<1>14. CursorInv'
  BY <1>0, <1>1, <1>2, <1>3, <1>12 DEF CursorInv
<1> QED
  BY <1>5, <1>6, <1>7, <1>8, <1>9, <1>10, <1>11, <1>13, <1>14 DEF PgInv

-----------------------------------------------------------------------------
(* Execute connects and tries.                                              *)

\* Only pc changes in the call.
LEMMA PcChanges ==
    ASSUME TypesInv, NEW pc \in Pcs, current' = [current EXCEPT !.pc = pc]
    PROVE  /\ current' \in Call /\ current'.pc = pc /\ current'.kind = current.kind
           /\ current'.id = current.id /\ current'.attempt = current.attempt
           /\ current'.result = current.result /\ current'.rows = current.rows
<1>1. current \in Call
  BY DEF TypesInv
<1> QED
  BY <1>1 DEF Call

\* The handle is good or was made good, or the server refused: the session that a
\* bad handle had was dead already.
LEMMA ConnectPgInv ==
    ASSUME PgInv, Reconnect \/ ReconnectFails \/ StayConnected
    PROVE  PgInv'
<1>0. /\ TypesInv /\ SessionInv /\ CallInv /\ RepeatInv /\ TxInv /\ LossInv
      /\ ResultsAreFreed /\ AtomicInv /\ CursorInv /\ CopyIsWhole
  BY DEF PgInv
<1> DEFINE pc == IF ReconnectFails THEN "refused" ELSE "send"
<1>1. /\ current.pc = "loop" /\ current' = [current EXCEPT !.pc = pc]
      /\ UNCHANGED <<durable, losses, name, live, copies, trans, outcome>>
      /\ pc \in {"send", "refused"}
  BY DEF Reconnect, ReconnectFails, StayConnected
<1>2. /\ handle' = IF pc = "send" THEN "ok" ELSE "bad"
      /\ \/ handle = "ok" /\ session' = session /\ pc = "send"
         \/ ~session.alive /\ session' = FreshSession /\ pc = "send"
         \/ ~session.alive /\ session' = Dead /\ pc = "refused"
  BY <1>0 DEF Reconnect, ReconnectFails, StayConnected, NeedsOpen, IsOpened, SessionInv
<1> HIDE DEF pc
<1>3. /\ current' \in Call /\ current'.pc = pc /\ current'.kind = current.kind
      /\ current'.id = current.id /\ current'.attempt = current.attempt
      /\ current'.result = current.result /\ current'.rows = current.rows
  BY <1>0, <1>1, PcChanges DEF Pcs, QueryPcs
<1>4. /\ session' \in Session /\ session'.alive \in BOOLEAN
      /\ session'.pending = session.pending /\ session'.cursor = session.cursor
      /\ session'.tx = session.tx
      /\ session.alive => session'.alive
      /\ pc = "refused" => ~session'.alive
      /\ ~session'.alive => pc = "refused" \/ (handle = "ok" /\ ~session.alive)
  <2>1. session \in Session /\ session.alive \in BOOLEAN
    BY <1>0, FieldTypes DEF TypesInv
  <2>2. ~session.alive => session.tx = "none" /\ session.pending = {} /\ session.cursor = FALSE
    BY <1>0, FieldTypes DEF SessionInv
  <2>3. CASE session' = session /\ handle = "ok" /\ pc = "send"
    BY <2>1, <2>3
  <2>4. CASE session' = FreshSession /\ ~session.alive /\ pc = "send"
    BY <2>2, <2>4, NewRecords
  <2>5. CASE session' = Dead /\ ~session.alive /\ pc = "refused"
    BY <2>2, <2>5, NewRecords
  <2> QED
    BY <1>2, <2>3, <2>4, <2>5
<1>5. TypesInv'
  BY <1>0, <1>1, <1>2, <1>3, <1>4 DEF TypesInv
<1>6. SessionInv'
  BY <1>0, <1>1, <1>2, <1>4 DEF SessionInv
<1>7. CallInv'
  BY <1>0, <1>1, <1>2, <1>3 DEF CallInv, Lost, AnsweredWell, QueryPcs, CopyPcs
<1>8. RepeatInv'
  BY <1>0, <1>1, <1>3, <1>4 DEF RepeatInv, RepeatsAreBounded, Lost
<1>9. TxInv'
  <2>1. current.attempt > 0 => session.tx = "none"
    BY <1>0, <1>1 DEF CallInv, SessionInv
  <2> QED
    BY <1>0, <1>1, <1>3, <1>4, <2>1 DEF TxInv, SuccessIsDurable, AnsweredWell
<1>10. LossInv'
  <2>1. handle = "ok" => current.attempt = 0
    BY <1>0, <1>1, FieldNumbers DEF CallInv
  <2>2. handle' = "ok" /\ ~session'.alive => handle = "ok" /\ ~session.alive
    BY <1>1, <1>2, <1>4
  <2> QED
    BY <1>0, <1>1, <1>3, <1>4, <2>1, <2>2, FieldNumbers DEF LossInv, Lost, OneLossIsHidden
<1>11. ResultsAreFreed' /\ CopyIsWhole'
  BY <1>0, <1>1, <1>3 DEF ResultsAreFreed, CopyIsWhole
<1>12. /\ ~EndAnswered /\ ~EndAnswered' /\ (Failing <=> trans.failed) /\ (Failing' <=> trans.failed)
       /\ InOneSession' = InOneSession
  BY <1>1, <1>3 DEF EndAnswered, Failing, AnsweredWell, InOneSession
<1>13. AtomicInv'
  BY <1>0, <1>1, <1>3, <1>4, <1>12 DEF AtomicInv, TransactionIsAtomic, AnsweredWell
<1>14. CursorInv'
  BY <1>0, <1>1, <1>3, <1>4, <1>12 DEF CursorInv
<1> QED
  BY <1>5, <1>6, <1>7, <1>8, <1>9, <1>10, <1>11, <1>13, <1>14 DEF PgInv

\* An attempt that was lost has cost a session, and what it left pending is gone
\* with it.
LEMMA TryAgainPgInv ==
    ASSUME PgInv, TryAgain
    PROVE  PgInv'
<1>0. /\ TypesInv /\ SessionInv /\ CallInv /\ RepeatInv /\ TxInv /\ LossInv
      /\ ResultsAreFreed /\ AtomicInv /\ CursorInv /\ CopyIsWhole
  BY DEF PgInv
<1>1. /\ UNCHANGED <<handle, session, durable, losses, name, live, copies, trans, outcome>>
      /\ current.pc = "check" /\ handle # "ok" /\ current.result # "success"
  BY DEF TryAgain, IsOpened, IsSuccess
<1>2. Lost /\ ~session.alive /\ session.tx = "none" /\ session.pending = {} /\ ~session.cursor
  BY <1>0, <1>1, FieldTypes DEF CallInv, Lost, LostResults, AnsweredWell, Results, SessionInv
<1>3. /\ current' \in Call /\ current'.pc = "loop" /\ current'.kind = current.kind
      /\ current'.id = current.id /\ current'.attempt = current.attempt + 1
      /\ current'.result = current.result /\ current'.rows = current.rows
  <2>1. current.attempt + 1 \in Attempts /\ current \in Call /\ "loop" \in Pcs
    BY <1>0, FieldNumbers DEF TryAgain, AttemptsLeft, Attempts, TypesInv, Pcs, QueryPcs
  <2>2. current' = [current EXCEPT !.pc = "loop", !.attempt = current.attempt + 1]
    BY DEF TryAgain
  <2> QED
    BY <2>1, <2>2 DEF Call
<1>4. TypesInv'
  BY <1>0, <1>1, <1>3 DEF TypesInv
<1>5. SessionInv'
  BY <1>0, <1>1 DEF SessionInv
<1>6. CallInv'
  BY <1>0, <1>1, <1>3 DEF CallInv, Lost, AnsweredWell, QueryPcs, CopyPcs
<1>7. RepeatInv'
  BY <1>0, <1>1, <1>2, <1>3 DEF RepeatInv, RepeatsAreBounded, Lost
<1>8. TxInv'
  BY <1>0, <1>1, <1>2, <1>3 DEF TxInv, SuccessIsDurable, AnsweredWell
<1>9. LossInv'
  BY <1>0, <1>1, <1>2, <1>3 DEF LossInv, Lost, OneLossIsHidden
<1>10. ResultsAreFreed' /\ CopyIsWhole'
  BY <1>0, <1>1, <1>3 DEF ResultsAreFreed, CopyIsWhole
<1>11. ~InOneSession /\ ~InOneSession'
  BY <1>0, <1>1, <1>2 DEF AtomicInv, InOneSession
<1>12. AtomicInv' /\ CursorInv'
  BY <1>0, <1>1, <1>11 DEF AtomicInv, TransactionIsAtomic, CursorInv
<1> QED
  BY <1>4, <1>5, <1>6, <1>7, <1>8, <1>9, <1>10, <1>12 DEF PgInv

\* Cursor::Open goes on with its DECLARE once its CLOSE has returned.
LEMMA ReopenDeclaresPgInv ==
    ASSUME PgInv, ReopenDeclares
    PROVE  PgInv'
<1>0. /\ TypesInv /\ SessionInv /\ CallInv /\ RepeatInv /\ TxInv /\ LossInv
      /\ ResultsAreFreed /\ AtomicInv /\ CursorInv /\ CopyIsWhole
  BY DEF PgInv
<1>1. /\ UNCHANGED <<handle, session, durable, losses, name, copies, trans, outcome>>
      /\ live' = live - 1
      /\ current.pc = "check" /\ current.result = "success" /\ current.kind = "reopen"
  BY DEF ReopenDeclares, IsSuccess
<1>2. /\ current' \in Call /\ current'.pc = "loop" /\ current'.kind = "declare"
      /\ current'.id = current.id /\ current'.attempt = 0
      /\ current'.result = "none" /\ current'.rows = 0
  <2>1. current.id \in Ids /\ "loop" \in Pcs /\ "declare" \in Kinds
    BY <1>0, FieldTypes DEF Pcs, QueryPcs, Kinds, Queries
  <2>2. current' = [Idle EXCEPT !.pc = "loop", !.kind = "declare", !.id = current.id]
    BY DEF ReopenDeclares
  <2> QED
    BY <2>1, <2>2, IdleCall DEF Call
<1>3. TypesInv'
  BY <1>0, <1>1, <1>2 DEF TypesInv
<1>4. SessionInv'
  BY <1>0, <1>1 DEF SessionInv
<1>5. CallInv'
  BY <1>0, <1>1, <1>2 DEF CallInv, Lost, AnsweredWell, Queries, QueryPcs, CopyPcs
<1>6. RepeatInv'
  BY <1>0, <1>1, <1>2, FieldNumbers DEF RepeatInv, RepeatsAreBounded, Lost
<1>7. TxInv'
  BY <1>0, <1>1, <1>2 DEF TxInv, SuccessIsDurable, AnsweredWell
<1>8. LossInv'
  BY <1>0, <1>1, <1>2, FieldNumbers DEF LossInv, Lost, OneLossIsHidden, CallInv, AnsweredWell
<1>9. ResultsAreFreed' /\ CopyIsWhole'
  BY <1>0, <1>1, <1>2, FieldNumbers DEF ResultsAreFreed, CopyIsWhole
<1>10. /\ ~EndAnswered /\ ~EndAnswered' /\ (Failing <=> trans.failed) /\ (Failing' <=> trans.failed)
       /\ InOneSession' = InOneSession
  BY <1>1, <1>2 DEF EndAnswered, Failing, AnsweredWell, InOneSession
<1>11. AtomicInv'
  BY <1>0, <1>1, <1>2, <1>10 DEF AtomicInv, TransactionIsAtomic, AnsweredWell
<1>12. CursorInv'
  BY <1>0, <1>1, <1>2, <1>10 DEF CursorInv
<1> QED
  BY <1>3, <1>4, <1>5, <1>6, <1>7, <1>8, <1>9, <1>11, <1>12 DEF PgInv

-----------------------------------------------------------------------------
(* CopyTable.                                                               *)

\* What the steps of a COPY before it returns do: an open transaction in which it
\* fails is aborted, the handle of a dead session becomes bad, and the results
\* that leak are counted.
CopyStep ==
    /\ current.pc \in {"copy", "rows"}
    /\ current' \in Call
    /\ current'.pc \in {"rows", "ended", "failed", "cut"}
    /\ current'.kind = current.kind /\ current'.id = current.id
    /\ current'.attempt = current.attempt /\ current'.result = current.result
    /\ current'.pc = "ended" => current'.rows = TableRows
    /\ session' = IF current'.pc \in {"failed", "cut"} /\ session.tx = "open"
                  THEN [session EXCEPT !.tx = "aborted"] ELSE session
    /\ handle' # handle => handle' = "bad" /\ ~session.alive
    /\ \E leak \in {0, 1} : live' = live + leak /\ copies' = copies + leak
    /\ UNCHANGED <<durable, losses, name, trans, outcome>>

\* The steps of CopyTable: rows arrive, the session is lost, or the COPY fails.
LEMMA CopySteps ==
    ASSUME PgInv,
           CopyFails \/ CopyStarts \/ CopyRow \/ CopyEnds \/ CopyIsCut \/ CopyLost
    PROVE  CopyStep
<1>0. TypesInv /\ SessionInv /\ ResultsAreFreed
  BY DEF PgInv
<1>1. /\ live \in Nat /\ copies \in Nat /\ live + 0 = live /\ copies + 0 = copies
      /\ current.rows \in Nat /\ TableRows \in Nat
      /\ ~session.alive => session.tx = "none"
  BY <1>0, FieldNumbers DEF ResultsAreFreed, SessionInv
<1>2. {"rows", "ended", "failed", "cut"} \subseteq Pcs
  BY DEF Pcs, CopyPcs
<1>3. ASSUME NEW pc \in {"rows", "ended", "failed", "cut"}, current' = [current EXCEPT !.pc = pc]
      PROVE  /\ current' \in Call /\ current'.pc = pc /\ current'.kind = current.kind
             /\ current'.id = current.id /\ current'.attempt = current.attempt
             /\ current'.result = current.result /\ current'.rows = current.rows
  BY <1>0, <1>2, <1>3, PcChanges
<1>4. CASE CopyFails
  <2>1. /\ current' = [current EXCEPT !.pc = "failed"] /\ current.pc = "copy"
        /\ UNCHANGED <<durable, losses, name, trans, outcome>>
    BY <1>4 DEF CopyFails
  <2>2. \E leak \in {0, 1} : live' = live + leak /\ copies' = copies + leak
    BY <1>1, <1>4 DEF CopyFails
  <2>3. /\ session' = IF session.tx = "open" THEN [session EXCEPT !.tx = "aborted"] ELSE session
        /\ handle' # handle => handle' = "bad" /\ ~session.alive
    BY <1>1, <1>4 DEF CopyFails
  <2> QED
    BY <1>3, <2>1, <2>2, <2>3 DEF CopyStep
<1>5. CASE CopyStarts
  <2>1. /\ current' = [current EXCEPT !.pc = "rows"] /\ current.pc = "copy"
        /\ live' = live + 1 /\ copies' = copies + 1
        /\ UNCHANGED <<handle, session, durable, losses, name, trans, outcome>>
    BY <1>5 DEF CopyStarts
  <2> QED
    BY <1>3, <2>1 DEF CopyStep
<1>6. CASE CopyRow
  <2>1. /\ current' = [current EXCEPT !.rows = current.rows + 1] /\ current.pc = "rows"
        /\ current.rows < TableRows
        /\ UNCHANGED <<handle, session, durable, losses, name, live, copies, trans, outcome>>
    BY <1>6 DEF CopyRow
  <2>2. current.rows + 1 \in RowCounts /\ current \in Call
    BY <1>0, <1>1, <2>1 DEF RowCounts, TypesInv
  <2>3. /\ current' \in Call /\ current'.pc = current.pc /\ current'.kind = current.kind
        /\ current'.id = current.id /\ current'.attempt = current.attempt
        /\ current'.result = current.result
    BY <2>1, <2>2 DEF Call
  <2> QED
    BY <1>1, <2>1, <2>3 DEF CopyStep
<1>7. CASE CopyEnds
  <2>1. /\ current' = [current EXCEPT !.pc = "ended"] /\ current.pc = "rows"
        /\ current.rows = TableRows
        /\ UNCHANGED <<handle, session, durable, losses, name, live, copies, trans, outcome>>
    BY <1>7 DEF CopyEnds
  <2> QED
    BY <1>1, <1>3, <2>1 DEF CopyStep
<1>8. CASE CopyIsCut
  <2>1. /\ current' = [current EXCEPT !.pc = "cut"] /\ current.pc = "rows"
        /\ session' = IF session.tx = "open" THEN [session EXCEPT !.tx = "aborted"] ELSE session
        /\ UNCHANGED <<handle, durable, losses, name, live, copies, trans, outcome>>
    BY <1>8 DEF CopyIsCut
  <2> QED
    BY <1>1, <1>3, <2>1 DEF CopyStep
<1>9. CASE CopyLost
  <2>1. /\ current' = [current EXCEPT !.pc = "failed"] /\ current.pc = "rows"
        /\ handle' = "bad" /\ ~session.alive
        /\ UNCHANGED <<session, durable, losses, name, live, copies, trans, outcome>>
    BY <1>9 DEF CopyLost, PcAfterCopyError
  <2> QED
    BY <1>1, <1>3, <2>1 DEF CopyStep
<1> QED
  BY <1>4, <1>5, <1>6, <1>7, <1>8, <1>9

\* A COPY that fails aborts the transaction it is in, as any failing call does.
LEMMA CopyStepPgInv ==
    ASSUME PgInv, CopyStep
    PROVE  PgInv'
<1>0. /\ TypesInv /\ SessionInv /\ CallInv /\ RepeatInv /\ TxInv /\ LossInv
      /\ ResultsAreFreed /\ AtomicInv /\ CursorInv /\ CopyIsWhole
  BY DEF PgInv
<1>1. /\ current.pc \in {"copy", "rows"}
      /\ current' \in Call
      /\ current'.pc \in {"rows", "ended", "failed", "cut"}
      /\ current'.kind = current.kind /\ current'.id = current.id
      /\ current'.attempt = current.attempt /\ current'.result = current.result
      /\ current'.pc = "ended" => current'.rows = TableRows
      /\ UNCHANGED <<durable, losses, name, trans, outcome>>
      /\ current.kind = "copy" /\ current.result = "none"
  BY <1>0 DEF CopyStep, CallInv, CopyPcs
<1>2. /\ session' \in Session /\ session'.alive = session.alive
      /\ session'.pending = session.pending /\ session'.cursor = session.cursor
      /\ session'.tx = IF current'.pc \in {"failed", "cut"} /\ session.tx = "open"
                       THEN "aborted" ELSE session.tx
  <2>1. session \in Session /\ "aborted" \in TxStates
    BY <1>0 DEF TypesInv, TxStates
  <2>2. LET r == [session EXCEPT !.tx = "aborted"]
        IN  /\ r \in Session /\ r.tx = "aborted" /\ r.alive = session.alive
            /\ r.pending = session.pending /\ r.cursor = session.cursor
    BY <2>1 DEF Session
  <2> QED
    BY <2>1, <2>2 DEF CopyStep
<1>3. handle' # handle => handle' = "bad" /\ ~session.alive
  BY DEF CopyStep
<1>4. TypesInv' /\ ResultsAreFreed'
  <2>1. PICK leak \in {0, 1} : live' = live + leak /\ copies' = copies + leak
    BY DEF CopyStep
  <2>2. copies' \in Nat /\ ResultsAreFreed'
    BY <1>0, <1>1, <2>1, FieldNumbers DEF ResultsAreFreed
  <2> QED
    BY <1>0, <1>1, <1>2, <1>3, <2>2 DEF TypesInv
<1>5. SessionInv'
  BY <1>0, <1>2, <1>3 DEF SessionInv
<1>6. CallInv'
  BY <1>0, <1>1 DEF CallInv, Lost, AnsweredWell, QueryPcs, CopyPcs
<1>7. RepeatInv'
  BY <1>0, <1>1, <1>2 DEF RepeatInv, RepeatsAreBounded, Lost
<1>8. TxInv'
  BY <1>0, <1>1, <1>2 DEF TxInv, SuccessIsDurable, AnsweredWell
<1>9. LossInv'
  BY <1>0, <1>1, <1>2, <1>3 DEF LossInv, Lost, OneLossIsHidden
<1>10. CopyIsWhole'
  BY <1>0, <1>1 DEF CopyIsWhole
<1>11. /\ ~EndAnswered /\ ~EndAnswered' /\ (Failing <=> trans.failed)
       /\ Failing' <=> trans.failed \/ current'.pc \in {"failed", "cut"}
       /\ InOneSession' = InOneSession
  BY <1>1 DEF EndAnswered, Failing, AnsweredWell, InOneSession
<1>12. AtomicInv'
  BY <1>0, <1>1, <1>2, <1>11 DEF AtomicInv, TransactionIsAtomic, AnsweredWell
<1>13. CursorInv'
  BY <1>0, <1>1, <1>2, <1>11 DEF CursorInv
<1> QED
  BY <1>4, <1>5, <1>6, <1>7, <1>8, <1>9, <1>10, <1>12, <1>13 DEF PgInv

\* A COPY that was cut returns normally; the server knows that it has failed.
LEMMA ReturnCutPgInv ==
    ASSUME PgInv, ReturnCut
    PROVE  PgInv'
<1>0. /\ TypesInv /\ SessionInv /\ CallInv /\ RepeatInv /\ TxInv /\ LossInv
      /\ ResultsAreFreed /\ AtomicInv /\ CursorInv /\ CopyIsWhole
  BY DEF PgInv
<1>1. /\ current.pc = "cut" /\ current' = Idle
      /\ UNCHANGED <<handle, session, durable, losses, name, live, copies>>
      /\ current.kind = "copy" /\ current.result = "none"
  BY <1>0 DEF ReturnCut, CallInv, CopyPcs
<1>2. /\ current' \in Call /\ current'.pc = "idle" /\ current'.kind = "none"
      /\ current'.id = 0 /\ current'.result = "none"
  BY <1>1, IdleCall
<1>3. /\ trans' \in Trans /\ trans'.failed = trans.open /\ trans'.open = trans.open
      /\ trans'.clean = trans.clean /\ trans'.done = trans.done
  <2>1. trans \in Trans /\ trans.open \in BOOLEAN
    BY <1>0, FieldTypes DEF TypesInv
  <2>2. trans' = [trans EXCEPT !.failed = trans.open]
    BY DEF ReturnCut
  <2> QED
    BY <2>1, <2>2 DEF Trans
<1>4. /\ outcome' \in Outcome /\ outcome'.how = "cut" /\ outcome'.kind = "copy"
      /\ outcome'.id = current.id
  <2>1. current.id \in Ids /\ 0 \in Ids /\ 0 \in RowCounts /\ "none" \in Results
    BY <1>0, FieldTypes, PgAssumption DEF Ids, RowCounts, Results
  <2>2. "none" \in Hows /\ "cut" \in Hows /\ "none" \in Kinds /\ "copy" \in Kinds
    BY DEF Hows, Kinds
  <2>3. NoOutcome \in Outcome
    BY <2>1, <2>2, NewRecords DEF NoOutcome, Outcome
  <2>4. outcome' = [NoOutcome EXCEPT !.how = "cut", !.kind = "copy", !.id = current.id]
    BY DEF ReturnCut
  <2> QED
    BY <2>1, <2>2, <2>3, <2>4 DEF Outcome
<1>5. /\ current.id \in Calls /\ current.id > outcome.id /\ outcome.id \in Nat
      /\ \A c \in Calls : c \in Nat
  BY <1>0, <1>1, CurrentIsACall, FieldNumbers
<1>6. TypesInv'
  BY <1>0, <1>1, <1>2, <1>3, <1>4 DEF TypesInv
<1>7. SessionInv' /\ CallInv'
  BY <1>0, <1>1, <1>2 DEF SessionInv, CallInv, Lost, AnsweredWell, QueryPcs, CopyPcs
<1>8. RepeatInv'
  BY <1>0, <1>1, <1>2, <1>4, <1>5 DEF RepeatInv, RepeatsAreBounded, Lost
<1>9. TxInv'
  BY <1>0, <1>1, <1>2, <1>3, <1>4 DEF TxInv, SuccessIsDurable, AnsweredWell
<1>10. LossInv'
  BY <1>0, <1>1, <1>2, <1>4 DEF LossInv, Lost, OneLossIsHidden
<1>11. ResultsAreFreed' /\ CopyIsWhole'
  BY <1>0, <1>1, <1>2, <1>4 DEF ResultsAreFreed, CopyIsWhole
<1>12. /\ ~EndAnswered /\ ~EndAnswered' /\ Failing /\ (Failing' <=> trans.open)
       /\ InOneSession' = InOneSession
  BY <1>1, <1>2, <1>3 DEF EndAnswered, Failing, AnsweredWell, InOneSession
<1>13. \A c \in trans.done : c <= current.id
  BY <1>0, <1>5, FieldTypes DEF AtomicInv, Statements
<1>14. AtomicInv'
  BY <1>0, <1>1, <1>2, <1>3, <1>4, <1>12, <1>13 DEF AtomicInv, TransactionIsAtomic, InOneSession
<1>15. CursorInv'
  BY <1>3, <1>12 DEF CursorInv, InOneSession
<1> QED
  BY <1>6, <1>7, <1>8, <1>9, <1>10, <1>11, <1>14, <1>15 DEF PgInv

-----------------------------------------------------------------------------
(* A call returns or throws.                                                *)

\* The ways a call ends: its statement or its COPY succeeded, the server answered
\* with an error, the last attempt was lost, or there is no connection.
Ends(how) ==
    \/ /\ how = "ok" /\ AnsweredWell("success") /\ current.kind # "reopen"
    \/ /\ how = "ok" /\ current.pc = "ended"
    \/ /\ how = "QueryError" /\ AnsweredWell("error")
    \/ /\ how \in {"QueryError", "logic_error"} /\ Lost /\ ~AttemptsLeft
    \/ /\ how = "ConnectError" /\ current.pc = "refused"
    \/ /\ how = "Exception" /\ current.pc = "failed"

\* The ways a call ends.
LEMMA CallsEnd ==
    ASSUME PgInv, ThrowConnectError \/ ReturnResult \/ ThrowQueryError \/ CopyReturns \/ ThrowCopyError
    PROVE  \E how \in Hows : End(how) /\ Ends(how)
<1>0. TypesInv /\ CallInv
  BY DEF PgInv
<1>1. CASE ThrowConnectError
  BY <1>1 DEF ThrowConnectError, Ends, Hows
<1>2. CASE ReturnResult
  BY <1>2 DEF ReturnResult, IsSuccess, Ends, AnsweredWell, Hows
<1>3. CASE ThrowQueryError
  <2>1. /\ current.pc = "check" /\ current.result # "success"
        /\ handle = "ok" \/ ~AttemptsLeft
        /\ End(IF current.result = "lost" THEN "logic_error" ELSE "QueryError")
    BY <1>3 DEF ThrowQueryError, IsSuccess, IsOpened
  <2>2. current.result \in {"error", "lost", "terminated"}
    BY <1>0, <2>1, FieldTypes DEF CallInv, Results
  <2>3. AnsweredWell("error") \/ (Lost /\ ~AttemptsLeft)
    BY <1>0, <2>1, <2>2 DEF AnsweredWell, Lost, LostResults, CallInv
  <2> QED
    BY <2>1, <2>2, <2>3 DEF Ends, Hows, AnsweredWell
<1>4. CASE CopyReturns
  BY <1>4 DEF CopyReturns, Ends, Hows
<1>5. CASE ThrowCopyError
  BY <1>5 DEF ThrowCopyError, Ends, Hows
<1> QED
  BY <1>1, <1>2, <1>3, <1>4, <1>5

\* What becomes of the user's transaction.
LEMMA TransEffects ==
    ASSUME TypesInv, CallInv, current.pc # "idle", NEW how, trans' = TransAfter(how)
    PROVE  /\ trans' \in Trans
           /\ current.kind = "begin" /\ how = "ok" =>
                  /\ trans'.open /\ trans'.clean = session.alive /\ trans'.fresh = ~name
                  /\ ~trans'.failed /\ trans'.done = {}
           /\ current.kind = "begin" /\ how # "ok" => trans' = trans
           /\ current.kind \in {"commit", "rollback"} => ~trans'.open /\ trans'.done = {}
           /\ current.kind \notin {"begin", "commit", "rollback"} =>
                  /\ trans'.open = trans.open /\ trans'.clean = trans.clean /\ trans'.fresh = trans.fresh
                  /\ how = "ok" => trans'.failed = trans.failed
                  /\ how # "ok" => trans'.failed = trans.open
                  /\ trans'.done = IF how = "ok" /\ current.kind = "execute" /\ trans.open
                                   THEN trans.done \cup {current.id} ELSE trans.done
<1>1. /\ trans \in Trans /\ trans.open \in BOOLEAN /\ session.alive \in BOOLEAN /\ (~name) \in BOOLEAN
      /\ trans.done \in Statements
  BY FieldTypes DEF TypesInv
<1>2. CASE current.kind = "begin" /\ how = "ok"
  <2>1. trans' = [NoTrans EXCEPT !.open = TRUE, !.clean = session.alive, !.fresh = ~name]
    BY <1>2 DEF TransAfter
  <2>2. NoTrans \in Trans /\ ~NoTrans.failed /\ NoTrans.done = {}
    BY NewRecords
  <2>3. /\ trans' \in Trans /\ trans'.open /\ trans'.clean = session.alive /\ trans'.fresh = ~name
        /\ ~trans'.failed /\ trans'.done = {}
    BY <1>1, <2>1, <2>2 DEF Trans
  <2> QED
    BY <1>2, <2>3
<1>3. CASE current.kind = "begin" /\ how # "ok"
  <2>1. trans' = trans
    BY <1>3 DEF TransAfter
  <2> QED
    BY <1>1, <1>3, <2>1
<1>4. CASE current.kind \in {"commit", "rollback"}
  <2>1. trans' = NoTrans
    BY <1>4 DEF TransAfter
  <2> QED
    BY <1>4, <2>1, NewRecords
<1>5. CASE current.kind \notin {"begin", "commit", "rollback"} /\ how = "ok"
  <2> DEFINE done == IF current.kind = "execute" /\ trans.open
                     THEN trans.done \cup {current.id} ELSE trans.done
  <2>1. trans' = [trans EXCEPT !.done = done]
    BY <1>5 DEF TransAfter
  <2>2. done \in Statements
    BY <1>1, CurrentIsACall DEF Statements
  <2> HIDE DEF done
  <2>3. /\ trans' \in Trans /\ trans'.done = done /\ trans'.open = trans.open
        /\ trans'.clean = trans.clean /\ trans'.fresh = trans.fresh /\ trans'.failed = trans.failed
    BY <1>1, <2>1, <2>2 DEF Trans
  <2> QED
    BY <1>5, <2>3 DEF done
<1>6. CASE current.kind \notin {"begin", "commit", "rollback"} /\ how # "ok"
  <2>1. trans' = [trans EXCEPT !.failed = trans.open]
    BY <1>6 DEF TransAfter
  <2>2. /\ trans' \in Trans /\ trans'.failed = trans.open /\ trans'.open = trans.open
        /\ trans'.clean = trans.clean /\ trans'.fresh = trans.fresh /\ trans'.done = trans.done
    BY <1>1, <2>1 DEF Trans
  <2> QED
    BY <1>6, <2>2
<1> QED
  BY <1>2, <1>3, <1>4, <1>5, <1>6

\* The end of a call: what it answered is what the server has.
LEMMA EndPgInv ==
    ASSUME PgInv, NEW how \in Hows, End(how), Ends(how)
    PROVE  PgInv'
<1>0. /\ TypesInv /\ SessionInv /\ CallInv /\ RepeatInv /\ TxInv /\ LossInv
      /\ ResultsAreFreed /\ AtomicInv /\ CursorInv /\ CopyIsWhole
  BY DEF PgInv
<1>1. /\ current' = Idle /\ trans' = TransAfter(how)
      /\ live' = IF current.result = "none" THEN live ELSE live - 1
      /\ name' = IF current.kind = "declare" THEN how = "ok" ELSE name
      /\ UNCHANGED <<handle, session, durable, losses, copies>>
  BY DEF End, NameAfterDeclare
<1>2. /\ current' \in Call /\ current'.pc = "idle" /\ current'.kind = "none"
      /\ current'.id = 0 /\ current'.result = "none"
  BY <1>1, IdleCall
<1>3. /\ outcome' \in Outcome /\ outcome'.how = how /\ outcome'.kind = current.kind
      /\ outcome'.id = current.id /\ outcome'.result = current.result
      /\ outcome'.rows = current.rows /\ outcome'.trans = trans
  <2>1. outcome' = [how |-> how, kind |-> current.kind, id |-> current.id,
                    result |-> current.result, rows |-> current.rows, trans |-> trans]
    BY DEF End
  <2> QED
    BY <1>0, <2>1, FieldTypes DEF Outcome, TypesInv
<1>4. /\ current.pc # "idle" /\ current.id \in Calls /\ current.id > outcome.id
      /\ outcome.id \in Nat /\ (\A c \in Calls : c \in Nat)
  <2>1. current.pc # "idle"
    BY DEF Ends, AnsweredWell, Lost
  <2> QED
    BY <1>0, <2>1, CurrentIsACall, FieldNumbers
<1>5. /\ trans' \in Trans
      /\ current.kind = "begin" /\ how = "ok" =>
             /\ trans'.open /\ trans'.clean = session.alive /\ trans'.fresh = ~name
             /\ ~trans'.failed /\ trans'.done = {}
      /\ current.kind = "begin" /\ how # "ok" => trans' = trans
      /\ current.kind \in {"commit", "rollback"} => ~trans'.open /\ trans'.done = {}
      /\ current.kind \notin {"begin", "commit", "rollback"} =>
             /\ trans'.open = trans.open /\ trans'.clean = trans.clean /\ trans'.fresh = trans.fresh
             /\ how = "ok" => trans'.failed = trans.failed
             /\ how # "ok" => trans'.failed = trans.open
             /\ trans'.done = IF how = "ok" /\ current.kind = "execute" /\ trans.open
                              THEN trans.done \cup {current.id} ELSE trans.done
  BY <1>0, <1>1, <1>4, TransEffects
<1>6. name' \in BOOLEAN /\ copies' \in Nat
  BY <1>0, <1>1 DEF TypesInv
<1>7. TypesInv'
  BY <1>0, <1>1, <1>2, <1>3, <1>5, <1>6 DEF TypesInv
<1>8. SessionInv' /\ CallInv'
  BY <1>0, <1>1, <1>2 DEF SessionInv, CallInv, Lost, AnsweredWell, QueryPcs, CopyPcs
<1>9. RepeatInv'
  <2>1. \A c \in Calls : c > current.id => durable[c] = 0 /\ c \notin session.pending
    BY <1>0, <1>4 DEF RepeatInv
  <2> QED
    BY <1>0, <1>1, <1>2, <1>3, <2>1 DEF RepeatInv, RepeatsAreBounded, Lost
<1>10. current.kind \in {"commit", "rollback"} => session.tx = "none" /\ session.pending = {}
  <2>1. current.kind \in {"commit", "rollback"} =>
            AnsweredWell("success") \/ Lost \/ current.pc = "refused"
    BY <1>0 DEF Ends, CallInv, CopyPcs, TxInv
  <2>2. Lost \/ current.pc = "refused" => session.tx = "none"
    BY <1>0 DEF CallInv, SessionInv
  <2> QED
    BY <1>0, <2>1, <2>2 DEF TxInv, SessionInv
<1>11. TxInv'
  <2>1. session.tx # "none" => trans'.open
    <3>1. session.tx # "none" => trans.open \/ (current.kind = "begin" /\ AnsweredWell("success"))
      BY <1>0 DEF TxInv
    <3>2. current.kind = "begin" /\ AnsweredWell("success") => how = "ok"
      BY DEF Ends, AnsweredWell, Lost, LostResults
    <3>3. current.kind = "begin" => ~trans.open
      BY <1>0 DEF CallInv
    <3> QED
      BY <1>5, <1>10, <3>1, <3>2, <3>3
  <2>2. SuccessIsDurable'
    <3>1. current.kind = "execute" /\ how = "ok" => AnsweredWell("success")
      BY <1>0 DEF Ends, CallInv, CopyPcs
    <3> QED
      BY <1>0, <1>1, <1>3, <3>1 DEF TxInv, SuccessIsDurable
  <2> QED
    BY <1>1, <1>2, <1>3, <1>4, <2>1, <2>2 DEF TxInv, AnsweredWell
<1>12. LossInv'
  <2>1. OneLossIsHidden'
    <3>1. how \in {"QueryError", "logic_error"} /\ current.result \in LostResults => Lost /\ ~AttemptsLeft
      BY DEF Ends, AnsweredWell, LostResults
    <3>2. Lost /\ ~AttemptsLeft => losses >= MAX_ATTEMPTS
      BY <1>0, FieldNumbers DEF LossInv, AttemptsLeft
    <3> QED
      BY <1>1, <1>3, <3>1, <3>2 DEF OneLossIsHidden, LostResults
  <2> QED
    BY <1>0, <1>1, <1>2, <2>1 DEF LossInv, Lost
<1>13. ResultsAreFreed'
  BY <1>0, <1>1, <1>2, FieldNumbers DEF ResultsAreFreed
<1>14. CopyIsWhole'
  BY <1>0, <1>3 DEF CopyIsWhole, Ends, AnsweredWell, CallInv, QueryPcs, Queries
<1>15. /\ ~EndAnswered' /\ (Failing' <=> trans'.failed)
       /\ InOneSession' <=> trans'.open /\ trans'.clean
  BY <1>1, <1>2 DEF EndAnswered, Failing, AnsweredWell, InOneSession
<1>16. AtomicInv'
  <2>1. \A c \in trans'.done : c <= current.id
    <3>1. \A c \in trans.done : c <= current.id
      BY <1>0, <1>4, FieldTypes DEF AtomicInv, Statements
    <3>2. trans'.done = {} \/ trans'.done = trans.done \/ trans'.done = trans.done \cup {current.id}
      BY <1>5
    <3> QED
      BY <1>4, <3>1, <3>2
  <2>2. InOneSession' => session.alive
    BY <1>0, <1>5, <1>15 DEF AtomicInv, InOneSession, CallInv
  <2>3. ASSUME InOneSession'
        PROVE  /\ \A c \in trans'.done : durable[c] = 0
               /\ session.tx = IF trans'.failed THEN "aborted" ELSE "open"
               /\ ~trans'.failed => session.pending = trans'.done
    <3>1. CASE current.kind = "begin"
      <4>1. how = "ok"
        BY <1>0, <1>5, <1>15, <2>3, <3>1 DEF CallInv, InOneSession
      <4>2. AnsweredWell("success")
        BY <1>0, <3>1, <4>1 DEF Ends, CallInv, CopyPcs
      <4> QED
        BY <1>0, <1>5, <2>2, <2>3, <3>1, <4>1, <4>2 DEF TxInv
    <3>2. CASE current.kind \notin {"begin", "commit", "rollback"}
      <4>1. InOneSession /\ ~EndAnswered
        BY <1>5, <1>15, <2>3, <3>2 DEF InOneSession, EndAnswered
      <4>2. /\ \A c \in trans.done : durable[c] = 0
            /\ session.tx = IF Failing THEN "aborted" ELSE "open"
            /\ ~Failing => session.pending = trans.done \cup
                   (IF current.kind = "execute" /\ AnsweredWell("success") THEN {current.id} ELSE {})
        BY <1>0, <4>1 DEF AtomicInv
      <4>3. CASE how = "ok" /\ AnsweredWell("success")
        <5>1. session.tx # "aborted"
          BY <1>0, <4>3 DEF TxInv
        <5>2. ~Failing /\ trans'.failed = FALSE
          BY <1>0, <1>5, <3>2, <4>2, <4>3, <5>1, FieldTypes DEF Failing
        <5>3. session.pending = trans'.done
          BY <1>5, <3>2, <4>1, <4>2, <4>3, <5>2 DEF InOneSession
        <5>4. \A c \in session.pending : durable[c] = 0
          BY <1>0 DEF RepeatInv
        <5> QED
          BY <4>2, <5>2, <5>3, <5>4
      <4>4. CASE how = "ok" /\ current.pc = "ended"
        <5>1. (Failing <=> trans.failed) /\ current.kind = "copy" /\ ~AnsweredWell("success")
          BY <1>0, <4>4 DEF Failing, AnsweredWell, CallInv, CopyPcs
        <5> QED
          BY <1>5, <3>2, <4>2, <4>4, <5>1
      <4>5. CASE how # "ok" /\ (AnsweredWell("error") \/ current.pc = "failed")
        <5>1. Failing /\ trans'.failed
          BY <1>5, <3>2, <4>1, <4>5 DEF Failing, InOneSession
        <5> QED
          BY <1>5, <3>2, <4>2, <4>5, <5>1
      <4>6. CASE Lost \/ current.pc = "refused"
        BY <1>0, <2>2, <2>3, <4>6 DEF CallInv, SessionInv
      <4> QED
        BY <4>3, <4>4, <4>5, <4>6 DEF Ends
    <3> QED
      BY <1>5, <1>15, <2>3, <3>1, <3>2
  <2>4. current.kind \in {"commit", "rollback"} => \A c \in trans.done : c <= current.id
    BY <1>0, <1>4, FieldTypes DEF AtomicInv, Statements
  <2>5. TransactionIsAtomic'
    <3>1. ASSUME how = "ok", trans.clean, current.kind \in {"commit", "rollback"}
          PROVE  InOneSession /\ EndAnswered
      BY <1>0, <3>1 DEF Ends, CallInv, CopyPcs, InOneSession, EndAnswered
    <3> QED
      BY <1>0, <1>1, <1>3, <3>1 DEF AtomicInv, TransactionIsAtomic
  <2> QED
    BY <1>1, <1>2, <1>3, <1>10, <1>15, <2>1, <2>2, <2>3, <2>4, <2>5 DEF AtomicInv
<1>17. CursorInv'
  <2> SUFFICES ASSUME InOneSession', trans'.fresh, ~trans'.failed
               PROVE  name' = session.cursor
    BY <1>1, <1>2, <1>15 DEF CursorInv
  <2>1. CASE current.kind = "begin"
    <3>1. how = "ok" /\ AnsweredWell("success")
      BY <1>0, <1>5, <1>15, <2>1 DEF CallInv, InOneSession, Ends, CopyPcs
    <3>2. ~session.cursor /\ ~name
      BY <1>0, <1>5, <1>15, <2>1, <3>1 DEF TxInv
    <3> QED
      BY <1>0, <1>1, <2>1, <3>2, FieldTypes DEF TypesInv
  <2>2. CASE current.kind \notin {"begin", "commit", "rollback"}
    <3>1. how = "ok" /\ InOneSession /\ trans.fresh /\ ~trans.failed
      BY <1>5, <1>15, <2>2 DEF InOneSession
    <3>2. AnsweredWell("success") \/ current.pc = "ended"
      BY <3>1 DEF Ends
    <3>3. ~Failing /\ ~EndAnswered
      BY <2>2, <3>1, <3>2 DEF Failing, EndAnswered, AnsweredWell
    <3>4. CASE current.kind = "declare"
      BY <1>0, <1>1, <3>1, <3>2, <3>3, <3>4, FieldTypes DEF CursorInv, CallInv, CopyPcs, AnsweredWell
    <3>5. CASE current.kind \in {"close", "reopen"}
      <4>1. current.pc = "check"
        BY <1>0, <3>2, <3>5 DEF CallInv, CopyPcs, AnsweredWell
      <4>2. ~name /\ ~session.cursor
        BY <1>0, <3>1, <3>3, <3>5, <4>1 DEF CursorInv
      <4> QED
        BY <1>0, <1>1, <3>5, <4>2, FieldTypes DEF TypesInv
    <3>6. CASE current.kind \notin {"declare", "close", "reopen"}
      BY <1>0, <1>1, <3>1, <3>3, <3>6 DEF CursorInv
    <3> QED
      BY <3>4, <3>5, <3>6
  <2> QED
    BY <1>5, <1>15, <2>1, <2>2
<1> QED
  BY <1>7, <1>8, <1>9, <1>11, <1>12, <1>13, <1>14, <1>16, <1>17 DEF PgInv

-----------------------------------------------------------------------------
(* A statement is sent.                                                     *)

\* What a statement can do, kind by kind: end the transaction, begin one, change
\* the database at once or when the transaction ends, open, use or close the
\* cursor, or fail.
Commits(run) ==
    /\ run.ok /\ current.kind = "commit"
    /\ run.session.tx = "none" /\ run.session.pending = {} /\ run.session.cursor = FALSE
    /\ \A c \in Calls : run.durable[c] = IF session.tx = "open" /\ c \in session.pending
                                         THEN durable[c] + 1 ELSE durable[c]
RollsBack(run) ==
    /\ run.ok /\ current.kind = "rollback"
    /\ run.session.tx = "none" /\ run.session.pending = {} /\ run.session.cursor = FALSE
    /\ run.durable = durable
Begins(run) ==
    /\ run.ok /\ current.kind = "begin" /\ session.tx # "aborted"
    /\ run.session.tx = "open" /\ run.session.pending = session.pending
    /\ run.session.cursor = session.cursor /\ run.durable = durable
ChangesNow(run) ==
    /\ run.ok /\ current.kind = "execute" /\ session.tx = "none"
    /\ run.session = session
    /\ \A c \in Calls : run.durable[c] = IF c = current.id THEN durable[c] + 1 ELSE durable[c]
ChangesLater(run) ==
    /\ run.ok /\ current.kind = "execute" /\ session.tx = "open"
    /\ run.session.pending = session.pending \cup {current.id}
    /\ run.session.tx = session.tx /\ run.session.cursor = session.cursor /\ run.durable = durable
UsesCursor(run) ==
    /\ run.ok /\ current.kind \in {"declare", "fetch", "close", "reopen"} /\ session.tx # "aborted"
    /\ run.session.cursor = IF current.kind = "fetch" THEN session.cursor ELSE current.kind = "declare"
    /\ session.tx # "none"
    /\ run.session.tx = session.tx /\ run.session.pending = session.pending /\ run.durable = durable
FailsInTx(run) ==
    /\ ~run.ok /\ current.kind \notin {"commit", "rollback"}
    /\ current.kind = "begin" => session.tx = "aborted"
    /\ run.session.tx = IF session.tx = "open" THEN "aborted" ELSE session.tx
    /\ run.session.pending = session.pending /\ run.session.cursor = session.cursor
    /\ run.durable = durable

\* What a statement can do in the server, as long as the session lives.
LEMMA ServerEffects ==
    ASSUME TypesInv, SessionInv, CallInv, current.pc = "send",
           NEW run \in ServerRuns(current.kind, current.id, session, durable)
    PROVE  /\ run.ok \in BOOLEAN
           /\ run.session \in Session /\ run.session.alive = session.alive
           /\ run.durable \in [Calls -> Nat]
           /\ \/ Commits(run) \/ RollsBack(run) \/ Begins(run) \/ ChangesNow(run) \/ ChangesLater(run)
              \/ UsesCursor(run) \/ FailsInTx(run)
<1> DEFINE aborted == [session EXCEPT !.tx = "aborted"]
           failed == IF session.tx = "open" THEN aborted ELSE session
           begun == [session EXCEPT !.tx = "open"]
           ended == [session EXCEPT !.tx = "none", !.pending = {}, !.cursor = FALSE]
           waiting == [session EXCEPT !.pending = session.pending \cup {current.id}]
           declared == [session EXCEPT !.cursor = TRUE]
           closed == [session EXCEPT !.cursor = FALSE]
           added == [durable EXCEPT ![current.id] = durable[current.id] + 1]
           committed == [c \in Calls |-> IF c \in session.pending THEN durable[c] + 1 ELSE durable[c]]
<1>0. /\ session \in Session /\ durable \in [Calls -> Nat] /\ current.id \in Calls
      /\ {} \in Statements /\ session.pending \cup {current.id} \in Statements
      /\ {"none", "open", "aborted"} \subseteq TxStates
      /\ session.tx \in {"none", "open", "aborted"} /\ current.kind \in Queries
      /\ session.tx = "none" => ~session.cursor
  BY CurrentIsACall, FieldTypes DEF TypesInv, Statements, TxStates, CallInv, QueryPcs, SessionInv
<1>1. /\ aborted \in Session /\ aborted.alive = session.alive /\ aborted.tx = "aborted"
      /\ aborted.pending = session.pending /\ aborted.cursor = session.cursor
  BY <1>0 DEF Session
<1>2. /\ begun \in Session /\ begun.alive = session.alive /\ begun.tx = "open"
      /\ begun.pending = session.pending /\ begun.cursor = session.cursor
  BY <1>0 DEF Session
<1>3. /\ ended \in Session /\ ended.alive = session.alive /\ ended.tx = "none"
      /\ ended.pending = {} /\ ended.cursor = FALSE
  BY <1>0 DEF Session
<1>4. /\ waiting \in Session /\ waiting.alive = session.alive /\ waiting.tx = session.tx
      /\ waiting.pending = session.pending \cup {current.id} /\ waiting.cursor = session.cursor
  BY <1>0 DEF Session
<1>5. /\ declared \in Session /\ declared.alive = session.alive /\ declared.tx = session.tx
      /\ declared.pending = session.pending /\ declared.cursor = TRUE
  BY <1>0 DEF Session
<1>6. /\ closed \in Session /\ closed.alive = session.alive /\ closed.tx = session.tx
      /\ closed.pending = session.pending /\ closed.cursor = FALSE
  BY <1>0 DEF Session
<1>7. /\ added \in [Calls -> Nat]
      /\ \A c \in Calls : added[c] = IF c = current.id THEN durable[c] + 1 ELSE durable[c]
  BY <1>0
<1>8. /\ committed \in [Calls -> Nat]
      /\ \A c \in Calls : committed[c] = IF c \in session.pending THEN durable[c] + 1 ELSE durable[c]
  BY <1>0
<1> DEFINE fails == [ok |-> FALSE, durable |-> durable, session |-> failed]
           does(session1, durable1) == [ok |-> TRUE, session |-> session1, durable |-> durable1]
<1> HIDE DEF aborted, begun, ended, waiting, declared, closed, added, committed
<1>9. ASSUME run = fails, current.kind \notin {"commit", "rollback"},
             current.kind = "begin" => session.tx = "aborted"
      PROVE  run.session \in Session /\ run.session.alive = session.alive
             /\ run.ok \in BOOLEAN /\ run.durable \in [Calls -> Nat] /\ FailsInTx(run)
  BY <1>0, <1>1, <1>9 DEF FailsInTx
<1>10. CASE current.kind = "commit"
  <2>1. run = does(ended, IF session.tx = "open" THEN committed ELSE durable)
    BY <1>10 DEF ServerRuns, ended, committed
  <2> QED
    BY <1>0, <1>3, <1>8, <1>10, <2>1 DEF Commits
<1>11. CASE current.kind = "rollback"
  <2>1. run = does(ended, durable)
    BY <1>11 DEF ServerRuns, ended
  <2> QED
    BY <1>0, <1>3, <1>11, <2>1 DEF RollsBack
<1>12. CASE session.tx = "aborted" /\ current.kind \notin {"commit", "rollback"}
  <2>1. run = fails
    BY <1>12 DEF ServerRuns, aborted
  <2> QED
    BY <1>9, <1>12, <2>1
<1>13. CASE session.tx # "aborted" /\ current.kind = "begin"
  <2>1. run = does(begun, durable)
    BY <1>13 DEF ServerRuns, begun
  <2> QED
    BY <1>0, <1>2, <1>13, <2>1 DEF Begins
<1>14. CASE session.tx = "none" /\ current.kind = "execute"
  <2>1. run = fails \/ run = does(session, added)
    BY <1>14 DEF ServerRuns, added, aborted
  <2>2. CASE run = does(session, added)
    BY <1>0, <1>7, <1>14, <2>2 DEF ChangesNow
  <2> QED
    BY <1>9, <1>14, <2>1, <2>2
<1>15. CASE session.tx = "open" /\ current.kind = "execute"
  <2>1. run = fails \/ run = does(waiting, durable)
    BY <1>15 DEF ServerRuns, waiting, aborted
  <2>2. CASE run = does(waiting, durable)
    BY <1>0, <1>4, <1>15, <2>2 DEF ChangesLater
  <2> QED
    BY <1>9, <1>15, <2>1, <2>2
<1>16. CASE session.tx # "aborted" /\ current.kind = "declare"
  <2>1. run = IF session.tx = "open" /\ ~session.cursor THEN does(declared, durable) ELSE fails
    BY <1>16 DEF ServerRuns, declared, aborted
  <2>2. CASE run = does(declared, durable) /\ session.tx = "open"
    BY <1>0, <1>5, <1>16, <2>2 DEF UsesCursor
  <2> QED
    BY <1>9, <1>16, <2>1, <2>2
<1>17. CASE session.tx # "aborted" /\ current.kind = "fetch"
  <2>1. run = IF session.cursor THEN does(session, durable) ELSE fails
    BY <1>17 DEF ServerRuns, aborted
  <2>2. CASE run = does(session, durable) /\ session.tx # "none"
    BY <1>0, <1>17, <2>2 DEF UsesCursor
  <2> QED
    BY <1>0, <1>9, <1>17, <2>1, <2>2
<1>18. CASE session.tx # "aborted" /\ current.kind \in {"close", "reopen"}
  <2>1. run = IF session.cursor THEN does(closed, durable) ELSE fails
    BY <1>18 DEF ServerRuns, closed, aborted
  <2>2. CASE run = does(closed, durable) /\ session.tx # "none"
    BY <1>0, <1>6, <1>18, <2>2 DEF UsesCursor
  <2> QED
    BY <1>0, <1>9, <1>18, <2>1, <2>2
<1>19. \/ current.kind = "commit" \/ current.kind = "rollback"
       \/ session.tx = "aborted" /\ current.kind \notin {"commit", "rollback"}
       \/ session.tx # "aborted" /\ current.kind = "begin"
       \/ session.tx = "none" /\ current.kind = "execute"
       \/ session.tx = "open" /\ current.kind = "execute"
       \/ session.tx # "aborted" /\ current.kind = "declare"
       \/ session.tx # "aborted" /\ current.kind = "fetch"
       \/ session.tx # "aborted" /\ current.kind \in {"close", "reopen"}
  BY <1>0 DEF Queries
<1> QED
  BY <1>10, <1>11, <1>12, <1>13, <1>14, <1>15, <1>16, <1>17, <1>18, <1>19

\* What a statement adds to the database, whether its reply arrives or not.  What
\* earlier calls left there for good is not touched, and what is held back was not
\* there before.
LEMMA SendDurable ==
    ASSUME PgInv, current.pc = "send",
           NEW run \in ServerRuns(current.kind, current.id, session, durable)
    PROVE  /\ \A c \in Calls :
                  /\ run.durable[c] \in Nat /\ run.durable[c] >= durable[c]
                  /\ run.durable[c] <= MAX_ATTEMPTS /\ run.durable[c] <= 1 + losses
                  /\ c > outcome.id /\ c # current.id => run.durable[c] = 0
                  /\ outcome.kind \in {"commit", "rollback"} /\ c <= outcome.id =>
                         run.durable[c] = durable[c]
           /\ current.kind # "execute" => run.durable[current.id] = 0
           /\ run.durable[current.id] <= current.attempt + 1
<1>0. /\ TypesInv /\ SessionInv /\ CallInv /\ RepeatInv /\ TxInv /\ LossInv
      /\ ResultsAreFreed /\ AtomicInv /\ CursorInv /\ CopyIsWhole
  BY DEF PgInv
<1>1. \/ Commits(run) \/ RollsBack(run) \/ Begins(run) \/ ChangesNow(run) \/ ChangesLater(run)
      \/ UsesCursor(run) \/ FailsInTx(run)
  BY <1>0, ServerEffects
<1>2. /\ current.id \in Calls /\ durable[current.id] \in Nat /\ current.id > outcome.id
      /\ outcome.id \in Nat /\ losses \in Nat /\ MAX_ATTEMPTS \in Nat /\ MAX_ATTEMPTS >= 1
      /\ current.attempt \in Nat /\ current.attempt < MAX_ATTEMPTS
      /\ \A c \in Calls : c \in Nat /\ durable[c] \in Nat
  BY <1>0, CurrentIsACall, FieldNumbers
<1>3. /\ \A c \in Calls : durable[c] <= MAX_ATTEMPTS /\ durable[c] <= 1 + losses
      /\ \A c \in Calls : c > outcome.id /\ c # current.id => durable[c] = 0 /\ c \notin session.pending
      /\ current.kind # "execute" => durable[current.id] = 0
      /\ current.id \notin session.pending
      /\ durable[current.id] <= current.attempt /\ durable[current.id] <= losses
      /\ \A c \in session.pending : durable[c] = 0
  BY <1>0 DEF RepeatInv, RepeatsAreBounded
<1>4. outcome.kind \in {"commit", "rollback"} => \A c \in session.pending : c > outcome.id
  BY <1>0 DEF AtomicInv
<1>5. CASE run.durable = durable
  BY <1>2, <1>3, <1>5
<1>6. CASE Commits(run)
  <2>1. /\ current.kind = "commit"
        /\ \A c \in Calls : run.durable[c] = IF session.tx = "open" /\ c \in session.pending
                                             THEN durable[c] + 1 ELSE durable[c]
    BY <1>6 DEF Commits
  <2>2. \A c \in Calls : c \in session.pending =>
            durable[c] = 0 /\ (outcome.kind \in {"commit", "rollback"} => ~(c <= outcome.id))
    BY <1>2, <1>3, <1>4
  <2>3. ASSUME NEW c \in Calls
        PROVE  /\ run.durable[c] \in Nat /\ run.durable[c] >= durable[c]
               /\ run.durable[c] <= MAX_ATTEMPTS /\ run.durable[c] <= 1 + losses
               /\ c > outcome.id /\ c # current.id => run.durable[c] = 0
               /\ outcome.kind \in {"commit", "rollback"} /\ c <= outcome.id =>
                      run.durable[c] = durable[c]
    BY <1>2, <1>3, <2>1, <2>2
  <2>4. run.durable[current.id] = 0
    BY <1>2, <1>3, <2>1
  <2> QED
    BY <1>2, <2>1, <2>3, <2>4
<1>7. CASE ChangesNow(run)
  <2>1. /\ current.kind = "execute"
        /\ \A c \in Calls : run.durable[c] = IF c = current.id THEN durable[c] + 1 ELSE durable[c]
    BY <1>7 DEF ChangesNow
  <2> QED
    BY <1>2, <1>3, <2>1
<1> QED
  BY <1>1, <1>5, <1>6, <1>7 DEF RollsBack, Begins, ChangesLater, UsesCursor, FailsInTx

\* The reply arrives.
LEMMA GotResultEffects ==
    ASSUME TypesInv, ResultsAreFreed, NEW result \in Results \ {"none"}, GotResult(result)
    PROVE  /\ current' \in Call /\ current'.pc = "check" /\ current'.result = result
           /\ current'.kind = current.kind /\ current'.id = current.id
           /\ current'.attempt = current.attempt /\ current'.rows = current.rows
           /\ UNCHANGED <<name, copies, outcome>>
           /\ ResultsAreFreed'
<1>1. /\ current' = [current EXCEPT !.pc = "check", !.result = result]
      /\ live' = IF current.result = "none" THEN live + 1 ELSE live
      /\ UNCHANGED <<name, copies, outcome>>
  BY DEF GotResult, LiveAfterReset
<1>2. current \in Call /\ "check" \in Pcs /\ result \in Results /\ result # "none" /\ copies \in Nat
  BY DEF TypesInv, Pcs, QueryPcs
<1>3. /\ current' \in Call /\ current'.pc = "check" /\ current'.result = result
      /\ current'.kind = current.kind /\ current'.id = current.id
      /\ current'.attempt = current.attempt /\ current'.rows = current.rows
  BY <1>1, <1>2 DEF Call
<1>4. ResultsAreFreed'
  BY <1>1, <1>2, <1>3 DEF ResultsAreFreed
<1> QED
  BY <1>1, <1>3, <1>4

\* A statement that never arrives changes nothing; that its session died was
\* counted then.
LEMMA SendNeverArrivesPgInv ==
    ASSUME PgInv, SendNeverArrives
    PROVE  PgInv'
<1>0. /\ TypesInv /\ SessionInv /\ CallInv /\ RepeatInv /\ TxInv /\ LossInv
      /\ ResultsAreFreed /\ AtomicInv /\ CursorInv /\ CopyIsWhole
  BY DEF PgInv
<1>1. /\ current.pc = "send" /\ ~session.alive /\ handle' = "bad"
      /\ UNCHANGED <<session, durable, losses, trans>>
  BY DEF SendNeverArrives
<1>2. PICK result \in LostResults : GotResult(result)
  BY DEF SendNeverArrives, LostResults
<1>3. /\ current' \in Call /\ current'.pc = "check" /\ current'.result = result
      /\ current'.kind = current.kind /\ current'.id = current.id
      /\ current'.attempt = current.attempt /\ current'.rows = current.rows
      /\ UNCHANGED <<name, copies, outcome>>
      /\ ResultsAreFreed'
  <2>1. result \in Results \ {"none"}
    BY DEF LostResults, Results
  <2> QED
    BY <1>0, <1>2, <2>1, GotResultEffects
<1>4. TypesInv'
  BY <1>0, <1>1, <1>3 DEF TypesInv
<1>5. SessionInv'
  BY <1>0, <1>1 DEF SessionInv
<1>6. CallInv'
  BY <1>0, <1>1, <1>3 DEF CallInv, Lost, LostResults, AnsweredWell, QueryPcs, CopyPcs
<1>7. RepeatInv'
  BY <1>0, <1>1, <1>3, CurrentIsACall, FieldNumbers DEF RepeatInv, RepeatsAreBounded, Lost
<1>8. TxInv'
  BY <1>0, <1>1, <1>3 DEF TxInv, SuccessIsDurable, AnsweredWell, LostResults, SessionInv
<1>9. LossInv'
  BY <1>0, <1>1, <1>3 DEF LossInv, Lost, OneLossIsHidden
<1>10. ~InOneSession /\ ~InOneSession'
  BY <1>0, <1>1 DEF AtomicInv, InOneSession
<1>11. AtomicInv' /\ CursorInv' /\ CopyIsWhole'
  BY <1>0, <1>1, <1>3, <1>10 DEF AtomicInv, TransactionIsAtomic, CursorInv, CopyIsWhole
<1> QED
  BY <1>3, <1>4, <1>5, <1>6, <1>7, <1>8, <1>9, <1>11 DEF PgInv

\* A statement that was carried out although its reply is lost: it may be in the
\* database, and this attempt has cost a session.
LEMMA SendLosesReplyPgInv ==
    ASSUME PgInv, SendLosesReply
    PROVE  PgInv'
<1>0. /\ TypesInv /\ SessionInv /\ CallInv /\ RepeatInv /\ TxInv /\ LossInv
      /\ ResultsAreFreed /\ AtomicInv /\ CursorInv /\ CopyIsWhole
  BY DEF PgInv
<1>1. /\ current.pc = "send" /\ handle' = "bad" /\ session' = Dead /\ trans' = Tainted
      /\ losses' = losses + 1 /\ losses < MaxLosses /\ GotResult("lost")
  BY DEF SendLosesReply, Lose
<1>2. PICK run \in ServerRuns(current.kind, current.id, session, durable) : durable' = run.durable
  BY DEF SendLosesReply
<1>3. /\ current' \in Call /\ current'.pc = "check" /\ current'.result = "lost"
      /\ current'.kind = current.kind /\ current'.id = current.id
      /\ current'.attempt = current.attempt /\ current'.rows = current.rows
      /\ UNCHANGED <<name, copies, outcome>>
      /\ ResultsAreFreed'
  BY <1>0, <1>1, GotResultEffects DEF Results
<1>4. /\ session' \in Session /\ ~session'.alive /\ session'.tx = "none"
      /\ session'.pending = {} /\ ~session'.cursor
  BY <1>1, NewRecords
<1>5. /\ trans' \in Trans /\ ~trans'.clean
      /\ trans'.open = trans.open /\ trans'.failed = trans.failed /\ trans'.done = trans.done
  BY <1>0, <1>1 DEF Tainted, TypesInv, Trans
<1>6. durable' \in [Calls -> Nat]
  BY <1>0, <1>1, <1>2, ServerEffects
<1>7. /\ \A c \in Calls :
             /\ durable'[c] \in Nat /\ durable'[c] >= durable[c]
             /\ durable'[c] <= MAX_ATTEMPTS /\ durable'[c] <= 1 + losses
             /\ c > outcome.id /\ c # current.id => durable'[c] = 0
             /\ outcome.kind \in {"commit", "rollback"} /\ c <= outcome.id =>
                    durable'[c] = durable[c]
      /\ current.kind # "execute" => durable'[current.id] = 0
      /\ durable'[current.id] <= current.attempt + 1
  BY <1>1, <1>2, SendDurable
<1>8. /\ losses \in Nat /\ losses' \in 0 .. MaxLosses /\ current.id \in Calls
      /\ outcome.id \in Nat /\ current.attempt \in Nat
      /\ \A c \in Calls : c \in Nat /\ durable[c] \in Nat
  BY <1>0, <1>1, CurrentIsACall, FieldNumbers
<1>9. TypesInv'
  BY <1>0, <1>1, <1>3, <1>4, <1>5, <1>6, <1>8 DEF TypesInv
<1>10. SessionInv'
  BY <1>4 DEF SessionInv
<1>11. CallInv'
  BY <1>0, <1>1, <1>3, <1>5 DEF CallInv, Lost, LostResults, AnsweredWell, QueryPcs, CopyPcs
<1>12. RepeatInv'
  <2>1. RepeatsAreBounded'
    BY <1>1, <1>7, <1>8 DEF RepeatsAreBounded
  <2>2. durable'[current.id] <= losses'
    BY <1>1, <1>7, <1>8
  <2> QED
    BY <1>3, <1>4, <1>7, <2>1, <2>2 DEF RepeatInv, Lost
<1>13. SuccessIsDurable'
  <2>1. outcome.kind = "execute" /\ outcome.how = "ok" /\ ~outcome.trans.open => durable[outcome.id] >= 1
    BY <1>0 DEF TxInv, SuccessIsDurable
  <2>2. outcome.kind = "execute" => outcome.id \in Calls
    BY <1>0 DEF TxInv
  <2> QED
    BY <1>3, <1>7, <1>8, <2>1, <2>2 DEF SuccessIsDurable
<1>14. TxInv'
  BY <1>0, <1>3, <1>4, <1>13 DEF TxInv, AnsweredWell
<1>15. LossInv'
  BY <1>0, <1>1, <1>3, <1>8, FieldNumbers DEF LossInv, Lost, OneLossIsHidden
<1>16. TransactionIsAtomic'
  <2>1. outcome.kind \in {"commit", "rollback"} =>
            \A c \in outcome.trans.done : c \in Calls /\ durable'[c] = durable[c]
    BY <1>0, <1>7, FieldTypes DEF AtomicInv, Statements
  <2> QED
    BY <1>0, <1>3, <2>1 DEF AtomicInv, TransactionIsAtomic
<1>17. AtomicInv' /\ CursorInv' /\ CopyIsWhole'
  BY <1>0, <1>3, <1>4, <1>5, <1>16 DEF AtomicInv, InOneSession, CursorInv, CopyIsWhole
<1> QED
  BY <1>3, <1>9, <1>10, <1>11, <1>12, <1>14, <1>15, <1>17 DEF PgInv

\* A statement that is answered.
LEMMA SendPgInv ==
    ASSUME PgInv, Send
    PROVE  PgInv'
<1>0. /\ TypesInv /\ SessionInv /\ CallInv /\ RepeatInv /\ TxInv /\ LossInv
      /\ ResultsAreFreed /\ AtomicInv /\ CursorInv /\ CopyIsWhole
  BY DEF PgInv
<1>1. current.pc = "send" /\ session.alive /\ UNCHANGED <<handle, losses, trans>> /\ handle = "ok"
  BY <1>0 DEF Send, CallInv
<1>2. PICK run \in ServerRuns(current.kind, current.id, session, durable) :
          /\ session' = run.session
          /\ durable' = run.durable
          /\ GotResult(IF run.ok THEN "success" ELSE "error")
  BY DEF Send
<1> DEFINE result == IF run.ok THEN "success" ELSE "error"
<1>3. result \in {"success", "error"} /\ (result = "success" <=> run.ok)
  OBVIOUS
<1>4. GotResult(result)
  BY <1>2
<1> HIDE DEF result
<1>5. /\ current' \in Call /\ current'.pc = "check" /\ current'.result = result
      /\ current'.kind = current.kind /\ current'.id = current.id
      /\ current'.attempt = current.attempt /\ current'.rows = current.rows
      /\ UNCHANGED <<name, copies, outcome>>
      /\ ResultsAreFreed'
  <2>1. result \in Results \ {"none"}
    BY <1>3 DEF Results
  <2> QED
    BY <1>0, <1>4, <2>1, GotResultEffects
<1>6. /\ session' \in Session /\ session'.alive = session.alive /\ durable' \in [Calls -> Nat]
      /\ \/ Commits(run) \/ RollsBack(run) \/ Begins(run) \/ ChangesNow(run) \/ ChangesLater(run)
         \/ UsesCursor(run) \/ FailsInTx(run)
  BY <1>0, <1>1, <1>2, ServerEffects
<1>7. /\ \A c \in Calls :
             /\ durable'[c] \in Nat /\ durable'[c] >= durable[c]
             /\ durable'[c] <= MAX_ATTEMPTS /\ durable'[c] <= 1 + losses
             /\ c > outcome.id /\ c # current.id => durable'[c] = 0
             /\ outcome.kind \in {"commit", "rollback"} /\ c <= outcome.id =>
                    durable'[c] = durable[c]
      /\ current.kind # "execute" => durable'[current.id] = 0
      /\ durable'[current.id] <= current.attempt + 1
  BY <1>1, <1>2, SendDurable
<1>8. /\ current.id \in Calls /\ current.id > outcome.id /\ durable[current.id] \in Nat
      /\ outcome.id \in Nat /\ current.attempt \in Nat /\ losses \in Nat
      /\ \A c \in Calls : c \in Nat /\ durable[c] \in Nat
  BY <1>0, <1>1, CurrentIsACall, FieldNumbers
<1>9. session.pending \subseteq Calls /\ trans.done \subseteq Calls /\ session.tx \in {"none", "open", "aborted"}
  BY <1>0, FieldTypes DEF Statements, TxStates
<1>10. /\ session.tx = "none" => session.pending = {} /\ ~session.cursor
       /\ session.tx # "none" => trans.open
       /\ current.kind = "begin" => session.tx = "none"
  BY <1>0, <1>1 DEF SessionInv, TxInv, AnsweredWell, CallInv
\* What is held back afterwards was held back before, or is this statement.
<1>11. /\ session'.pending \subseteq session.pending \cup {current.id}
       /\ current.id \in session'.pending => ChangesLater(run)
       /\ session'.tx # "none" => session.tx # "none" \/ Begins(run)
       /\ session'.tx = "none" => session'.pending = {} /\ ~session'.cursor
       /\ session'.tx = "aborted" => ~run.ok
  <2>1. current.id \notin session.pending
    BY <1>0, <1>1 DEF RepeatInv
  <2>2. \/ run.session.pending = {} \/ run.session.pending = session.pending
        \/ ChangesLater(run) /\ run.session.pending = session.pending \cup {current.id}
    BY <1>6 DEF Commits, RollsBack, Begins, ChangesNow, ChangesLater, UsesCursor, FailsInTx
  <2>3. /\ run.session.tx # "none" => session.tx # "none" \/ Begins(run)
        /\ run.session.tx = "none" => run.session.pending = {} /\ ~run.session.cursor
        /\ run.session.tx = "aborted" => ~run.ok
    BY <1>6, <1>10 DEF Commits, RollsBack, Begins, ChangesNow, ChangesLater, UsesCursor, FailsInTx
  <2> QED
    BY <1>2, <2>1, <2>2, <2>3
<1>12. TypesInv'
  BY <1>0, <1>1, <1>5, <1>6 DEF TypesInv
<1>13. SessionInv'
  BY <1>1, <1>6, <1>11 DEF SessionInv
<1>14. CallInv'
  BY <1>0, <1>1, <1>3, <1>5 DEF CallInv, Lost, LostResults, AnsweredWell, QueryPcs, CopyPcs
<1>15. RepeatInv'
  <2>1. RepeatsAreBounded'
    BY <1>1, <1>7 DEF RepeatsAreBounded
  <2>2. \A c \in Calls : c > outcome.id /\ c # current.id => c \notin session'.pending
    BY <1>0, <1>11 DEF RepeatInv
  <2>3. current.kind # "execute" => current.id \notin session'.pending
    BY <1>11 DEF ChangesLater
  <2>4. \A c \in session'.pending : durable'[c] = 0
    <3>1. CASE ChangesLater(run)
      <4>1. current.attempt = 0
        BY <1>0, <1>1, <1>8, <3>1 DEF TxInv, ChangesLater
      <4>2. durable[current.id] = 0
        BY <1>0, <1>1, <1>8, <4>1 DEF RepeatInv
      <4> QED
        BY <1>0, <1>2, <1>11, <3>1, <4>2 DEF RepeatInv, ChangesLater
    <3>2. CASE ~ChangesLater(run) /\ session'.pending # {}
      <4>1. durable' = durable
        <5>1. ~Commits(run) /\ ~RollsBack(run)
          BY <1>2, <3>2 DEF Commits, RollsBack
        <5>2. ~ChangesNow(run)
          BY <1>2, <1>10, <3>2 DEF ChangesNow
        <5> QED
          BY <1>2, <1>6, <3>2, <5>1, <5>2 DEF Begins, UsesCursor, FailsInTx
      <4>2. session'.pending \subseteq session.pending
        BY <1>11, <3>2
      <4> QED
        BY <1>0, <4>1, <4>2 DEF RepeatInv
    <3> QED
      BY <3>1, <3>2
  <2> QED
    BY <1>3, <1>5, <1>7, <2>1, <2>2, <2>3, <2>4 DEF RepeatInv, Lost, LostResults
<1>16. TxInv'
  <2>1. session'.tx # "none" => trans.open \/ (current.kind = "begin" /\ result = "success")
    BY <1>3, <1>10, <1>11 DEF Begins
  <2>2. current.kind = "execute" /\ run.ok /\ ~trans.open => durable'[current.id] >= 1
    <3>1. current.kind = "execute" /\ run.ok /\ ~trans.open => ChangesNow(run)
      BY <1>6, <1>10 DEF Commits, RollsBack, Begins, ChangesLater, UsesCursor, FailsInTx
    <3>2. ChangesNow(run) => durable'[current.id] = durable[current.id] + 1
      BY <1>2, <1>8 DEF ChangesNow
    <3> QED
      BY <1>8, <3>1, <3>2
  <2>3. current.kind \in {"begin", "commit", "rollback"} => run.ok
    BY <1>6, <1>10 DEF Commits, RollsBack, Begins, ChangesNow, ChangesLater, UsesCursor, FailsInTx
  <2>4. current.kind \in {"commit", "rollback"} => session'.tx = "none"
    BY <1>2, <1>6 DEF Commits, RollsBack, Begins, ChangesNow, ChangesLater, UsesCursor, FailsInTx
  <2>5. current.kind = "begin" => session'.tx = "open" /\ session'.pending = {} /\ ~session'.cursor
    BY <1>2, <1>6, <1>10, <2>3 DEF Commits, RollsBack, Begins, ChangesNow, ChangesLater, UsesCursor, FailsInTx
  <2>6. SuccessIsDurable'
    <3>1. outcome.kind = "execute" /\ outcome.how = "ok" /\ ~outcome.trans.open => durable[outcome.id] >= 1
      BY <1>0 DEF TxInv, SuccessIsDurable
    <3>2. outcome.kind = "execute" => outcome.id \in Calls
      BY <1>0 DEF TxInv
    <3> QED
      BY <1>5, <1>7, <1>8, <3>1, <3>2 DEF SuccessIsDurable
  <2> QED
    BY <1>0, <1>1, <1>3, <1>5, <1>11, <2>1, <2>2, <2>3, <2>4, <2>5, <2>6 DEF TxInv, AnsweredWell
<1>17. LossInv'
  BY <1>0, <1>1, <1>3, <1>5, <1>6 DEF LossInv, Lost, LostResults, OneLossIsHidden
<1>18. CopyIsWhole'
  BY <1>0, <1>5 DEF CopyIsWhole
\* The transaction the user is in.
<1>19. /\ InOneSession' = InOneSession
       /\ EndAnswered' <=> current.kind \in {"commit", "rollback"} /\ run.ok
       /\ Failing' <=> trans.failed \/ ~run.ok
       /\ ~EndAnswered /\ (Failing <=> trans.failed)
  BY <1>1, <1>3, <1>5 DEF InOneSession, EndAnswered, Failing, AnsweredWell
<1>20. InOneSession =>
           /\ \A c \in trans.done : durable[c] = 0
           /\ session.tx = IF trans.failed THEN "aborted" ELSE "open"
           /\ ~trans.failed => session.pending = trans.done
           /\ current.kind # "begin"
  BY <1>0, <1>1, <1>19 DEF AtomicInv, AnsweredWell, CallInv, InOneSession
<1>21. AtomicInv'
  <2>1. ASSUME InOneSession, current.kind \notin {"commit", "rollback"}
        PROVE  /\ \A c \in trans.done : durable'[c] = 0
               /\ session'.tx = IF trans.failed \/ ~run.ok THEN "aborted" ELSE "open"
               /\ ~trans.failed /\ run.ok => session'.pending = trans.done \cup
                      (IF current.kind = "execute" THEN {current.id} ELSE {})
    <3>1. ChangesLater(run) \/ UsesCursor(run) \/ FailsInTx(run)
      BY <1>6, <1>20, <2>1 DEF Commits, RollsBack, Begins, ChangesNow
    <3>2. durable' = durable
      BY <1>2, <3>1 DEF ChangesLater, UsesCursor, FailsInTx
    <3>3. CASE run.ok
      BY <1>2, <1>20, <2>1, <3>1, <3>2, <3>3 DEF ChangesLater, UsesCursor, FailsInTx
    <3>4. CASE ~run.ok
      BY <1>2, <1>20, <2>1, <3>1, <3>2, <3>4 DEF ChangesLater, UsesCursor, FailsInTx
    <3> QED
      BY <3>3, <3>4
  <2>2. ASSUME InOneSession, current.kind \in {"commit", "rollback"}
        PROVE  /\ run.ok
               /\ \A c \in trans.done :
                      durable'[c] = IF current.kind = "commit" /\ ~trans.failed THEN 1 ELSE 0
    <3>1. Commits(run) \/ RollsBack(run)
      BY <1>6, <2>2 DEF Begins, ChangesNow, ChangesLater, UsesCursor, FailsInTx
    <3>2. CASE Commits(run)
      <4>1. \A c \in trans.done : durable'[c] = IF session.tx = "open" /\ c \in session.pending
                                                THEN durable[c] + 1 ELSE durable[c]
        BY <1>2, <1>9, <3>2 DEF Commits
      <4>2. CASE trans.failed
        BY <1>20, <2>2, <3>2, <4>1, <4>2 DEF Commits
      <4>3. CASE ~trans.failed
        BY <1>20, <2>2, <3>2, <4>1, <4>3 DEF Commits
      <4> QED
        BY <4>2, <4>3
    <3>3. CASE RollsBack(run)
      BY <1>2, <1>20, <2>2, <3>3 DEF RollsBack
    <3> QED
      BY <3>1, <3>2, <3>3
  <2>3. outcome.kind \in {"commit", "rollback"} =>
            \A c \in outcome.trans.done : c \in Calls /\ c <= outcome.id /\ durable'[c] = durable[c]
    BY <1>0, <1>7, FieldTypes DEF AtomicInv, Statements
  <2>4. TransactionIsAtomic'
    BY <1>0, <1>5, <2>3 DEF AtomicInv, TransactionIsAtomic
  <2>5. outcome.kind \in {"commit", "rollback"} => \A c \in session'.pending : c > outcome.id
    BY <1>0, <1>8, <1>11 DEF AtomicInv
  <2>6. (InOneSession => session.alive) /\ \A c \in trans.done : c <= outcome.id
    BY <1>0 DEF AtomicInv
  <2>7. current.kind = "execute" => (AnsweredWell("success")' <=> run.ok)
    BY <1>3, <1>5 DEF AnsweredWell
  <2> QED
    BY <1>1, <1>5, <1>6, <1>19, <2>1, <2>2, <2>3, <2>4, <2>5, <2>6, <2>7 DEF AtomicInv
<1>22. CursorInv'
  <2> SUFFICES ASSUME InOneSession, trans.fresh, ~trans.failed, run.ok,
                      current.kind \notin {"commit", "rollback"}
               PROVE  CASE current.kind = "declare" -> session'.cursor
                        [] current.kind \in {"close", "reopen"} -> ~name /\ ~session'.cursor
                        [] current.kind \notin {"declare", "close", "reopen"} -> name = session'.cursor
    BY <1>1, <1>5, <1>19 DEF CursorInv
  <2>1. ChangesLater(run) \/ UsesCursor(run)
    BY <1>6, <1>20 DEF Commits, RollsBack, Begins, ChangesNow, FailsInTx
  <2>2. /\ current.kind \in {"close", "reopen"} => ~name
        /\ current.kind \notin {"declare", "close", "reopen"} => name = session.cursor
    BY <1>0, <1>1, <1>19 DEF CursorInv
  <2>3. /\ current.kind = "declare" => session'.cursor
        /\ current.kind \in {"close", "reopen"} => ~session'.cursor
        /\ current.kind \notin {"declare", "close", "reopen"} => session'.cursor = session.cursor
    BY <1>2, <2>1 DEF ChangesLater, UsesCursor
  <2> QED
    BY <2>2, <2>3
<1> QED
  BY <1>5, <1>12, <1>13, <1>14, <1>15, <1>16, <1>17, <1>18, <1>21, <1>22 DEF PgInv

-----------------------------------------------------------------------------
(* The theorems.                                                            *)

\* Every step of the client, the server and the network preserves the invariant.
LEMMA NextPgInv ==
    ASSUME PgInv, [PgNext]_pgVars
    PROVE  PgInv'
<1>1. CASE SessionDies
  <2>1. losses \in Nat /\ MaxLosses \in Nat
    BY FieldNumbers DEF PgInv
  <2>2. /\ session' = Dead /\ trans' = Tainted /\ handle' = handle
        /\ losses' = losses + 1 /\ losses < MaxLosses
        /\ UNCHANGED <<durable, current, name, live, copies, outcome>>
    BY <1>1 DEF SessionDies, Lose
  <2> QED
    BY <2>1, <2>2, SessionEndsPgInv
<1>2. CASE PgClose
  BY <1>2, SessionEndsPgInv DEF PgClose
<1>3. CASE \/ CallExecute \/ CallBegin \/ CallCommit \/ CallRollback
           \/ CallCursorOpen \/ CallCursorClose \/ CallCursorReopen \/ CallFetch \/ CallCopy
  BY <1>3, CallsStart, StartsPgInv
<1>4. CASE Reconnect \/ ReconnectFails \/ StayConnected
  BY <1>4, ConnectPgInv
<1>5. CASE Send
  BY <1>5, SendPgInv
<1>6. CASE SendLosesReply
  BY <1>6, SendLosesReplyPgInv
<1>7. CASE SendNeverArrives
  BY <1>7, SendNeverArrivesPgInv
<1>8. CASE ReopenDeclares
  BY <1>8, ReopenDeclaresPgInv
<1>9. CASE TryAgain
  BY <1>9, TryAgainPgInv
<1>10. CASE ThrowConnectError \/ ReturnResult \/ ThrowQueryError \/ CopyReturns \/ ThrowCopyError
  BY <1>10, CallsEnd, EndPgInv
<1>11. CASE CopyFails \/ CopyStarts \/ CopyRow \/ CopyEnds \/ CopyIsCut \/ CopyLost
  BY <1>11, CopySteps, CopyStepPgInv
<1>12. CASE ReturnCut
  BY <1>12, ReturnCutPgInv
<1>13. CASE UNCHANGED pgVars
  <2>1. UNCHANGED <<handle, session, durable, losses, current, name, live, copies, trans, outcome>>
    BY <1>13 DEF pgVars
  <2>2. (TypesInv /\ SessionInv)' = (TypesInv /\ SessionInv)
    BY <2>1 DEF TypesInv, SessionInv
  <2>3. CallInv' = CallInv
    BY <2>1 DEF CallInv, Lost, AnsweredWell
  <2>4. RepeatInv' = RepeatInv
    BY <2>1 DEF RepeatInv, RepeatsAreBounded, Lost
  <2>5. TxInv' = TxInv
    BY <2>1 DEF TxInv, SuccessIsDurable, AnsweredWell
  <2>6. (LossInv /\ ResultsAreFreed /\ CopyIsWhole)' = (LossInv /\ ResultsAreFreed /\ CopyIsWhole)
    BY <2>1 DEF LossInv, Lost, OneLossIsHidden, ResultsAreFreed, CopyIsWhole
  <2>7. AtomicInv' = AtomicInv
    BY <2>1 DEF AtomicInv, InOneSession, EndAnswered, Failing, AnsweredWell, TransactionIsAtomic
  <2>8. CursorInv' = CursorInv
    BY <2>1 DEF CursorInv, InOneSession, EndAnswered, Failing, AnsweredWell
  <2> QED
    BY <2>2, <2>3, <2>4, <2>5, <2>6, <2>7, <2>8 DEF PgInv
<1> QED
  BY <1>1, <1>2, <1>3, <1>4, <1>5, <1>6, <1>7, <1>8, <1>9, <1>10, <1>11, <1>12, <1>13 DEF PgNext

\* The inductive invariant of Execute, its reconnect and its second attempt.
THEOREM PgInvariant == PgSpec => []PgInv
  BY InitPgInv, NextPgInv, PTL DEF PgSpec

\* The connection may be lost at any moment, before or after a statement was
\* carried out: what Execute said succeeded is in the database, nothing is there
\* more often than it was attempted, a single loss is hidden, and every PGresult
\* of Execute is cleared.
THEOREM RepeatsCorrect == PgSpec => []RepeatsAreSafe
<1>1. PgInv => PgTypeOK
  <2> SUFFICES ASSUME PgInv PROVE PgTypeOK
    OBVIOUS
  <2>1. TypesInv /\ ResultsAreFreed
    BY DEF PgInv
  <2>2. /\ current.pc \in {"idle", "loop", "send", "check", "refused",
                           "copy", "rows", "cut", "ended", "failed"}
        /\ current.attempt \in 0 .. (MAX_ATTEMPTS - 1) /\ current.rows \in 0 .. TableRows
    BY <2>1, FieldTypes DEF Pcs, QueryPcs, CopyPcs, Attempts, RowCounts
  <2>3. live \in Nat
    BY <2>1, FieldNumbers DEF ResultsAreFreed
  <2> QED
    BY <2>1, <2>2, <2>3 DEF PgTypeOK, TypesInv, Session, Trans, Statements, TxStates
<1>2. PgInv => RepeatsAreSafe
  BY <1>1 DEF RepeatsAreSafe, PgInv, RepeatInv, TxInv, LossInv
<1> QED
  BY <1>2, PgInvariant, PTL

\* As long as its session lives a transaction is all or nothing, the Cursor and
\* the server agree on whether there is a cursor, and a COPY that returns has
\* delivered every row.
THEOREM TransactionsCorrect == PgSpec => []TransactionsAreWhole
<1>1. PgInv => CursorIsInStep
  <2> SUFFICES ASSUME PgInv, current.pc = "idle", trans.open, trans.clean, trans.fresh, ~trans.failed
               PROVE  name = session.cursor
    BY DEF CursorIsInStep
  <2>1. CallInv /\ CursorInv
    BY DEF PgInv
  <2>2. current.kind = "none" /\ InOneSession /\ ~Failing /\ ~EndAnswered
    BY <2>1 DEF CallInv, InOneSession, Failing, EndAnswered, AnsweredWell
  <2> QED
    BY <2>1, <2>2 DEF CursorInv
<1>2. PgInv => TransactionsAreWhole
  BY <1>1 DEF TransactionsAreWhole, PgInv, AtomicInv
<1> QED
  BY <1>2, PgInvariant, PTL
=============================================================================
