---------------------------- MODULE NginxLevelDB ----------------------------
(***************************************************************************)
(* The nginx module over LevelDB (nginx-leveldb-1.3.14): the C interface of  *)
(* src/LevelDB.cpp and the handlers of ngx_http_leveldb_module.c.           *)
(*                                                                         *)
(* nginx runs one worker, in one thread, and interleaves its requests       *)
(* wherever a handler waits: a PUT runs in two steps, the handler when the  *)
(* header has arrived and command_put when the body has.  The worker may be *)
(* stopped and started, and LevelDB lets one process at a time open the     *)
(* database.  Logging and the response's headers are left out.              *)
(***************************************************************************)
EXTENDS Integers

CONSTANTS
    Requests,           \* identities of requests
    LevelKeys,
    Values,
    MaxDatabaseFaults   \* bound: LevelDB operations that fail

ASSUME NginxAssumption ==
    MaxDatabaseFaults \in Nat

None == "none"

Methods == {"GET", "POST", "HEAD"}
Uris == {"/get/", "/put/", "/"}

\* Where nginx has put the body when command_put is called; "nowhere" also stands
\* for a temporary file that cannot be read and for memory that is not there.
Bodies == {"null", "file", "buf", "bufs", "nowhere"}

VARIABLES
    opened,     \* LevelDB::Instance().db_ of the worker is not null
    pathSet,    \* the configuration gives leveldb_path
    running,    \* there is a worker
    locked,     \* another process has the database open
    store,      \* the database on disk
    dbFaults,   \* LevelDB operations that have failed
    requestOf   \* per request: [state, method, uri, key, value, status, kept, seen]

nginxVars == <<opened, pathSet, running, locked, store, dbFaults, requestOf>>

NoRequest == [state |-> "none", method |-> "GET", uri |-> "/", key |-> None,
              value |-> None, status |-> 0, kept |-> None, seen |-> None]

NginxInit ==
    /\ opened = FALSE
    /\ pathSet \in BOOLEAN
    /\ running = FALSE
    /\ locked \in BOOLEAN
    /\ store = [k \in LevelKeys |-> None]
    /\ dbFaults = 0
    /\ requestOf = [r \in Requests |-> NoRequest]

-----------------------------------------------------------------------------
(* The C interface of LevelDB.cpp.                                          *)

\* LevelDB::Open as LevelDB_Open reports it: 0 or -1.  leveldb::DB::Open
\* leaves a null pointer when it fails, so db_ is null then.
LevelDB_Open == IF locked THEN -1 ELSE 0

\* What LevelDB_Get can return: 0 and the callback has the value, 1 not found,
\* -1 an error or a database that was never opened.
LevelDB_Get(key) ==
    (IF ~opened THEN {-1} ELSE IF store[key] # None THEN {0} ELSE {1})
    \cup (IF dbFaults < MaxDatabaseFaults THEN {-1} ELSE {})

\* What LevelDB_Put can return.
LevelDB_Put ==
    (IF opened THEN {0} ELSE {-1})
    \cup (IF dbFaults < MaxDatabaseFaults THEN {-1} ELSE {})

CountDbFault(result) ==
    dbFaults' = IF opened /\ result = -1 THEN dbFaults + 1 ELSE dbFaults

-----------------------------------------------------------------------------
(* The worker.                                                              *)

\* ngx_http_leveldb_init_worker; without leveldb_path the worker runs and the
\* database stays closed.
InitWorker ==
    /\ ~running
    /\ pathSet => LevelDB_Open = 0
    /\ running' = TRUE
    /\ opened' = pathSet
    /\ UNCHANGED <<pathSet, locked, store, dbFaults, requestOf>>

\* LevelDB_Open failed: the worker does not start.
InitWorkerFails ==
    /\ ~running
    /\ pathSet /\ LevelDB_Open < 0
    /\ UNCHANGED nginxVars

\* The worker ends; ngx_http_leveldb_cleanup closes the database and the
\* requests it was serving are gone.
ExitWorker ==
    /\ running
    /\ running' = FALSE
    /\ opened' = FALSE
    /\ requestOf' = [r \in Requests |->
                      IF requestOf[r].state \in {"header", "body"}
                      THEN [requestOf[r] EXCEPT !.state = "dropped"] ELSE requestOf[r]]
    /\ UNCHANGED <<pathSet, locked, store, dbFaults>>

\* Another process opens or closes the database.
OtherProcess ==
    /\ ~opened
    /\ locked' = ~locked
    /\ UNCHANGED <<opened, pathSet, running, store, dbFaults, requestOf>>

-----------------------------------------------------------------------------
(* Requests.                                                                *)

\* A request arrives.
Arrive(r, method, uri, key, value) ==
    /\ running
    /\ requestOf[r].state = "none"
    /\ requestOf' = [requestOf EXCEPT ![r] =
          [state |-> "header", method |-> method, uri |-> uri, key |-> key, value |-> value,
           status |-> 0, kept |-> None, seen |-> None]]
    /\ UNCHANGED <<opened, pathSet, running, locked, store, dbFaults>>

Answered(r, status) == [requestOf[r] EXCEPT !.state = "done", !.status = status]

\* The early returns of ngx_http_leveldb_handler: 405, 404, 400 when the body of
\* a GET cannot be discarded, and 413 for a value beyond MAX_VALUE_SIZE.
Reject(r) ==
    /\ requestOf[r].state = "header"
    /\ LET q == requestOf[r]
       IN  \E status \in
               IF q.method \notin {"GET", "POST"} THEN {405}
               ELSE IF q.uri = "/get/" THEN {400}
               ELSE IF q.uri # "/put/" THEN {404}
               ELSE IF q.method # "POST" THEN {405} ELSE {413} :
              requestOf' = [requestOf EXCEPT ![r] = Answered(r, status)]
    /\ UNCHANGED <<opened, pathSet, running, locked, store, dbFaults>>

\* How the handler answers what LevelDB_Get returned.  The test "result < 1"
\* also catches 0, the value was found; the 200 after it is never reached.
GetStatus(result) ==
    IF result < 1 THEN 500 ELSE IF result = 1 THEN 204 ELSE 200

Get(r) ==
    /\ requestOf[r].state = "header"
    /\ requestOf[r].method \in {"GET", "POST"}
    /\ requestOf[r].uri = "/get/"
    /\ \E result \in LevelDB_Get(requestOf[r].key) :
          /\ requestOf' = [requestOf EXCEPT ![r] =
                [Answered(r, GetStatus(result)) EXCEPT
                    !.seen = store[requestOf[r].key],
                    !.kept = IF result = -1 THEN "error" ELSE "ok"]]
          /\ CountDbFault(result)
    /\ UNCHANGED <<opened, pathSet, running, locked, store>>

\* The handler of a PUT asks nginx for the body.
PutHeader(r) ==
    /\ requestOf[r].state = "header"
    /\ requestOf[r].method = "POST"
    /\ requestOf[r].uri = "/put/"
    /\ requestOf' = [requestOf EXCEPT ![r].state = "body"]
    /\ UNCHANGED <<opened, pathSet, running, locked, store, dbFaults>>

\* nginx could not read the body.
PutBodyFails(r) ==
    /\ requestOf[r].state = "body"
    /\ requestOf' = [requestOf EXCEPT ![r] = Answered(r, 500)]
    /\ UNCHANGED <<opened, pathSet, running, locked, store, dbFaults>>

\* ngx_http_leveldb_read_request_body returns NGX_OK.
BodyRead(body) == body # "nowhere"

\* Mutant: the value is dropped.
StoreAfterPutLost(result, key, value) == store

\* What LevelDB_Put does to the database.
StoreAfterPut(result, key, value) ==
    IF result = 0 THEN [store EXCEPT ![key] = value] ELSE store

\* ngx_http_leveldb_command_put: the result of LevelDB_Put is not looked at, and
\* a request without a body is answered like one that was stored.
CommandPut(r) ==
    /\ requestOf[r].state = "body"
    /\ \E body \in Bodies :
          LET q == requestOf[r]
          IN  \/ /\ ~BodyRead(body)
                 /\ requestOf' = [requestOf EXCEPT ![r] = Answered(r, 500)]
                 /\ UNCHANGED <<store, dbFaults>>
              \/ /\ BodyRead(body)
                 /\ body = "null"
                 /\ requestOf' = [requestOf EXCEPT ![r] =
                       [Answered(r, 200) EXCEPT !.kept = "empty"]]
                 /\ UNCHANGED <<store, dbFaults>>
              \/ /\ BodyRead(body)
                 /\ body # "null"
                 /\ \E result \in LevelDB_Put :
                       /\ store' = StoreAfterPut(result, q.key, q.value)
                       /\ CountDbFault(result)
                       /\ requestOf' = [requestOf EXCEPT ![r] =
                             [Answered(r, 200) EXCEPT
                                 !.kept = IF result = -1 THEN "error" ELSE "ok"]]
    /\ UNCHANGED <<opened, pathSet, running, locked>>

NginxNext ==
    \/ InitWorker \/ InitWorkerFails \/ ExitWorker \/ OtherProcess
    \/ \E r \in Requests :
          \/ \E method \in Methods, uri \in Uris, key \in LevelKeys :
                \E value \in IF uri = "/put/" THEN Values ELSE {None} :
                    Arrive(r, method, uri, key, value)
          \/ Reject(r) \/ Get(r) \/ PutHeader(r) \/ PutBodyFails(r) \/ CommandPut(r)

NginxSpec == NginxInit /\ [][NginxNext]_nginxVars

-----------------------------------------------------------------------------
\* Type invariant.
NginxTypeOK ==
    /\ {opened, pathSet, running, locked} \subseteq BOOLEAN
    /\ store \in [LevelKeys -> Values \cup {None}]
    /\ dbFaults \in 0 .. MaxDatabaseFaults
    /\ requestOf \in [Requests -> [state : {"none", "header", "body", "done", "dropped"},
                                 method : Methods, uri : Uris,
                                 key : LevelKeys \cup {None}, value : Values \cup {None},
                                 status : {0, 200, 204, 400, 404, 405, 413, 500},
                                 kept : {None, "ok", "error", "empty"},
                                 seen : Values \cup {None}]]

\* A key that some PUT has stored was stored by a request that ended 200 with
\* LevelDB's consent, whatever requests came between its header and its body
\* and however often the worker was restarted; and a database that no worker
\* holds open is never written.
StoredByAPut ==
    \A k \in LevelKeys : store[k] # None =>
        \E r \in Requests :
            /\ requestOf[r].state = "done" /\ requestOf[r].status = 200
            /\ requestOf[r].uri = "/put/" /\ requestOf[r].kept = "ok"
            /\ requestOf[r].key = k /\ requestOf[r].value = store[k]

\* "No content" is only said of a key that is not in the database: an error of
\* LevelDB, or a worker without a database, is answered 500.
NoContentIsTrue ==
    \A r \in Requests :
        requestOf[r].uri = "/get/" /\ requestOf[r].status = 204 =>
            requestOf[r].kept = "ok" /\ requestOf[r].seen = None

\* A step that answers a PUT with 200 leaves the value under its key, unless
\* LevelDB failed, was not open, or the request had no body.
AcceptedIsStored ==
    [][\A r \in Requests :
          requestOf'[r].status = 200 /\ requestOf[r].status # 200 /\ requestOf'[r].kept = "ok"
              => store'[requestOf[r].key] = requestOf[r].value]_nginxVars

\* Whatever requests are interleaved, workers restarted and operations failed: the
\* database holds what accepted requests put there, an accepted request is stored
\* unless LevelDB refused it, and "no content" is true.
RequestsAreAnswered ==
    /\ [](NginxTypeOK /\ StoredByAPut /\ NoContentIsTrue)
    /\ AcceptedIsStored

\* What the repository's client of the same interface expects (simpletest.c):
\* an answer of LevelDB_Get below 0 is an error, 1 is "not found", and anything
\* else found the value.  So a GET of a key that is there is not an error.
FoundIsNotAnError ==
    \A r \in Requests :
        requestOf[r].uri = "/get/" /\ requestOf[r].kept = "ok" => requestOf[r].status # 500
=============================================================================
