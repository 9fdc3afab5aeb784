---------------------------- MODULE PgConnection ----------------------------
(***************************************************************************)
(* XTL::PGSQL::Connection and Cursor (pgsql/): Execute with its reconnect   *)
(* and second attempt, transactions, cursors and CopyTable, over libpq and  *)
(* a server whose sessions may die at any moment: before a statement        *)
(* arrives, after it was carried out and before its reply, or in between.   *)
(*                                                                         *)
(* A statement is the number of the call that sent it.  SQL text, values    *)
(* and messages are left out; a data statement may succeed or fail.         *)
(***************************************************************************)
EXTENDS Integers, FiniteSets

CONSTANTS
    MAX_ATTEMPTS,   \* the bound of the loop in Execute: 2
    TableRows,      \* rows of the table that is copied
    MaxCalls,       \* bound: calls of the user
    MaxLosses       \* bound: sessions that die

ASSUME PgAssumption ==
    /\ MAX_ATTEMPTS \in Nat \ {0}
    /\ TableRows \in Nat
    /\ MaxCalls \in Nat
    /\ MaxLosses \in Nat

VARIABLES
    handle,     \* handle_: "null", or a PGconn whose status is "ok" or "bad"
    session,    \* the server's side: [alive, tx, pending, cursor]
    durable,    \* how often each statement is in the database for good
    losses,     \* sessions that have died
    current,    \* the call in progress: [pc, kind, id, attempt, result, rows]
    name,       \* Cursor::name_ is not empty
    live,       \* PGresult objects that exist
    copies,     \* history: CopyTable calls
    trans,      \* history: the user's transaction [open, clean, fresh, failed, done]
    outcome     \* history: how the last call ended

pgVars == <<handle, session, durable, losses, current, name, live, copies, trans, outcome>>

Calls == 1 .. MaxCalls

Dead == [alive |-> FALSE, tx |-> "none", pending |-> {}, cursor |-> FALSE]
FreshSession == [Dead EXCEPT !.alive = TRUE]
Idle == [pc |-> "idle", kind |-> "none", id |-> 0, attempt |-> 0, result |-> "none", rows |-> 0]
NoTrans == [open |-> FALSE, clean |-> FALSE, fresh |-> FALSE, failed |-> FALSE, done |-> {}]
NoOutcome == [how |-> "none", kind |-> "none", id |-> 0, result |-> "none", rows |-> 0, trans |-> NoTrans]

PgInit ==
    /\ handle = "null"
    /\ session = Dead
    /\ durable = [c \in Calls |-> 0]
    /\ losses = 0
    /\ current = Idle
    /\ name = FALSE
    /\ live = 0
    /\ copies = 0
    /\ trans = NoTrans
    /\ outcome = NoOutcome

-----------------------------------------------------------------------------
(* The server.                                                              *)

\* What a statement does in session s with database d: the possible
\* [ok, session, durable].  In an aborted transaction only its end succeeds,
\* and COMMIT then rolls back; COMMIT and ROLLBACK outside a transaction are
\* warnings, that is to say successes.
ServerRuns(kind, id, s, d) ==
    LET fails == [ok |-> FALSE, durable |-> d,
                  session |-> IF s.tx = "open" THEN [s EXCEPT !.tx = "aborted"] ELSE s]
        does(session1, durable1) == [ok |-> TRUE, session |-> session1, durable |-> durable1]
        ended == [s EXCEPT !.tx = "none", !.pending = {}, !.cursor = FALSE]
    IN  CASE kind = "commit" ->
               {does(ended, IF s.tx = "open"
                            THEN [c \in Calls |-> IF c \in s.pending THEN d[c] + 1 ELSE d[c]]
                            ELSE d)}
          [] kind = "rollback" -> {does(ended, d)}
          [] s.tx = "aborted" /\ kind \notin {"commit", "rollback"} -> {fails}
          [] s.tx # "aborted" /\ kind = "begin" -> {does([s EXCEPT !.tx = "open"], d)}
          [] s.tx = "none" /\ kind = "execute" ->
               {fails, does(s, [d EXCEPT ![id] = @ + 1])}
          [] s.tx = "open" /\ kind = "execute" ->
               {fails, does([s EXCEPT !.pending = @ \cup {id}], d)}
          [] s.tx # "aborted" /\ kind = "declare" ->
               {IF s.tx = "open" /\ ~s.cursor THEN does([s EXCEPT !.cursor = TRUE], d) ELSE fails}
          [] s.tx # "aborted" /\ kind = "fetch" -> {IF s.cursor THEN does(s, d) ELSE fails}
          [] s.tx # "aborted" /\ kind \in {"close", "reopen"} ->
               {IF s.cursor THEN does([s EXCEPT !.cursor = FALSE], d) ELSE fails}

\* The session dies: an open transaction is rolled back.
Lose == session' = Dead /\ losses < MaxLosses /\ losses' = losses + 1

\* The history of the transaction remembers that its session died.
Tainted == [trans EXCEPT !.clean = FALSE]

\* The server closes the connection while the client is elsewhere; the client
\* learns of it the next time it uses the handle.
SessionDies ==
    /\ session.alive
    /\ Lose
    /\ trans' = Tainted
    /\ UNCHANGED <<handle, durable, current, name, live, copies, outcome>>

-----------------------------------------------------------------------------
(* The calls.                                                               *)

\* Connection::IsOpened.
IsOpened == handle = "ok"

\* Mutant: Execute never trusts the connection it has.
NeedsOpenAlways == TRUE

\* The test at the head of Execute's loop.
NeedsOpen == ~IsOpened

\* A call of the user starts.
StartQuery(kind, id) ==
    /\ current.pc = "idle"
    /\ current' = [Idle EXCEPT !.pc = "loop", !.kind = kind, !.id = id]
    /\ UNCHANGED <<handle, session, durable, losses, name, live, copies, trans, outcome>>

\* The calls made so far are counted by the statement's number.
NextId == outcome.id + 1
MoreCalls == NextId \in Calls

\* Connection::Execute of a data statement.
CallExecute == MoreCalls /\ StartQuery("execute", NextId)

\* Connection::BeginTransaction, CommitTransaction, RollbackTransaction; the
\* user nests no transactions.
CallBegin == MoreCalls /\ ~trans.open /\ StartQuery("begin", NextId)
CallCommit == MoreCalls /\ trans.open /\ StartQuery("commit", NextId)
CallRollback == MoreCalls /\ trans.open /\ StartQuery("rollback", NextId)

\* Cursor::Open closes the cursor that is open, then declares.
CallCursorOpen == MoreCalls /\ ~name /\ StartQuery("declare", NextId)

\* Cursor::Close forgets the name before it sends CLOSE.
NameWhileClosing == FALSE

CursorClose(kind) ==
    /\ MoreCalls /\ name /\ current.pc = "idle"
    /\ name' = NameWhileClosing
    /\ current' = [Idle EXCEPT !.pc = "loop", !.kind = kind, !.id = NextId]
    /\ UNCHANGED <<handle, session, durable, losses, live, copies, trans, outcome>>

CallCursorClose == CursorClose("close")
CallCursorReopen == CursorClose("reopen")

\* Cursor::Fetch.
CallFetch == MoreCalls /\ StartQuery("fetch", NextId)

\* Connection::Close, and Open called by the user.
PgClose ==
    /\ current.pc = "idle"
    /\ handle' = "null"
    /\ session' = Dead
    /\ trans' = Tainted
    /\ UNCHANGED <<durable, losses, current, name, live, copies, outcome>>

-----------------------------------------------------------------------------
(* Execute.                                                                 *)

\* Cursor::Open sets the name once Execute has returned.
NameAfterDeclare(how) == how = "ok"

\* What the caller's transaction is after a call that ended so.
TransAfter(how) ==
    CASE current.kind = "begin" ->
            IF how = "ok"
            THEN [NoTrans EXCEPT !.open = TRUE, !.clean = session.alive, !.fresh = ~name] ELSE trans
      [] current.kind \in {"commit", "rollback"} -> NoTrans
      [] current.kind \notin {"begin", "commit", "rollback"} /\ how = "ok" ->
            [trans EXCEPT !.done = IF current.kind = "execute" /\ trans.open
                                   THEN @ \cup {current.id} ELSE @]
      [] current.kind \notin {"begin", "commit", "rollback"} /\ how # "ok" ->
            [trans EXCEPT !.failed = trans.open]

\* Execute returns or throws.  The QueryResult is destroyed with the call: the
\* user keeps none.
End(how) ==
    /\ current' = Idle
    /\ live' = IF current.result = "none" THEN live ELSE live - 1
    /\ name' = IF current.kind = "declare" THEN NameAfterDeclare(how) ELSE name
    /\ outcome' = [how |-> how, kind |-> current.kind, id |-> current.id,
                   result |-> current.result, rows |-> current.rows, trans |-> trans]
    /\ trans' = TransAfter(how)
    /\ UNCHANGED <<handle, session, durable, losses, copies>>

\* Connection::Open inside Execute: the old handle is finished, and the server
\* is connected to, or not.
Reconnect ==
    /\ current.pc = "loop"
    /\ NeedsOpen
    /\ handle' = "ok"
    /\ session' = FreshSession
    /\ current' = [current EXCEPT !.pc = "send"]
    /\ UNCHANGED <<durable, losses, name, live, copies, trans, outcome>>

\* The connection is refused: ConnectError, and handle_ is left with a PGconn
\* that never connected.
ReconnectFails ==
    /\ current.pc = "loop"
    /\ NeedsOpen
    /\ handle' = "bad"
    /\ session' = Dead
    /\ current' = [current EXCEPT !.pc = "refused"]
    /\ UNCHANGED <<durable, losses, name, live, copies, trans, outcome>>

ThrowConnectError ==
    /\ current.pc = "refused"
    /\ End("ConnectError")

StayConnected ==
    /\ current.pc = "loop"
    /\ ~NeedsOpen
    /\ current' = [current EXCEPT !.pc = "send"]
    /\ UNCHANGED <<handle, session, durable, losses, name, live, copies, trans, outcome>>

\* QueryResult::ResetHandle: the result of the attempt before is cleared.
LiveAfterReset == IF current.result = "none" THEN live + 1 ELSE live

\* PQexec returned a result of this kind.
GotResult(result) ==
    /\ current' = [current EXCEPT !.pc = "check", !.result = result]
    /\ live' = LiveAfterReset
    /\ UNCHANGED <<name, copies, outcome>>

\* PQexec: the statement is carried out and the reply arrives.
Send ==
    /\ current.pc = "send"
    /\ session.alive
    /\ \E run \in ServerRuns(current.kind, current.id, session, durable) :
          /\ session' = run.session
          /\ durable' = run.durable
          /\ GotResult(IF run.ok THEN "success" ELSE "error")
    /\ UNCHANGED <<handle, losses, trans>>

\* PQexec: the statement is carried out and the connection is lost before the
\* reply; what was not committed is rolled back.
SendLosesReply ==
    /\ current.pc = "send"
    /\ session.alive
    /\ Lose
    /\ \E run \in ServerRuns(current.kind, current.id, session, durable) :
          durable' = run.durable
    /\ handle' = "bad"
    /\ trans' = Tainted
    /\ GotResult("lost")

\* PQexec: the session is dead already; the statement never arrives.  The
\* result has no SQLSTATE unless the server said why it closed the connection.
SendNeverArrives ==
    /\ current.pc = "send"
    /\ ~session.alive
    /\ handle' = "bad"
    /\ \E result \in {"lost", "terminated"} : GotResult(result)
    /\ UNCHANGED <<session, durable, losses, trans>>

\* Mutant: any answer of the server counts as success.
IsSuccessIfAnswered == current.result \in {"success", "error"}

\* QueryResult::Success.
IsSuccess == current.result = "success"

ReturnResult ==
    /\ current.pc = "check"
    /\ IsSuccess
    /\ current.kind # "reopen"
    /\ End("ok")

\* Cursor::Open after its Close.
ReopenDeclares ==
    /\ current.pc = "check"
    /\ IsSuccess
    /\ current.kind = "reopen"
    /\ current' = [Idle EXCEPT !.pc = "loop", !.kind = "declare", !.id = current.id]
    /\ live' = live - 1
    /\ UNCHANGED <<handle, session, durable, losses, name, copies, trans, outcome>>

\* The bound of the for loop, after this attempt.
AttemptsLeft == current.attempt + 1 < MAX_ATTEMPTS

\* The connection was lost: the statement is sent again.
TryAgain ==
    /\ current.pc = "check"
    /\ ~IsSuccess
    /\ ~IsOpened
    /\ AttemptsLeft
    /\ current' = [current EXCEPT !.pc = "loop", !.attempt = @ + 1]
    /\ UNCHANGED <<handle, session, durable, losses, name, live, copies, trans, outcome>>

\* QueryError; its constructor makes a std::string of the SQLSTATE, which is a
\* null pointer when the connection was lost without a word, and what leaves
\* Execute is then std::logic_error.
ThrowQueryError ==
    /\ current.pc = "check"
    /\ ~IsSuccess
    /\ IsOpened \/ ~AttemptsLeft
    /\ End(IF current.result = "lost" THEN "logic_error" ELSE "QueryError")

-----------------------------------------------------------------------------
(* CopyTable.                                                               *)

\* CopyTable uses the handle as it is.  The PGresult of the COPY is never
\* cleared.
CallCopy ==
    /\ MoreCalls /\ current.pc = "idle"
    /\ current' = [Idle EXCEPT !.pc = "copy", !.kind = "copy", !.id = NextId]
    /\ UNCHANGED <<handle, session, durable, losses, name, live, copies, trans, outcome>>

CopyFails ==
    /\ current.pc = "copy"
    /\ live' = IF handle = "null" THEN live ELSE live + 1
    /\ copies' = IF handle = "null" THEN copies ELSE copies + 1
    /\ handle' = IF handle = "null" \/ session.alive THEN handle ELSE "bad"
    /\ session' = IF session.alive /\ session.tx = "open"
                  THEN [session EXCEPT !.tx = "aborted"] ELSE session
    /\ current' = [current EXCEPT !.pc = "failed"]
    /\ UNCHANGED <<durable, losses, name, trans, outcome>>

CopyStarts ==
    /\ current.pc = "copy"
    /\ handle = "ok" /\ session.alive /\ session.tx # "aborted"
    /\ live' = live + 1
    /\ copies' = copies + 1
    /\ current' = [current EXCEPT !.pc = "rows"]
    /\ UNCHANGED <<handle, session, durable, losses, name, trans, outcome>>

CopyRow ==
    /\ current.pc = "rows"
    /\ session.alive
    /\ current.rows < TableRows
    /\ current' = [current EXCEPT !.rows = @ + 1]
    /\ UNCHANGED <<handle, session, durable, losses, name, live, copies, trans, outcome>>

\* PQgetCopyData returns -1 at the end of the rows.
CopyEnds ==
    /\ current.pc = "rows"
    /\ session.alive
    /\ current.rows = TableRows
    /\ current' = [current EXCEPT !.pc = "ended"]
    /\ UNCHANGED <<handle, session, durable, losses, name, live, copies, trans, outcome>>

CopyReturns ==
    /\ current.pc = "ended"
    /\ End("ok")

\* The server gives up in the middle of the rows: PQgetCopyData returns -1 as
\* well, and CopyTable does not call PQgetResult, which would tell.
CopyIsCut ==
    /\ current.pc = "rows"
    /\ session.alive
    /\ session' = IF session.tx = "open" THEN [session EXCEPT !.tx = "aborted"] ELSE session
    /\ current' = [current EXCEPT !.pc = "cut"]
    /\ UNCHANGED <<handle, durable, losses, name, live, copies, trans, outcome>>

ReturnCut ==
    /\ current.pc = "cut"
    /\ current' = Idle
    /\ outcome' = [NoOutcome EXCEPT !.how = "cut", !.kind = "copy", !.id = current.id]
    /\ trans' = [trans EXCEPT !.failed = trans.open]
    /\ UNCHANGED <<handle, session, durable, losses, name, live, copies>>

\* PQgetCopyData returns -2 when the connection is lost.
PcAfterCopyError == "failed"

CopyLost ==
    /\ current.pc = "rows"
    /\ ~session.alive
    /\ handle' = "bad"
    /\ current' = [current EXCEPT !.pc = PcAfterCopyError]
    /\ UNCHANGED <<session, durable, losses, name, live, copies, trans, outcome>>

ThrowCopyError ==
    /\ current.pc = "failed"
    /\ End("Exception")

PgNext ==
    \/ SessionDies
    \/ CallExecute \/ CallBegin \/ CallCommit \/ CallRollback
    \/ CallCursorOpen \/ CallCursorClose \/ CallCursorReopen \/ CallFetch
    \/ CallCopy \/ PgClose
    \/ Reconnect \/ ReconnectFails \/ ThrowConnectError \/ StayConnected
    \/ Send \/ SendLosesReply \/ SendNeverArrives
    \/ ReturnResult \/ ReopenDeclares \/ TryAgain \/ ThrowQueryError
    \/ CopyFails \/ CopyStarts \/ CopyRow \/ CopyEnds \/ CopyReturns
    \/ CopyIsCut \/ ReturnCut \/ CopyLost \/ ThrowCopyError

PgSpec == PgInit /\ [][PgNext]_pgVars

-----------------------------------------------------------------------------
\* Type invariant.
PgTypeOK ==
    /\ handle \in {"null", "ok", "bad"}
    /\ session \in [alive : BOOLEAN, tx : {"none", "open", "aborted"},
                    pending : SUBSET Calls, cursor : BOOLEAN]
    /\ durable \in [Calls -> Nat]
    /\ losses \in 0 .. MaxLosses
    /\ current.pc \in {"idle", "loop", "send", "check", "refused",
                    "copy", "rows", "cut", "ended", "failed"}
    /\ current.attempt \in 0 .. (MAX_ATTEMPTS - 1)
    /\ current.rows \in 0 .. TableRows
    /\ name \in BOOLEAN
    /\ live \in Nat
    /\ trans \in [open : BOOLEAN, clean : BOOLEAN, fresh : BOOLEAN,
                  failed : BOOLEAN, done : SUBSET Calls]

\* A statement that Execute sends again because the connection was lost may
\* have been carried out before: it is in the database as often as it was
\* attempted at most, and more than once only if sessions died meanwhile.
RepeatsAreBounded ==
    \A c \in Calls : durable[c] <= MAX_ATTEMPTS /\ durable[c] <= 1 + losses

\* A data statement for which Execute returned outside a transaction is in the
\* database, whatever became of the first attempt and of the connection.
SuccessIsDurable ==
    outcome.kind = "execute" /\ outcome.how = "ok" /\ ~outcome.trans.open
        => durable[outcome.id] >= 1

\* As long as no session died between BeginTransaction and the end, a
\* transaction is all or nothing: CommitTransaction made every statement that
\* returned durable, exactly once, or none when one of its calls had thrown;
\* RollbackTransaction left none.  (When a session dies, Execute reconnects
\* and what follows runs outside any transaction.)
TransactionIsAtomic ==
    LET t == outcome.trans
    IN  outcome.how = "ok" /\ t.clean =>
            /\ outcome.kind = "rollback" => \A c \in t.done : durable[c] = 0
            /\ outcome.kind = "commit" =>
                   \A c \in t.done : durable[c] = IF t.failed THEN 0 ELSE 1

\* The user sees a lost connection only when it was lost in every attempt (or
\* the server refuses the new one): a server that restarts once is hidden by
\* the reconnect.
OneLossIsHidden ==
    /\ outcome.how \in {"QueryError", "logic_error"}
    /\ outcome.result \in {"lost", "terminated"}
    => losses >= MAX_ATTEMPTS

\* Every PGresult is cleared exactly once on every path through Execute, the
\* exceptions and the second attempt included; CopyTable leaks one per call.
ResultsAreFreed ==
    live = copies + (IF current.result = "none" THEN 0 ELSE 1)

\* In a transaction that began without a cursor, and whose session lives and
\* whose calls have all returned, the Cursor has a name exactly when the
\* server has a cursor: Close and Open leave neither a cursor the object has
\* forgotten nor a name the server does not know.
CursorIsInStep ==
    /\ current.pc = "idle"
    /\ trans.open /\ trans.clean /\ trans.fresh /\ ~trans.failed
    => name = session.cursor

\* CopyTable returns normally only when it has delivered every row, unless the
\* server itself gave up in the middle, which CopyTable cannot tell.
CopyIsWhole ==
    outcome.kind = "copy" /\ outcome.how = "ok" => outcome.rows = TableRows

\* Execute, which reconnects and repeats: what it says succeeded is in the
\* database, nothing is there more often than it was attempted, one loss is
\* hidden from the user, and no result leaks.
RepeatsAreSafe ==
    PgTypeOK /\ RepeatsAreBounded /\ SuccessIsDurable /\ OneLossIsHidden /\ ResultsAreFreed

\* What spans several statements, transactions, cursors and COPY, is whole as long
\* as its session lives.
TransactionsAreWhole == TransactionIsAtomic /\ CursorIsInStep /\ CopyIsWhole
=============================================================================
