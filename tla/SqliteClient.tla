---------------------------- MODULE SqliteClient ----------------------------
(***************************************************************************)
(* The SQLite client: Database and Statement (sqlite/).  SQLite itself is   *)
(* modelled from how it is called: connections and prepared statements are  *)
(* numbered in the order of their creation, sqlite3_close refuses while a   *)
(* statement of the connection is live, sqlite3_finalize frees the          *)
(* statement and returns the error of its last step, and another process    *)
(* may lock the database file at any time.                                  *)
(***************************************************************************)
EXTENDS Integers, FiniteSets, Functions

CONSTANTS
    Objects,            \* Statement objects of the application
    ScriptLengths,      \* numbers of statements in a query given to Database::Execute
    MaxConnections,     \* bound: connections opened
    MaxPrepared,        \* bound: statements prepared
    MaxBusy,            \* bound: times another process takes the lock
    MaxScripts          \* bound: calls of Database::Execute

ASSUME SqliteAssumption ==
    /\ ScriptLengths \subseteq Nat \ {0}
    /\ {MaxConnections, MaxPrepared, MaxBusy, MaxScripts} \subseteq Nat

VARIABLES
    db,             \* db_ of the Database: a connection, or 0
    connections,    \* connections SQLite holds open
    prepared,       \* live statements, each with its connection and whether its last step failed
    stmtOf,         \* stmt_ of each existing Statement object: a statement, or 0
    waitIfBusy,     \* options_: wait while another process holds the lock
    lockedByOther,  \* another process holds the lock of the database file
    sqlPc,          \* "idle", "exec" (in Database::Execute), "step" (in SqliteStep), "returned", "threw"
    stepping,       \* the object whose statement is stepped
    script,         \* of the call of Execute: its length, the next statement, and
                    \* how often each of its statements was executed
    lostAssign,     \* an assignment to a Statement threw
    sqlBudget       \* connections, statements, locks and scripts so far

sqlVars == <<db, connections, prepared, stmtOf, lockedByOther, sqlPc, stepping, script,
             lostAssign, sqlBudget, waitIfBusy>>

NoScript == [length |-> 0, next |-> 1, runs |-> <<>>]
NoStatement == [conn |-> 0, failed |-> FALSE]
Spend(what) == sqlBudget' = [sqlBudget EXCEPT ![what] = @ + 1]

SqliteInit ==
    /\ db = 0 /\ connections = {}
    /\ prepared = [s \in {} |-> NoStatement]
    /\ stmtOf = [o \in {} |-> 0]
    /\ lockedByOther = FALSE /\ waitIfBusy \in BOOLEAN
    /\ sqlPc = "idle" /\ stepping = 0 /\ script = NoScript
    /\ lostAssign = FALSE
    /\ sqlBudget = [opened |-> 0, prepared |-> 0, locks |-> 0, scripts |-> 0]

-----------------------------------------------------------------------------
(* The database.                                                            *)

\* sqlite3_close.
MayClose(c) == \A s \in DOMAIN prepared : prepared[s].conn # c

\* Close returns false, and keeps the handle, while SQLite refuses to close it.
Closed == db = 0 \/ MayClose(db)
ConnectionsAfterClose == IF Closed THEN connections \ {db} ELSE connections

CloseDatabase ==
    /\ sqlPc = "idle"
    /\ connections' = ConnectionsAfterClose
    /\ db' = IF Closed THEN 0 ELSE db
    /\ UNCHANGED <<prepared, stmtOf, lockedByOther, sqlPc, stepping, script, lostAssign, sqlBudget, waitIfBusy>>

\* Open closes first and looks at no result; a failed sqlite3_open leaves 0.
OpenDatabase ==
    /\ sqlPc = "idle"
    /\ sqlBudget.opened < MaxConnections
    /\ Spend("opened")
    /\ LET c == sqlBudget.opened + 1
       IN  \/ db' = c /\ connections' = ConnectionsAfterClose \cup {c}
           \/ db' = 0 /\ connections' = ConnectionsAfterClose
    /\ UNCHANGED <<prepared, stmtOf, lockedByOther, sqlPc, stepping, script, lostAssign, waitIfBusy>>

\* Execute(query).
ExecuteScript(n) ==
    /\ sqlPc = "idle" /\ db # 0
    /\ sqlBudget.scripts < MaxScripts
    /\ Spend("scripts")
    /\ script' = [length |-> n, next |-> 1, runs |-> [i \in 1 .. n |-> 0]]
    /\ sqlPc' = "exec"
    /\ UNCHANGED <<db, connections, prepared, stmtOf, lockedByOther, stepping, lostAssign, waitIfBusy>>

\* sqlite3_exec starts again at the first statement of the query.
NextAfterBusy == 1

\* One statement of the query, a transaction of its own: done, refused because
\* the database is locked, or failed.
ExecuteNext ==
    /\ sqlPc = "exec"
    /\ \/ /\ ~lockedByOther
          /\ script' = [script EXCEPT !.next = @ + 1, !.runs[script.next] = @ + 1]
          /\ sqlPc' = IF script.next = script.length THEN "returned" ELSE "exec"
       \/ /\ lockedByOther /\ waitIfBusy
          /\ script' = [script EXCEPT !.next = NextAfterBusy]
          /\ sqlPc' = IF NextAfterBusy > script.length THEN "returned" ELSE "exec"
       \/ /\ (lockedByOther /\ ~waitIfBusy) \/ ~lockedByOther
          /\ sqlPc' = "threw" /\ UNCHANGED script
    /\ UNCHANGED <<db, connections, prepared, stmtOf, lockedByOther, stepping, lostAssign, sqlBudget, waitIfBusy>>

-----------------------------------------------------------------------------
(* Statement objects.                                                       *)

\* sqlite3_finalize reports the error of the last step; the object then keeps
\* stmt_ although the statement is freed.
FinalizeThrows(s) == s \in DOMAIN prepared /\ prepared[s].failed

PreparedAfterFinalize(s) == Restrict(prepared, DOMAIN prepared \ {s})
WithPrepared(f, s) == [t \in DOMAIN f \cup {s} |-> IF t = s THEN [conn |-> db, failed |-> FALSE] ELSE f[t]]
Holds(o, s) == stmtOf' = [p \in DOMAIN stmtOf \cup {o} |-> IF p = o THEN s ELSE stmtOf[p]]

MayPrepare == sqlPc = "idle" /\ db # 0 /\ sqlBudget.prepared < MaxPrepared
FreshStatement == sqlBudget.prepared + 1

\* Statement o(db.Prepare(query)): a refused query constructs nothing.
Construct(o) ==
    /\ MayPrepare /\ o \notin DOMAIN stmtOf
    /\ Spend("prepared")
    /\ \/ prepared' = WithPrepared(prepared, FreshStatement) /\ Holds(o, FreshStatement)
       \/ UNCHANGED <<prepared, stmtOf>>
    /\ UNCHANGED <<db, connections, lockedByOther, sqlPc, stepping, script, lostAssign, waitIfBusy>>

\* o = db.Prepare(query): the temporary gave its statement up when Finalize throws.
AssignPrepared(o) ==
    /\ MayPrepare /\ o \in DOMAIN stmtOf /\ ~lostAssign
    /\ Spend("prepared")
    /\ prepared' = WithPrepared(PreparedAfterFinalize(stmtOf[o]), FreshStatement)
    /\ IF FinalizeThrows(stmtOf[o])
       THEN lostAssign' = TRUE /\ UNCHANGED stmtOf
       ELSE Holds(o, FreshStatement) /\ UNCHANGED lostAssign
    /\ UNCHANGED <<db, connections, lockedByOther, sqlPc, stepping, script, waitIfBusy>>

\* Mutant: the other object keeps its pointer.
OtherAfterMoveKept(other) == stmtOf[other]

\* The other object gives its statement up.
OtherAfterMove(other) == 0

\* Statement o(other).
MoveConstruct(o, other) ==
    /\ sqlPc = "idle" /\ ~lostAssign
    /\ o \notin DOMAIN stmtOf /\ other \in DOMAIN stmtOf
    /\ stmtOf' = [p \in DOMAIN stmtOf \cup {o} |->
                     CASE p = o -> stmtOf[other]
                       [] p = other -> OtherAfterMove(other)
                       [] OTHER -> stmtOf[p]]
    /\ UNCHANGED <<db, connections, prepared, lockedByOther, sqlPc, stepping, script, lostAssign, sqlBudget, waitIfBusy>>

\* o = other, the same object included: Finalize, take over, clear the other.
Assign(o, other) ==
    /\ sqlPc = "idle" /\ ~lostAssign
    /\ o \in DOMAIN stmtOf /\ other \in DOMAIN stmtOf
    /\ prepared' = PreparedAfterFinalize(stmtOf[o])
    /\ IF FinalizeThrows(stmtOf[o])
       THEN lostAssign' = TRUE /\ UNCHANGED stmtOf
       ELSE /\ stmtOf' = [stmtOf EXCEPT ![o] = IF o = other THEN 0 ELSE stmtOf[other],
                                        ![other] = OtherAfterMove(other)]
            /\ UNCHANGED lostAssign
    /\ UNCHANGED <<db, connections, lockedByOther, sqlPc, stepping, script, sqlBudget, waitIfBusy>>

\* The destructor finalizes and swallows the error.
DestroyStatement(o) ==
    /\ sqlPc = "idle" /\ ~lostAssign
    /\ o \in DOMAIN stmtOf
    /\ prepared' = PreparedAfterFinalize(stmtOf[o])
    /\ stmtOf' = Restrict(stmtOf, DOMAIN stmtOf \ {o})
    /\ UNCHANGED <<db, connections, lockedByOther, sqlPc, stepping, script, lostAssign, sqlBudget, waitIfBusy>>

\* Execute or Fetch on an object that holds a statement.
StartStep(o) ==
    /\ sqlPc = "idle" /\ ~lostAssign
    /\ o \in DOMAIN stmtOf /\ stmtOf[o] # 0
    /\ sqlPc' = "step" /\ stepping' = o
    /\ UNCHANGED <<db, connections, prepared, stmtOf, lockedByOther, script, lostAssign, sqlBudget, waitIfBusy>>

StepEnds(failed, pc) ==
    /\ prepared' = [prepared EXCEPT ![stmtOf[stepping]].failed = failed]
    /\ sqlPc' = pc /\ stepping' = 0

\* SqliteStep: a row, the end (after which Execute resets), busy, an error.
SqliteStep ==
    /\ sqlPc = "step"
    /\ \/ ~lockedByOther /\ StepEnds(FALSE, "idle")
       \/ ~lockedByOther /\ StepEnds(TRUE, "idle")
       \/ lockedByOther /\ ~waitIfBusy /\ StepEnds(TRUE, "idle")
    /\ UNCHANGED <<db, connections, stmtOf, lockedByOther, script, lostAssign, sqlBudget, waitIfBusy>>

\* Reset forgets the error.
ResetStatement(o) ==
    /\ sqlPc = "idle" /\ ~lostAssign
    /\ o \in DOMAIN stmtOf /\ stmtOf[o] # 0
    /\ prepared' = [prepared EXCEPT ![stmtOf[o]].failed = FALSE]
    /\ UNCHANGED <<db, connections, stmtOf, lockedByOther, sqlPc, stepping, script, lostAssign, sqlBudget, waitIfBusy>>

\* The application goes on after Database::Execute.
ScriptEnds ==
    /\ sqlPc \in {"returned", "threw"}
    /\ sqlPc' = "idle" /\ script' = NoScript
    /\ UNCHANGED <<db, connections, prepared, stmtOf, lockedByOther, stepping, lostAssign, sqlBudget, waitIfBusy>>

\* Another process takes and releases the lock.
OtherLocks ==
    /\ ~lockedByOther /\ sqlBudget.locks < MaxBusy
    /\ Spend("locks") /\ lockedByOther' = TRUE
    /\ UNCHANGED <<db, connections, prepared, stmtOf, sqlPc, stepping, script, lostAssign, waitIfBusy>>

OtherUnlocks ==
    /\ lockedByOther /\ lockedByOther' = FALSE
    /\ UNCHANGED <<db, connections, prepared, stmtOf, sqlPc, stepping, script, lostAssign, sqlBudget, waitIfBusy>>

SqliteNext ==
    \/ CloseDatabase \/ OpenDatabase \/ ExecuteNext \/ SqliteStep \/ ScriptEnds \/ OtherLocks \/ OtherUnlocks
    \/ \E n \in ScriptLengths : ExecuteScript(n)
    \/ \E o \in Objects :
           \/ Construct(o) \/ AssignPrepared(o) \/ DestroyStatement(o) \/ StartStep(o) \/ ResetStatement(o)
           \/ \E other \in Objects : MoveConstruct(o, other) \/ Assign(o, other)

SqliteSpec == SqliteInit /\ [][SqliteNext]_sqlVars

-----------------------------------------------------------------------------
(* Properties.                                                              *)

Held == {stmtOf[o] : o \in DOMAIN stmtOf} \ {0}

\* Until an assignment throws, every live statement belongs to exactly one
\* object and no object holds a freed one, through constructions, moves,
\* assignments, failed steps and destructors.  An assignment over a statement
\* whose last step failed throws out of Finalize before stmt_ is cleared: the
\* object then holds a freed statement, and a statement just prepared is lost.
StatementsHaveOneOwner ==
    ~lostAssign =>
        /\ Held = DOMAIN prepared
        /\ \A o, p \in DOMAIN stmtOf : stmtOf[o] = stmtOf[p] /\ stmtOf[o] # 0 => o = p

\* The connection of the Database, and that of every live statement, is open:
\* a Close that SQLite refuses because of a live statement leaves everything as
\* it was, and an Open after it loses the old connection, not the statements'.
LiveStatementsHaveConnections ==
    /\ db # 0 => db \in connections
    /\ \A s \in DOMAIN prepared : prepared[s].conn \in connections

\* Database::Execute returns only after the last statement of its query was
\* executed once and each of the others at least once; an earlier statement is
\* executed again only where the call waited for a lock.
ScriptRunsToItsEnd ==
    sqlPc = "returned" =>
        /\ script.runs[script.length] = 1
        /\ \A i \in 1 .. script.length : script.runs[i] \in 1 .. 1 + sqlBudget.locks

\* Statements have one owner and a connection, and a script that waits for locks
\* is executed to its end.
StatementsAreKept ==
    StatementsHaveOneOwner /\ LiveStatementsHaveConnections /\ ScriptRunsToItsEnd
=============================================================================
