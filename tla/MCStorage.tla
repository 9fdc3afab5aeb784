----------------------------- MODULE MCStorage -----------------------------
(***************************************************************************)
(* What keeps data: the tree with unique keys, files that are written and   *)
(* read, paths that processes share, and the three database clients.  They  *)
(* share no state: a behaviour exercises one of them, "part", and leaves    *)
(* the others as they were made.                                            *)
(***************************************************************************)
EXTENDS BTree, FileTransaction, FileInput, SharedPaths, PgConnection, SqliteClient, NginxLevelDB

VARIABLE part

\* A buffer of two units for writing, so that a request fits, is buffered after a
\* flush, or is written directly; buffers of none, one and three for reading.

Parts == {"tree", "writing", "reading", "links", "directories", "sockets", "pids",
          "pgsql", "sqlite", "nginx"}
PathParts == {"links", "directories", "sockets", "pids"}

\* The parts with several initial states take one of them where they are not
\* exercised.
StorageInit ==
    /\ part \in Parts
    /\ IF part = "reading" THEN TRUE
       ELSE /\ length = 0
            /\ stream = [opened |-> TRUE, plain |-> FALSE, offset |-> 0, position |-> 0, size |-> 0]
            /\ inBuffer = [capacity |-> 1, data |-> [i \in {0} |-> Junk], size |-> 0, position |-> 0]
    /\ IF part = "links" THEN TRUE ELSE link = Nobody
    /\ IF part = "directories" THEN TRUE ELSE dirs = [i \in 1 .. MaxDepth |-> "none"]
    /\ IF part = "sqlite" THEN TRUE ELSE waitIfBusy = FALSE
    /\ IF part = "nginx" THEN TRUE ELSE pathSet = FALSE /\ locked = FALSE
    /\ TreeInit /\ Init /\ InputInit /\ PathsInit /\ PgInit /\ SqliteInit /\ NginxInit

StorageNext ==
    /\ UNCHANGED part
    /\ IF part = "tree" THEN TreeNext ELSE UNCHANGED treeVars
    /\ IF part = "writing" THEN Next ELSE UNCHANGED vars
    /\ IF part = "reading" THEN InputNext ELSE UNCHANGED inputVars
    /\ \/ part = "links" /\ LinkNext
       \/ part = "directories" /\ MakeNext
       \/ part = "sockets" /\ SocketNext
       \/ part = "pids" /\ PidNext
       \/ part \notin PathParts /\ UNCHANGED pathVars
    /\ IF part = "pgsql" THEN PgNext ELSE UNCHANGED pgVars
    /\ IF part = "sqlite" THEN SqliteNext ELSE UNCHANGED sqlVars
    /\ IF part = "nginx" THEN NginxNext ELSE UNCHANGED nginxVars

storageVars == <<part, treeVars, vars, inputVars, pathVars, pgVars, sqlVars, nginxVars>>

StorageSpec == StorageInit /\ [][StorageNext]_storageVars
=============================================================================
