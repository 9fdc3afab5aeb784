----------------------------- MODULE SharedPaths -----------------------------
(***************************************************************************)
(* What several processes do at one path of the file system with the        *)
(* library's helpers: FileUtils::RecreateSymlink and CreatePath             *)
(* (linux/fs/FileUtils.cpp), UnixSocketServer::Listen and its end, and      *)
(* PidFile (linux/utils/).  One system call is one step; a process may be   *)
(* killed between any two of them.                                          *)
(***************************************************************************)
EXTENDS Integers, FiniteSets

CONSTANTS
    Procs,          \* the processes
    MaxTempLinks,   \* bound: numbers of temporary links
    MaxDepth,       \* components of the path that is created
    MaxStarts,      \* bound: how often a process is started
    MaxCallFaults   \* bound: system calls that fail for other reasons

Nobody == "nobody"

ASSUME PathsAssumption ==
    /\ Nobody \notin Procs
    /\ IsFiniteSet(Procs)
    /\ MaxTempLinks \in Nat
    /\ MaxDepth \in Nat \ {0}
    /\ MaxStarts \in Nat
    /\ MaxCallFaults \in Nat

TempNumbers == 1 .. MaxTempLinks

VARIABLES
    link,       \* the symbolic link: the process whose target it has, or Nobody
    temp,       \* the temporary links, by number
    linker,     \* per process in RecreateSymlink: [pc, i]
    dirs,       \* the components of the path that exist: "none", "dir" or "file"
    maker,      \* per process in CreatePath: [pc, i, created]
    socketAt,   \* the process whose socket the path leads to, or Nobody
    server,     \* per process: [pc, recreate]
    meddled,    \* history: per server, another one touched the path since it bound
    pidText,    \* what the pid file says: a process, Nobody (empty), "both" or "missing"
    pidFile,    \* per process: the state of its PidFile object
    pidTouched, \* history: per process, another one touched the file since it created it
    starts,     \* starts of processes
    callFaults

pathVars == <<link, temp, linker, dirs, maker, socketAt, server, meddled,
              pidText, pidFile, pidTouched, starts, callFaults>>

linkVars == <<link, temp, linker>>
dirVars == <<dirs, maker>>
socketVars == <<socketAt, server, meddled>>
pidVars == <<pidText, pidFile, pidTouched>>

PathsInit ==
    /\ link \in Procs \cup {Nobody}
    /\ temp = [n \in TempNumbers |-> Nobody]
    /\ linker = [p \in Procs |-> [pc |-> "idle", i |-> 1]]
    /\ dirs \in [1 .. MaxDepth -> {"none", "dir", "file"}]
    /\ \A i \in 2 .. MaxDepth : dirs[i] # "none" => dirs[i - 1] = "dir"
    /\ maker = [p \in Procs |-> [pc |-> "idle", i |-> 1, created |-> FALSE]]
    /\ socketAt = Nobody
    /\ server = [p \in Procs |-> [pc |-> "idle", recreate |-> FALSE]]
    /\ meddled = [p \in Procs |-> FALSE]
    /\ pidText = "missing"
    /\ pidFile = [p \in Procs |-> "none"]
    /\ pidTouched = [p \in Procs |-> FALSE]
    /\ starts = 0
    /\ callFaults = 0

Start == starts < MaxStarts /\ starts' = starts + 1
Fault == callFaults < MaxCallFaults /\ callFaults' = callFaults + 1

-----------------------------------------------------------------------------
(* RecreateSymlink.                                                         *)

\* CreateSymlink of the i-th temporary link succeeds.
TempIsFree(i) == i \in TempNumbers /\ temp[i] = Nobody

LinkGoes(p, pc) == linker' = [linker EXCEPT ![p].pc = pc]

LinkCall(p) ==
    /\ linker[p].pc = "idle"
    /\ Start
    /\ linker' = [linker EXCEPT ![p] = [pc |-> "create", i |-> 1]]
    /\ UNCHANGED <<link, temp, dirVars, socketVars, pidVars, callFaults>>

\* CreateSymlink of the link itself.
LinkCreate(p) ==
    /\ linker[p].pc = "create"
    /\ IF link = Nobody
       THEN link' = p /\ LinkGoes(p, "returned")
       ELSE UNCHANGED link /\ LinkGoes(p, "temp")
    /\ UNCHANGED <<temp, dirVars, socketVars, pidVars, starts, callFaults>>

\* CreateSymlink of a temporary link; one that exists is passed over.
LinkTemp(p) ==
    /\ linker[p].pc = "temp"
    /\ LET i == linker[p].i
       IN  IF TempIsFree(i)
           THEN temp' = [temp EXCEPT ![i] = p] /\ LinkGoes(p, "rename")
           ELSE /\ i < MaxTempLinks
                /\ UNCHANGED temp
                /\ linker' = [linker EXCEPT ![p].i = @ + 1]
    /\ UNCHANGED <<link, dirVars, socketVars, pidVars, starts, callFaults>>

\* Mutant: the old link is removed before the new one takes its name.
RenamedByUnlink(p) == Nobody

\* Rename puts the temporary link in the link's place.
Renamed(p) == temp[linker[p].i]

LinkRename(p) ==
    /\ linker[p].pc = "rename"
    /\ link' = Renamed(p)
    /\ temp' = [temp EXCEPT ![linker[p].i] = Nobody]
    /\ LinkGoes(p, "returned")
    /\ UNCHANGED <<dirVars, socketVars, pidVars, starts, callFaults>>

LinkRenameFails(p) ==
    /\ linker[p].pc = "rename"
    /\ Fault
    /\ LinkGoes(p, "unlink")
    /\ UNCHANGED <<link, temp, dirVars, socketVars, pidVars, starts>>

\* The handler removes the temporary link and throws.
LinkUnlink(p) ==
    /\ linker[p].pc = "unlink"
    /\ temp' = [temp EXCEPT ![linker[p].i] = Nobody]
    /\ LinkGoes(p, "idle")
    /\ UNCHANGED <<link, dirVars, socketVars, pidVars, starts, callFaults>>

\* CreateSymlink fails for another reason than EEXIST.
LinkFails(p) ==
    /\ linker[p].pc \in {"create", "temp"}
    /\ Fault
    /\ LinkGoes(p, "idle")
    /\ UNCHANGED <<link, temp, dirVars, socketVars, pidVars, starts>>

\* The Unlink of the handler fails as well: the temporary link stays, and the
\* process calls no more.
LinkUnlinkFails(p) ==
    /\ linker[p].pc = "unlink"
    /\ Fault
    /\ LinkGoes(p, "left")
    /\ UNCHANGED <<link, temp, dirVars, socketVars, pidVars, starts>>

LinkDone(p) ==
    /\ linker[p].pc = "returned"
    /\ LinkGoes(p, "idle")
    /\ UNCHANGED <<link, temp, dirVars, socketVars, pidVars, starts, callFaults>>

LinkKilled(p) ==
    /\ linker[p].pc \notin {"idle", "killed", "left"}
    /\ LinkGoes(p, "killed")
    /\ UNCHANGED <<link, temp, dirVars, socketVars, pidVars, starts, callFaults>>

LinkNext ==
    \E p \in Procs : LinkCall(p) \/ LinkCreate(p) \/ LinkTemp(p) \/ LinkRename(p)
                     \/ LinkRenameFails(p) \/ LinkUnlink(p) \/ LinkUnlinkFails(p)
                     \/ LinkFails(p) \/ LinkDone(p) \/ LinkKilled(p)

-----------------------------------------------------------------------------
(* CreatePath.                                                              *)

MakeCall(p) ==
    /\ maker[p].pc = "idle"
    /\ Start
    /\ maker' = [maker EXCEPT ![p].pc = "mkdir"]
    /\ UNCHANGED <<linkVars, dirs, socketVars, pidVars, callFaults>>

\* The end of the loop over the path's components.
IsLastComponent(i) == i = MaxDepth

\* The next component, or the end of the loop.
MakeNextComponent(p, created) ==
    maker' = [maker EXCEPT ![p] = [pc |-> IF IsLastComponent(@.i) THEN "returned" ELSE "mkdir",
                                   i |-> @.i + 1, created |-> created]]

\* ::mkdir fails for a reason other than EEXIST, or the stat after it fails.
MakeDirFails(p) ==
    /\ maker[p].pc \in {"mkdir", "stat"}
    /\ Fault
    /\ maker' = [maker EXCEPT ![p].pc = "threw"]
    /\ UNCHANGED <<linkVars, dirs, socketVars, pidVars, starts>>

\* ::mkdir of one component.
MakeDir(p) ==
    /\ maker[p].pc = "mkdir"
    /\ LET i == maker[p].i
       IN  IF dirs[i] = "none"
           THEN dirs' = [dirs EXCEPT ![i] = "dir"] /\ MakeNextComponent(p, TRUE)
           ELSE UNCHANGED dirs /\ maker' = [maker EXCEPT ![p].pc = "stat"]
    /\ UNCHANGED <<linkVars, socketVars, pidVars, starts, callFaults>>

\* FileStats(...).IsDirectory().
IsDirectory(i) == dirs[i] = "dir"

CreatedIfExists(p) == FALSE

\* EEXIST: a directory is passed over, anything else is an error.
MakeStat(p) ==
    /\ maker[p].pc = "stat"
    /\ IF IsDirectory(maker[p].i)
       THEN MakeNextComponent(p, CreatedIfExists(p))
       ELSE maker' = [maker EXCEPT ![p].pc = "threw"]
    /\ UNCHANGED <<linkVars, dirs, socketVars, pidVars, starts, callFaults>>

MakeNext == \E p \in Procs : MakeCall(p) \/ MakeDir(p) \/ MakeDirFails(p) \/ MakeStat(p)

-----------------------------------------------------------------------------
(* UnixSocketServer::Listen.                                                *)

ServerGoes(p, pc) == server' = [server EXCEPT ![p].pc = pc]

\* The others that have bound the path learn nothing of this.
Meddle(p) ==
    meddled' = [q \in Procs |-> IF q = p THEN FALSE ELSE TRUE]

ListenCall(p, recreate) ==
    /\ server[p].pc = "idle"
    /\ Start
    /\ server' = [server EXCEPT ![p] = [pc |-> "bind", recreate |-> recreate]]
    /\ UNCHANGED <<linkVars, dirVars, socketAt, meddled, pidVars, callFaults>>

\* The handler's condition when the code is EADDRINUSE.
TakesOver(p) == server[p].recreate

\* Bind: any file at the path, a dead server's too, is EADDRINUSE.
ListenBind(p) ==
    /\ server[p].pc = "bind"
    /\ IF socketAt = Nobody
       THEN socketAt' = p /\ Meddle(p) /\ ServerGoes(p, "bound")
       ELSE /\ UNCHANGED <<socketAt, meddled>>
            /\ ServerGoes(p, IF TakesOver(p) THEN "unlink" ELSE "inuse")
    /\ UNCHANGED <<linkVars, dirVars, pidVars, starts, callFaults>>

\* Bind, Unlink or listen fails for another reason.
ListenFails(p) ==
    /\ server[p].pc \in {"bind", "unlink", "rebind", "bound"}
    /\ Fault
    /\ ServerGoes(p, "throw")
    /\ UNCHANGED <<linkVars, dirVars, socketAt, meddled, pidVars, starts>>

\* The handler of EADDRINUSE when the path is to be taken over.
ListenUnlink(p) ==
    /\ server[p].pc = "unlink"
    /\ socketAt' = Nobody
    /\ Meddle(p)
    /\ ServerGoes(p, "rebind")
    /\ UNCHANGED <<linkVars, dirVars, pidVars, starts, callFaults>>

ListenRebind(p) ==
    /\ server[p].pc = "rebind"
    /\ IF socketAt = Nobody
       THEN socketAt' = p /\ Meddle(p) /\ ServerGoes(p, "bound")
       ELSE UNCHANGED <<socketAt, meddled>> /\ ServerGoes(p, "inuse")
    /\ UNCHANGED <<linkVars, dirVars, pidVars, starts, callFaults>>

\* The holder moves to unixSockets_, so leaving Listen leaves the path alone.
SocketAtAfterListen == socketAt

\* ::listen(), and the end of Listen.
ListenEnds(p) ==
    /\ server[p].pc = "bound"
    /\ socketAt' = SocketAtAfterListen
    /\ ServerGoes(p, "listening")
    /\ UNCHANGED <<linkVars, dirVars, meddled, pidVars, starts, callFaults>>

\* An exception leaves Listen, or the server ends: UnixSocketHolder's
\* destructor unlinks the path, whoever's socket is there.
ServerEnds(p) ==
    /\ server[p].pc \in {"inuse", "throw", "listening"}
    /\ socketAt' = Nobody
    /\ Meddle(p)
    /\ ServerGoes(p, "idle")
    /\ UNCHANGED <<linkVars, dirVars, pidVars, starts, callFaults>>

\* A killed server leaves its socket's file behind.
ServerKilled(p) ==
    /\ server[p].pc # "idle"
    /\ ServerGoes(p, "idle")
    /\ UNCHANGED <<linkVars, dirVars, socketAt, meddled, pidVars, starts, callFaults>>

SocketNext ==
    \E p \in Procs :
        \/ \E recreate \in BOOLEAN : ListenCall(p, recreate)
        \/ ListenBind(p) \/ ListenFails(p) \/ ListenUnlink(p) \/ ListenRebind(p)
        \/ ListenEnds(p) \/ ServerEnds(p) \/ ServerKilled(p)

-----------------------------------------------------------------------------
(* PidFile.                                                                 *)

PidGoes(p, state) == pidFile' = [pidFile EXCEPT ![p] = state]
TouchPidFile(p) == pidTouched' = [q \in Procs |-> q # p]

\* RECREATE_APPEND: the file is created, or truncated.
PidCreatedText == Nobody

\* The constructor creates the file ...
PidCreate(p) ==
    /\ pidFile[p] = "none"
    /\ Start
    /\ pidText' = PidCreatedText
    /\ PidGoes(p, "created")
    /\ TouchPidFile(p)
    /\ UNCHANGED <<linkVars, dirVars, socketVars, callFaults>>

\* ... and writes to it: O_APPEND, after what another process has written.
PidWrite(p) ==
    /\ pidFile[p] = "created"
    /\ pidText' = IF pidText = Nobody THEN p ELSE "both"
    /\ PidGoes(p, "written")
    /\ pidTouched' = [q \in Procs |-> q # p \/ pidTouched[p]]
    /\ UNCHANGED <<linkVars, dirVars, socketVars, starts, callFaults>>

\* The file has been unlinked since: what is written is lost.
PidWriteOrphan(p) ==
    /\ pidFile[p] = "orphaned"
    /\ PidGoes(p, "written")
    /\ UNCHANGED <<linkVars, dirVars, socketVars, pidText, pidTouched, starts, callFaults>>

\* The write fails: the constructor throws and the file stays.
PidWriteFails(p) ==
    /\ pidFile[p] \in {"created", "orphaned"}
    /\ Fault
    /\ PidGoes(p, "none")
    /\ UNCHANGED <<linkVars, dirVars, socketVars, pidText, pidTouched, starts>>

\* The write is interrupted until File::Write gives up: the constructor does not
\* look at the count and returns, and the file is left without the number.
PidWriteShort(p) ==
    /\ pidFile[p] = "created"
    /\ Fault
    /\ PidGoes(p, "short")
    /\ UNCHANGED <<linkVars, dirVars, socketVars, pidText, pidTouched, starts>>

\* Remove, which the destructor calls in the mode REMOVE; a process that has
\* the file open and has not written yet is left with a file without a name.
PidRemove(p) ==
    /\ pidFile[p] \in {"written", "short"}
    /\ pidText' = "missing"
    /\ pidFile' = [q \in Procs |-> IF q = p THEN "none"
                                   ELSE IF pidFile[q] = "created" THEN "orphaned"
                                   ELSE pidFile[q]]
    /\ TouchPidFile(p)
    /\ UNCHANGED <<linkVars, dirVars, socketVars, starts, callFaults>>

\* A killed process, and one whose mode is DO_NOT_REMOVE, leaves its file.
PidLeft(p) ==
    /\ pidFile[p] # "none"
    /\ PidGoes(p, "none")
    /\ UNCHANGED <<linkVars, dirVars, socketVars, pidText, pidTouched, starts, callFaults>>

PidNext ==
    \E p \in Procs : PidCreate(p) \/ PidWrite(p) \/ PidWriteOrphan(p) \/ PidWriteFails(p)
                     \/ PidWriteShort(p) \/ PidRemove(p) \/ PidLeft(p)

PathsNext == LinkNext \/ MakeNext \/ SocketNext \/ PidNext

PathsSpec == PathsInit /\ [][PathsNext]_pathVars

-----------------------------------------------------------------------------
(* Properties.                                                              *)

\* Type invariant; CreatePath looks only at components the path has.
PathsTypeOK ==
    /\ link \in Procs \cup {Nobody}
    /\ temp \in [TempNumbers -> Procs \cup {Nobody}]
    /\ linker \in [Procs -> [pc : {"idle", "create", "temp", "rename", "unlink", "returned",
                                   "left", "killed"},
                             i : TempNumbers \cup {1}]]
    /\ dirs \in [1 .. MaxDepth -> {"none", "dir", "file"}]
    /\ maker \in [Procs -> [pc : {"idle", "mkdir", "stat", "returned", "threw"},
                            i : 1 .. MaxDepth + 1, created : BOOLEAN]]
    /\ \A p \in Procs : maker[p].pc \in {"mkdir", "stat"} => maker[p].i <= MaxDepth
    /\ socketAt \in Procs \cup {Nobody}
    /\ server \in [Procs -> [pc : {"idle", "bind", "unlink", "rebind", "bound", "listening",
                                   "inuse", "throw"},
                             recreate : BOOLEAN]]
    /\ meddled \in [Procs -> BOOLEAN]
    /\ pidText \in Procs \cup {Nobody, "both", "missing"}
    /\ pidFile \in [Procs -> {"none", "created", "orphaned", "written", "short"}]
    /\ pidTouched \in [Procs -> BOOLEAN]
    /\ starts \in 0 .. MaxStarts
    /\ callFaults \in 0 .. MaxCallFaults

\* RecreateSymlink replaces a link without a moment at which the name does not
\* exist, whatever other processes do and wherever one is killed.
LinkNeverVanishes == [][link # Nobody => link' # Nobody]_pathVars

\* A temporary link on disk belongs to the call that is about to rename or to
\* unlink it, to one whose unlink failed, or to a killed process:
\* RecreateSymlink never takes over another call's temporary link and leaves no
\* other behind.
TempLinksAreOwned ==
    /\ \A n \in TempNumbers : temp[n] # Nobody =>
          /\ linker[temp[n]].i = n
          /\ linker[temp[n]].pc \in {"rename", "unlink", "left", "killed"}
    /\ \A p \in Procs : linker[p].pc \in {"rename", "unlink"} => temp[linker[p].i] = p

\* When CreatePath returns, every component is a directory, whoever made it.
CreatedPathExists ==
    \A p \in Procs : maker[p].pc = "returned" => \A i \in 1 .. MaxDepth : dirs[i] = "dir"

\* Of the processes that race to create one path, CreatePath tells at most one
\* that it created it.
CreatedByOneOnly ==
    \A p, q \in Procs :
        (/\ maker[p].pc = "returned" /\ maker[p].created
         /\ maker[q].pc = "returned" /\ maker[q].created) => p = q

\* A server in or after Listen can be reached at its path unless another
\* process has bound or unlinked the path since.
ServerIsReachable ==
    \A p \in Procs : (server[p].pc \in {"bound", "listening"} /\ ~meddled[p]) => socketAt = p

\* Listen with recreate is refused the path only if another server took it
\* between the unlink and the second bind.
RecreateLosesOnlyRaces ==
    \A p \in Procs : (server[p].pc = "inuse" /\ server[p].recreate) => meddled[p]

\* Once PidFile is constructed the file holds this process's number and nothing
\* else, whatever a killed predecessor left in it, unless another PidFile of
\* the same name has touched it since, or signals cut its write short.
PidFileNamesItsProcess ==
    \A p \in Procs : (pidFile[p] = "written" /\ ~pidTouched[p]) => pidText = p

\* RecreateSymlink and CreatePath do what they say for several processes at once,
\* also when one is killed: the link is always there, temporary links have an
\* owner, and a path is created by one process and exists for all.
PathsAreMade ==
    /\ [](TempLinksAreOwned /\ CreatedPathExists /\ CreatedByOneOnly)
    /\ LinkNeverVanishes

\* A server and a pid file keep their path until another process takes it.
PathsAreKept ==
    PathsTypeOK /\ ServerIsReachable /\ RecreateLosesOnlyRaces /\ PidFileNamesItsProcess

\* What several processes do at one path keeps what they were promised, whichever
\* of them is killed: made paths and links stay, and a path is lost only to a
\* process that took it.
PathsAreShared == PathsAreMade /\ []PathsAreKept
=============================================================================
