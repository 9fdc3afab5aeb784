--------------------------- MODULE SocketSelector ---------------------------
(***************************************************************************)
(* XTL::SocketSelector (linux/net/SocketSelector.cpp) and the XTL::SocketSet *)
(* it is built from: two fd_sets and maxfd_, the highest descriptor in      *)
(* them, which bounds what ::select() looks at.                             *)
(*                                                                         *)
(* A socket is its descriptor, an integer; -1 is the null Socket.  The     *)
(* select timeout is not part of the state: it only says that a select     *)
(* with nothing ready returns.                                             *)
(***************************************************************************)
EXTENDS Integers

CONSTANTS
    FD_SETSIZE,     \* the capacity of an fd_set
    Sockets         \* the descriptors the selector may be given

ASSUME SelectorAssumption ==
    /\ FD_SETSIZE \in Nat
    /\ Sockets \subseteq Int

VARIABLE selector   \* [maxfd, readSet, writeSet]

\* SocketSet::IsDescInvalid: FD_SET beyond FD_SETSIZE would be undefined.
IsDescInvalid(fd) == fd < 0 \/ fd >= FD_SETSIZE

\* The descriptors an fd_set can hold.
ValidDescs == 0 .. (FD_SETSIZE - 1)

SelectorInit == selector = [maxfd |-> -1, readSet |-> {}, writeSet |-> {}]

\* All descriptors the selector watches.
Watched(sel) == sel.readSet \cup sel.writeSet

\* What Insert returns.
Inserts(fd, checkRead, checkWrite) ==
    ~IsDescInvalid(fd) /\ (checkRead \/ checkWrite)

\* SocketSelector::Insert.
SelectorInsert(fd, checkRead, checkWrite) ==
    IF Inserts(fd, checkRead, checkWrite)
    THEN selector' =
           [maxfd    |-> IF fd > selector.maxfd THEN fd ELSE selector.maxfd,
            readSet  |-> selector.readSet  \cup (IF checkRead  THEN {fd} ELSE {}),
            writeSet |-> selector.writeSet \cup (IF checkWrite THEN {fd} ELSE {})]
    ELSE UNCHANGED selector

\* Mutant: Delete lowers maxfd_ by one and does not look for the next member.
ScanDownByOne(S, fd) == fd - 1

\* The loop of Delete: from fd - 1 down to the first descriptor that is still
\* in one of the sets, -1 when there is none.
ScanDown(S, fd) ==
    CHOOSE d \in -1 .. (fd - 1) :
        /\ d = -1 \/ d \in S
        /\ \A e \in S : e < fd => e <= d

\* SocketSelector::Delete.  FD_CLR says nothing about membership, so Delete
\* returns true for every valid descriptor.
SelectorDelete(fd) ==
    IF IsDescInvalid(fd)
    THEN UNCHANGED selector
    ELSE LET r == selector.readSet \ {fd}
             w == selector.writeSet \ {fd}
         IN  selector' =
               [maxfd    |-> IF fd = selector.maxfd
                             THEN ScanDown(r \cup w, fd)
                             ELSE selector.maxfd,
                readSet  |-> r,
                writeSet |-> w]

\* SocketSelector::Clear.
SelectorClear == selector' = [maxfd |-> -1, readSet |-> {}, writeSet |-> {}]

\* Mutant: ::select(maxfd, ...).
SelectedBelowMaxfd(sel, ready) == {fd \in sel.readSet : fd < sel.maxfd /\ fd \in ready}

\* Mutant: the copy of the watched set, before ::select has narrowed it.
SelectedAll(sel, ready) == {fd \in sel.readSet : fd <= sel.maxfd}

\* What ::select(maxfd + 1, ...) leaves in the read set when the descriptors
\* of "ready" are ready: it examines no descriptor above maxfd.
SelectedForRead(sel, ready) == {fd \in sel.readSet : fd <= sel.maxfd /\ fd \in ready}

\* The descriptors ::select examines, open or not.
Examined(sel) == {fd \in Watched(sel) : fd <= sel.maxfd}

SelectorNext ==
    \/ \E fd \in Sockets, checkRead, checkWrite \in BOOLEAN :
           SelectorInsert(fd, checkRead, checkWrite)
    \/ \E fd \in Sockets : SelectorDelete(fd)
    \/ SelectorClear

SelectorSpec == SelectorInit /\ [][SelectorNext]_selector

-----------------------------------------------------------------------------
\* Type invariant of the selector: maxfd_ is -1 or a descriptor an fd_set can
\* hold, and both sets hold such descriptors only.
SelectorTypeOK ==
    selector \in [maxfd    : -1 .. (FD_SETSIZE - 1),
                  readSet  : SUBSET ValidDescs,
                  writeSet : SUBSET ValidDescs]

\* maxfd_ is exactly the highest descriptor in the two sets, -1 when both are
\* empty, after any sequence of Insert, Delete and Clear.  If it were lower,
\* ::select(maxfd_ + 1) would never report the sockets above it: those clients
\* would hang for ever.
MaxfdIsHighest ==
    /\ \A fd \in Watched(selector) : fd <= selector.maxfd
    /\ selector.maxfd = -1 \/ selector.maxfd \in Watched(selector)

\* After any sequence of Insert, Delete and Clear, select is given every watched
\* descriptor and nothing that an fd_set cannot hold.
SelectOverlooksNone == SelectorTypeOK /\ MaxfdIsHighest

=============================================================================
