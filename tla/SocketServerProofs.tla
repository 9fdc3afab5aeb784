------------------------- MODULE SocketServerProofs -------------------------
(***************************************************************************)
(* Proofs about SocketSelector: the type invariant and MaxfdIsHighest, for  *)
(* every FD_SETSIZE and every set of descriptors.  The one step that needs  *)
(* work is Delete, whose loop must be shown to find the next member.        *)
(*                                                                         *)
(* Proofs about the event loop, for every set of connections, every limit    *)
(* on descriptors and every set of injected failures.                        *)
(*                                                                         *)
(* The inductive invariant Inv has one part per piece of the argument:       *)
(*   ControlInv  what the program counter says about the loop variables;    *)
(*   KernelInv   a connection waits in one accept queue or has one           *)
(*               descriptor, never both, and its handler exists once it is  *)
(*               accepted;                                                  *)
(*   TableInv    descriptors, selector and clients_ agree, except for the    *)
(*               stale Clients of closed descriptors;                        *)
(*   LoopInv     the vector "disconnected" holds exactly the disconnected    *)
(*               clients whose sockets are open, and a select result stays   *)
(*               true of the clients that are still to be visited.           *)
(***************************************************************************)
EXTENDS SocketServer, SequenceTheorems, WellFoundedInduction, TLAPS

-----------------------------------------------------------------------------
(* The selector.                                                            *)

\* A set of naturals that is not empty has a least element.
LEMMA LeastNatural ==
    ASSUME NEW T \in SUBSET Nat, T # {}
    PROVE  \E x \in T : \A y \in T : x <= y
<1>1. \E x \in T : \A y \in T : ~ (<<y, x>> \in OpToRel(<, Nat))
  BY NatLessThanWellFounded, WFMin, Zenon
<1>2. PICK x \in T : \A y \in T : ~ (<<y, x>> \in OpToRel(<, Nat))
  BY <1>1, Zenon
<1>3. \A y \in T : ~ (y < x)
  BY <1>2 DEF OpToRel
<1> QED
  BY <1>3

\* The value the loop of Delete stops at exists: the next member below fd, or -1.
LEMMA ScanDownExists ==
    ASSUME NEW S \in SUBSET Nat, NEW fd \in Nat
    PROVE  \E d \in -1 .. (fd - 1) :
               /\ d = -1 \/ d \in S
               /\ \A e \in S : e < fd => e <= d
<1> DEFINE T == {u \in Nat : \A e \in S : e < fd => e < u}
<1>1. fd \in T /\ T \in SUBSET Nat
  OBVIOUS
<1>2. PICK u \in T : \A v \in T : u <= v
  BY <1>1, LeastNatural
<1>3. u <= fd /\ u \in Nat /\ \A e \in S : e < fd => e < u
  BY <1>1, <1>2
<1>4. u - 1 = -1 \/ u - 1 \in S
  <2> SUFFICES ASSUME u # 0, u - 1 \notin S PROVE FALSE
    BY <1>3
  <2>1. u - 1 \in Nat /\ \A e \in S : e < fd => e < u - 1
    BY <1>3
  <2> QED
    BY <2>1, <1>2
<1>5. \A e \in S : e < fd => e <= u - 1
  BY <1>3
<1>6. u - 1 \in -1 .. (fd - 1)
  BY <1>3
<1> QED
  BY <1>4, <1>5, <1>6

\* What ScanDown returns.
LEMMA ScanDownSpec ==
    ASSUME NEW S \in SUBSET Nat, NEW fd \in Nat
    PROVE  /\ ScanDown(S, fd) \in -1 .. (fd - 1)
           /\ ScanDown(S, fd) = -1 \/ ScanDown(S, fd) \in S
           /\ \A e \in S : e < fd => e <= ScanDown(S, fd)
BY ScanDownExists, Zenon DEF ScanDown

\* The two selector invariants together.
SelectorInv == SelectorTypeOK /\ MaxfdIsHighest

\* The empty selector, and so Clear, satisfies both.
LEMMA EmptySelector ==
    ASSUME selector = [maxfd |-> -1, readSet |-> {}, writeSet |-> {}]
    PROVE  SelectorInv
BY SelectorAssumption
   DEF SelectorInv, SelectorTypeOK, MaxfdIsHighest, Watched, ValidDescs

\* Insert preserves them.
LEMMA InsertPreserves ==
    ASSUME SelectorInv, NEW fd \in Int,
           NEW checkRead \in BOOLEAN, NEW checkWrite \in BOOLEAN,
           SelectorInsert(fd, checkRead, checkWrite)
    PROVE  SelectorInv'
<1> USE SelectorAssumption
        DEF SelectorInv, SelectorTypeOK, MaxfdIsHighest, Watched, ValidDescs
<1>1. CASE Inserts(fd, checkRead, checkWrite)
  <2>1. fd \in 0 .. (FD_SETSIZE - 1) /\ (checkRead \/ checkWrite)
    BY <1>1 DEF Inserts, IsDescInvalid
  <2> QED
    BY <1>1, <2>1 DEF SelectorInsert
<1>2. CASE ~Inserts(fd, checkRead, checkWrite)
  BY <1>2 DEF SelectorInsert
<1> QED
  BY <1>1, <1>2

\* Delete preserves them: when the highest descriptor goes, the scan finds the
\* next one.
LEMMA DeletePreserves ==
    ASSUME SelectorInv, NEW fd \in Int, SelectorDelete(fd)
    PROVE  SelectorInv'
<1> USE SelectorAssumption
        DEF SelectorInv, SelectorTypeOK, MaxfdIsHighest, Watched, ValidDescs
<1>1. CASE IsDescInvalid(fd)
  BY <1>1 DEF SelectorDelete
<1>2. CASE ~IsDescInvalid(fd)
  <2> DEFINE r == selector.readSet \ {fd}
             w == selector.writeSet \ {fd}
             m == IF fd = selector.maxfd THEN ScanDown(r \cup w, fd)
                                         ELSE selector.maxfd
  <2>1. selector' = [maxfd |-> m, readSet |-> r, writeSet |-> w]
    BY <1>2 DEF SelectorDelete
  <2>2. /\ fd \in Nat /\ fd \in 0 .. (FD_SETSIZE - 1)
        /\ r \cup w \in SUBSET Nat
        /\ r \in SUBSET (0 .. (FD_SETSIZE - 1))
        /\ w \in SUBSET (0 .. (FD_SETSIZE - 1))
    BY <1>2 DEF IsDescInvalid
  <2>3. CASE fd = selector.maxfd
    <3>1. /\ m \in -1 .. (fd - 1)
          /\ m = -1 \/ m \in r \cup w
          /\ \A e \in r \cup w : e < fd => e <= m
      BY <2>2, <2>3, ScanDownSpec
    <3>2. \A e \in r \cup w : e < fd
      BY <2>2, <2>3
    <3> HIDE DEF m, r, w
    <3> QED
      BY <2>1, <2>2, <3>1, <3>2
  <2>4. CASE fd # selector.maxfd
    BY <2>1, <2>2, <2>4
  <2> QED
    BY <2>3, <2>4
<1> QED
  BY <1>1, <1>2

\* One step of a selector used through its interface.
LEMMA SelectorStep ==
    SelectorInv /\ [SelectorNext]_selector => SelectorInv'
<1> SUFFICES ASSUME SelectorInv, [SelectorNext]_selector PROVE SelectorInv'
  OBVIOUS
<1>1. CASE \E fd \in Sockets, checkRead, checkWrite \in BOOLEAN :
             SelectorInsert(fd, checkRead, checkWrite)
  BY <1>1, InsertPreserves, SelectorAssumption
<1>2. CASE \E fd \in Sockets : SelectorDelete(fd)
  BY <1>2, DeletePreserves, SelectorAssumption
<1>3. CASE SelectorClear
  BY <1>3, SelectorAssumption
     DEF SelectorClear, SelectorInv, SelectorTypeOK, MaxfdIsHighest, Watched,
         ValidDescs
<1>4. CASE UNCHANGED selector
  BY <1>4 DEF SelectorInv, SelectorTypeOK, MaxfdIsHighest, Watched
<1> QED
  BY <1>1, <1>2, <1>3, <1>4 DEF SelectorNext

\* The sets and maxfd_ always hold descriptors that fit in an fd_set.
THEOREM SelectorTypeCorrect == SelectorSpec => []SelectorTypeOK
<1>1. SelectorInit => SelectorInv
  BY EmptySelector DEF SelectorInit
<1>2. SelectorInv => SelectorTypeOK
  BY DEF SelectorInv
<1> QED
  BY <1>1, <1>2, SelectorStep, PTL DEF SelectorSpec

\* After any sequence of Insert, Delete and Clear, maxfd_ is exactly the highest
\* watched descriptor: ::select(maxfd_ + 1) overlooks no socket.
THEOREM MaxfdCorrect == SelectorSpec => []MaxfdIsHighest
<1>1. SelectorInit => SelectorInv
  BY EmptySelector DEF SelectorInit
<1>2. SelectorInv => MaxfdIsHighest
  BY DEF SelectorInv
<1> QED
  BY <1>1, <1>2, SelectorStep, PTL DEF SelectorSpec

\* select is given every watched descriptor, and none beyond an fd_set.
THEOREM SelectorCorrect == SelectorSpec => []SelectOverlooksNone
<1>1. SelectorTypeOK /\ MaxfdIsHighest => SelectOverlooksNone
  BY DEF SelectOverlooksNone
<1> QED
  BY <1>1, SelectorTypeCorrect, MaxfdCorrect, PTL

-----------------------------------------------------------------------------
(* The event loop.                                                          *)

ControlInv ==
    /\ pc \in {"setup", "test", "select"} => at = 0
    /\ pc = "accept" => at \in 0 .. Len(serverSockets)
    /\ pc \notin {"receive", "close", "failed"} => disconnected = <<>>

TypeInv == SelectorInv /\ TypeOK /\ ControlInv


\* A connection has at most one descriptor.
DescUnique ==
    \A d, e \in Descs : desc[d] \in Conn /\ desc[d] = desc[e] => d = e

\* Accept queues belong to listening sockets, which serverSockets_ holds.
QueuesOfListeners ==
    /\ \A d \in Descs : backlog[d] # <<>> => desc[d] = "listener"
    /\ \A i \in 1 .. Len(serverSockets) : desc[serverSockets[i]] = "listener"

\* A connection waits at most once.
QueueUnique ==
    \A d, e \in Descs :
      \A i \in 1 .. Len(backlog[d]), j \in 1 .. Len(backlog[e]) :
        backlog[d][i] = backlog[e][j] => d = e /\ i = j

\* A connection that waits has no handler and no descriptor yet.
Pending ==
    \A d, e \in Descs : \A i \in 1 .. Len(backlog[d]) :
      /\ handler[backlog[d][i]] = "none"
      /\ peer[backlog[d][i]] \notin {"none", "gone"}
      /\ desc[e] # backlog[d][i]

\* A connection with a descriptor has a handler, and was not closed.
Accepted ==
    \A d \in Descs : desc[d] \in Conn =>
      /\ peer[desc[d]] \notin {"none", "gone"}
      /\ handler[desc[d]] # "none"

\* Nothing has happened to a connection that was not made.
Fresh ==
    \A c \in Conn : peer[c] = "none" =>
      handler[c] = "none" /\ sent[c] = 0 /\ queued[c] = 0 /\ delivered[c] = 0

KernelInv ==
    /\ DescUnique /\ QueuesOfListeners /\ QueueUnique
    /\ Pending /\ Accepted /\ Fresh

\* The selector watches open sockets for reading.
WatchedAreOpen ==
    /\ selector.writeSet = {}
    /\ \A fd \in selector.readSet :
         fd \in Descs /\ desc[fd] \in Conn \cup {"listener"}

\* Before Run there is no client.
NoneBeforeRun ==
    pc = "setup" => DOMAIN clients = {} /\ \A d \in Descs : desc[d] \notin Conn

\* An open connection is watched and filed as its own Client.
OpenIsFiled ==
    pc # "failed" =>
      \A fd \in Descs : desc[fd] \in Conn =>
        fd \in selector.readSet /\ fd \in DOMAIN clients /\ clients[fd] = desc[fd]

\* Any other Client is the disconnected one of a descriptor that is free.
StaleIsFree ==
    pc # "failed" =>
      \A fd \in DOMAIN clients : clients[fd] # desc[fd] =>
        desc[fd] = "free" /\ handler[clients[fd]] = "disconnected"

\* A connected handler has an open descriptor.
ConnectedIsOpen ==
    pc # "failed" =>
      \A c \in Conn : handler[c] = "connected" => \E d \in Descs : desc[d] = c

TableInv ==
    /\ WatchedAreOpen /\ NoneBeforeRun
    /\ OpenIsFiled /\ StaleIsFree /\ ConnectedIsOpen

\* What the vector "disconnected" holds was told so, is open, and is behind the
\* receive loop.
ClosingIsDisconnected ==
    pc # "failed" =>
      \A i \in 1 .. Len(disconnected) :
        /\ desc[disconnected[i]] \in Conn
        /\ handler[desc[disconnected[i]]] = "disconnected"
        /\ pc = "receive" => disconnected[i] <= at

\* No socket is closed twice.
ClosingUnique ==
    pc # "failed" =>
      \A i, j \in 1 .. Len(disconnected) : disconnected[i] = disconnected[j] => i = j

\* A disconnected client whose socket is open will be closed in this iteration,
\* unless Iterate returned early to terminate.
DisconnectedWillClose ==
    pc # "failed" =>
      \A d \in Descs : desc[d] \in Conn /\ handler[desc[d]] = "disconnected" =>
        \/ \E i \in 1 .. Len(disconnected) : disconnected[i] = d
        \/ terminated /\ pc \in {"test", "stopped"}

\* The result of select stays true of the clients still to be visited.
ReadableIsTrue ==
    pc \in {"accept", "receive"} =>
      \A fd \in readable :
        /\ desc[fd] \in Conn \cup {"listener"}
        /\ desc[fd] \in Conn /\ (pc = "receive" => fd > at) => HasInput(desc[fd])

LoopInv ==
    /\ ClosingIsDisconnected /\ ClosingUnique /\ DisconnectedWillClose
    /\ ReadableIsTrue

Inv == TypeInv /\ KernelInv /\ TableInv /\ LoopInv /\ DataReachesItsHandler

-----------------------------------------------------------------------------
(* Types.                                                                   *)

\* Descriptors are integers that the selector lemmas apply to.
LEMMA DescsAreInts == Descs \subseteq Int
BY ServerAssumption DEF Descs

\* The listening socket the accept loop stands on is a descriptor.
LEMMA ListenSockType ==
    ASSUME TypeInv, AtListener
    PROVE  ListenSock \in Descs
BY DEF TypeInv, TypeOK, ControlInv, AtListener, ListenSock

\* The type invariant holds initially.
LEMMA TypeInit == Init => TypeInv
<1> SUFFICES ASSUME Init PROVE TypeInv
  OBVIOUS
<1>1. SelectorInv
  BY EmptySelector DEF Init, SelectorInit
<1>2. terminated \in BOOLEAN
  BY Zenon DEF Init
<1>3. TypeOK
  BY <1>1, <1>2, ServerAssumption DEF Init, TypeOK, SelectorInv
<1>4. ControlInv
  BY DEF Init, ControlInv
<1> QED
  BY <1>1, <1>3, <1>4 DEF TypeInv

\* Every step preserves it.
LEMMA TypeStep ==
    ASSUME TypeInv, [Next]_vars
    PROVE  TypeInv'
<1> USE ServerAssumption DEF TypeInv
<1>a. ASSUME UNCHANGED selector PROVE SelectorInv'
  BY <1>a DEF SelectorInv, SelectorTypeOK, MaxfdIsHighest, Watched
<1>b. ASSUME UNCHANGED terminated PROVE terminated' \in BOOLEAN
  BY <1>b, Zenon DEF TypeOK
<1>c. ASSUME UNCHANGED <<selector, terminated, serverSockets, clients, disconnected,
                         handlerVars, kernelVars>>,
             pc' \in {"test", "select", "accept", "receive", "close", "stopped", "failed"},
             readable' \subseteq Descs, at' \in Int, ControlInv'
      PROVE  TypeInv'
  <2>1. SelectorInv' /\ terminated' \in BOOLEAN
    BY <1>a, <1>b, <1>c
  <2> QED
    BY <1>c, <2>1 DEF TypeOK, SelectorInv, handlerVars, kernelVars
<1>d. ASSUME NEW fd \in DOMAIN clients, pc = "receive",
             \/ NextClient(fd, disconnected)
             \/ NextClient(fd, Append(disconnected, fd)),
             UNCHANGED <<selector, terminated, serverSockets, clients, desc, backlog,
                         peer, sent>>,
             handler' \in [Conn -> {"none", "connected", "disconnected"}],
             queued' \in [Conn -> Nat], delivered' \in [Conn -> Nat]
      PROVE  TypeInv'
  <2>1. SelectorInv' /\ terminated' \in BOOLEAN
    BY <1>a, <1>b, <1>d
  <2>2. fd \in Descs /\ fd \in Int
    BY <1>d, DescsAreInts DEF TypeOK
  <2>3. /\ pc' \in {"test", "receive"}
        /\ readable' \subseteq Descs
        /\ at' \in Int
        /\ disconnected' \in Seq(Descs)
        /\ ControlInv'
    <3>1. CASE ReturnFromIterate
      BY <3>1 DEF ReturnFromIterate, ControlInv
    <3>2. CASE /\ at' = fd
               /\ \/ disconnected' = disconnected
                  \/ disconnected' = Append(disconnected, fd)
               /\ UNCHANGED <<pc, readable>>
      <4>1. pc = "receive" /\ pc' = "receive" /\ readable' = readable
        BY <1>d, <3>2
      <4>2. disconnected' \in Seq(Descs)
        <5>1. disconnected \in Seq(Descs)
          BY DEF TypeOK
        <5>2. Append(disconnected, fd) \in Seq(Descs)
          BY <2>2, <5>1, AppendProperties
        <5> QED
          BY <3>2, <5>1, <5>2
      <4> QED
        BY <2>2, <3>2, <4>1, <4>2 DEF ControlInv, TypeOK
    <3> QED
      BY <1>d, <3>1, <3>2, Zenon DEF NextClient
  <2> QED
    BY <1>d, <2>1, <2>3 DEF TypeOK, SelectorInv
<1>1. CASE AddListeningSocket
  <2>1. PICK fd \in Descs :
          /\ desc' = [desc EXCEPT ![fd] = "listener"]
          /\ serverSockets' = Append(serverSockets, fd)
          /\ SelectorInsert(fd, TRUE, FALSE)
    BY <1>1 DEF AddListeningSocket
  <2>2. SelectorInv'
    BY <2>1, InsertPreserves, DescsAreInts
  <2>3. terminated' \in BOOLEAN
    BY <1>1, <1>b DEF AddListeningSocket
  <2>4. TypeOK'
    BY <1>1, <2>1, <2>2, <2>3 DEF AddListeningSocket, handlerVars, TypeOK, SelectorInv
  <2>5. ControlInv'
    BY <1>1, <2>1 DEF AddListeningSocket, ControlInv, TypeOK
  <2> QED
    BY <2>2, <2>4, <2>5
<1>2. CASE Run
  BY <1>2, <1>c DEF Run, ControlInv, TypeOK
<1>3. CASE TestTerminated
  BY <1>3, <1>c DEF TestTerminated, ControlInv, TypeOK
<1>4. CASE Terminate
  <2>1. SelectorInv'
    BY <1>4, <1>a DEF Terminate
  <2>2. terminated' \in BOOLEAN
    BY <1>4, Zenon DEF Terminate
  <2> QED
    BY <1>4, <2>1, <2>2 DEF Terminate, TypeOK, SelectorInv, ControlInv, handlerVars, kernelVars
<1>5. CASE Select
  <2>1. readable' \subseteq Descs
    BY <1>5 DEF Select, SelectedForRead, Ready
  <2>2. ControlInv' /\ at' \in Int
    BY <1>5 DEF Select, ControlInv, TypeOK
  <2> QED
    BY <1>5, <1>c, <2>1, <2>2 DEF Select
<1>6. CASE AcceptNothing
  <2>1. ControlInv' /\ at' \in Int
    BY <1>6 DEF AcceptNothing, AtListener, ControlInv, TypeOK
  <2> QED
    BY <1>6, <1>c, <2>1 DEF AcceptNothing, AtListener, TypeOK
<1>7. CASE AcceptFails
  BY <1>7, <1>c DEF AcceptFails, ControlInv, TypeOK
<1>8. CASE AcceptClient
  <2>1. PICK fd \in Descs :
          /\ Accept(fd)
          /\ SelectorInsert(fd, TRUE, FALSE)
          /\ handler' = [handler EXCEPT ![Head(backlog[ListenSock])] = "connected"]
          /\ clients' = MapSet(clients, fd, Head(backlog[ListenSock]))
          /\ at' = at + 1
          /\ UNCHANGED <<pc, terminated, serverSockets, readable, disconnected,
                         delivered, peer, queued, sent>>
    BY <1>8, Zenon DEF AcceptClient
  <2>2. ListenSock \in Descs
    BY <2>1, ListenSockType DEF Accept
  <2>3. /\ Head(backlog[ListenSock]) \in Conn
        /\ Tail(backlog[ListenSock]) \in Seq(Conn)
    BY <2>1, <2>2 DEF Accept, TypeOK
  <2>4. SelectorInv'
    BY <2>1, InsertPreserves, DescsAreInts
  <2>5. terminated' \in BOOLEAN
    BY <2>1, <1>b
  <2>6. /\ backlog' \in [Descs -> Seq(Conn)]
        /\ desc' \in [Descs -> Conn \cup {"free", "inherited", "listener"}]
        /\ handler' \in [Conn -> {"none", "connected", "disconnected"}]
        /\ DOMAIN clients' \subseteq Descs
        /\ \A k \in DOMAIN clients' : clients'[k] \in Conn
    BY <2>1, <2>2, <2>3 DEF Accept, MapSet, TypeOK
  <2>7. TypeOK'
    <3>1. UNCHANGED <<pc, serverSockets, readable, disconnected, delivered, peer, queued, sent>>
      BY <2>1
    <3>2. at' \in Int
      BY <2>1 DEF TypeOK
    <3> QED
      BY <2>4, <2>5, <2>6, <3>1, <3>2 DEF SelectorInv, TypeOK
  <2>8. ControlInv'
    BY <2>1 DEF Accept, AtListener, ControlInv, TypeOK
  <2> QED
    BY <2>4, <2>7, <2>8
<1>9. CASE AcceptClientFails
  <2>1. PICK fd \in Descs :
          /\ Accept(fd)
          /\ \/ handler' = [handler EXCEPT ![Head(backlog[ListenSock])] = "disconnected"]
             \/ handler' = [handler EXCEPT ![Head(backlog[ListenSock])] = "connected"]
    BY <1>9, Zenon DEF AcceptClientFails
  <2>2. ListenSock \in Descs
    BY <2>1, ListenSockType DEF Accept
  <2>3. /\ Head(backlog[ListenSock]) \in Conn
        /\ Tail(backlog[ListenSock]) \in Seq(Conn)
    BY <2>1, <2>2 DEF Accept, TypeOK
  <2>4. SelectorInv' /\ terminated' \in BOOLEAN
    BY <1>9, <1>a, <1>b DEF AcceptClientFails
  <2>5. /\ backlog' \in [Descs -> Seq(Conn)]
        /\ desc' \in [Descs -> Conn \cup {"free", "inherited", "listener"}]
        /\ handler' \in [Conn -> {"none", "connected", "disconnected"}]
    BY <2>1, <2>2, <2>3 DEF Accept, TypeOK
  <2>6. TypeOK'
    BY <1>9, <2>4, <2>5 DEF AcceptClientFails, SelectorInv, TypeOK
  <2>7. ControlInv'
    BY <1>9 DEF AcceptClientFails, ControlInv
  <2> QED
    BY <2>4, <2>6, <2>7
<1>10. CASE AcceptClientsDone
  BY <1>10, <1>c DEF AcceptClientsDone, NULL_DESC, ControlInv, TypeOK
<1>11. CASE SkipClient
  <2>1. PICK fd \in DOMAIN clients : NextClient(fd, disconnected)
    BY <1>11 DEF SkipClient
  <2> QED
    BY <1>11, <2>1, <1>d DEF SkipClient, AtClient, TypeOK, handlerVars, kernelVars
<1>12. CASE ReceiveData
  <2>1. PICK fd \in DOMAIN clients :
          /\ AtClient(fd)
          /\ desc[fd] \in Conn
          /\ \E n \in 1 .. RECEIVE_BUFFER_SIZE :
               /\ n <= queued[desc[fd]]
               /\ queued' = [queued EXCEPT ![desc[fd]] = @ - n]
               /\ delivered' = [delivered EXCEPT ![clients[fd]] = @ + n]
          /\ \/ NextClient(fd, disconnected) /\ UNCHANGED handler
             \/ Disconnect(fd)
          /\ UNCHANGED <<selector, terminated, serverSockets, clients, desc, backlog,
                         peer, sent>>
    BY <1>12, Zenon DEF ReceiveData
  <2>2. queued' \in [Conn -> Nat] /\ delivered' \in [Conn -> Nat]
    BY <2>1 DEF TypeOK
  <2>3. handler' \in [Conn -> {"none", "connected", "disconnected"}]
    BY <2>1 DEF Disconnect, TypeOK
  <2>4. /\ pc = "receive"
        /\ \/ NextClient(fd, disconnected)
           \/ NextClient(fd, Append(disconnected, fd))
    BY <2>1 DEF AtClient, Disconnect
  <2> QED
    BY <2>1, <2>2, <2>3, <2>4, <1>d
<1>13. CASE ReceiveEnd
  <2>1. PICK fd \in DOMAIN clients :
          /\ AtClient(fd)
          /\ Disconnect(fd)
          /\ UNCHANGED <<selector, terminated, serverSockets, clients, delivered,
                         kernelVars>>
    BY <1>13, Zenon DEF ReceiveEnd
  <2> QED
    BY <2>1, <1>d DEF AtClient, Disconnect, TypeOK, kernelVars
<1>14. CASE ReceiveDone
  BY <1>14, <1>c DEF ReceiveDone, ControlInv, TypeOK
<1>15. CASE CloseDisconnected
  <2> DEFINE fd == Head(disconnected)
  <2>1. /\ fd \in Descs
        /\ Tail(disconnected) \in Seq(Descs)
    BY <1>15 DEF CloseDisconnected, TypeOK
  <2>2. /\ SelectorDelete(fd)
        /\ CloseDesc(fd)
        /\ UNCHANGED <<terminated, serverSockets, readable, at, handlerVars, backlog, sent>>
        /\ \/ /\ clients' = MapErase(clients, NULL_DESC)
              /\ disconnected' = Tail(disconnected)
              /\ pc' = "close"
           \/ /\ pc' = "failed"
              /\ UNCHANGED <<clients, disconnected>>
    BY <1>15 DEF CloseDisconnected
  <2> HIDE DEF fd
  <2>3. SelectorInv'
    BY <2>1, <2>2, DeletePreserves, DescsAreInts
  <2>4. terminated' \in BOOLEAN
    BY <2>2, <1>b
  <2>5. /\ DOMAIN clients' \subseteq Descs
        /\ \A k \in DOMAIN clients' : clients'[k] \in Conn
    BY <2>2 DEF MapErase, TypeOK
  <2>6. /\ peer' \in [Conn -> {"none", "open", "closed", "reset", "gone"}]
        /\ queued' \in [Conn -> Nat]
        /\ desc' \in [Descs -> Conn \cup {"free", "inherited", "listener"}]
    BY <2>1, <2>2 DEF CloseDesc, TypeOK
  <2>7. TypeOK'
    BY <2>1, <2>2, <2>3, <2>4, <2>5, <2>6 DEF SelectorInv, TypeOK, handlerVars
  <2>8. ControlInv'
    BY <2>2 DEF ControlInv
  <2> QED
    BY <2>3, <2>7, <2>8
<1>16. CASE CloseDone
  <2>1. /\ ReturnFromIterate
        /\ UNCHANGED <<selector, terminated, serverSockets, clients, handlerVars, kernelVars>>
    BY <1>16 DEF CloseDone
  <2>2. SelectorInv' /\ terminated' \in BOOLEAN
    BY <2>1, <1>a, <1>b
  <2> QED
    BY <2>1, <2>2 DEF ReturnFromIterate, TypeOK, SelectorInv, ControlInv, handlerVars, kernelVars
<1>17. CASE PeerStep
  <2>1. SelectorInv' /\ terminated' \in BOOLEAN
    BY <1>17, <1>a, <1>b
       DEF PeerStep, PeerConnect, PeerSend, PeerClose, PeerReset, PeerAbort, serverVars
  <2>2. ControlInv'
    BY <1>17 DEF PeerStep, PeerConnect, PeerSend, PeerClose, PeerReset, PeerAbort,
                 serverVars, ControlInv
  <2>3. PICK c \in Conn :
          PeerConnect(c) \/ PeerSend(c) \/ PeerClose(c) \/ PeerReset(c) \/ PeerAbort(c)
    BY <1>17 DEF PeerStep
  <2>4. CASE PeerConnect(c)
    BY <2>1, <2>2, <2>4 DEF PeerConnect, serverVars, handlerVars, SelectorInv, TypeOK
  <2>5. CASE PeerSend(c)
    BY <2>1, <2>2, <2>5 DEF PeerSend, serverVars, handlerVars, SelectorInv, TypeOK
  <2>6. CASE PeerClose(c)
    BY <2>1, <2>2, <2>6 DEF PeerClose, serverVars, handlerVars, SelectorInv, TypeOK
  <2>7. CASE PeerReset(c)
    BY <2>1, <2>2, <2>7 DEF PeerReset, serverVars, handlerVars, SelectorInv, TypeOK
  <2>8. CASE PeerAbort(c)
    BY <2>1, <2>2, <2>8, SMTT(30) DEF PeerAbort, serverVars, handlerVars, SelectorInv, TypeOK
  <2> QED
    BY <2>3, <2>4, <2>5, <2>6, <2>7, <2>8
<1>18. CASE UNCHANGED vars
  <2>1. SelectorInv' /\ terminated' \in BOOLEAN
    BY <1>18, <1>a, <1>b DEF vars, serverVars
  <2> QED
    BY <1>18, <2>1 DEF vars, serverVars, handlerVars, kernelVars, TypeOK, SelectorInv, ControlInv
<1> QED
  BY <1>1, <1>2, <1>3, <1>4, <1>5, <1>6, <1>7, <1>8, <1>9, <1>10, <1>11, <1>12, <1>13,
     <1>14, <1>15, <1>16, <1>17, <1>18 DEF Next, ServerStep, Ended
\* The event loop keeps its types.
THEOREM ServerTypeCorrect == Spec => []TypeOK
<1>1. TypeInv => TypeOK
  BY DEF TypeInv
<1> QED
  BY <1>1, TypeInit, TypeStep, PTL DEF Spec

-----------------------------------------------------------------------------
(* The kernel's side: queues and descriptors.                               *)

\* What taking the head off an accept queue does to all queues.
LEMMA QueueTail ==
    ASSUME NEW L \in Descs, backlog \in [Descs -> Seq(Conn)], backlog[L] # <<>>,
           backlog' = [backlog EXCEPT ![L] = Tail(@)]
    PROVE  /\ Head(backlog[L]) \in Conn
           /\ Head(backlog[L]) = backlog[L][1]
           /\ 1 \in 1 .. Len(backlog[L])
           /\ \A d \in Descs : d # L => backlog'[d] = backlog[d]
           /\ \A i \in 1 .. Len(backlog'[L]) :
                i + 1 \in 1 .. Len(backlog[L]) /\ backlog'[L][i] = backlog[L][i + 1]
<1>1. backlog[L] \in Seq(Conn) /\ backlog'[L] = Tail(backlog[L])
  OBVIOUS
<1> QED
  BY <1>1

\* The kernel's part of the invariant holds initially.
LEMMA KernelInit == Init => KernelInv
BY ServerAssumption
   DEF Init, KernelInv, DescUnique, QueuesOfListeners, QueueUnique, Pending, Accepted, Fresh

\* accept() moves a connection from its queue to a descriptor.
LEMMA KernelAccept ==
    ASSUME TypeInv, KernelInv, NEW fd \in Descs, Accept(fd),
           NEW h \in {"connected", "disconnected"},
           handler' = [handler EXCEPT ![Head(backlog[ListenSock])] = h],
           UNCHANGED <<serverSockets, delivered, peer, queued, sent>>
    PROVE  KernelInv'
<1> DEFINE L == ListenSock
           c == Head(backlog[L])
<1>1. /\ backlog[L] # <<>>
      /\ desc[fd] = "free"
      /\ desc' = [desc EXCEPT ![fd] = c]
      /\ backlog' = [backlog EXCEPT ![L] = Tail(@)]
      /\ handler' = [handler EXCEPT ![c] = h]
  BY DEF Accept, IsLowestFree
<1>2. L \in Descs
  BY ListenSockType DEF Accept
<1>3. /\ desc \in [Descs -> Conn \cup {"free", "inherited", "listener"}]
      /\ backlog \in [Descs -> Seq(Conn)]
      /\ handler \in [Conn -> {"none", "connected", "disconnected"}]
      /\ serverSockets \in Seq(Descs)
      /\ \A d \in Descs : \A i \in 1 .. Len(backlog[d]) : backlog[d][i] \in Conn
      /\ "free" \notin Conn /\ "listener" \notin Conn
  BY ServerAssumption DEF TypeInv, TypeOK
<1> HIDE DEF L, c
<1>4. /\ c \in Conn /\ c = backlog[L][1] /\ 1 \in 1 .. Len(backlog[L])
      /\ \A d \in Descs : d # L => backlog'[d] = backlog[d]
      /\ \A i \in 1 .. Len(backlog'[L]) :
           i + 1 \in 1 .. Len(backlog[L]) /\ backlog'[L][i] = backlog[L][i + 1]
  BY <1>1, <1>2, <1>3, QueueTail DEF c
<1> USE DEF KernelInv
<1>5. DescUnique'
  BY <1>1, <1>2, <1>3, <1>4 DEF DescUnique, Pending
<1>6. QueuesOfListeners'
  BY <1>1, <1>2, <1>3, <1>4 DEF QueuesOfListeners
<1>7. QueueUnique'
  BY <1>1, <1>2, <1>3, <1>4, SMTT(30) DEF QueueUnique
<1>8. \A d \in Descs : \A i \in 1 .. Len(backlog'[d]) :
        \E j \in 1 .. Len(backlog[d]) : backlog'[d][i] = backlog[d][j] /\ backlog[d][j] # c
  BY <1>2, <1>4, SMTT(30) DEF QueueUnique
<1>9. Pending'
  <2> SUFFICES ASSUME NEW d \in Descs, NEW e \in Descs, NEW i \in 1 .. Len(backlog'[d])
               PROVE  /\ handler'[backlog'[d][i]] = "none"
                      /\ peer'[backlog'[d][i]] \notin {"none", "gone"}
                      /\ desc'[e] # backlog'[d][i]
    BY DEF Pending
  <2>1. PICK j \in 1 .. Len(backlog[d]) :
          backlog'[d][i] = backlog[d][j] /\ backlog[d][j] # c
    BY <1>8
  <2> QED
    BY <1>1, <1>3, <2>1 DEF Pending
<1>10. Accepted'
  <2>1. peer[c] \notin {"none", "gone"}
    BY <1>2, <1>4 DEF Pending
  <2>2. \A d \in Descs : IF d = fd THEN desc'[d] = c ELSE desc'[d] = desc[d]
    BY <1>1, <1>3
  <2>3. \A x \in Conn : IF x = c THEN handler'[x] = h ELSE handler'[x] = handler[x]
    BY <1>1, <1>3, <1>4
  <2> QED
    BY <1>4, <2>1, <2>2, <2>3 DEF Accepted
<1>11. Fresh'
  <2>1. peer[c] # "none"
    BY <1>2, <1>4 DEF Pending
  <2>2. \A x \in Conn : x # c => handler'[x] = handler[x]
    BY <1>1, <1>3, <1>4
  <2> QED
    BY <2>1, <2>2 DEF Fresh
<1> QED
  BY <1>5, <1>6, <1>7, <1>9, <1>10, <1>11

\* Receiving from, and disconnecting, a connection that has a descriptor.
LEMMA KernelReceive ==
    ASSUME TypeInv, KernelInv, NEW fd \in Descs, desc[fd] \in Conn,
           \/ UNCHANGED handler
           \/ handler' = [handler EXCEPT ![desc[fd]] = "disconnected"],
           \A c \in Conn : c # desc[fd] =>
             queued'[c] = queued[c] /\ delivered'[c] = delivered[c],
           UNCHANGED <<serverSockets, desc, backlog, peer, sent>>
    PROVE  KernelInv'
<1>1. \A c \in Conn : c # desc[fd] => handler'[c] = handler[c]
  BY DEF TypeInv, TypeOK
<1>2. handler[desc[fd]] # "none" /\ handler'[desc[fd]] # "none"
  BY DEF KernelInv, Accepted, TypeInv, TypeOK
<1>3. \A d \in Descs : \A i \in 1 .. Len(backlog[d]) : backlog[d][i] \in Conn
  BY DEF TypeInv, TypeOK
<1>4. DescUnique' /\ QueuesOfListeners' /\ QueueUnique'
  BY DEF KernelInv, DescUnique, QueuesOfListeners, QueueUnique
<1>5. Pending'
  BY <1>1, <1>3 DEF KernelInv, Pending
<1>6. Accepted'
  BY <1>1, <1>2 DEF KernelInv, Accepted
<1>7. Fresh'
  BY <1>1, <1>2 DEF KernelInv, Fresh
<1> QED
  BY <1>4, <1>5, <1>6, <1>7 DEF KernelInv

\* Closing a connection that has a descriptor.
LEMMA KernelClose ==
    ASSUME TypeInv, KernelInv, NEW fd \in Descs, desc[fd] \in Conn, CloseDesc(fd),
           UNCHANGED <<serverSockets, backlog, handler, delivered, sent>>
    PROVE  KernelInv'
<1>1. /\ \A d \in Descs : desc'[d] = IF d = fd THEN "free" ELSE desc[d]
      /\ \A c \in Conn : peer'[c] = IF c = desc[fd] THEN "gone" ELSE peer[c]
      /\ \A c \in Conn : queued'[c] = IF c = desc[fd] THEN 0 ELSE queued[c]
  BY DEF CloseDesc, TypeInv, TypeOK
<1>2. \A d \in Descs : \A i \in 1 .. Len(backlog[d]) : backlog[d][i] \in Conn
  BY DEF TypeInv, TypeOK
<1>3. "free" \notin Conn /\ "listener" \notin Conn
  BY ServerAssumption
<1>4. DescUnique' /\ QueueUnique'
  BY <1>1, <1>3 DEF KernelInv, DescUnique, QueueUnique
<1>5. QueuesOfListeners'
  <2>1. \A i \in 1 .. Len(serverSockets) : serverSockets[i] \in Descs
    BY DEF TypeInv, TypeOK
  <2> QED
    BY <1>1, <1>3, <2>1 DEF KernelInv, QueuesOfListeners
<1>6. Pending'
  BY <1>1, <1>2, <1>3 DEF KernelInv, Pending
<1>7. Accepted'
  BY <1>1, <1>3 DEF KernelInv, Accepted, DescUnique
<1>8. Fresh'
  BY <1>1 DEF KernelInv, Fresh
<1> QED
  BY <1>4, <1>5, <1>6, <1>7, <1>8 DEF KernelInv

\* The peers' steps.
LEMMA KernelPeer ==
    ASSUME TypeInv, KernelInv, PeerStep
    PROVE  KernelInv'
<1> USE DEF KernelInv
<1>1. PICK c \in Conn :
        PeerConnect(c) \/ PeerSend(c) \/ PeerClose(c) \/ PeerReset(c) \/ PeerAbort(c)
  BY DEF PeerStep
<1>2. /\ \A d \in Descs : \A i \in 1 .. Len(backlog[d]) : backlog[d][i] \in Conn
      /\ backlog \in [Descs -> Seq(Conn)]
      /\ peer \in [Conn -> {"none", "open", "closed", "reset", "gone"}]
      /\ queued \in [Conn -> Nat] /\ sent \in [Conn -> Nat]
      /\ desc \in [Descs -> Conn \cup {"free", "inherited", "listener"}]
      /\ serverSockets \in Seq(Descs)
  BY DEF TypeInv, TypeOK
<1>3. CASE PeerConnect(c)
  <2>1. PICK n \in 1 .. Len(serverSockets) :
          backlog' = [backlog EXCEPT ![serverSockets[n]] = Append(@, c)]
    BY <1>3 DEF PeerConnect
  <2> DEFINE L == serverSockets[n]
  <2>2. /\ L \in Descs /\ desc[L] = "listener"
        /\ backlog' = [backlog EXCEPT ![L] = Append(@, c)]
        /\ peer[c] = "none"
        /\ \A x \in Conn : peer'[x] = IF x = c THEN "open" ELSE peer[x]
        /\ UNCHANGED <<desc, serverSockets, handler, delivered, queued, sent>>
    <3>1. L \in Descs
      BY <1>2
    <3>2. desc[L] = "listener"
      BY DEF QueuesOfListeners
    <3> QED
      BY <1>2, <1>3, <2>1, <3>1, <3>2 DEF PeerConnect, serverVars, handlerVars
  <2> HIDE DEF L
  <2>3. /\ \A d \in Descs : d # L => backlog'[d] = backlog[d]
        /\ Len(backlog'[L]) = Len(backlog[L]) + 1
        /\ \A i \in 1 .. Len(backlog[L]) : backlog'[L][i] = backlog[L][i]
        /\ backlog'[L][Len(backlog[L]) + 1] = c
        /\ Len(backlog[L]) \in Nat
    <3>1. backlog[L] \in Seq(Conn) /\ backlog'[L] = Append(backlog[L], c)
      BY <1>2, <2>2
    <3>2. \A d \in Descs : d # L => backlog'[d] = backlog[d]
      BY <1>2, <2>2
    <3> QED
      BY <3>1, <3>2
  <2>4. \A d \in Descs : \A i \in 1 .. Len(backlog'[d]) :
          \/ i \in 1 .. Len(backlog[d]) /\ backlog'[d][i] = backlog[d][i]
          \/ d = L /\ i = Len(backlog[L]) + 1 /\ backlog'[d][i] = c
    BY <2>2, <2>3
  <2>5. \A d \in Descs : \A i \in 1 .. Len(backlog[d]) : backlog[d][i] # c
    BY <2>2 DEF Pending
  <2>6. \A d \in Descs : desc[d] # c
    BY <2>2 DEF Accepted
  <2>7. DescUnique' /\ QueuesOfListeners'
    BY <2>2, <2>3 DEF DescUnique, QueuesOfListeners
  <2>8. QueueUnique'
    BY <2>4, <2>5, SMTT(30) DEF QueueUnique
  <2>9. Pending'
    <3> SUFFICES ASSUME NEW d \in Descs, NEW e \in Descs, NEW i \in 1 .. Len(backlog'[d])
                 PROVE  /\ handler'[backlog'[d][i]] = "none"
                        /\ peer'[backlog'[d][i]] \notin {"none", "gone"}
                        /\ desc'[e] # backlog'[d][i]
      BY DEF Pending
    <3>1. CASE i \in 1 .. Len(backlog[d]) /\ backlog'[d][i] = backlog[d][i]
      BY <1>2, <2>2, <2>5, <3>1, SMTT(30) DEF Pending
    <3>2. CASE backlog'[d][i] = c
      BY <1>2, <2>2, <2>6, <3>2 DEF Fresh
    <3> QED
      BY <2>4, <3>1, <3>2
  <2>10. Accepted' /\ Fresh'
    BY <1>2, <2>2, <2>6 DEF Accepted, Fresh
  <2> QED
    BY <2>7, <2>8, <2>9, <2>10
<1>4. CASE PeerSend(c) \/ PeerClose(c) \/ PeerReset(c)
  <2>1. /\ UNCHANGED <<desc, serverSockets, backlog, handler, delivered>>
        /\ \A x \in Conn : x # c => /\ peer'[x] = peer[x] /\ queued'[x] = queued[x]
                                    /\ sent'[x] = sent[x]
        /\ peer[c] \notin {"none", "gone"} /\ peer'[c] \notin {"none", "gone"}
    BY <1>2, <1>4 DEF PeerSend, PeerClose, PeerReset, serverVars, handlerVars
  <2>2. DescUnique' /\ QueuesOfListeners' /\ QueueUnique'
    BY <2>1 DEF DescUnique, QueuesOfListeners, QueueUnique
  <2>3. Pending' /\ Accepted' /\ Fresh'
    BY <1>2, <2>1 DEF Pending, Accepted, Fresh
  <2> QED
    BY <2>2, <2>3
<1>5. CASE PeerAbort(c)
  <2>1. PICK L \in Descs :
          /\ backlog[L] # <<>> /\ Head(backlog[L]) = c
          /\ backlog' = [backlog EXCEPT ![L] = Tail(@)]
    BY <1>5 DEF PeerAbort
  <2>2. /\ UNCHANGED <<desc, serverSockets, handler, delivered, sent>>
        /\ \A x \in Conn : x # c => peer'[x] = peer[x] /\ queued'[x] = queued[x]
        /\ peer[c] # "none" /\ peer'[c] = "gone"
    BY <1>2, <1>5 DEF PeerAbort, serverVars, handlerVars
  <2>3. /\ c = backlog[L][1] /\ 1 \in 1 .. Len(backlog[L])
        /\ \A d \in Descs : d # L => backlog'[d] = backlog[d]
        /\ \A i \in 1 .. Len(backlog'[L]) :
             i + 1 \in 1 .. Len(backlog[L]) /\ backlog'[L][i] = backlog[L][i + 1]
    BY <1>2, <2>1, QueueTail
  <2>4. DescUnique' /\ QueuesOfListeners'
    BY <2>1, <2>2, <2>3 DEF DescUnique, QueuesOfListeners
  <2>5. QueueUnique'
    BY <2>3, SMTT(30) DEF QueueUnique
  <2>6. \A d \in Descs : \A i \in 1 .. Len(backlog'[d]) :
          \E j \in 1 .. Len(backlog[d]) : backlog'[d][i] = backlog[d][j] /\ backlog[d][j] # c
    BY <2>3, SMTT(30) DEF QueueUnique
  <2>7. Pending'
    <3> SUFFICES ASSUME NEW d \in Descs, NEW e \in Descs, NEW i \in 1 .. Len(backlog'[d])
                 PROVE  /\ handler'[backlog'[d][i]] = "none"
                        /\ peer'[backlog'[d][i]] \notin {"none", "gone"}
                        /\ desc'[e] # backlog'[d][i]
      BY DEF Pending
    <3>1. PICK j \in 1 .. Len(backlog[d]) :
            backlog'[d][i] = backlog[d][j] /\ backlog[d][j] # c
      BY <2>6
    <3> QED
      BY <1>2, <2>2, <3>1 DEF Pending
  <2>8. \A d \in Descs : desc[d] # c
    BY <2>1, <2>3 DEF Pending
  <2>9. Accepted' /\ Fresh'
    BY <2>2, <2>8 DEF Accepted, Fresh
  <2> QED
    BY <2>4, <2>5, <2>7, <2>9
<1> QED
  BY <1>1, <1>3, <1>4, <1>5

-----------------------------------------------------------------------------
(* The server's side.                                                        *)

\* When the receive loop stands on a client that select reported, the Client is
\* that of the open connection, its handler is connected and it has input.
LEMMA AtReadable ==
    ASSUME Inv, NEW fd \in DOMAIN clients, AtClient(fd), fd \in readable
    PROVE  /\ fd \in Descs
           /\ desc[fd] \in Conn
           /\ clients[fd] = desc[fd]
           /\ handler[desc[fd]] = "connected"
           /\ HasInput(desc[fd])
<1>1. fd \in Descs /\ fd \in Int /\ at \in Int /\ pc = "receive" /\ fd > at
  BY DescsAreInts DEF Inv, TypeInv, TypeOK, AtClient
<1>2. desc[fd] \in Conn \cup {"listener"} /\ "free" \notin Conn
  BY <1>1, ServerAssumption DEF Inv, LoopInv, ReadableIsTrue
<1>3. clients[fd] = desc[fd] /\ desc[fd] \in Conn
  <2>1. clients[fd] = desc[fd]
    BY <1>1, <1>2 DEF Inv, TableInv, StaleIsFree
  <2> QED
    BY <2>1 DEF Inv, TypeInv, TypeOK
<1>4. HasInput(desc[fd])
  BY <1>1, <1>3 DEF Inv, LoopInv, ReadableIsTrue
<1>5. handler[desc[fd]] # "none"
  BY <1>1, <1>3 DEF Inv, KernelInv, Accepted
<1>6. handler[desc[fd]] # "disconnected"
  <2> SUFFICES ASSUME handler[desc[fd]] = "disconnected" PROVE FALSE
    OBVIOUS
  <2>1. PICK i \in 1 .. Len(disconnected) : disconnected[i] = fd
    BY <1>1, <1>3 DEF Inv, LoopInv, DisconnectedWillClose
  <2>2. disconnected[i] <= at
    BY <1>1 DEF Inv, LoopInv, ClosingIsDisconnected
  <2> QED
    BY <1>1, <2>1, <2>2
<1> QED
  BY <1>1, <1>3, <1>4, <1>5, <1>6 DEF Inv, TypeInv, TypeOK

\* Steps that leave descriptors, tables and handlers alone.
LEMMA TableFrame ==
    ASSUME TableInv, UNCHANGED <<selector, desc, clients, handler>>,
           pc' = "setup" => pc = "setup", pc' # "failed" => pc # "failed"
    PROVE  TableInv'
BY DEF TableInv, WatchedAreOpen, NoneBeforeRun, OpenIsFiled, StaleIsFree, ConnectedIsOpen

\* A step that disconnects a connection with a descriptor, or none.
LEMMA TableDisconnect ==
    ASSUME TypeInv, TableInv, NEW c \in Conn,
           \/ UNCHANGED handler
           \/ handler' = [handler EXCEPT ![c] = "disconnected"],
           UNCHANGED <<selector, desc, clients>>, pc = "receive", pc' # "setup"
    PROVE  TableInv'
<1>1. \A x \in Conn : handler'[x] \in {handler[x], "disconnected"}
  BY DEF TypeInv, TypeOK
<1>2. \A fd \in DOMAIN clients : clients[fd] \in Conn
  BY DEF TypeInv, TypeOK
<1>3. WatchedAreOpen' /\ NoneBeforeRun' /\ OpenIsFiled'
  BY DEF TableInv, WatchedAreOpen, NoneBeforeRun, OpenIsFiled
<1>4. StaleIsFree'
  BY <1>1, <1>2 DEF TableInv, StaleIsFree
<1>5. ConnectedIsOpen'
  BY <1>1 DEF TableInv, ConnectedIsOpen
<1> QED
  BY <1>3, <1>4, <1>5 DEF TableInv

\* A new listening socket.
LEMMA TableListen ==
    ASSUME TypeInv, TableInv, AddListeningSocket
    PROVE  TableInv'
<1>1. PICK fd \in Descs :
        /\ desc[fd] = "free"
        /\ desc' = [desc EXCEPT ![fd] = "listener"]
        /\ SelectorInsert(fd, TRUE, FALSE)
  BY DEF AddListeningSocket, IsLowestFree
<1>2. /\ pc = "setup" /\ pc' = "setup" /\ UNCHANGED <<clients, handler>>
      /\ DOMAIN clients = {} /\ \A d \in Descs : desc[d] \notin Conn
      /\ "listener" \notin Conn
  BY ServerAssumption DEF AddListeningSocket, handlerVars, TableInv, NoneBeforeRun
<1>3. \A d \in Descs : desc'[d] = IF d = fd THEN "listener" ELSE desc[d]
  BY <1>1 DEF TypeInv, TypeOK
<1>4. /\ selector'.writeSet = selector.writeSet
      /\ \A d \in selector'.readSet : d = fd \/ d \in selector.readSet
  <2>1. CASE Inserts(fd, TRUE, FALSE)
    BY <1>1, <2>1 DEF SelectorInsert
  <2>2. CASE ~Inserts(fd, TRUE, FALSE)
    BY <1>1, <2>2 DEF SelectorInsert
  <2> QED
    BY <2>1, <2>2
<1>5. WatchedAreOpen'
  BY <1>3, <1>4 DEF TableInv, WatchedAreOpen
<1>6. NoneBeforeRun' /\ OpenIsFiled' /\ StaleIsFree'
  BY <1>2, <1>3 DEF NoneBeforeRun, OpenIsFiled, StaleIsFree
<1>7. ConnectedIsOpen'
  BY <1>2, <1>3 DEF TableInv, ConnectedIsOpen
<1> QED
  BY <1>5, <1>6, <1>7 DEF TableInv

\* An accepted client.
LEMMA TableAccept ==
    ASSUME TypeInv, KernelInv, TableInv, AcceptClient
    PROVE  TableInv'
<1>1. PICK fd \in Descs :
        /\ Accept(fd)
        /\ Inserts(fd, TRUE, FALSE)
        /\ SelectorInsert(fd, TRUE, FALSE)
        /\ handler' = [handler EXCEPT ![Head(backlog[ListenSock])] = "connected"]
        /\ clients' = MapSet(clients, fd, Head(backlog[ListenSock]))
        /\ UNCHANGED pc
  BY Zenon DEF AcceptClient
<1> DEFINE c == Head(backlog[ListenSock])
<1>2. ListenSock \in Descs
  BY <1>1, ListenSockType DEF Accept
<1>3. c \in Conn /\ pc = "accept" /\ pc' = "accept" /\ desc[fd] = "free" /\ "free" \notin Conn
  BY <1>1, <1>2, ServerAssumption DEF Accept, AtListener, IsLowestFree, TypeInv, TypeOK
<1>4. \A d \in Descs : desc[d] # c
  <2>1. c = backlog[ListenSock][1] /\ 1 \in 1 .. Len(backlog[ListenSock])
    BY <1>1, <1>2 DEF Accept, TypeInv, TypeOK
  <2> QED
    BY <1>2, <2>1 DEF KernelInv, Pending
<1>5. /\ \A d \in Descs : desc'[d] = IF d = fd THEN c ELSE desc[d]
      /\ \A x \in Conn : handler'[x] = IF x = c THEN "connected" ELSE handler[x]
  BY <1>1, <1>3 DEF Accept, TypeInv, TypeOK
<1>6. /\ DOMAIN clients' = DOMAIN clients \cup {fd}
      /\ \A d \in DOMAIN clients' : clients'[d] = IF d = fd THEN c ELSE clients[d]
      /\ DOMAIN clients \subseteq Descs
      /\ \A d \in DOMAIN clients : clients[d] \in Conn
  BY <1>1 DEF MapSet, TypeInv, TypeOK
<1>7. selector'.readSet = selector.readSet \cup {fd} /\ selector'.writeSet = selector.writeSet
  BY <1>1 DEF SelectorInsert
<1>8. \A d \in DOMAIN clients : clients[d] # c
  <2> SUFFICES ASSUME NEW d \in DOMAIN clients, clients[d] = c PROVE FALSE
    OBVIOUS
  <2>1. clients[d] # desc[d]
    BY <1>4, <1>6
  <2>2. handler[c] = "disconnected"
    BY <1>3, <2>1 DEF TableInv, StaleIsFree
  <2>3. c = backlog[ListenSock][1] /\ 1 \in 1 .. Len(backlog[ListenSock])
    BY <1>1, <1>2 DEF Accept, TypeInv, TypeOK
  <2>4. handler[c] = "none"
    BY <1>2, <2>3 DEF KernelInv, Pending
  <2> QED
    BY <2>2, <2>4
<1> HIDE DEF c
<1>9. WatchedAreOpen' /\ NoneBeforeRun'
  BY <1>3, <1>5, <1>7 DEF TableInv, WatchedAreOpen, NoneBeforeRun
<1>10. OpenIsFiled'
  BY <1>3, <1>5, <1>6, <1>7 DEF TableInv, OpenIsFiled
<1>11. StaleIsFree'
  BY <1>3, <1>5, <1>6, <1>8 DEF TableInv, StaleIsFree
<1>12. ConnectedIsOpen'
  BY <1>3, <1>5 DEF TableInv, ConnectedIsOpen
<1> QED
  BY <1>9, <1>10, <1>11, <1>12 DEF TableInv

\* An accepted client that ends Run.
LEMMA TableAcceptFails ==
    ASSUME TypeInv, TableInv, AcceptClientFails
    PROVE  TableInv'
<1>1. PICK fd \in Descs : Accept(fd)
  BY DEF AcceptClientFails
<1>2. /\ pc' = "failed" /\ UNCHANGED selector /\ desc[fd] = "free" /\ "free" \notin Conn
      /\ \A d \in Descs : d # fd => desc'[d] = desc[d]
  BY <1>1, ServerAssumption DEF AcceptClientFails, Accept, IsLowestFree, TypeInv, TypeOK
<1> QED
  BY <1>2 DEF TableInv, WatchedAreOpen, NoneBeforeRun, OpenIsFiled, StaleIsFree, ConnectedIsOpen

\* The first disconnected socket is an open connection whose handler was told.
LEMMA HeadDisconnected ==
    ASSUME Inv, pc = "close", disconnected # <<>>
    PROVE  /\ Head(disconnected) \in Descs
           /\ Head(disconnected) = disconnected[1]
           /\ 1 \in 1 .. Len(disconnected)
           /\ desc[Head(disconnected)] \in Conn
           /\ handler[desc[Head(disconnected)]] = "disconnected"
<1>1. /\ Head(disconnected) \in Descs
      /\ Head(disconnected) = disconnected[1]
      /\ 1 \in 1 .. Len(disconnected)
  BY DEF Inv, TypeInv, TypeOK
<1> QED
  BY <1>1 DEF Inv, LoopInv, ClosingIsDisconnected

\* Closing a disconnected socket.
LEMMA TableClose ==
    ASSUME Inv, CloseDisconnected
    PROVE  TableInv'
<1> DEFINE fd == Head(disconnected)
<1>1. /\ SelectorDelete(fd)
      /\ CloseDesc(fd)
      /\ UNCHANGED handler
      /\ pc = "close" /\ disconnected # <<>>
      /\ pc' \in {"close", "failed"}
      /\ clients' = MapErase(clients, NULL_DESC) \/ UNCHANGED clients
  BY DEF CloseDisconnected, handlerVars
<1>2. fd \in Descs /\ desc[fd] \in Conn /\ handler[desc[fd]] = "disconnected"
  BY <1>1, HeadDisconnected
<1> HIDE DEF fd
<1>3. /\ DOMAIN clients \subseteq Descs
      /\ \A d \in DOMAIN clients : clients[d] \in Conn
      /\ "free" \notin Conn
  BY ServerAssumption DEF Inv, TypeInv, TypeOK
<1>4. DOMAIN clients' = DOMAIN clients /\ \A d \in DOMAIN clients : clients'[d] = clients[d]
  <2>1. NULL_DESC \notin DOMAIN clients
    BY <1>3, ServerAssumption DEF Descs, NULL_DESC
  <2> QED
    BY <1>1, <2>1 DEF MapErase
<1>5. \A d \in Descs : desc'[d] = IF d = fd THEN "free" ELSE desc[d]
  BY <1>1 DEF CloseDesc, Inv, TypeInv, TypeOK
<1>6. fd \in selector.readSet /\ fd \in DOMAIN clients /\ clients[fd] = desc[fd]
  BY <1>1, <1>2 DEF Inv, TableInv, OpenIsFiled
<1>7. selector'.readSet = selector.readSet \ {fd} /\ selector'.writeSet = {}
  <2>1. ~IsDescInvalid(fd)
    BY <1>6, SelectorAssumption
       DEF IsDescInvalid, Inv, TypeInv, SelectorInv, SelectorTypeOK, ValidDescs
  <2> QED
    BY <1>1, <2>1 DEF SelectorDelete, Inv, TableInv, WatchedAreOpen
<1>8. WatchedAreOpen' /\ NoneBeforeRun'
  BY <1>1, <1>5, <1>7 DEF Inv, TableInv, WatchedAreOpen, NoneBeforeRun
<1>9. OpenIsFiled'
  BY <1>1, <1>3, <1>4, <1>5, <1>7 DEF Inv, TableInv, OpenIsFiled
<1>10. StaleIsFree'
  BY <1>1, <1>2, <1>3, <1>4, <1>5, <1>6 DEF Inv, TableInv, StaleIsFree
<1>11. ConnectedIsOpen'
  BY <1>1, <1>2, <1>5 DEF Inv, TableInv, ConnectedIsOpen
<1> QED
  BY <1>8, <1>9, <1>10, <1>11 DEF TableInv

\* What the receive loop does to the loop variables after an entry.
LEMMA AfterEntry ==
    ASSUME NEW fd, NEW closing, NextClient(fd, closing), pc = "receive", UNCHANGED terminated
    PROVE  \/ terminated' /\ pc' = "test" /\ disconnected' = <<>>
           \/ /\ pc' = "receive" /\ at' = fd /\ disconnected' = closing
              /\ readable' = readable
<1>1. CASE terminated
  BY <1>1, Zenon DEF NextClient, ReturnFromIterate
<1>2. CASE ~terminated
  BY <1>2, Zenon DEF NextClient
<1> QED
  BY <1>1, <1>2

\* What a receive step is, once the Client is known to be that of the connection.
LEMMA ReceiveStep ==
    ASSUME Inv, ReceiveData \/ ReceiveEnd
    PROVE  \E fd \in Descs :
             /\ pc = "receive" /\ fd \in DOMAIN clients /\ fd > at
             /\ desc[fd] \in Conn /\ handler[desc[fd]] = "connected"
             /\ \/ UNCHANGED handler /\ NextClient(fd, disconnected)
                \/ /\ handler' = [handler EXCEPT ![desc[fd]] = "disconnected"]
                   /\ NextClient(fd, Append(disconnected, fd))
             /\ \/ UNCHANGED <<queued, delivered>>
                \/ \E n \in 1 .. RECEIVE_BUFFER_SIZE :
                     /\ n <= queued[desc[fd]]
                     /\ queued' = [queued EXCEPT ![desc[fd]] = @ - n]
                     /\ delivered' = [delivered EXCEPT ![desc[fd]] = @ + n]
             /\ UNCHANGED <<selector, terminated, serverSockets, clients, desc, backlog,
                            peer, sent>>
<1>1. CASE ReceiveData
  <2>1. PICK fd \in DOMAIN clients :
          /\ AtClient(fd)
          /\ fd \in readable
          /\ \E n \in 1 .. RECEIVE_BUFFER_SIZE :
               /\ n <= queued[desc[fd]]
               /\ queued' = [queued EXCEPT ![desc[fd]] = @ - n]
               /\ delivered' = [delivered EXCEPT ![clients[fd]] = @ + n]
          /\ \/ NextClient(fd, disconnected) /\ UNCHANGED handler
             \/ Disconnect(fd)
          /\ UNCHANGED <<selector, terminated, serverSockets, clients, desc, backlog,
                         peer, sent>>
    BY <1>1, Zenon DEF ReceiveData
  <2>2. /\ fd \in Descs /\ desc[fd] \in Conn /\ clients[fd] = desc[fd]
        /\ handler[desc[fd]] = "connected"
    BY <2>1, AtReadable
  <2> QED
    BY <2>1, <2>2, Zenon DEF AtClient, Disconnect
<1>2. CASE ReceiveEnd
  <2>1. PICK fd \in DOMAIN clients :
          /\ AtClient(fd)
          /\ fd \in readable
          /\ Disconnect(fd)
          /\ UNCHANGED <<selector, terminated, serverSockets, clients, delivered, kernelVars>>
    BY <1>2, Zenon DEF ReceiveEnd
  <2>2. /\ fd \in Descs /\ desc[fd] \in Conn /\ clients[fd] = desc[fd]
        /\ handler[desc[fd]] = "connected"
    BY <2>1, AtReadable
  <2> QED
    BY <2>1, <2>2 DEF AtClient, Disconnect, kernelVars
<1> QED
  BY <1>1, <1>2

\* Steps of the server that leave kernel, tables and handlers alone.
Quiet ==
    \/ Run \/ TestTerminated \/ Terminate \/ Select \/ AcceptNothing \/ AcceptFails
    \/ AcceptClientsDone \/ SkipClient \/ ReceiveDone \/ CloseDone \/ UNCHANGED vars

\* They do.
LEMMA QuietFrame ==
    ASSUME TypeInv, Quiet
    PROVE  /\ UNCHANGED <<selector, serverSockets, clients, handler, delivered, desc,
                          backlog, peer, queued, sent>>
           /\ pc' = "setup" => pc = "setup"
           /\ pc' # "failed" => pc # "failed"
<1>1. CASE Run \/ TestTerminated \/ Terminate \/ Select
  BY <1>1 DEF Run, TestTerminated, Terminate, Select, handlerVars, kernelVars
<1>2. CASE AcceptNothing \/ AcceptFails \/ AcceptClientsDone
  BY <1>2 DEF AcceptNothing, AcceptFails, AcceptClientsDone, AtListener, handlerVars, kernelVars
<1>3. CASE SkipClient
  <2>1. PICK fd \in DOMAIN clients : NextClient(fd, disconnected) /\ pc = "receive"
    BY <1>3 DEF SkipClient, AtClient
  <2>2. UNCHANGED <<selector, terminated, serverSockets, clients, handlerVars, kernelVars>>
    BY <1>3 DEF SkipClient
  <2>3. pc' \in {"test", "receive"}
    BY <2>1, <2>2, AfterEntry
  <2> QED
    BY <2>1, <2>2, <2>3 DEF handlerVars, kernelVars
<1>4. CASE ReceiveDone \/ CloseDone
  BY <1>4 DEF ReceiveDone, CloseDone, ReturnFromIterate, handlerVars, kernelVars
<1>5. CASE UNCHANGED vars
  BY <1>5 DEF vars, serverVars, handlerVars, kernelVars
<1> QED
  BY <1>1, <1>2, <1>3, <1>4, <1>5 DEF Quiet

\* The steps that are not quiet.
LEMMA StepCases ==
    ASSUME [Next]_vars
    PROVE  \/ Quiet \/ AddListeningSocket \/ AcceptClient \/ AcceptClientFails
           \/ ReceiveData \/ ReceiveEnd \/ CloseDisconnected \/ PeerStep
BY Zenon DEF Next, ServerStep, Ended, Quiet

\* The kernel's part of the invariant is preserved.
LEMMA KernelStep ==
    ASSUME Inv, [Next]_vars
    PROVE  KernelInv'
<1> USE DEF Inv
<1>1. CASE Quiet
  <2>1. UNCHANGED <<serverSockets, handler, delivered, desc, backlog, peer, queued, sent>>
    BY <1>1, QuietFrame
  <2> QED
    BY <2>1 DEF KernelInv, DescUnique, QueuesOfListeners, QueueUnique, Pending, Accepted, Fresh
<1>2. CASE AddListeningSocket
  <2>1. PICK fd \in Descs :
          /\ desc[fd] = "free"
          /\ desc' = [desc EXCEPT ![fd] = "listener"]
          /\ serverSockets' = Append(serverSockets, fd)
    BY <1>2 DEF AddListeningSocket, IsLowestFree
  <2>2. UNCHANGED <<handler, delivered, backlog, peer, queued, sent>>
    BY <1>2 DEF AddListeningSocket, handlerVars
  <2>3. /\ \A d \in Descs : desc'[d] = IF d = fd THEN "listener" ELSE desc[d]
        /\ \A d \in Descs : \A i \in 1 .. Len(backlog[d]) : backlog[d][i] \in Conn
        /\ "free" \notin Conn /\ "listener" \notin Conn
    BY <2>1, ServerAssumption DEF TypeInv, TypeOK
  <2>4. DescUnique' /\ QueueUnique'
    BY <2>2, <2>3 DEF KernelInv, DescUnique, QueueUnique
  <2>5. QueuesOfListeners'
    <3>1. \A i \in 1 .. Len(serverSockets') :
            \/ serverSockets'[i] = fd
            \/ /\ i \in 1 .. Len(serverSockets) /\ serverSockets[i] \in Descs
               /\ serverSockets'[i] = serverSockets[i]
      <4>1. serverSockets \in Seq(Descs)
        BY DEF TypeInv, TypeOK
      <4> QED
        BY <2>1, <4>1
    <3> QED
      BY <2>1, <2>2, <2>3, <3>1 DEF KernelInv, QueuesOfListeners
  <2>6. Pending' /\ Accepted' /\ Fresh'
    BY <2>2, <2>3 DEF KernelInv, Pending, Accepted, Fresh
  <2> QED
    BY <2>4, <2>5, <2>6 DEF KernelInv
<1>3. CASE AcceptClient
  <2>1. PICK fd \in Descs :
          /\ Accept(fd)
          /\ handler' = [handler EXCEPT ![Head(backlog[ListenSock])] = "connected"]
          /\ UNCHANGED <<serverSockets, delivered, peer, queued, sent>>
    BY <1>3, Zenon DEF AcceptClient
  <2> QED
    BY <2>1, KernelAccept
<1>4. CASE AcceptClientFails
  <2>1. PICK fd \in Descs :
          /\ Accept(fd)
          /\ \/ handler' = [handler EXCEPT ![Head(backlog[ListenSock])] = "disconnected"]
             \/ handler' = [handler EXCEPT ![Head(backlog[ListenSock])] = "connected"]
          /\ UNCHANGED <<serverSockets, delivered, peer, queued, sent>>
    BY <1>4, Zenon DEF AcceptClientFails
  <2> QED
    BY <2>1, KernelAccept
<1>5. CASE ReceiveData \/ ReceiveEnd
  <2>1. PICK fd \in Descs :
          /\ desc[fd] \in Conn
          /\ \/ UNCHANGED handler
             \/ handler' = [handler EXCEPT ![desc[fd]] = "disconnected"]
          /\ \/ UNCHANGED <<queued, delivered>>
             \/ \E n \in 1 .. RECEIVE_BUFFER_SIZE :
                  /\ queued' = [queued EXCEPT ![desc[fd]] = @ - n]
                  /\ delivered' = [delivered EXCEPT ![desc[fd]] = @ + n]
          /\ UNCHANGED <<serverSockets, desc, backlog, peer, sent>>
    BY <1>5, ReceiveStep, Zenon
  <2>2. \A c \in Conn : c # desc[fd] => queued'[c] = queued[c] /\ delivered'[c] = delivered[c]
    BY <2>1 DEF TypeInv, TypeOK
  <2> QED
    BY <2>1, <2>2, KernelReceive
<1>6. CASE CloseDisconnected
  <2>1. /\ CloseDesc(Head(disconnected)) /\ pc = "close" /\ disconnected # <<>>
        /\ UNCHANGED <<serverSockets, backlog, handler, delivered, sent>>
    BY <1>6 DEF CloseDisconnected, handlerVars
  <2> QED
    BY <2>1, HeadDisconnected, KernelClose
<1>7. CASE PeerStep
  BY <1>7, KernelPeer
<1> QED
  BY <1>1, <1>2, <1>3, <1>4, <1>5, <1>6, <1>7, StepCases

\* The tables' part of the invariant is preserved.
LEMMA TableStep ==
    ASSUME Inv, [Next]_vars
    PROVE  TableInv'
<1> USE DEF Inv
<1>1. CASE Quiet
  BY <1>1, QuietFrame, TableFrame
<1>2. CASE AddListeningSocket
  BY <1>2, TableListen
<1>3. CASE AcceptClient
  BY <1>3, TableAccept
<1>4. CASE AcceptClientFails
  BY <1>4, TableAcceptFails
<1>5. CASE ReceiveData \/ ReceiveEnd
  <2>1. PICK fd \in Descs :
          /\ pc = "receive" /\ desc[fd] \in Conn
          /\ \/ UNCHANGED handler /\ NextClient(fd, disconnected)
             \/ /\ handler' = [handler EXCEPT ![desc[fd]] = "disconnected"]
                /\ NextClient(fd, Append(disconnected, fd))
          /\ UNCHANGED <<selector, terminated, desc, clients>>
    BY <1>5, ReceiveStep, Zenon
  <2>2. pc' # "setup"
    BY <2>1, AfterEntry
  <2> QED
    BY <2>1, <2>2, TableDisconnect
<1>6. CASE CloseDisconnected
  BY <1>6, TableClose
<1>7. CASE PeerStep
  <2>1. UNCHANGED <<selector, desc, clients, handler, pc>>
    BY <1>7 DEF PeerStep, PeerConnect, PeerSend, PeerClose, PeerReset, PeerAbort,
                serverVars, handlerVars
  <2> QED
    BY <2>1, TableFrame
<1> QED
  BY <1>1, <1>2, <1>3, <1>4, <1>5, <1>6, <1>7, StepCases

\* The accounting of what was sent is preserved.
LEMMA DataStep ==
    ASSUME Inv, [Next]_vars
    PROVE  DataReachesItsHandler'
<1> USE DEF Inv, DataReachesItsHandler
<1>0. /\ delivered \in [Conn -> Nat] /\ queued \in [Conn -> Nat] /\ sent \in [Conn -> Nat]
      /\ peer \in [Conn -> {"none", "open", "closed", "reset", "gone"}]
  BY DEF TypeInv, TypeOK
<1>1. CASE UNCHANGED <<delivered, peer, queued, sent>>
  BY <1>1
<1>2. CASE ReceiveData \/ ReceiveEnd
  <2>1. PICK fd \in Descs :
          /\ desc[fd] \in Conn
          /\ \/ UNCHANGED <<queued, delivered>>
             \/ \E n \in 1 .. RECEIVE_BUFFER_SIZE :
                  /\ n <= queued[desc[fd]]
                  /\ queued' = [queued EXCEPT ![desc[fd]] = @ - n]
                  /\ delivered' = [delivered EXCEPT ![desc[fd]] = @ + n]
          /\ UNCHANGED <<peer, sent>>
    BY <1>2, ReceiveStep, Zenon
  <2>2. CASE UNCHANGED <<queued, delivered>>
    BY <2>1, <2>2
  <2>3. ASSUME NEW n \in 1 .. RECEIVE_BUFFER_SIZE, n <= queued[desc[fd]],
               queued' = [queued EXCEPT ![desc[fd]] = @ - n],
               delivered' = [delivered EXCEPT ![desc[fd]] = @ + n]
        PROVE  DataReachesItsHandler'
    BY <1>0, <2>1, <2>3, ServerAssumption
  <2> QED
    BY <2>1, <2>2, <2>3
<1>3. CASE CloseDisconnected
  <2>1. CloseDesc(Head(disconnected)) /\ UNCHANGED <<delivered, sent>>
    BY <1>3 DEF CloseDisconnected, handlerVars
  <2> QED
    BY <1>0, <2>1 DEF CloseDesc
<1>4. CASE PeerStep
  <2>1. PICK c \in Conn :
          PeerConnect(c) \/ PeerSend(c) \/ PeerClose(c) \/ PeerReset(c) \/ PeerAbort(c)
    BY <1>4 DEF PeerStep
  <2>2. CASE PeerConnect(c)
    <3>1. delivered[c] = 0 /\ queued[c] = 0 /\ sent[c] = 0
      BY <2>2 DEF PeerConnect, KernelInv, Fresh
    <3> QED
      BY <1>0, <2>2, <3>1 DEF PeerConnect, handlerVars
  <2>3. CASE PeerSend(c)
    BY <1>0, <2>3 DEF PeerSend, handlerVars
  <2>4. CASE PeerClose(c)
    BY <1>0, <2>4 DEF PeerClose, handlerVars
  <2>5. CASE PeerReset(c)
    BY <1>0, <2>5 DEF PeerReset, handlerVars
  <2>6. CASE PeerAbort(c)
    BY <1>0, <2>6 DEF PeerAbort, handlerVars
  <2> QED
    BY <2>1, <2>2, <2>3, <2>4, <2>5, <2>6
<1>5. CASE Quiet
  BY <1>1, <1>5, QuietFrame
<1>6. CASE AddListeningSocket
  BY <1>1, <1>6 DEF AddListeningSocket, handlerVars
<1>7. CASE AcceptClient
  BY <1>1, <1>7 DEF AcceptClient
<1>8. CASE AcceptClientFails
  BY <1>1, <1>8 DEF AcceptClientFails
<1> QED
  BY <1>2, <1>3, <1>4, <1>5, <1>6, <1>7, <1>8, StepCases

\* The loop's part: steps that leave kernel, tables and handlers alone.
LEMMA LoopQuiet ==
    ASSUME Inv, Quiet
    PROVE  LoopInv'
<1> USE DEF Inv, LoopInv
<1>0. UNCHANGED <<handler, desc, peer, queued>>
  BY QuietFrame
<1>1. CASE Run
  <2>1. \A d \in Descs : desc'[d] \notin Conn
    BY <1>0, <1>1 DEF Run, TableInv, NoneBeforeRun
  <2>2. disconnected' = <<>> /\ pc' \notin {"accept", "receive"}
    BY <1>1 DEF Run, TypeInv, ControlInv
  <2> QED
    BY <2>1, <2>2 DEF ClosingIsDisconnected, ClosingUnique, DisconnectedWillClose, ReadableIsTrue
<1>2. CASE TestTerminated
  <2>1. disconnected = <<>> /\ disconnected' = <<>>
    BY <1>2 DEF TestTerminated, TypeInv, ControlInv
  <2>2. pc = "test" /\ pc' \in {"stopped", "select"} /\ (terminated => pc' = "stopped")
        /\ UNCHANGED terminated
    BY <1>2, Zenon DEF TestTerminated
  <2> QED
    BY <1>0, <2>1, <2>2 DEF ClosingIsDisconnected, ClosingUnique, DisconnectedWillClose,
                            ReadableIsTrue
<1>3. CASE Terminate
  <2>1. UNCHANGED <<pc, at, disconnected, readable>> /\ terminated'
    BY <1>3, Zenon DEF Terminate
  <2> QED
    BY <1>0, <2>1 DEF ClosingIsDisconnected, ClosingUnique, DisconnectedWillClose,
                      ReadableIsTrue, HasInput
<1>4. CASE Select
  <2>1. disconnected = <<>> /\ disconnected' = <<>> /\ pc = "select"
    BY <1>4 DEF Select, TypeInv, ControlInv
  <2>2. /\ pc' \in {"failed", "test", "accept"} /\ UNCHANGED terminated
        /\ readable' \subseteq Ready
    BY <1>4 DEF Select, SelectedForRead
  <2>3. ReadableIsTrue'
    <3>1. \A fd \in readable' : /\ desc[fd] \in Conn \cup {"listener"}
                                /\ desc[fd] \in Conn => HasInput(desc[fd])
      BY <2>2, ServerAssumption DEF Ready
    <3> QED
      BY <1>0, <2>2, <3>1 DEF ReadableIsTrue, HasInput
  <2> QED
    BY <1>0, <2>1, <2>2, <2>3 DEF ClosingIsDisconnected, ClosingUnique, DisconnectedWillClose
<1>5. CASE AcceptNothing \/ AcceptFails \/ AcceptClientsDone
  <2>1. disconnected = <<>> /\ disconnected' = <<>> /\ pc = "accept"
    BY <1>5 DEF AcceptNothing, AcceptFails, AcceptClientsDone, AtListener, TypeInv, ControlInv
  <2>2. pc' \in {"accept", "failed", "receive"} /\ UNCHANGED <<terminated, readable>>
    BY <1>5 DEF AcceptNothing, AcceptFails, AcceptClientsDone, AtListener
  <2>3. ReadableIsTrue'
    BY <1>0, <2>1, <2>2 DEF ReadableIsTrue, HasInput
  <2> QED
    BY <1>0, <2>1, <2>2, <2>3 DEF ClosingIsDisconnected, ClosingUnique, DisconnectedWillClose
<1>6. CASE SkipClient
  <2>1. PICK fd \in DOMAIN clients :
          /\ pc = "receive" /\ fd > at
          /\ NextClient(fd, disconnected)
          /\ UNCHANGED terminated
    BY <1>6 DEF SkipClient, AtClient
  <2>2. fd \in Int /\ at \in Int /\ disconnected \in Seq(Descs) /\ readable \subseteq Descs
    BY DescsAreInts DEF TypeInv, TypeOK
  <2>3. CASE terminated' /\ pc' = "test" /\ disconnected' = <<>>
    BY <1>0, <2>3 DEF ClosingIsDisconnected, ClosingUnique, DisconnectedWillClose,
                      ReadableIsTrue
  <2>4. CASE /\ pc' = "receive" /\ at' = fd /\ disconnected' = disconnected
             /\ readable' = readable
    <3>1. ClosingIsDisconnected'
      <4>1. \A i \in 1 .. Len(disconnected) : disconnected[i] \in Int
        <5>1. \A i \in 1 .. Len(disconnected) : disconnected[i] \in Descs
          BY <2>2
        <5> QED
          BY <5>1, DescsAreInts
      <4> QED
        BY <1>0, <2>1, <2>2, <2>4, <4>1 DEF ClosingIsDisconnected
    <3>2. ClosingUnique' /\ DisconnectedWillClose'
      BY <1>0, <2>1, <2>4 DEF ClosingUnique, DisconnectedWillClose
    <3>3. ReadableIsTrue'
      BY <1>0, <2>1, <2>2, <2>4, DescsAreInts DEF ReadableIsTrue, HasInput
    <3> QED
      BY <3>1, <3>2, <3>3
  <2> QED
    BY <2>1, <2>3, <2>4, AfterEntry
<1>7. CASE ReceiveDone
  <2>1. pc = "receive" /\ pc' = "close" /\ UNCHANGED <<terminated, disconnected>>
    BY <1>7 DEF ReceiveDone
  <2> QED
    BY <1>0, <2>1 DEF ClosingIsDisconnected, ClosingUnique, DisconnectedWillClose,
                      ReadableIsTrue
<1>8. CASE CloseDone
  <2>1. /\ pc = "close" /\ pc' = "test" /\ disconnected = <<>> /\ disconnected' = <<>>
        /\ UNCHANGED terminated
    BY <1>8 DEF CloseDone, ReturnFromIterate
  <2> QED
    BY <1>0, <2>1 DEF ClosingIsDisconnected, ClosingUnique, DisconnectedWillClose,
                      ReadableIsTrue
<1>9. CASE UNCHANGED vars
  <2>1. UNCHANGED <<pc, at, disconnected, readable, terminated>>
    BY <1>9 DEF vars, serverVars
  <2> QED
    BY <1>0, <2>1 DEF ClosingIsDisconnected, ClosingUnique, DisconnectedWillClose,
                      ReadableIsTrue, HasInput
<1> QED
  BY <1>1, <1>2, <1>3, <1>4, <1>5, <1>6, <1>7, <1>8, <1>9 DEF Quiet

\* An accepted client: no select result speaks of its descriptor.
LEMMA LoopAccept ==
    ASSUME Inv, AcceptClient
    PROVE  LoopInv'
<1> USE DEF Inv, LoopInv
<1>1. PICK fd \in Descs :
        /\ Accept(fd)
        /\ handler' = [handler EXCEPT ![Head(backlog[ListenSock])] = "connected"]
        /\ UNCHANGED <<pc, terminated, readable, disconnected, peer, queued>>
  BY Zenon DEF AcceptClient
<1> DEFINE c == Head(backlog[ListenSock])
<1>2. ListenSock \in Descs
  BY <1>1, ListenSockType DEF Accept
<1>3. /\ c \in Conn /\ pc = "accept" /\ pc' = "accept"
      /\ desc[fd] = "free" /\ "free" \notin Conn
      /\ disconnected = <<>> /\ disconnected' = <<>>
  BY <1>1, <1>2, ServerAssumption
     DEF Accept, AtListener, IsLowestFree, TypeInv, TypeOK, ControlInv
<1>4. /\ \A d \in Descs : desc'[d] = IF d = fd THEN c ELSE desc[d]
      /\ \A x \in Conn : handler'[x] = IF x = c THEN "connected" ELSE handler[x]
      /\ readable \subseteq Descs
  BY <1>1, <1>3 DEF Accept, TypeInv, TypeOK
<1> HIDE DEF c
<1>5. ClosingIsDisconnected' /\ ClosingUnique'
  BY <1>3 DEF ClosingIsDisconnected, ClosingUnique
<1>6. DisconnectedWillClose'
  BY <1>1, <1>3, <1>4 DEF DisconnectedWillClose
<1>7. ReadableIsTrue'
  <2>1. fd \notin readable
    BY <1>3 DEF ReadableIsTrue
  <2> QED
    BY <1>1, <1>3, <1>4, <2>1 DEF ReadableIsTrue, HasInput
<1> QED
  BY <1>5, <1>6, <1>7

\* A receive step: what it takes from one connection leaves the others' input.
LEMMA LoopReceive ==
    ASSUME Inv, ReceiveData \/ ReceiveEnd
    PROVE  LoopInv'
<1> USE DEF Inv, LoopInv
<1>1. PICK fd \in Descs :
        /\ pc = "receive" /\ fd > at
        /\ desc[fd] \in Conn /\ handler[desc[fd]] = "connected"
        /\ \/ UNCHANGED handler /\ NextClient(fd, disconnected)
           \/ /\ handler' = [handler EXCEPT ![desc[fd]] = "disconnected"]
              /\ NextClient(fd, Append(disconnected, fd))
        /\ \/ UNCHANGED <<queued, delivered>>
           \/ \E n \in 1 .. RECEIVE_BUFFER_SIZE :
                /\ n <= queued[desc[fd]]
                /\ queued' = [queued EXCEPT ![desc[fd]] = @ - n]
                /\ delivered' = [delivered EXCEPT ![desc[fd]] = @ + n]
        /\ UNCHANGED <<terminated, desc, peer>>
  BY ReceiveStep, Zenon
<1>2. CASE terminated' /\ pc' = "test" /\ disconnected' = <<>>
  BY <1>2 DEF ClosingIsDisconnected, ClosingUnique, DisconnectedWillClose, ReadableIsTrue
<1>3. ASSUME pc' = "receive", at' = fd, readable' = readable,
             \/ UNCHANGED handler /\ disconnected' = disconnected
             \/ /\ handler' = [handler EXCEPT ![desc[fd]] = "disconnected"]
                /\ disconnected' = Append(disconnected, fd)
      PROVE  LoopInv'
  <2>1. /\ \A d \in Descs : d # fd /\ desc[d] \in Conn => desc[d] # desc[fd]
        /\ \A x \in Conn : x # desc[fd] => queued'[x] = queued[x] /\ handler'[x] = handler[x]
        /\ readable \subseteq Descs /\ fd \in Int /\ at \in Int
    <3>1. \A d \in Descs : d # fd /\ desc[d] \in Conn => desc[d] # desc[fd]
      BY <1>1 DEF KernelInv, DescUnique
    <3>2. \A x \in Conn : x # desc[fd] => queued'[x] = queued[x] /\ handler'[x] = handler[x]
      BY <1>1, <1>3 DEF TypeInv, TypeOK
    <3> QED
      BY <3>1, <3>2, DescsAreInts DEF TypeInv, TypeOK
  <2>2. /\ Len(disconnected) \in Nat
        /\ \A i \in 1 .. Len(disconnected) : disconnected[i] \in Descs /\ disconnected[i] \in Int
    <3>1. disconnected \in Seq(Descs)
      BY DEF TypeInv, TypeOK
    <3>2. Len(disconnected) \in Nat /\ \A i \in 1 .. Len(disconnected) : disconnected[i] \in Descs
      BY <3>1
    <3> QED
      BY <3>2, DescsAreInts
  <2>3. ReadableIsTrue'
    BY <1>1, <1>3, <2>1, DescsAreInts DEF ReadableIsTrue, HasInput
  <2>4. \A i \in 1 .. Len(disconnected) :
          /\ disconnected[i] <= at /\ disconnected[i] < fd
          /\ desc[disconnected[i]] \in Conn
          /\ handler[desc[disconnected[i]]] = "disconnected"
    BY <1>1, <2>1, <2>2 DEF ClosingIsDisconnected
  <2>5. CASE UNCHANGED handler /\ disconnected' = disconnected
    <3>1. ClosingIsDisconnected'
      BY <1>1, <1>3, <2>1, <2>2, <2>4, <2>5 DEF ClosingIsDisconnected
    <3>2. ClosingUnique' /\ DisconnectedWillClose'
      BY <1>1, <1>3, <2>5 DEF ClosingUnique, DisconnectedWillClose
    <3> QED
      BY <2>3, <3>1, <3>2
  <2>6. CASE /\ handler' = [handler EXCEPT ![desc[fd]] = "disconnected"]
             /\ disconnected' = Append(disconnected, fd)
    <3>1. /\ Len(disconnected') = Len(disconnected) + 1
          /\ \A i \in 1 .. Len(disconnected) : disconnected'[i] = disconnected[i]
          /\ disconnected'[Len(disconnected) + 1] = fd
      <4>1. disconnected \in Seq(Descs)
        BY DEF TypeInv, TypeOK
      <4> QED
        BY <2>6, <4>1
    <3>2. \A i \in 1 .. Len(disconnected') :
            \/ i \in 1 .. Len(disconnected) /\ disconnected'[i] = disconnected[i]
            \/ i = Len(disconnected) + 1 /\ disconnected'[i] = fd
      BY <2>2, <3>1
    <3>3. handler'[desc[fd]] = "disconnected"
      BY <1>1, <2>6 DEF TypeInv, TypeOK
    <3>4. ClosingIsDisconnected'
      BY <1>1, <1>3, <2>1, <2>2, <2>4, <3>2, <3>3 DEF ClosingIsDisconnected
    <3>5. ClosingUnique'
      BY <1>1, <1>3, <2>1, <2>2, <2>4, <3>2 DEF ClosingUnique
    <3>6. DisconnectedWillClose'
      <4> SUFFICES ASSUME NEW d \in Descs, desc[d] \in Conn, handler'[desc[d]] = "disconnected"
                   PROVE  \E i \in 1 .. Len(disconnected') : disconnected'[i] = d
        BY <1>1 DEF DisconnectedWillClose
      <4>1. CASE d = fd
        BY <2>2, <3>1, <4>1
      <4>2. CASE d # fd
        <5>1. PICK i \in 1 .. Len(disconnected) : disconnected[i] = d
          BY <1>1, <2>1, <4>2 DEF DisconnectedWillClose
        <5> QED
          BY <2>2, <3>1, <5>1
      <4> QED
        BY <4>1, <4>2
    <3> QED
      BY <2>3, <3>4, <3>5, <3>6
  <2> QED
    BY <1>3, <2>5, <2>6
<1> QED
  BY <1>1, <1>2, <1>3, AfterEntry

\* Closing a disconnected socket.
LEMMA LoopClose ==
    ASSUME Inv, CloseDisconnected
    PROVE  LoopInv'
<1> USE DEF Inv, LoopInv
<1>1. CASE pc' = "failed"
  BY <1>1 DEF ClosingIsDisconnected, ClosingUnique, DisconnectedWillClose, ReadableIsTrue
<1>2. CASE pc' # "failed"
  <2> DEFINE fd == Head(disconnected)
  <2>1. /\ CloseDesc(fd)
        /\ pc = "close" /\ pc' = "close" /\ disconnected # <<>>
        /\ disconnected' = Tail(disconnected)
        /\ UNCHANGED <<handler, terminated>>
    BY <1>2 DEF CloseDisconnected, handlerVars
  <2>2. /\ fd \in Descs /\ fd = disconnected[1] /\ 1 \in 1 .. Len(disconnected)
        /\ desc[fd] \in Conn
    BY <2>1, HeadDisconnected
  <2>3. /\ Len(disconnected) \in Nat
        /\ Len(disconnected') = Len(disconnected) - 1
        /\ \A i \in 1 .. Len(disconnected') :
             i + 1 \in 1 .. Len(disconnected) /\ disconnected'[i] = disconnected[i + 1]
        /\ \A i \in 1 .. Len(disconnected) : disconnected[i] \in Descs
    <3>1. disconnected \in Seq(Descs)
      BY DEF TypeInv, TypeOK
    <3> QED
      BY <2>1, <3>1
  <2> HIDE DEF fd
  <2>4. \A d \in Descs : desc'[d] = IF d = fd THEN "free" ELSE desc[d]
    BY <2>1 DEF CloseDesc, TypeInv, TypeOK
  <2>5. \A i \in 1 .. Len(disconnected') : disconnected'[i] # fd
    BY <2>1, <2>2, <2>3 DEF ClosingUnique
  <2>6. ClosingIsDisconnected'
    BY <2>1, <2>3, <2>4, <2>5 DEF ClosingIsDisconnected
  <2>7. ClosingUnique'
    BY <2>1, <2>3 DEF ClosingUnique
  <2>8. DisconnectedWillClose'
    <3> SUFFICES ASSUME NEW d \in Descs, desc'[d] \in Conn, handler'[desc'[d]] = "disconnected"
                 PROVE  \E i \in 1 .. Len(disconnected') : disconnected'[i] = d
      BY DEF DisconnectedWillClose
    <3>1. d # fd /\ desc'[d] = desc[d]
      BY <2>4, ServerAssumption
    <3>2. PICK i \in 1 .. Len(disconnected) : disconnected[i] = d
      BY <2>1, <3>1 DEF DisconnectedWillClose
    <3>3. i # 1 /\ i - 1 \in 1 .. Len(disconnected')
      BY <2>2, <2>3, <3>1, <3>2
    <3>4. disconnected'[i - 1] = disconnected[i - 1 + 1] /\ i - 1 + 1 = i
      BY <2>3, <3>3
    <3> QED
      BY <3>2, <3>3, <3>4
  <2>9. ReadableIsTrue'
    BY <2>1 DEF ReadableIsTrue
  <2> QED
    BY <2>6, <2>7, <2>8, <2>9
<1> QED
  BY <1>1, <1>2

\* A peer never takes away what makes recv() return at once.
LEMMA LoopPeer ==
    ASSUME Inv, PeerStep
    PROVE  LoopInv'
<1> USE DEF Inv, LoopInv
<1>1. PICK c \in Conn :
        PeerConnect(c) \/ PeerSend(c) \/ PeerClose(c) \/ PeerReset(c) \/ PeerAbort(c)
  BY DEF PeerStep
<1>2. UNCHANGED <<pc, terminated, at, readable, disconnected, handler, desc>>
  BY <1>1 DEF PeerConnect, PeerSend, PeerClose, PeerReset, PeerAbort, serverVars, handlerVars
<1>3. /\ peer \in [Conn -> {"none", "open", "closed", "reset", "gone"}]
      /\ queued \in [Conn -> Nat] /\ readable \subseteq Descs
      /\ backlog \in [Descs -> Seq(Conn)]
  BY DEF TypeInv, TypeOK
<1>4. ASSUME NEW d \in Descs, desc[d] \in Conn, HasInput(desc[d])
      PROVE  queued'[desc[d]] > 0 \/ peer'[desc[d]] \in {"closed", "reset"}
  <2>1. peer[desc[d]] \notin {"none", "gone"}
    BY <1>4 DEF KernelInv, Accepted
  <2>2. CASE PeerConnect(c) \/ PeerSend(c) \/ PeerClose(c)
    BY <1>3, <1>4, <2>1, <2>2, SMTT(30) DEF PeerConnect, PeerSend, PeerClose, HasInput
  <2>3. CASE PeerReset(c)
    BY <1>3, <1>4, <2>1, <2>3 DEF PeerReset, HasInput
  <2>4. CASE PeerAbort(c)
    <3>1. PICK L \in Descs : backlog[L] # <<>> /\ Head(backlog[L]) = c
      BY <2>4 DEF PeerAbort
    <3>2. c = backlog[L][1] /\ 1 \in 1 .. Len(backlog[L])
      BY <1>3, <3>1
    <3>3. desc[d] # c
      BY <3>2 DEF KernelInv, Pending
    <3> QED
      BY <1>3, <1>4, <2>4, <3>3 DEF PeerAbort, HasInput
  <2> QED
    BY <1>1, <2>2, <2>3, <2>4
<1>5. ReadableIsTrue'
  BY <1>2, <1>3, <1>4 DEF ReadableIsTrue, HasInput
<1> QED
  BY <1>2, <1>5 DEF ClosingIsDisconnected, ClosingUnique, DisconnectedWillClose

\* The loop's part of the invariant is preserved.
LEMMA LoopStep ==
    ASSUME Inv, [Next]_vars
    PROVE  LoopInv'
<1>1. CASE Quiet
  BY <1>1, LoopQuiet
<1>2. CASE AddListeningSocket
  <2>1. pc' = "setup" /\ disconnected' = <<>>
    BY <1>2 DEF AddListeningSocket, Inv, TypeInv, ControlInv
  <2>2. \A d \in Descs : desc'[d] \notin Conn
    BY <2>1, TableStep DEF TableInv, NoneBeforeRun
  <2> QED
    BY <2>1, <2>2 DEF LoopInv, ClosingIsDisconnected, ClosingUnique, DisconnectedWillClose,
                      ReadableIsTrue
<1>3. CASE AcceptClient
  BY <1>3, LoopAccept
<1>4. CASE AcceptClientFails
  <2>1. pc' = "failed"
    BY <1>4 DEF AcceptClientFails
  <2> QED
    BY <2>1 DEF LoopInv, ClosingIsDisconnected, ClosingUnique, DisconnectedWillClose,
                ReadableIsTrue
<1>5. CASE ReceiveData \/ ReceiveEnd
  BY <1>5, LoopReceive
<1>6. CASE CloseDisconnected
  BY <1>6, LoopClose
<1>7. CASE PeerStep
  BY <1>7, LoopPeer
<1> QED
  BY <1>1, <1>2, <1>3, <1>4, <1>5, <1>6, <1>7, StepCases

-----------------------------------------------------------------------------
(* The theorems.                                                             *)

\* The inductive invariant holds initially.
LEMMA InvInit == Init => Inv
<1> SUFFICES ASSUME Init PROVE Inv
  OBVIOUS
<1>1. TypeInv /\ KernelInv
  BY TypeInit, KernelInit
<1>2. TableInv
  BY ServerAssumption DEF Init, SelectorInit, TableInv, WatchedAreOpen, NoneBeforeRun,
                          OpenIsFiled, StaleIsFree, ConnectedIsOpen
<1>3. LoopInv
  BY ServerAssumption DEF Init, LoopInv, ClosingIsDisconnected, ClosingUnique,
                          DisconnectedWillClose, ReadableIsTrue
<1>4. DataReachesItsHandler
  BY DEF Init, DataReachesItsHandler
<1> QED
  BY <1>1, <1>2, <1>3, <1>4 DEF Inv

\* Every step preserves it.
LEMMA InvStep ==
    ASSUME Inv, [Next]_vars
    PROVE  Inv'
BY TypeStep, KernelStep, TableStep, LoopStep, DataStep DEF Inv

\* The inductive invariant of the event loop.
LEMMA InvCorrect == Spec => []Inv
BY InvInit, InvStep, PTL DEF Spec

\* At every select the kernel, the selector, clients_ and the handlers agree on
\* which connections are open.
THEOREM TablesCorrect == Spec => []TablesAgree
<1>1. Inv => TablesAgree
  <2> SUFFICES ASSUME Inv, pc = "select" PROVE TablesAgree
    BY DEF TablesAgree
  <2>1. disconnected = <<>>
    BY DEF Inv, TypeInv, ControlInv
  <2>2. ASSUME NEW fd \in Descs, desc[fd] \in Conn
        PROVE  /\ fd \in selector.readSet /\ fd \in DOMAIN clients /\ clients[fd] = desc[fd]
               /\ handler[desc[fd]] = "connected"
    <3>1. handler[desc[fd]] \in {"none", "connected", "disconnected"}
      BY <2>2 DEF Inv, TypeInv, TypeOK
    <3>2. handler[desc[fd]] # "none"
      BY <2>2 DEF Inv, KernelInv, Accepted
    <3>3. handler[desc[fd]] # "disconnected"
      BY <2>1, <2>2 DEF Inv, LoopInv, DisconnectedWillClose
    <3> QED
      BY <2>2, <3>1, <3>2, <3>3 DEF Inv, TableInv, OpenIsFiled
  <2>3. \A fd \in selector.readSet : desc[fd] \notin {"free", "inherited"}
    BY ServerAssumption DEF Inv, TableInv, WatchedAreOpen
  <2> QED
    BY <2>2, <2>3 DEF TablesAgree
<1> QED
  BY <1>1, InvCorrect, PTL

\* A Client that survives the close of its descriptor gets no more callbacks.
THEOREM StaleCorrect == Spec => []StaleClientIsSilent
<1>1. Inv => StaleClientIsSilent
  BY ServerAssumption
     DEF Inv, TableInv, StaleIsFree, WatchedAreOpen, StaleClientIsSilent
<1> QED
  BY <1>1, InvCorrect, PTL

\* No recv() of the loop blocks or reads for the wrong Client.
THEOREM ReceiveCorrect == Spec => []ReceiveNeverBlocks
<1>1. Inv => ReceiveNeverBlocks
  BY AtReadable DEF ReceiveNeverBlocks
<1> QED
  BY <1>1, InvCorrect, PTL

\* What handlers were given and what waits make up what was sent.
THEOREM DataCorrect == Spec => []DataReachesItsHandler
<1>1. Inv => DataReachesItsHandler
  BY DEF Inv
<1> QED
  BY <1>1, InvCorrect, PTL

\* No Client is deleted while its handler believes to be connected.
THEOREM HandlersCorrect == Spec => []NoHandlerDropped
<1>1. Inv => NoHandlerDropped
  <2> SUFFICES ASSUME Inv, pc # "failed", NEW c \in Conn, handler[c] = "connected"
               PROVE  c \in LiveClients
    BY DEF NoHandlerDropped
  <2>1. PICK d \in Descs : desc[d] = c
    BY DEF Inv, TableInv, ConnectedIsOpen
  <2>2. d \in DOMAIN clients /\ clients[d] = c
    BY <2>1 DEF Inv, TableInv, OpenIsFiled
  <2> QED
    BY <2>2 DEF LiveClients
<1> QED
  BY <1>1, InvCorrect, PTL

\* clients_ keeps every Client with a connected handler, and those it keeps
\* besides, because Erase comes after Close, are silent.
THEOREM ClientsCorrect == Spec => []ClientsAreAccounted
<1>1. StaleClientIsSilent /\ NoHandlerDropped => ClientsAreAccounted
  BY DEF ClientsAreAccounted
<1> QED
  BY <1>1, StaleCorrect, HandlersCorrect, PTL

\* Without injected failures only a limit makes Run() throw.
THEOREM LimitsCorrect == Spec => []FailsOnlyAtLimits
<1>1. Init => FailsOnlyAtLimits
  BY DEF Init, FailsOnlyAtLimits
<1>2. Inv /\ FailsOnlyAtLimits /\ [Next]_vars => FailsOnlyAtLimits'
  <2> SUFFICES ASSUME Inv, FailsOnlyAtLimits, [Next]_vars, pc' = "failed", Faults = {}
               PROVE  FailsOnlyAtLimits'
    BY DEF FailsOnlyAtLimits
  <2>1. CASE pc = "failed" /\ UNCHANGED <<serverSockets, desc>>
    BY <2>1 DEF FailsOnlyAtLimits, NoFreeDesc
  <2>2. CASE PeerStep
    BY <2>1, <2>2 DEF PeerStep, PeerConnect, PeerSend, PeerClose, PeerReset, PeerAbort,
                      serverVars
  <2>3. CASE Ended \/ UNCHANGED vars
    BY <2>1, <2>3 DEF Ended, vars, serverVars, kernelVars
  <2>4. CASE Run
    BY <2>4 DEF Run, FailsOnlyAtLimits
  <2>5. CASE Select
    <3>1. {fd \in Examined(selector) : desc[fd] = "free"} = {}
      BY ServerAssumption DEF Examined, Watched, Inv, TableInv, WatchedAreOpen
    <3> QED
      BY <2>5, <3>1 DEF Select
  <2>6. CASE AcceptFails
    BY <2>6 DEF AcceptFails, FailsOnlyAtLimits, NoFreeDesc, kernelVars
  <2>7. CASE AcceptClientFails
    <3>1. PICK fd \in Descs : Accept(fd) /\ ~Inserts(fd, TRUE, FALSE)
      BY <2>7, Zenon DEF AcceptClientFails
    <3>2. fd >= FD_SETSIZE
      BY <3>1, ServerAssumption, SelectorAssumption DEF Inserts, IsDescInvalid, Descs
    <3>3. Head(backlog[ListenSock]) \in Conn
      BY <3>1, ListenSockType DEF Accept, Inv, TypeInv, TypeOK
    <3>4. desc'[fd] \in Conn
      BY <3>1, <3>3 DEF Accept, Inv, TypeInv, TypeOK
    <3> QED
      BY <3>2, <3>4 DEF FailsOnlyAtLimits
  <2>8. CASE CloseDisconnected
    BY <2>8 DEF CloseDisconnected
  <2>9. CASE SkipClient \/ ReceiveData \/ ReceiveEnd
    <3>1. PICK fd, closing : NextClient(fd, closing) /\ pc = "receive" /\ UNCHANGED terminated
      BY <2>9, Zenon DEF SkipClient, ReceiveData, ReceiveEnd, Disconnect, AtClient
    <3> QED
      BY <3>1, AfterEntry
  <2>10. CASE \/ AddListeningSocket \/ TestTerminated \/ Terminate \/ AcceptNothing
              \/ AcceptClient \/ AcceptClientsDone \/ ReceiveDone \/ CloseDone
    BY <2>10 DEF AddListeningSocket, TestTerminated, Terminate, AcceptNothing, AcceptClient,
                 AcceptClientsDone, ReceiveDone, CloseDone, ReturnFromIterate, AtListener, Accept
  <2> QED
    BY <2>2, <2>3, <2>4, <2>5, <2>6, <2>7, <2>8, <2>9, <2>10 DEF Next, ServerStep
<1> QED
  BY <1>1, <1>2, InvCorrect, PTL DEF Spec

\* The event loop implements ConnectionService: every step is a step of it or
\* leaves what the handlers see alone.
THEOREM ServiceCorrect == Spec => ImplementsService
<1>1. Init => Service!ServiceInit
  BY DEF Init, Service!ServiceInit
<1>2. Inv /\ [Next]_vars => [Service!ServiceNext]_Service!serviceVars
  <2> SUFFICES ASSUME Inv, [Next]_vars
               PROVE  Service!ServiceNext \/ UNCHANGED <<handler, sent, delivered>>
    BY DEF Service!serviceVars
  <2>0. /\ handler \in [Conn -> {"none", "connected", "disconnected"}]
        /\ delivered \in [Conn -> Nat] /\ sent \in [Conn -> Nat] /\ queued \in [Conn -> Nat]
    BY DEF Inv, TypeInv, TypeOK
  <2>1. CASE Quiet
    BY <2>1, QuietFrame DEF Inv
  <2>2. CASE AddListeningSocket \/ CloseDisconnected
    BY <2>2 DEF AddListeningSocket, CloseDisconnected, handlerVars
  <2>3. CASE PeerStep
    <3>1. PICK c \in Conn :
            PeerConnect(c) \/ PeerSend(c) \/ PeerClose(c) \/ PeerReset(c) \/ PeerAbort(c)
      BY <2>3 DEF PeerStep
    <3>2. CASE PeerSend(c)
      BY <3>2 DEF PeerSend, handlerVars, Service!ServiceNext, Service!Send
    <3>3. CASE PeerConnect(c) \/ PeerClose(c) \/ PeerReset(c) \/ PeerAbort(c)
      BY <3>3 DEF PeerConnect, PeerClose, PeerReset, PeerAbort, handlerVars
    <3> QED
      BY <3>1, <3>2, <3>3
  <2>4. CASE AcceptClient \/ AcceptClientFails
    <3>1. PICK fd \in Descs :
            /\ Accept(fd)
            /\ \/ handler' = [handler EXCEPT ![Head(backlog[ListenSock])] = "connected"]
               \/ handler' = [handler EXCEPT ![Head(backlog[ListenSock])] = "disconnected"]
            /\ UNCHANGED <<delivered, sent>>
      BY <2>4, Zenon DEF AcceptClient, AcceptClientFails
    <3>2. ListenSock \in Descs
      BY <3>1, ListenSockType DEF Accept, Inv
    <3>3. /\ Head(backlog[ListenSock]) \in Conn
          /\ Head(backlog[ListenSock]) = backlog[ListenSock][1]
          /\ 1 \in 1 .. Len(backlog[ListenSock])
      BY <3>1, <3>2 DEF Accept, Inv, TypeInv, TypeOK
    <3>4. handler[Head(backlog[ListenSock])] = "none"
      BY <3>2, <3>3 DEF Inv, KernelInv, Pending
    <3> QED
      BY <3>1, <3>3, <3>4
         DEF Service!ServiceNext, Service!Connected, Service!Refused
  <2>5. CASE ReceiveData \/ ReceiveEnd
    <3>1. PICK fd \in Descs :
            /\ desc[fd] \in Conn /\ handler[desc[fd]] = "connected"
            /\ \/ UNCHANGED handler
               \/ handler' = [handler EXCEPT ![desc[fd]] = "disconnected"]
            /\ \/ UNCHANGED <<queued, delivered>>
               \/ \E n \in 1 .. RECEIVE_BUFFER_SIZE :
                    /\ n <= queued[desc[fd]]
                    /\ queued' = [queued EXCEPT ![desc[fd]] = @ - n]
                    /\ delivered' = [delivered EXCEPT ![desc[fd]] = @ + n]
            /\ UNCHANGED sent
      BY <2>5, ReceiveStep, Zenon
    <3> DEFINE c == desc[fd]
    <3>2. CASE UNCHANGED <<queued, delivered>>
      BY <3>1, <3>2 DEF Service!ServiceNext, Service!Disconnected
    <3>3. ASSUME NEW n \in 1 .. RECEIVE_BUFFER_SIZE, n <= queued[c],
                 delivered' = [delivered EXCEPT ![c] = @ + n]
          PROVE  Service!ServiceNext
      <4>1. delivered[c] + queued[c] <= sent[c]
        BY <3>1 DEF Inv, DataReachesItsHandler
      <4>2. n \in 1 .. sent[c] /\ delivered[c] + n <= sent[c]
        <5>1. delivered[c] \in Nat /\ queued[c] \in Nat /\ sent[c] \in Nat /\ n \in Nat /\ n >= 1
          BY <2>0, <3>1, <3>3, ServerAssumption
        <5> QED
          BY <3>3, <4>1, <5>1
      <4>3. Service!DataReceived(c, n)
        BY <3>1, <3>3, <4>2 DEF Service!DataReceived
      <4> QED
        BY <3>1, <4>2, <4>3 DEF Service!ServiceNext
    <3> QED
      BY <3>1, <3>2, <3>3
  <2> QED
    BY <2>1, <2>2, <2>3, <2>4, <2>5, StepCases
<1> QED
  BY <1>1, <1>2, InvCorrect, PTL DEF Spec, ImplementsService, Service!ServiceSpec

=============================================================================
