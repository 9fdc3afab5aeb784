---------------------------- MODULE SocketServer ----------------------------
(***************************************************************************)
(* XTL::SocketServer (linux/utils/SocketServer.cpp): a single thread that   *)
(* selects on its listening sockets and its clients, accepts, receives,     *)
(* calls the ClientHandler callbacks and closes what was disconnected.      *)
(* Peers (which connect, send, close, reset or abort) and the signal that   *)
(* calls Terminate() run at any moment, between any two steps of the loop.  *)
(*                                                                         *)
(* The server thread is cut into one step per select, per listening socket, *)
(* per client and per closed socket; pc says which loop it is in.          *)
(*                                                                         *)
(* A Client object is named by the connection it was created for, which is *)
(* what lets the model tell a Client from the descriptor it is filed under: *)
(* the kernel hands a closed descriptor out again.                          *)
(***************************************************************************)
EXTENDS SocketSelector, Sequences, FiniteSets

CONSTANTS
    Conn,                   \* the connections peers open, each at most once
    RLIMIT_NOFILE,          \* descriptors of the process: 0 .. RLIMIT_NOFILE-1
    Inherited,              \* those in use before the server is set up
    MaxListeners,           \* bound: listening sockets
    ListenBacklog,          \* listenBacklog, the length of a listen queue
    MaxSent,                \* bound: units a peer sends on a connection
    RECEIVE_BUFFER_SIZE,    \* units one recv() can return
    Faults                  \* which failures the environment may inject

FaultKinds ==
    {"accept",              \* accept() fails (ECONNABORTED, ENFILE, EINTR...)
     "close",               \* close() fails (EINTR, EIO)
     "connectDisconnects",  \* OnClientConnected() calls Disconnect()
     "dataDisconnects",     \* OnDataReceived() calls Disconnect()
     "dataThrows"}          \* OnDataReceived() throws an XTL::UnixError

Descs == 0 .. (RLIMIT_NOFILE - 1)

NULL_DESC == -1             \* the descriptor of a null or closed Socket

ASSUME ServerAssumption ==
    /\ RLIMIT_NOFILE \in Nat
    /\ Inherited \subseteq Descs
    /\ MaxListeners \in Nat
    /\ ListenBacklog \in Nat
    /\ MaxSent \in Nat
    /\ RECEIVE_BUFFER_SIZE \in Nat \ {0}
    /\ Faults \subseteq FaultKinds
    /\ Conn \cap {"free", "inherited", "listener"} = {}

VARIABLES
    pc,             \* "setup", "test", "select", "accept", "receive", "close",
                    \* "stopped" (Run returned) or "failed" (Run threw)
    terminated,     \* terminated_
    serverSockets,  \* serverSockets_, a sequence of descriptors
    clients,        \* clients_, descriptor -> Client
    readable,       \* selectResult's read set
    at,             \* the loop position: how many listening sockets are done,
                    \* then the key of the last client visited
    disconnected,   \* Iterate's vector of sockets to close
    handler,        \* what the callbacks told each handler: "none",
                    \* "connected" or "disconnected"
    delivered,      \* units passed to each handler's OnDataReceived()
    desc,           \* kernel: what each descriptor refers to
    backlog,        \* kernel: the accept queue of each listening socket
    peer,           \* kernel: "none", "open", "closed" (EOF), "reset", "gone"
    queued,         \* kernel: units that arrived and were not yet received
    sent            \* units the peer sent in all

serverVars == <<pc, terminated, serverSockets, clients, readable, at, disconnected>>
handlerVars == <<handler, delivered>>
kernelVars == <<desc, backlog, peer, queued, sent>>
vars == <<selector, serverVars, handlerVars, kernelVars>>

-----------------------------------------------------------------------------
(* The kernel: descriptors and readiness.                                   *)

\* A new descriptor is the lowest free one.
IsLowestFree(fd) ==
    /\ desc[fd] = "free"
    /\ \A d \in Descs : d < fd => desc[d] # "free"

NoFreeDesc == \A d \in Descs : desc[d] # "free"

\* recv() on this connection returns at once: data, end of file or an error.
HasInput(c) == queued[c] > 0 \/ peer[c] \in {"closed", "reset"}

\* The descriptors ::select would report as readable now.
Ready ==
    {fd \in Descs : \/ desc[fd] = "listener" /\ backlog[fd] # <<>>
                    \/ desc[fd] \in Conn /\ HasInput(desc[fd])}

-----------------------------------------------------------------------------
(* AutoPtrMap, as far as clients_ uses it.                                  *)

\* Mutant: std::map::insert, which keeps the value already there.
MapInsert(m, k, v) == [x \in DOMAIN m \cup {k} |-> IF x \in DOMAIN m THEN m[x] ELSE v]

\* AutoPtrMap::Set: a value already filed under the key is deleted.
MapSet(m, k, v) == [x \in DOMAIN m \cup {k} |-> IF x = k THEN v ELSE m[x]]

\* AutoPtrMap::Erase: nothing happens for a key that is not there.
MapErase(m, k) == [x \in DOMAIN m \ {k} |-> m[x]]

\* The Client objects that have not been deleted.
LiveClients == {clients[fd] : fd \in DOMAIN clients}

-----------------------------------------------------------------------------
Init ==
    /\ SelectorInit
    /\ pc = "setup"
    /\ terminated = FALSE
    /\ serverSockets = <<>>
    /\ clients = [fd \in {} |-> {}]
    /\ readable = {}
    /\ at = 0
    /\ disconnected = <<>>
    /\ handler = [c \in Conn |-> "none"]
    /\ delivered = [c \in Conn |-> 0]
    /\ desc = [d \in Descs |-> IF d \in Inherited THEN "inherited" ELSE "free"]
    /\ backlog = [d \in Descs |-> <<>>]
    /\ peer = [c \in Conn |-> "none"]
    /\ queued = [c \in Conn |-> 0]
    /\ sent = [c \in Conn |-> 0]

\* UnixSocketServer::Listen and TcpSocketServer::Listen create the socket and
\* end in AddListeningSocket, which ignores the result of Insert: a listening
\* socket beyond FD_SETSIZE is kept and never selected.
AddListeningSocket ==
    /\ pc = "setup"
    /\ Len(serverSockets) < MaxListeners
    /\ \E fd \in Descs :
         /\ IsLowestFree(fd)
         /\ desc' = [desc EXCEPT ![fd] = "listener"]
         /\ serverSockets' = Append(serverSockets, fd)
         /\ SelectorInsert(fd, TRUE, FALSE)
    /\ UNCHANGED <<pc, terminated, clients, readable, at, disconnected,
                   handlerVars, backlog, peer, queued, sent>>

\* The head of Run: an exception when there is no listening socket.
Run ==
    /\ pc = "setup"
    /\ pc' = IF serverSockets = <<>> THEN "failed" ELSE "test"
    /\ UNCHANGED <<selector, terminated, serverSockets, clients, readable, at,
                   disconnected, handlerVars, kernelVars>>

\* Run's while test, and OnTerminated() after the loop.
TestTerminated ==
    /\ pc = "test"
    /\ pc' = IF terminated THEN "stopped" ELSE "select"
    /\ UNCHANGED <<selector, terminated, serverSockets, clients, readable, at,
                   disconnected, handlerVars, kernelVars>>

\* Terminate(), called by a signal handler or a callback at any moment.
Terminate ==
    /\ pc \notin {"stopped", "failed"}
    /\ ~terminated
    /\ terminated' = TRUE
    /\ UNCHANGED <<selector, pc, serverSockets, clients, readable, at,
                   disconnected, handlerVars, kernelVars>>

\* Iterate returns to Run's loop and its locals go out of scope.
ReturnFromIterate ==
    /\ pc' = "test"
    /\ readable' = {}
    /\ at' = 0
    /\ disconnected' = <<>>

\* Mutant: a select without a timeout.
SelectForEver ==
    /\ pc = "select"
    /\ SelectedForRead(selector, Ready) # {}
    /\ pc' = "accept"
    /\ readable' = SelectedForRead(selector, Ready)
    /\ UNCHANGED <<selector, terminated, serverSockets, clients, at,
                   disconnected, handlerVars, kernelVars>>

\* The select of Iterate.  A descriptor that is not open is EBADF, which is not
\* caught.  With nothing ready it times out, or a signal interrupts it: both
\* return from Iterate.
Select ==
    /\ pc = "select"
    /\ LET bad    == {fd \in Examined(selector) : desc[fd] = "free"}
           result == SelectedForRead(selector, Ready)
       IN  /\ pc' = IF bad # {} THEN "failed"
                    ELSE IF result = {} THEN "test" ELSE "accept"
           /\ readable' = result
    /\ UNCHANGED <<selector, terminated, serverSockets, clients, at,
                   disconnected, handlerVars, kernelVars>>

-----------------------------------------------------------------------------
(* AcceptClients: one step per listening socket.                            *)

ListenSock == serverSockets[at + 1]

AtListener == pc = "accept" /\ at < Len(serverSockets)

\* A listening socket that was not selected, or whose Accept returned a null
\* socket: the pending connection went away after the select (EAGAIN).
AcceptNothing ==
    /\ AtListener
    /\ ListenSock \notin readable \/ backlog[ListenSock] = <<>>
    /\ at' = at + 1
    /\ UNCHANGED <<selector, pc, terminated, serverSockets, clients, readable,
                   disconnected, handlerVars, kernelVars>>

\* Accept throws: out of descriptors, or an injected failure.
AcceptFails ==
    /\ AtListener
    /\ ListenSock \in readable
    /\ backlog[ListenSock] # <<>>
    /\ NoFreeDesc \/ "accept" \in Faults
    /\ pc' = "failed"
    /\ UNCHANGED <<selector, terminated, serverSockets, clients, readable, at,
                   disconnected, handlerVars, kernelVars>>

\* The accept itself: the oldest pending connection gets descriptor fd.
Accept(fd) ==
    /\ AtListener
    /\ ListenSock \in readable
    /\ backlog[ListenSock] # <<>>
    /\ IsLowestFree(fd)
    /\ desc' = [desc EXCEPT ![fd] = Head(backlog[ListenSock])]
    /\ backlog' = [backlog EXCEPT ![ListenSock] = Tail(@)]

\* An accepted client: handler created, OnClientConnected(), selector, map.
AcceptClient ==
    \E fd \in Descs :
      /\ Accept(fd)
      /\ Inserts(fd, TRUE, FALSE)
      /\ SelectorInsert(fd, TRUE, FALSE)
      /\ LET c == Head(backlog[ListenSock])
         IN  /\ handler' = [handler EXCEPT ![c] = "connected"]
             /\ clients' = MapSet(clients, fd, c)
      /\ at' = at + 1
      /\ UNCHANGED <<pc, terminated, serverSockets, readable, disconnected,
                     delivered, peer, queued, sent>>

\* An accepted client that ends Run: its descriptor does not fit in an fd_set
\* (runtime_error, after OnClientConnected), or OnClientConnected disconnects
\* (ClientDisconnected, which only the receive loop catches).  The Client is
\* destroyed on the way out and the descriptor stays open.
AcceptClientFails ==
    \E fd \in Descs :
      /\ Accept(fd)
      /\ LET c == Head(backlog[ListenSock])
         IN  \/ /\ "connectDisconnects" \in Faults
                /\ handler' = [handler EXCEPT ![c] = "disconnected"]
             \/ /\ ~Inserts(fd, TRUE, FALSE)
                /\ handler' = [handler EXCEPT ![c] = "connected"]
      /\ pc' = "failed"
      /\ UNCHANGED <<selector, terminated, serverSockets, clients, readable, at,
                     disconnected, delivered, peer, queued, sent>>

AcceptClientsDone ==
    /\ pc = "accept"
    /\ at = Len(serverSockets)
    /\ pc' = "receive"
    /\ at' = NULL_DESC
    /\ UNCHANGED <<selector, terminated, serverSockets, clients, readable,
                   disconnected, handlerVars, kernelVars>>

-----------------------------------------------------------------------------
(* The receive loop: one step per entry of clients_, in key order.          *)

\* The iterator stands on key fd.
AtClient(fd) ==
    /\ pc = "receive"
    /\ fd \in DOMAIN clients
    /\ fd > at
    /\ \A k \in DOMAIN clients : k > at => fd <= k

\* Mutant: the socket of the ClientDisconnected exception is not remembered.
NextClientForgets(fd, closing) ==
    IF terminated
    THEN ReturnFromIterate
    ELSE /\ at' = fd
         /\ UNCHANGED <<pc, readable, disconnected>>

\* After an entry is done: the test of terminated_, which returns at once and
\* leaves the disconnected sockets open, or on to the next entry.  "closing" is
\* the vector disconnected with what this entry added.
NextClient(fd, closing) ==
    IF terminated
    THEN ReturnFromIterate
    ELSE /\ at' = fd
         /\ disconnected' = closing
         /\ UNCHANGED <<pc, readable>>

SkipClient ==
    \E fd \in DOMAIN clients :
      /\ AtClient(fd)
      /\ fd \notin readable
      /\ NextClient(fd, disconnected)
      /\ UNCHANGED <<selector, terminated, serverSockets, clients,
                     handlerVars, kernelVars>>

\* Mutant: Disconnect without the OnClientDisconnected callback.
DisconnectSilently(fd) ==
    /\ NextClient(fd, Append(disconnected, fd))
    /\ UNCHANGED handler

\* Client::Disconnect for the Client filed under fd.
Disconnect(fd) ==
    /\ handler' = [handler EXCEPT ![clients[fd]] = "disconnected"]
    /\ NextClient(fd, Append(disconnected, fd))

\* recv() returned data, handed to the handler of the Client filed under fd.
\* The handler may call Disconnect(), or throw a UnixError, which Receive turns
\* into OnReceiveError() and Disconnect().
ReceiveData ==
    \E fd \in DOMAIN clients :
      /\ AtClient(fd)
      /\ fd \in readable
      /\ desc[fd] \in Conn
      /\ \E n \in 1 .. RECEIVE_BUFFER_SIZE :
           /\ n <= queued[desc[fd]]
           /\ queued' = [queued EXCEPT ![desc[fd]] = @ - n]
           /\ delivered' = [delivered EXCEPT ![clients[fd]] = @ + n]
      /\ \/ /\ NextClient(fd, disconnected)
            /\ UNCHANGED handler
         \/ /\ Faults \cap {"dataDisconnects", "dataThrows"} # {}
            /\ Disconnect(fd)
      /\ UNCHANGED <<selector, terminated, serverSockets, clients,
                     desc, backlog, peer, sent>>

\* recv() returned 0 (end of file) or -1 (reset, or not a connected socket).
ReceiveEnd ==
    \E fd \in DOMAIN clients :
      /\ AtClient(fd)
      /\ fd \in readable
      /\ \/ desc[fd] \notin Conn
         \/ queued[desc[fd]] = 0 /\ peer[desc[fd]] \in {"closed", "reset"}
      /\ Disconnect(fd)
      /\ UNCHANGED <<selector, terminated, serverSockets, clients, delivered,
                     kernelVars>>

ReceiveDone ==
    /\ pc = "receive"
    /\ \A k \in DOMAIN clients : k <= at
    /\ pc' = "close"
    /\ UNCHANGED <<selector, terminated, serverSockets, clients, readable, at,
                   disconnected, handlerVars, kernelVars>>

-----------------------------------------------------------------------------
(* The closing loop of Iterate: one step per disconnected socket.           *)

\* close() releases the descriptor, even when it reports an error, and what
\* the peer still sends is dropped.
CloseDesc(fd) ==
    /\ desc' = [desc EXCEPT ![fd] = "free"]
    /\ peer' = [c \in Conn |-> IF c = desc[fd] THEN "gone" ELSE peer[c]]
    /\ queued' = [c \in Conn |-> IF c = desc[fd] THEN 0 ELSE queued[c]]

\* Mutant: the socket is closed and stays in the selector.
CloseWithoutDelete ==
    /\ pc = "close"
    /\ disconnected # <<>>
    /\ CloseDesc(Head(disconnected))
    /\ disconnected' = Tail(disconnected)
    /\ UNCHANGED <<selector, pc, clients, terminated, serverSockets, readable,
                   at, handlerVars, backlog, sent>>

\* Delete, Close, Erase(*itr).  Close sets the descriptor of *itr to -1, so
\* Erase looks for a key that is not there: the Client stays in clients_ until
\* its descriptor is accepted again.
CloseDisconnected ==
    /\ pc = "close"
    /\ disconnected # <<>>
    /\ LET fd == Head(disconnected)
       IN  /\ SelectorDelete(fd)
           /\ CloseDesc(fd)
    /\ \/ /\ clients' = MapErase(clients, NULL_DESC)
          /\ disconnected' = Tail(disconnected)
          /\ UNCHANGED pc
       \/ /\ "close" \in Faults
          /\ pc' = "failed"
          /\ UNCHANGED <<clients, disconnected>>
    /\ UNCHANGED <<terminated, serverSockets, readable, at, handlerVars,
                   backlog, sent>>

CloseDone ==
    /\ pc = "close"
    /\ disconnected = <<>>
    /\ ReturnFromIterate
    /\ UNCHANGED <<selector, terminated, serverSockets, clients,
                   handlerVars, kernelVars>>

-----------------------------------------------------------------------------
(* The peers.                                                               *)

InBacklog(c) == \E d \in Descs : \E i \in 1 .. Len(backlog[d]) : backlog[d][i] = c

PeerConnect(c) ==
    /\ peer[c] = "none"
    /\ \E i \in 1 .. Len(serverSockets) :
         /\ Len(backlog[serverSockets[i]]) < ListenBacklog
         /\ backlog' = [backlog EXCEPT ![serverSockets[i]] = Append(@, c)]
    /\ peer' = [peer EXCEPT ![c] = "open"]
    /\ UNCHANGED <<selector, serverVars, handlerVars, desc, queued, sent>>

PeerSend(c) ==
    /\ peer[c] = "open"
    /\ sent[c] < MaxSent
    /\ sent' = [sent EXCEPT ![c] = @ + 1]
    /\ queued' = [queued EXCEPT ![c] = @ + 1]
    /\ UNCHANGED <<selector, serverVars, handlerVars, desc, backlog, peer>>

PeerClose(c) ==
    /\ peer[c] = "open"
    /\ peer' = [peer EXCEPT ![c] = "closed"]
    /\ UNCHANGED <<selector, serverVars, handlerVars, desc, backlog, queued, sent>>

\* A reset discards what was not yet received.
PeerReset(c) ==
    /\ peer[c] \in {"open", "closed"}
    /\ peer' = [peer EXCEPT ![c] = "reset"]
    /\ queued' = [queued EXCEPT ![c] = 0]
    /\ UNCHANGED <<selector, serverVars, handlerVars, desc, backlog, sent>>

\* A connection that is aborted while it waits in the accept queue.
PeerAbort(c) ==
    /\ peer[c] \in {"open", "closed"}
    /\ \E d \in Descs :
         /\ backlog[d] # <<>>
         /\ Head(backlog[d]) = c
         /\ backlog' = [backlog EXCEPT ![d] = Tail(@)]
    /\ peer' = [peer EXCEPT ![c] = "gone"]
    /\ queued' = [queued EXCEPT ![c] = 0]
    /\ UNCHANGED <<selector, serverVars, handlerVars, desc, sent>>

-----------------------------------------------------------------------------
\* One step of the thread that is inside Run().
ServerStep ==
    \/ TestTerminated
    \/ Select
    \/ AcceptNothing \/ AcceptFails \/ AcceptClient \/ AcceptClientFails
    \/ AcceptClientsDone
    \/ SkipClient \/ ReceiveData \/ ReceiveEnd \/ ReceiveDone
    \/ CloseDisconnected \/ CloseDone

PeerStep ==
    \E c \in Conn :
        PeerConnect(c) \/ PeerSend(c) \/ PeerClose(c) \/ PeerReset(c) \/ PeerAbort(c)

\* Run() has ended: the rest is up to the program that called it.
Ended == pc \in {"stopped", "failed"} /\ UNCHANGED vars

Next == AddListeningSocket \/ Run \/ Terminate \/ ServerStep \/ PeerStep \/ Ended

Spec == Init /\ [][Next]_vars

\* The thread that called Run() is scheduled, and callbacks return.
FairSpec == Spec /\ WF_vars(ServerStep)

-----------------------------------------------------------------------------
(* Properties.                                                              *)

\* Type invariant.
TypeOK ==
    /\ SelectorTypeOK
    /\ pc \in {"setup", "test", "select", "accept", "receive", "close",
               "stopped", "failed"}
    /\ terminated \in BOOLEAN
    /\ serverSockets \in Seq(Descs)
    /\ DOMAIN clients \subseteq Descs
    /\ \A fd \in DOMAIN clients : clients[fd] \in Conn
    /\ readable \subseteq Descs
    /\ at \in Int
    /\ disconnected \in Seq(Descs)
    /\ handler \in [Conn -> {"none", "connected", "disconnected"}]
    /\ delivered \in [Conn -> Nat]
    /\ desc \in [Descs -> Conn \cup {"free", "inherited", "listener"}]
    /\ backlog \in [Descs -> Seq(Conn)]
    /\ peer \in [Conn -> {"none", "open", "closed", "reset", "gone"}]
    /\ queued \in [Conn -> Nat]
    /\ sent \in [Conn -> Nat]

\* Whenever the loop is about to select, the three places a connection is kept
\* in agree: each open connection is watched by the selector and filed in
\* clients_ under its descriptor as its own Client, whose handler is connected;
\* and the selector watches open descriptors only, so select() is never EBADF.
TablesAgree ==
    pc = "select" =>
      /\ \A fd \in Descs : desc[fd] \in Conn =>
           /\ fd \in selector.readSet
           /\ fd \in DOMAIN clients
           /\ clients[fd] = desc[fd]
           /\ handler[desc[fd]] = "connected"
      /\ \A fd \in selector.readSet : desc[fd] \notin {"free", "inherited"}

\* A Client that outlives its descriptor (Erase after Close does not find it)
\* is one whose handler was told OnClientDisconnected, and the selector does not
\* watch its descriptor: it can neither receive nor block the loop.
StaleClientIsSilent ==
    pc # "failed" =>
      \A fd \in DOMAIN clients : clients[fd] # desc[fd] =>
        /\ handler[clients[fd]] = "disconnected"
        /\ fd \notin selector.readSet

\* When Iterate calls Receive() on a client, the select result is still true of
\* that very client, in spite of the accepts in between: its own connection has
\* input, so the recv() on a blocking socket returns at once.
ReceiveNeverBlocks ==
    \A fd \in readable \cap DOMAIN clients : AtClient(fd) =>
      /\ desc[fd] = clients[fd]
      /\ HasInput(clients[fd])

\* A handler is given the data of its own connection, all of it and once: what
\* was delivered and what still waits in the kernel make up what was sent, until
\* the peer resets or the server closes.
DataReachesItsHandler ==
    \A c \in Conn :
      /\ delivered[c] + queued[c] <= sent[c]
      /\ peer[c] \in {"open", "closed"} => delivered[c] + queued[c] = sent[c]

\* No Client is deleted before its handler was told OnClientDisconnected, unless
\* Run() threw.
NoHandlerDropped ==
    pc # "failed" =>
      \A c \in Conn : handler[c] = "connected" => c \in LiveClients

\* The Clients in clients_ and the connected handlers account for each other: a
\* Client without a connection is silent, a handler with one has its Client.
ClientsAreAccounted == StaleClientIsSilent /\ NoHandlerDropped

\* Without injected failures Run() throws only at a limit: there was nothing to
\* listen on, the descriptors ran out, or one did not fit in an fd_set.
FailsOnlyAtLimits ==
    pc = "failed" /\ Faults = {} =>
      \/ serverSockets = <<>>
      \/ NoFreeDesc
      \/ \E fd \in Descs : fd >= FD_SETSIZE /\ desc[fd] \in Conn

\* The event loop implements ConnectionService: what a handler sees through its
\* callbacks is a connection that opens once, delivers what was sent, ends once
\* and is silent afterwards.
Service == INSTANCE ConnectionService WITH status <- handler

ImplementsService == Service!ServiceSpec

Ending == terminated \/ pc \in {"stopped", "failed"}

\* Every connection that reaches the server is accepted, and everything that it
\* sends is delivered, unless the server ends or the connection does.
DataIsServed ==
    \A c \in Conn : queued[c] > 0 /\ pc # "setup" ~> queued[c] = 0 \/ Ending

\* A peer's close or reset is always followed by OnClientDisconnected and by the
\* release of the descriptor.
EndIsReported ==
    \A c \in Conn :
        peer[c] \in {"closed", "reset"} /\ pc # "setup"
          ~> (peer[c] = "gone" /\ \A d \in Descs : desc[d] # c) \/ Ending

\* After Terminate() the thread leaves Run(): no recv() holds it.
TerminateStops == terminated /\ pc # "setup" ~> pc \in {"stopped", "failed"}
=============================================================================
