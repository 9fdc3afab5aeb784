----------------------------- MODULE StatsWriter -----------------------------
(***************************************************************************)
(* The statistics daemon: XC3::StatsWriterServer, its StatsMessageBuffer    *)
(* and the signal handler of ljstatsd.                                      *)
(*                                                                         *)
(* Clients send messages, a header (magic, size) and a body, over stream    *)
(* connections that the kernel cuts into arbitrary pieces.  The server puts *)
(* the messages together again and appends them to a FileTransaction that   *)
(* is named after the second it was opened in, committed when it is large   *)
(* enough and that second is over.  The signal handler runs between any two *)
(* steps of the server thread.                                              *)
(*                                                                         *)
(* The connections are those of SocketServer and the transaction is that of *)
(* FileTransaction; here each is what the server sees of it.  A unit of     *)
(* data is a cell: the magic, the size, or one cell of a body.              *)
(***************************************************************************)
EXTENDS Integers, Sequences, FiniteSets, SequencesExt

CONSTANTS
    Clients,        \* client connections
    MAGIC,          \* StatsMessageHeader::MAGIC
    LIMIT,          \* the Position() from which a file may be committed
    Sizes,          \* bound: body sizes that clients send
    MaxMessages,    \* bound: messages of a client
    MaxTime,        \* bound: seconds
    MaxFaults,      \* bound: failing calls of the transaction
    MaxSignals      \* bound: SIGTERM or SIGINT

ASSUME StatsAssumption ==
    /\ Sizes \subseteq Nat
    /\ MAGIC \in Nat /\ MAGIC # 0
    /\ {LIMIT, MaxMessages, MaxTime, MaxFaults, MaxSignals} \subseteq Nat
    /\ MaxTime >= 1

VARIABLES
    pc,             \* "idle" in select; "parse"; "open", "write", "limit",
                    \* "commit", "reset" in WriteMessage; "remove"; "stopped",
                    \* "crashed"
    serving,        \* the client whose data the server handles
    terminated,     \* SocketServer::terminated_
    outputStream,   \* outputStream_: <<>> for null, else <<transaction>>
    outputFileTime, \* outputFileTime_
    files,          \* committed files, by the second in their name
    history,        \* every message of every transaction committed, in order
    buffer,         \* messageBuffer_ of each client
    connected,      \* has the server disconnected the client?
    sent,           \* the messages each client sent
    stream,         \* the cells of them that the server has not received
    now,            \* ::time(0)
    faults, signals

ioVars == <<outputStream, outputFileTime, files, history>>
netVars == <<buffer, connected, sent, stream>>
vars == <<pc, serving, terminated, ioVars, netVars, now, faults, signals>>

-----------------------------------------------------------------------------
(* StatsMessageBuffer.                                                      *)

HEADER == 2     \* sizeof(StatsMessageHeader)

TotalSize(b) == HEADER + b[2]

IsMagicValid(b) == b[1] = MAGIC

IsComplete(b) == Len(b) >= HEADER /\ Len(b) >= TotalSize(b)

Message(b) == SubSeq(b, 1, TotalSize(b))

-----------------------------------------------------------------------------
Init ==
    /\ pc = "idle"
    /\ serving \in Clients
    /\ terminated = FALSE
    /\ outputStream = <<>>
    /\ outputFileTime = 0
    /\ files = [t \in {} |-> <<>>]
    /\ history = <<>>
    /\ buffer = [c \in Clients |-> <<>>]
    /\ connected = [c \in Clients |-> TRUE]
    /\ sent = [c \in Clients |-> <<>>]
    /\ stream = [c \in Clients |-> <<>>]
    /\ now = 1
    /\ faults = 0
    /\ signals = 0

\* StatsWriterClient::Send, or a client that speaks another protocol.  The body
\* tells whose message it is and which.
Send(c) ==
    \E n \in Sizes, magic \in {MAGIC, 0} :
      LET k == Len(sent[c]) + 1
          msg == <<magic, n>> \o [i \in 1 .. n |-> <<c, k, i>>]
      IN  /\ k <= MaxMessages
          /\ connected[c]
          /\ sent' = [sent EXCEPT ![c] = Append(@, msg)]
          /\ stream' = [stream EXCEPT ![c] = @ \o msg]
          /\ UNCHANGED <<pc, serving, terminated, ioVars, buffer, connected,
                         now, faults, signals>>

Tick ==
    /\ now < MaxTime
    /\ now' = now + 1
    /\ UNCHANGED <<pc, serving, terminated, ioVars, netVars, faults, signals>>

\* A Commit that succeeds renames the file, over one of the same name.
CommitFile ==
    /\ outputStream[1].isOpened
    /\ files' = [t \in DOMAIN files \cup {outputStream[1].name} |->
                   IF t = outputStream[1].name THEN outputStream[1].content
                                               ELSE files[t]]
    /\ history' = history \o outputStream[1].content

\* OnTerminated: what there is, is committed.
OnTerminated ==
    /\ IF outputStream = <<>>
       THEN UNCHANGED <<outputStream, files, history>>
       ELSE CommitFile /\ outputStream' = <<>>
    /\ UNCHANGED outputFileTime

-----------------------------------------------------------------------------
(* WriterHandler::OnDataReceived.                                           *)

\* SocketServer receives some of what a client sent and calls the handler.
OnDataReceived ==
    /\ pc = "idle"
    /\ ~terminated
    /\ \E c \in Clients :
         /\ connected[c]
         /\ serving' = c
         /\ \E n \in 1 .. Len(stream[c]) :
              /\ buffer' = [buffer EXCEPT ![c] = @ \o SubSeq(stream[c], 1, n)]
              /\ stream' = [stream EXCEPT ![c] = SubSeq(@, n + 1, Len(@))]
    /\ pc' = "parse"
    /\ UNCHANGED <<terminated, ioVars, connected, sent, now, faults, signals>>

\* The select times out; Run ends with OnTerminated() when terminated_ is set.
SelectTimeout ==
    /\ pc = "idle"
    /\ IF terminated THEN pc' = "stopped" /\ OnTerminated
                     ELSE UNCHANGED <<pc, ioVars>>
    /\ UNCHANGED <<serving, terminated, netVars, now, faults, signals>>

\* Disconnect() leaves the handler by an exception; no more data is received.
Disconnect ==
    /\ connected' = [connected EXCEPT ![serving] = FALSE]
    /\ pc' = "idle"
    /\ UNCHANGED <<buffer, sent, stream>>

\* Mutant: the magic is not looked at.
ParseAnything ==
    /\ pc = "parse"
    /\ pc' = IF IsComplete(buffer[serving]) THEN "open" ELSE "idle"
    /\ UNCHANGED <<serving, terminated, ioVars, netVars, now, faults, signals>>

\* Mutant: the loop waits for the rest of a message.
ParseWaits ==
    /\ pc = "parse"
    /\ pc' = CASE buffer[serving] = <<>>              -> "idle"
              [] IsComplete(buffer[serving])         -> "open"
              [] OTHER                               -> "parse"
    /\ UNCHANGED <<serving, terminated, ioVars, netVars, now, faults, signals>>

\* The head of the loop over the complete messages.
Parse ==
    /\ pc = "parse"
    /\ IF ~IsComplete(buffer[serving])
       THEN pc' = "idle" /\ UNCHANGED netVars
       ELSE IF IsMagicValid(buffer[serving])
            THEN pc' = "open" /\ UNCHANGED netVars
            ELSE Disconnect
    /\ UNCHANGED <<serving, terminated, ioVars, now, faults, signals>>

\* messageBuffer_.Remove()
RemoveMessage ==
    /\ pc = "remove"
    /\ buffer' = [buffer EXCEPT ![serving] = SubSeq(@, TotalSize(@) + 1, Len(@))]
    /\ pc' = "parse"
    /\ UNCHANGED <<serving, terminated, ioVars, connected, sent, stream, now,
                   faults, signals>>

-----------------------------------------------------------------------------
(* StatsWriterServer::WriteMessage.                                         *)

Crash ==
    /\ pc' = "crashed"
    /\ UNCHANGED <<serving, terminated, ioVars, netVars, now>>

\* The test of outputStream_, and OpenOutputStream.
OpenIfNull ==
    /\ pc = "open"
    /\ pc' = "write"
    /\ IF outputStream = <<>>
       THEN /\ outputFileTime' = now
            /\ outputStream' = <<[name |-> now, isOpened |-> TRUE, content |-> <<>>]>>
       ELSE UNCHANGED <<outputStream, outputFileTime>>
    /\ UNCHANGED <<serving, terminated, files, history, netVars, now, faults,
                   signals>>

\* outputStream_->Write.  The message goes to the transaction's buffer; a
\* closed file is only noticed when the buffer is flushed.
Write ==
    /\ pc = "write"
    /\ outputStream # <<>>
    /\ outputStream' =
         <<[outputStream[1] EXCEPT !.content = Append(@, Message(buffer[serving]))]>>
    /\ pc' = "limit"
    /\ UNCHANGED <<serving, terminated, outputFileTime, files, history, netVars,
                   now, faults, signals>>

\* FileTransaction::Position
Position(t) == FoldSeq(LAMBDA msg, sum : sum + Len(msg), 0, t.content)

\* Mutant: the second of the file's name need not be over.
MayCommitNow == Position(outputStream[1]) >= LIMIT /\ now >= outputFileTime

MayCommit == Position(outputStream[1]) >= LIMIT /\ now > outputFileTime

TestLimit ==
    /\ pc = "limit"
    /\ outputStream # <<>>
    /\ pc' = IF MayCommit THEN "commit" ELSE "remove"
    /\ UNCHANGED <<serving, terminated, ioVars, netVars, now, faults, signals>>

Commit ==
    /\ pc = "commit"
    /\ outputStream # <<>>
    /\ CommitFile
    /\ outputStream' = <<[outputStream[1] EXCEPT !.isOpened = FALSE]>>
    /\ pc' = "reset"
    /\ UNCHANGED <<serving, terminated, outputFileTime, netVars, now, faults,
                   signals>>

Reset ==
    /\ pc = "reset"
    /\ outputStream' = <<>>
    /\ pc' = "remove"
    /\ UNCHANGED <<serving, terminated, outputFileTime, files, history, netVars,
                   now, faults, signals>>

-----------------------------------------------------------------------------
(* What goes wrong in WriteMessage.                                         *)

\* A UnixError of the transaction: SocketServer::Client::Receive disconnects
\* the client whose message it was.  Open and Write leave everything as it was;
\* a Commit that fails in close or rename leaves the transaction closed.
UnixError ==
    /\ faults < MaxFaults
    /\ faults' = faults + 1
    /\ Disconnect
    /\ \/ /\ pc = "open"
          /\ outputStream = <<>>
          /\ outputFileTime' = now
          /\ UNCHANGED outputStream
       \/ /\ pc \in {"write", "commit"}
          /\ outputStream # <<>>
          /\ outputStream[1].isOpened
          /\ UNCHANGED <<outputStream, outputFileTime>>
       \/ /\ pc = "commit"
          /\ outputStream # <<>>
          /\ outputStream[1].isOpened
          /\ outputStream' = <<[outputStream[1] EXCEPT !.isOpened = FALSE]>>
          /\ UNCHANGED outputFileTime
    /\ UNCHANGED <<serving, terminated, files, history, now, signals>>

\* A closed transaction throws an IllegalOperationError, which nobody catches:
\* from Commit, and from Write when the message fills its buffer.
UseOfClosed ==
    /\ pc \in {"write", "commit"}
    /\ outputStream # <<>>
    /\ ~outputStream[1].isOpened
    /\ Crash
    /\ UNCHANGED <<faults, signals>>

\* The signal handler reset outputStream_ under WriteMessage.
UseOfNull ==
    /\ pc \in {"write", "limit", "commit"}
    /\ outputStream = <<>>
    /\ Crash
    /\ UNCHANGED <<faults, signals>>

\* The signal handler of SIGTERM and SIGINT: it calls OnTerminated(), not
\* Terminate().  An exception cannot leave it.
TerminateStatsServer ==
    /\ pc \notin {"stopped", "crashed"}
    /\ signals < MaxSignals
    /\ signals' = signals + 1
    /\ \/ /\ OnTerminated
          /\ UNCHANGED <<pc, serving, terminated, netVars, now>>
       \/ outputStream # <<>> /\ ~outputStream[1].isOpened /\ Crash
    /\ UNCHANGED faults

Done == pc \in {"stopped", "crashed"} /\ UNCHANGED vars

ServerStep ==
    \/ OnDataReceived \/ SelectTimeout
    \/ Parse \/ OpenIfNull \/ Write \/ TestLimit \/ Commit \/ Reset \/ RemoveMessage
    \/ UnixError \/ UseOfClosed \/ UseOfNull

Next == (\E c \in Clients : Send(c)) \/ Tick \/ ServerStep \/ TerminateStatsServer \/ Done

Spec == Init /\ [][Next]_vars

\* The server thread is scheduled, and it receives from every client that has
\* data: select reports them all.
FairSpec ==
    /\ Spec
    /\ WF_vars(ServerStep)
    /\ \A c \in Clients : SF_vars(OnDataReceived /\ serving' = c)

-----------------------------------------------------------------------------
(* Properties.                                                              *)

\* Type invariant, and the bounds of what WriteMessage and Remove read.
TypeOK ==
    /\ pc \in {"idle", "parse", "open", "write", "limit", "commit", "reset",
               "remove", "stopped", "crashed"}
    /\ serving \in Clients
    /\ terminated \in BOOLEAN
    /\ Len(outputStream) <= 1
    /\ outputFileTime \in 0 .. now
    /\ \A t \in DOMAIN files : t \in 1 .. now
    /\ connected \in [Clients -> BOOLEAN]
    /\ now \in 1 .. MaxTime
    \* WriteMessage and Remove stay within messageBuffer_
    /\ pc \in {"open", "write", "limit", "commit", "reset", "remove"} =>
         TotalSize(buffer[serving]) <= Len(buffer[serving])

\* All the messages that were written, committed or not.
Written ==
    history \o (IF outputStream # <<>> /\ pc # "reset" THEN outputStream[1].content
                                                       ELSE <<>>)

Valid(msg) == msg[1] = MAGIC

\* The cells of the first k messages of a client, and how many they are.
CellsOf(messages, k) == UNION {{i} \X (1 .. Len(messages[i])) : i \in 1 .. k}
Size(messages, k) == Cardinality(CellsOf(messages, k))

Received(c) == Size(sent[c], Len(sent[c])) - Len(stream[c])

HasBody(msg) == Len(msg) > HEADER

\* The reference for the framing: the messages of c with a body that have arrived
\* in full, up to the first that is not valid.
Arrived(c) ==
    {k \in 1 .. Len(sent[c]) :
        /\ HasBody(sent[c][k])
        /\ Size(sent[c], k) <= Received(c)
        /\ \A i \in 1 .. k : Valid(sent[c][i])}

\* Where the messages of c were written.  The first cell of a body names its client
\* and its number; empty bodies are not told apart.
Of(c) == {i \in 1 .. Len(Written) : HasBody(Written[i]) /\ Written[i][3][1] = c}
NumberOf(i) == Written[i][3][2]

\* However the stream was cut into pieces, the messages in the files are those
\* that the clients sent, whole, once and in each client's order; one is missing
\* only when its write failed, and then its client was disconnected and no later
\* message of it was written.
MessagesAreKept ==
    pc = "idle" =>
      \A c \in Clients :
        LET kept == {NumberOf(i) : i \in Of(c)}
        IN  /\ \A i \in Of(c) : Written[i] = sent[c][NumberOf(i)]
            /\ \A i, j \in Of(c) : i < j => NumberOf(i) < NumberOf(j)
            /\ kept \subseteq Arrived(c)
            /\ \A k \in Arrived(c) : (connected[c] \/ \E l \in kept : k < l) => k \in kept

\* A committed file is never overwritten by a later one, as long as no signal came:
\* the name of a file is a second that is over when WriteMessage commits it.  (The
\* signal handler commits at once, and the next file may have the same name.)
FilesAreNotOverwritten ==
    [][signals' = 0 => \A t \in DOMAIN files : files'[t] = files[t]]_<<files, signals>>

\* A server that no signal reaches only dies of a transaction that failed late.
CrashesOnlyAfterFault == pc = "crashed" /\ signals = 0 => faults > 0

\* However the streams are cut, whichever transaction fails and whenever a signal
\* comes, every message that arrived is written whole and once, and the server dies
\* only of a fault or a signal.
StatsAreKept == TypeOK /\ MessagesAreKept /\ CrashesOnlyAfterFault

\* Everything a client sent in valid messages is written, unless the client is
\* disconnected or the server dies.
EverythingIsWritten ==
    \A c \in Clients :
      Len(stream[c]) > 0 ~>
        \/ (stream[c] = <<>> /\ pc = "idle")
        \/ ~connected[c]
        \/ pc \in {"crashed", "stopped"}

\* "Server is terminating now": after the signal the server thread ends.
SignalEndsServer == signals > 0 ~> pc \in {"stopped", "crashed"}
=============================================================================
