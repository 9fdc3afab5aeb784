# Verification of the XTL library and the programs built on it

XTL (`src/trunk/lib/xtl`) is a C++ library for Linux servers: sockets and an
event loop, files and streams, containers, database clients, text formats. Two
programs of the repository are built on it, the statistics daemon
(`src/trunk/tests/ljstatsd.cpp`, `src/trunk/tests/lj-stats-writer`) and an nginx
module in front of LevelDB (`src/nginx-leveldb-1.3.14`). This directory holds
TLA+ models of its stateful parts, TLC configurations that check them on small
instances, and TLAPS proofs for every value of the constants.

`PROJECT.json` lists components, runs, hazards, theorems and, for each
definition, the source lines it stands for. This file explains the whole.

## 1. The system

### Components, their state and operations

| component | state | operations | what makes it correct |
|---|---|---|---|
| `SocketSelector` | two `fd_set`s, `maxfd_` | Insert, Delete, Clear, Select | `maxfd_` is the highest watched descriptor, so `select` overlooks none |
| `SocketServer` | `serverSockets_`, `selector_`, `clients_` (descriptor to Client), `terminated_`; inside `Iterate`: the select result and the vector `disconnected` | AddListeningSocket, Run, Iterate (accept, receive and close loops), Terminate | kernel descriptors, selector and `clients_` agree; data reaches its own handler; no `recv` blocks; callbacks come in order |
| `BTree`, `BTreeSet` | nodes with parent, slot, next and prev links, counters | Insert, Delete, Clear, Find, iteration, SelfTest | SelfTest holds after every call; the tree is a sorted bag |
| `FileTransaction` over `FileOutputStreamBuffered`, `FileOutputStream`, `File` | buffer, `position_`, descriptor, temporary and final file | Write, Commit, Position, destructor | a file under its final name is complete and durable |
| statistics daemon | a message buffer per client, `outputStream_`, `outputFileTime_` | OnDataReceived, WriteMessage, OnTerminated, the signal handler | every message is written whole and once; files are not overwritten |
| buffered input streams over `File` | buffer with `position_`, `size_`; file offset | Read, Skip, Seek, Update | bytes returned are those of the file at the reported position, or an error |
| paths shared by processes: `RecreateSymlink`, `CreatePath`, `UnixSocketServer`, `PidFile` | a path of the file system | one system call at a time, by several processes | a link never vanishes, a path is created once, a server or pid file keeps its path until another takes it |
| `Execute`, `Daemonize` | the caller and its forked copies | ForkExecWait, DoubleForkExec, Daemonize | one process goes on, no zombie stays, the caller's files survive the child |
| PostgreSQL client | connection, transaction, cursor, results | Execute (reconnects and repeats), Begin, Commit, cursors, CopyTable | what succeeded is in the database; a transaction is whole while its session lives |
| SQLite client | connections, statements and who owns them | Open, Close, Prepare, Execute, Finalize, move | a statement has one owner and a live connection; a script that waits for locks is executed to its end |
| nginx module for LevelDB | one database per worker | open, get, put, close | the answer of a request is that of the database |
| `AutoPtrMapCache` | list and map of entries | lookup with eviction | holds the most recently used keys, owns each object once |
| `SharedPtr`, `AutoPtrVector`, `AutoPtrMap` | counts; owned pointers | copy, assign, release; insert, release, resize | one delete per object, when its last pointer goes |
| `Heap`, `LimitedHeap` | items and the lazy flag `heapified_` | push, pop, top | the top is the least; the limited heap keeps the smallest |
| `Date`, `Base64`, `FilePath`, `SimpleStringMatcher` | a value | arithmetic, conversion, parsing | equal to a reference |
| number literals, ini files, program options | a parser's state | one step per character, token or argument | what is read is what is written |
| `JsonPrinter` | a stack of what is open, the indentation | values, Array, Object and their linear forms, End, Finish | the text is always the beginning of well formed JSON |
| `SimpleTemplate` | items and parameters | parse, write with values | a template means what its characters say |
| plain records: `RecordPrototype`, `RecordArray` | fields; blocks of records | AddField; Resize, Read, Sort, BinarySearch | fields are aligned, records are kept, sorted and found |
| logging, formatting, variants, MySQL, Perl glue | little or none | conversions and wrappers | covered by the unit tests of the repository |

How they interact: `SocketServer` owns a `SocketSelector` and an `AutoPtrMap` of
Clients, and calls `ClientHandler` callbacks from its only thread. The
statistics daemon is such a handler; it writes to a `FileTransaction`. The
transaction is a stack of streams over one `File`. A signal handler may run
between any two instructions of the thread; it shares `terminated_` (library) or
`outputStream_` (daemon) with it. There are no other threads in the modelled
code.

What is hard: descriptors are reused by the kernel while a select result and
`clients_` still mention them; a signal comes between any two steps; peers close,
reset or abort at any moment; `recv` and `write` take any part of what they are
given; a system call fails or the machine crashes in the middle of a commit; a
B+ tree changes links, keys and counters in several nodes at once. Each such
place is a hazard in `PROJECT.json`, with the properties that would catch it.

### What is modelled

| module | models |
|---|---|
| `SocketSelector` | `SocketSelector`, `SocketSet` |
| `SocketServer` (extends `SocketSelector`) | `SocketServer`, `AutoPtrMap` as used by it, `ServerSocket::Accept`; kernel and peers as environment |
| `ConnectionService` | the abstract promise to a `ClientHandler`; `SocketServer` is shown to implement it |
| `BTree` | `BTree`, its leaves, branches, iterator and Tester |
| `SortedBag` | the abstract promise of the tree; `BTree` is shown to implement it |
| `FileTransaction` | `FileTransaction`, the output streams, `File::Write`, `File::Flush`, `File::Close`, rename |
| `StatsWriter` | `StatsWriterServer`, `StatsMessageBuffer`, `WriteMessage`, the signal handler of `ljstatsd` |
| `FileInput` | `FileInputStream`, `FileInputStreamBuffered` over `File::Read` and `File::Seek` |
| `SharedPaths` | `FileUtils::RecreateSymlink`, `CreatePath`, `UnixSocketServer`, `PidFile`, for several processes |
| `Processes` | `ForkExecWait`, `DoubleForkExec`, `Daemonize` |
| `PgConnection` | `PGSQL::Connection`, `Cursor`, over a server that may die at any moment |
| `SqliteClient` | `SQLite::Database`, `Statement` |
| `NginxLevelDB` | `LevelDB.cpp` and the handlers of the nginx module |
| `AutoPtrMapCache`, `SharedPtr`, `OwningContainers`, `Heap` | the containers and pointers of the same names; `OwningContainers` is `AutoPtrVector` and `AutoPtrMap` |
| `Date`, `Base64`, `FilePath`, `StringMatcher` | the algorithms |
| `NumberLiteral`, `IniConfig`, `ProgramOptions` | the parsers of number literals, ini files and command lines |
| `JsonPrinter`, `SimpleTemplate`, `PlainRecords` | `json/JsonPrinter`, `simple_template`, and `plain` with its sort and search |
| `Ownership` | the objects of `SharedPtr` and `OwningContainers` side by side, with the property that each is deleted once |
| `SocketServerProofs` (with the selector), `FileTransactionProofs`, `StatsWriterProofs`, `StorageProofs` (`FileInput`, `SharedPaths`, `Processes`, `FilePath`, `SimpleTemplate`), `DatabaseProofs` (nginx module, SQLite and PostgreSQL clients), `ContainerProofs` (cache, pointers, owning containers, heaps, plain records), `ValueProofs` (number literals, dates, base64), `TextProofs` (json printer, ini parser, command line, string matcher) | proofs |
| `MCLibrary`, `MCStorage`, `MCDaemons`, other `MC...` | the instances for TLC |

## 2. The models

### SocketSelector

`selector` is a record of `maxfd`, `readSet` and `writeSet`. Insert refuses a
descriptor that is negative or at least `FD_SETSIZE`, and a call that asks for
neither set. Delete of the highest descriptor scans down for the next one.
The scan is written as a CHOOSE of the value the loop stops at; the proofs show
that it exists. `SelectedForRead` is what `::select(maxfd_ + 1)` reports.

### SocketServer

The thread is cut into one step per select, per listening socket, per client and
per closed socket; `pc` names the loop, `at` the position in it (a count of
listening sockets, then the last key visited in `clients_`). Peers and
`Terminate` act between any two of these steps.

| code | model |
|---|---|
| `clients_` | `clients`, a function from descriptors to Client objects, which are named by their connection |
| kernel descriptor table | `desc`; a new descriptor is the lowest free one |
| accept queues | `backlog` |
| local `disconnected` of `Iterate` | `disconnected` |
| callbacks | `handler`, `delivered` |

Three behaviours of the code deserve a comment because the model keeps them:

- `Erase(*itr)` follows `itr->Close()` (`SocketServer.cpp:210-212`). Close sets the
  descriptor to -1, and the Client is filed under the old one, so Erase finds
  nothing and the Client stays in `clients_` until `Set` replaces it, when its
  descriptor is accepted again. `StaleClientIsSilent` says that this is harmless
  to the protocol: a stale Client never gets a callback. It keeps memory until then.
- `AddListeningSocket` ignores the result of Insert: a listening socket beyond
  `FD_SETSIZE` is kept and never selected.
- `OnClientConnected` that calls `Disconnect` ends `Run`: only the receive loop
  catches `ClientDisconnected`.

`Faults` names the failures the environment may inject: accept errors, close
errors, handlers that disconnect or throw.

### BTree

The tree is a heap of nodes with all their links, because the links and counters
are what a split, a merge or a rearrangement can get wrong. Arrays have one guard
cell past their capacity, and a range that ends before it begins ruins the array
(`Overrun`), so that a wrong `memmove` is visible. States that differ only in
addresses or in stale cells past the size are identified by `Canonical`. Items are
their keys; the tree with repeated keys is the same module with
`UNIQUE_KEYS = FALSE`.

### FileTransaction

One step is one system call or one buffer operation. Data are numbered units.
`WriteSome` writes any part of what is left; `WriteInterrupted` is EINTR, hidden
`MAX_INTERRUPTS_IGNORES` times per call; `SystemCallFails` is any other error,
after which the object is usable and the caller may call again; `Crash` is a crash
of the machine, after which the disk holds what was synced and any part of the
rest, and possibly the old name.

Assumptions about the system: a write error leaves in the file what earlier
`write` calls put there; after a failed `fsync`, an `fsync` that succeeds has
written everything (older kernels do not always promise this); a rename is atomic.

### StatsWriter

Messages are sequences of cells: magic, size, body cells that say whose they are.
The connection is a stream that `OnDataReceived` cuts anywhere. `WriteMessage` is
five steps (open, write, limit test, commit, reset), with the signal handler
between any two. The transaction is a record (name, open, content), and what
`FileTransaction` shows about failing commits is an input here: a late failure
leaves it closed. The clock does not run backwards. `history` collects the
messages committed, in order, independently of the names of the files. `MessagesAreKept`
compares it with what the clients sent and with how much of it arrived (`Arrived`): a
message is identified by its number in its body cells.

A signal while the server is inside `WriteMessage` can make it use a null pointer,
and a file opened after the signal in the same second replaces the one the handler
committed. The model has both behaviours (`UseOfNull`, `CommitFile`). A transaction that
a late failure closed throws from Commit, and from a Write that fills its buffer;
nobody catches it (`UseOfClosed`).

Left out: a size field near 2^32, with which `TotalSize` wraps around, and a client's
end of file, after which the server deletes the handler and nothing else: to the daemon
it is a client that sends nothing more, and `SocketServer` has the connection.

### FileInput

Byte i of the file is the number i, so what a Read delivers says where it came from;
`Junk` is a cell of the buffer that was never written. Another process may shorten or
extend the file between any two calls, and a read may fail. `ReaderIsInStep`: the bytes
delivered are those at the position the stream reports, the position advances by what
was delivered, and what the file had when it was opened can be read. The size of a file
wraps at `FILE_SIZE_MODULUS`. After a read that threw, the buffer claims bytes it has
not got (`Buffer::Update` sets `size_` first); the properties stop at that error, and
the plain stream is not affected.

### SharedPaths and Processes

`SharedPaths` interleaves the system calls of three processes at one path and lets a
process be killed between any two. Its properties say exactly as much as the code
guarantees: `PidFile` and `UnixSocketServer` take the path from whoever has it, so a
process keeps it "until another has touched it". A pid file whose write was cut short
by signals does not name its process either (`PidWriteShort`): the constructor does not
look at the count.

`Processes` follows the caller, its child and the child's child. A failed `exec` throws
`ChildExit` through the copy of the caller's frames; `callerFile` records what destructors in
a child remove. `Daemonize` and the double fork are taken call by call, each of which
may fail, and `waitpid` may be interrupted.

### PgConnection, SqliteClient, NginxLevelDB

The servers and C libraries are modelled from how they are called. A statement sent to
PostgreSQL may be lost before it arrives, executed with its reply lost, or answered.
Each statement is the number of the call that sent it and the database counts how
often it took effect. Execute makes at most `MAX_ATTEMPTS` attempts. SQLite refuses to
close a connection with live statements, frees a statement in `sqlite3_finalize` even
when it returns an error, and may be locked by another process. LevelDB opens a
database for one process; a worker may be stopped and started again between the header
and the body of a PUT.

### Containers and pointers

`AutoPtrMapCache` keeps a history of use beside the cache to compare with. In
`SharedPtr` each object has a pointer member, so a release may be a cascade, which takes
one step per pointer. `OwningContainers` counts the holders of each object: the program's
`auto_ptr`s, the vector and the map. `Heap` takes the heap functions of the standard
library at their contract, with any arrangement where the contract is broken.

`PlainRecords` keeps records in blocks as `RecordArray` does. A block that was not yet
created is one of zeros, which is what `ItemData` makes of it at its first use. Resize
to a smaller size keeps what lies behind the new end of the last block, so an array that
grows again may show old records: `assigned` says -1 where nothing is promised. Sort is
taken comparison by comparison (`QuickSort` on an index) and then move by move
(`ArrangeByIndex`, which overwrites the index as it follows a cycle).

### Values and parsers

`Date` is compared with a calendar counted day by day, `Base64` with its own inverse,
`FilePath` with walking the components from a directory, `StringMatcher` with a
definition of what a template accepts, `NumberLiteral` with the exact value of the
digits, `IniConfig` with the last setting of each key above the point that was reached (nothing
when the file cannot be read: `LoadFails`), `ProgramOptions` with the assignment of words to options, `SimpleTemplate` with a
meaning given to each character by what stands before it, and `JsonPrinter` with the
grammar of JSON, stated on the printed tokens alone. `NumberLiteral` has an integer
of `WIDTH` bits, so that overflow comes within four digits. `Base64` describes the
output of a loop by its turns (`Buffer`): turn `i` appends the same number of values.

## 3. The runs

`tlc -config X.cfg M` in this directory.

| run | cfg | what it shows |
|---|---|---|
| `library` | `MCLibrary` | containers, pointers, values and parsers: the tree with repeated keys (SelfTest, no overrun, implements `SortedBag`), the selector, the cache, shared and owning pointers, both heaps, dates, base64, paths, number literals, ini files, options, the matcher, the json printer, templates and plain records, each against its reference |
| `storage` | `MCStorage` | what keeps data: the tree with unique keys, file transactions under partial writes, a signal, two errors and a crash, readers of a changing file, paths shared by three processes, and the PostgreSQL, SQLite and LevelDB clients under lost connections, locks and failures |
| `daemons` | `MCDaemons` | under fairness: with a signal at any step, what arrives at the statistics daemon is written unless it dies; fork, exec and daemonize with failing calls leave one process in the caller's code and no zombie, and DoubleForkExec comes back |
| `server_safety` | `MCSocketServerSafety` | two connections, two listening sockets, four descriptors, every fault: the tables agree at each select, stale Clients are silent, no `recv` blocks, data reaches its handler, and callbacks follow `ConnectionService` |
| `server_limits` | `MCSocketServerLimits` | three connections against a limit of four descriptors of which three fit in an `fd_set`, no faults: `Run` throws only at a limit |
| `server_liveness` | `MCSocketServerLiveness` | under fairness, data is served, an end is reported and its descriptor released, `Terminate` stops the server |
| `stats` | `MCStatsWriter` | two clients, any cutting of their streams, a failing transaction, a signal at any step, three seconds: messages are kept, files are not overwritten before a signal, crashes need a fault or a signal |
| `btree_delete` | `MCBTreeDelete` | violated: SelfTest fails with leaf capacity 4, see findings |
| `transaction_signals` | `MCFileTransactionSignals` | violated: five signals in one write truncate a committed file |
| `stats_signal` | `MCStatsWriterSignal` | violated: the signal does not end the server |
| `nginx_get` | `MCNginxLevelDB` | violated: a value that was found is answered 500 |
| `number_overflow` | `MCNumberLiteral` | violated: a binary, octal or hexadecimal literal that does not fit wraps around |

`library`, `storage` and `daemons` join components that share no state. Init chooses
`part`, the component a behaviour exercises; the variables of the others stay as they
were made. State spaces add up and do not multiply, and a property of one component is
checked in the behaviours of its part and holds trivially in the others.

Each component has one property in these runs, a conjunction of named parts that say
one thing each: `RepeatsAreSafe`, for example, is `RepeatsAreBounded`,
`SuccessIsDurable`, `OneLossIsHidden` and `ResultsAreFreed`. The parts have their own
comments. To see which part fails, name them in the cfg instead. Where two components
promise the same thing one property speaks for both: `ObjectsAreDeletedOnce` for shared
pointers and owning containers, `PathsAreShared` for all that is done at shared paths.

### Bounds, and why they are enough to be interesting

- Server: a descriptor is reused after one connection closes and another is
  accepted, so two connections reach every stale state; three are needed to run
  out of descriptors while others are open. Two listening sockets make the accept
  loop pass one that is idle. `RECEIVE_BUFFER_SIZE` 2 and `MaxSent` 2 let `recv`
  return part of the data with more, or the end, behind it. Connections are
  symmetric in the safety runs only. The proofs lift all these bounds.
- Tree: capacity 2 with 8 unique keys reaches three levels, so branches split,
  merge and take keys from siblings, and leaves rearrange across branches. With
  capacities below 4 the redistribution between leaves after a delete cannot
  happen, because siblings merge first; that case is `btree_delete`.
- Transaction: a buffer of two units and five units in all lets a request fit,
  fill the buffer exactly, need a flush first, or go directly to the file. Two
  errors allow a failed retry. `MAX_INTERRUPTS_IGNORES` is 1 in `storage`, and
  the code's 4 in `transaction_signals`.
- Files that are read: lengths 0, 2 and 5 against buffers of 0, 1 and 3 bytes and reads
  of 0, 1, 2 and 4, so that a read is empty, is served from the buffer, straddles its
  end or bypasses it; one resize and one failing read.
- Paths: three processes, three temporary names, paths of two components, four starts
  (a killed process may start again), one failing call.
- PostgreSQL: four calls, two lost connections, so that the second attempt may be lost
  too. SQLite: two connections, three statements, a script of up to three statements
  that meets two locks. nginx: two requests, one key, two values, one database error.
- Containers: four keys against cache capacities 0, 1 and 3; three objects that may
  form chains; heaps of four items with three values.
- Values: dates on both sides of leap years, centuries and 400 years; base64 messages of
  up to four bytes and texts of up to four characters; paths of up to five components;
  literals of four characters; files of up to three lines; command lines of three
  arguments; matchers of four and strings of two characters; six calls of a json printer,
  which open three levels; simple templates of five characters; prototypes of four
  fields; arrays of up to five records in blocks of two, with four calls, so that an
  array shrinks inside a block and grows again, and a sort has several ranges.
- Daemon: a limit of four cells takes two messages; bodies of 0 and 1 cell, three
  seconds, one fault.

### Fairness

`WF_vars(ServerStep)`: the thread inside `Run` is scheduled and callbacks return.
It is weak fairness on the thread as a whole: peers and signals have none, and
nothing says which step the thread takes. In `StatsWriter` the choice of the
client served next is abstract, where the code serves every readable client of a
select in turn; strong fairness per client stands for that. It is what
`DataIsServed` establishes for the event loop. `MCDaemons` adds `WF(ProcessStep)`: a
forked process that can take a step by itself takes it some day; the program that was
executed is not among them and may run for ever.

`CHECK_DEADLOCK FALSE` is set where the system may stop: a call has returned and the
bounds allow no other, or the server has ended.

### Findings

1. `BTree.hpp:609`: when the right leaf is underfull, the range moved from the left
   one is `[leftSize, size - leftSize)` instead of `[leftSize, size)`. With capacity
   4 and leaves of 4 and 1 items, items are lost. The test program uses capacity 2,
   which never comes there.
2. `FileOutputStream.cpp:19` ignores the count `File::Write` returns, which is short
   after more than `MAX_INTERRUPTS_IGNORES` interruptions, as `File.hpp:257`
   documents. A commit can then succeed with a truncated file.
3. `ljstatsd.cpp:24`: the handler of SIGTERM commits the open file and does not call
   `Terminate()`, so the server goes on.

4. `ngx_http_leveldb_module.c:248`: `result < 1` is taken for an error, and 0 means
   that the value was found, so a GET that finds its key is answered 500 and the code
   that sends the value is never reached. `simpletest.c:53` and `:58` use the same
   interface with `r < 0` and `r == 1`.
5. `NumberBuilder.cpp:57` and the tests below it: the limits for binary, octal and
   hexadecimal digits let through a value one or two too big, which loses its top bit.
   `NumberLiteralParser.cpp:172` means to report it ("Hexadecimal number is too big").

Behaviour that contradicts no statement of the repository and is only recorded. The
models have it, and the properties are stated so that they allow it and nothing more:

- Files: a write that fails half way and is repeated puts what had been written into
  the file twice; an exception in `~FileOutputStreamBuffered` ends the process; a
  buffered stream after a read that threw; `CreatePath` over an existing file that is
  not a directory. The stale Clients and the daemon's signal handler (above).
- PostgreSQL: a statement whose reply was lost takes effect twice; a reconnect in a
  transaction runs the rest outside any; `CopyTable` does not clear its first result.
- SQLite: a script that waits for a lock starts again from its first statement;
  `Finalize` that throws keeps the pointer to a freed statement; `Open` after a Close
  that was refused.
- nginx: a PUT is answered 200 when LevelDB refused it.
- Pointers: `p = p->next` of an object that only `p` owns reads a freed pointer
  (`SharedPtr.hpp:85`); a cache of capacity 0 evicts nothing.
- Parsers: the matcher accepts a template with an unclosed bracket; words beyond the
  option list are dropped; a password that its option refused stays readable in `argv`;
  an ini file with an error leaves the lines above it in the config; a template that
  ends with a lone `$` takes the parser past the end of the string
  (`SimpleTemplateParser.hpp:82`).
- Records and json: an array that shrinks and grows shows old records; closing an empty
  multiline array or object leaves the indentation deeper (`JsonPrinter.cpp:525`). Not in
  the models: `RecordFixedArray` initialises `capacity_` with itself
  (`RecordArray.hpp:146`).

## 4. The proofs

`tlapm M.tla` checks them. All are for every value of the constants allowed by the
assumptions next to their declarations (`SelectorAssumption`, `FileAssumption`,
`PathsAssumption` and so on), which only say what numbers and sets they are. Two say a
little more: `StatsAssumption` wants `MaxTime >= 1` (the clock of the model may tick),
and `NumberAssumption` states that `2 ^ WIDTH` is a number of at least 16 beside
`WIDTH >= 4`, from which it follows; the provers do not know powers.

**SocketServerProofs**, the selector. `SelectorTypeCorrect`, `MaxfdCorrect`, and from both
`SelectorCorrect`, for `SelectOverlooksNone`. The type
invariant and `MaxfdIsHighest` are inductive together. The interesting lemma is
that the downward scan of Delete stops, at the highest watched descriptor or at -1
(`ScanDownExists`, from the least number principle).

**SocketServerProofs**, the event loop. `ServerTypeCorrect`, `TablesCorrect`, `StaleCorrect`,
`ReceiveCorrect`, `DataCorrect`, `HandlersCorrect`, `LimitsCorrect`,
`ClientsCorrect` (for `ClientsAreAccounted`), and `ServiceCorrect`: the event loop
implements `ConnectionService`. The type invariant is proved and no longer a property of
a run. None of the properties is inductive. `Inv` is:

- `ControlInv`: what `pc` says of the loop variables;
- `KernelInv`: a connection waits in one accept queue at one place or has one
  descriptor, not both; it has no handler before and has one after (needed so that
  an accept cannot disturb another connection);
- `TableInv`: each open connection is watched and filed as its own Client, and any
  other entry of `clients_` belongs to a free descriptor and a disconnected handler
  (the stale Clients);
- `LoopInv`: `disconnected` holds exactly the disconnected clients whose sockets are
  still open, without repetition, all behind the iterator; and the select result is
  true of the clients still to be visited, which is why no `recv` blocks: accepts in
  between take free descriptors, and a free descriptor is not in the result;
- `DataReachesItsHandler` itself.

After `Terminate` inside the receive loop `Iterate` returns before the close loop,
and `LoopInv` must say that disconnected clients may stay open only while
`terminated` is set; since no further select follows, `TablesAgree` survives.

**FileTransactionProofs.** `TypeCorrect` (the buffer never overruns),
`PositionCorrect`, `WritingCorrect` (both, for `WritingIsAccounted`), `FinalFileCorrect` (an action property: the name is given in a
Commit with everything synced, and nothing but a crash touches the file afterwards)
and `CommittedCorrect`: as long as no system call fails and no more signals come
than one call tolerates (`MaxInterrupts <= MAX_INTERRUPTS_IGNORES`, the condition the
second finding shows to be needed), a committed file is exactly what was written.
The invariant says in which place each accepted unit is in every control state:
`data \o buffer` between calls, `data \o todo` in a flush, and so on (`ContentInv`),
with `PatienceInv` for the interruptions and `DurableInv` for what is on the disk.

`MissesNothingCorrect` is about callers that repeat what failed: whatever fails, a
committed file misses nothing that was accepted, under the same condition on signals.
"Accepted is a subsequence of the file" is not inductive while some of it still waits.
`KeptInv` says in every control state that accepted is `w \o rest` with `w` a
subsequence of the file and `rest` what waits in the buffer or in `todo`
(`HoldsAllBut`). The two lemmas are that a subsequence stays one when the file grows
(`SubsequenceOfMore`) and when the same units are put at both ends
(`SubsequenceOfBoth`).

**StatsWriterProofs.** `StatsInvariant`, and from it `StatsCorrect` (for `StatsAreKept`)
and the action property `FilesCorrect` (for `FilesAreNotOverwritten`), for any number of
clients, any messages and every way to cut the streams. What is in the files says
nothing of what is still to come, so the property is not inductive. `StatsInv` keeps an
account of each client: its first `d` messages were removed from `messageBuffer_`, its
first `w` were written, where `w` is `d`, or `d + 1` between the write and the remove and
after a commit that failed. Buffer and stream together are the messages after the first
`d` (`Frames`), however the stream was cut; so a message that the parser takes off the
buffer is message `d + 1` and whole. For the files, the second of the open transaction
is later than that of every committed one.

**StorageProofs**, readers. `InputCorrect`: `ReaderIsInStep`, for every capacity, file length
and change of the file. The invariant adds what the buffer holds: item `i` of it is
the byte of the file at `stream.offset - size + i`, and the stream's position is where
the buffer ends. After a Read that threw nothing is promised, so the invariant is
conditional on that. Unsigned subtraction is proved not to wrap where the code relies
on it.

**StorageProofs**, paths and processes. `PathsInvariant` and `PathsSharedCorrect` (for
`PathsAreShared`), for any number of processes, any of which may be killed between two
system calls. The invariant is four independent ones, since the four users of paths
share no variables (the `...Frame` lemmas), and each says what a process may rely on
at its `pc`: its temporary link is its own; the components it has passed exist; a
server that believes it is bound is, or another has taken the path since
(`meddled`); the same for the pid file. `LinkNeverVanishes` and `CreatedByOneOnly`
follow from these as action properties. The module also has `ProcessesCorrect`, the
safety part of `ProcessesAreOrderly`, for any number of signals and failing calls: its
invariant says for each function in which states caller, child and the child's child
are together. That DoubleForkExec comes back is left to TLC.

`PathsCorrect` (`PathIsFaithful`), for all names and texts of every length. The property
compares walks from directories up to three deep; the invariant `FilePathInv` needs
directories of every depth, since ConvertToAbsolute walks a path from wherever its base
leads. One token keeps a path normal and leads where the token leads (`TokenStep`: ".."
takes off only what a walk would go back from); `Built` says it of any number of
tokens, `WalkConcat` that a walk along two texts is one after the other, both by a least
counterexample over the recursive functions `Appended` and `WalkFrom`.

`TemplatesCorrect` (`TemplateIsAsWritten`), for every template and all values. The
property says of each character what it means by all that stands before it: whether a
dollar is a control depends on the dollars before. The parser only looks ahead. The
invariant `PatternInv` is what makes the two agree: the parser stands behind no control
and among no digits (`PatternPlace`), so that the meaning of the characters it passes
next follows from what it sees (the lemmas `StepText`, `StepDouble`, `StepUnder`,
`StepNumber`, `StepOther`); the items and the text not yet in one write what the template
means so far (`SaidUpTo`); `currentParamIndex_` counts the "$_" behind it; and the
parameters are those of the indexes behind it (`ParamsOK`). It assumes that no character
of a template is the zero that ends it and that digits are worth naturals. The property
puts the meanings together with the library's `FlattenSeq`, the invariant one by one:
`MeantFlat` says that this is the same.

**DatabaseProofs**, PostgreSQL. `PgInvariant`, and from it `RepeatsCorrect` and
`TransactionsCorrect`. The invariant ties the client's view to the server's: which
statements of the open transaction the session holds as pending, that a statement not
yet sent is nowhere in the database, that each attempt after the first has cost a
session, and that once a session is lost, or a COPY was cut, the history of the user's
transaction is tainted. The bound of `RepeatsAreBounded` needs the third, atomicity
the first and the last.

**DatabaseProofs**, nginx and SQLite. `NginxCorrect` proves `RequestsAreAnswered`, an invariant with an
action property: a request waiting for its body has a key and no status, a GET
answered 204 saw no value (`GoodRequest`), and only `CommandPut` changes the store. `SqliteCorrect` proves
`StatementsAreKept`: statements and the objects that own them are in bijection
(`OneOwner`) unless an assignment lost one, and while a script runs every statement
before the current one was executed at least once, and at most once more for each lock
that was waited for.

**ContainerProofs.** Five theorems.

- `CacheCorrect` (`CacheIsRecent`). The property compares the list with a history of
  use; inductive is that the list is in the order of use: the keys before a key in the
  list are exactly those looked up since it was, and a key that was discarded has seen
  at least capacity others since.
- `SharedCorrect`: each counter is the number of pointers to its object, those held by
  members of objects and the release in progress included. `AssignInv` is about
  operator=, which releases before it reads its argument: as long as the object that
  holds the argument is reached from the other variables, the cascade leaves it alone
  and what is read afterwards is what was there at the call.
- `OwnershipCorrect` (`ObjectsAreDeletedOnce`), from `CountInv` for shared objects and,
  for the owning containers, that an existing object is in exactly one place: the
  program's hands, one slot of the vector, or one entry of the map.
- `HeapCorrect` (`HeapsAreOrdered`). The heap functions are known only up to an
  arrangement, so the proof counts: an arrangement, an append and a pop change the
  number of items up to `v` in a known way (by bijections), and the front of a heap is
  its greatest item (a least counterexample would be above its parent). `HeapInv` is
  the property with the bound on the length.
- `RecordsCorrect` (`RecordsAreRight`), for any capacity of the blocks and any types of
  fields whose alignments are powers of two. `FieldsOK`: the record's alignment is
  divisible by that of every field placed at a multiple of its own. `ArrayOK`: what lies
  beyond the greatest size so far is zero, which is why a block that was rounded up
  shows no record. Sort has an invariant for each half. While the index is sorted,
  `QuickOK` says that the ranges still to be sorted follow one another and two records
  out of order lie in one of them; `Between` bounds the scans: x, or a pair already
  swapped, stops them inside of the range. While the records are moved, `Target` is the
  array they are to form, a permutation of the one before the sort, and `ArrangeOK` and
  `CycleOK` say that the index entries not yet marked are a one-to-one map that still
  names where each missing record lies, the one in `temp` excepted. So a cycle closes
  exactly where it began, and -1 is never used as an index. For `BinarySearch` a least
  counterexample (`SearchFinds`) shows that each half that is dropped held no such key.

**ValueProofs.** Three theorems about conversions.

- `NumbersCorrect` (`NumberIsAsWritten`), for every width of the integers and every
  literal. The test before `10 * value + digit` is exact (`MAX / 10` and `MAX % 10`):
  the digit that is refused would have made the number exceed the type. The invariant
  says for each state of the parser that the value of the builder is the exact value of
  the digits read so far, modulo `2 ^ WIDTH` for binary, octal and hexadecimal ones.
- `DatesCorrect` (`DatesAreCounted`), for every date and count. The heart is that
  `FromDayIndex` undoes `ToDayIndex`. Days are counted in cycles of 400 years: within
  one, year `y` begins at `365 y + y \div 4 - y \div 100 + y \div 400`, the next one
  begins one year later (`YearStep`), and the divisions by 400, 100, 4 and 1 years, with
  their corrections for the last day of a leap year, find the year a day is in
  (`YearFound`); the table of months does the rest (`MonthFound`). For the loops of
  AddDays and SubDays the invariant says that every turn keeps the day index of the
  date, in which the days still to be carried over count.
- `CodecsCorrect` (`CodecsAreInverse`), for messages and texts of every length. The two
  tables are inverse on the 64 characters, three bytes and four sextets determine each
  other, and `Buffer` puts turn `i` of a loop at the places `size * i + 1` and after
  (`BufferHolds`), so that the loops need no induction.

**TextProofs.** `IniCorrect` (`ConfigIsWhatWasRead`), for every file. `IniInv` says for
each state of the parser how many lines the config and the current section stand for
(`ReadLines`): in `"line"` those before the place that was reached, or, behind a last
line without a newline, that line too; in `"tail"` also the line the place is in; in
`"threw"` with or without that line (`Kept`). The
property finds the first token, the section and the value of a line by counting
newlines and looking back, the parser by skipping forward; `FirstFound`, `FirstInIs`
and `SectionStep` show that the places are the same, `HoldsKey` that setting a key is
what makes the last line count.

`JsonCorrect` (`JsonIsWellFormed`), for any number of calls and any
depth. The grammar is stated on the tokens alone, so the property says nothing of what
the stack allows next. `JsonInv` gives each item of the stack the place of its bracket
(`Brackets`: the depth at place `b[i]` is `i` and never less behind it), from which the
bracket around the next token is the last of them (`AroundNext`), and says what the
state of the top item means for the last token (`TopFits`). Each call is then a few
tokens, each allowed after the one before (`GoodMore`).

`OptionsCorrect` (`OptionsAreAsGiven`), for all options and arguments, with the
assumption that an option is registered in the list or in the map and not in both (the
containers own their options). What an argument is depends on the one before it, and
`RoleOf` says so by recursion; `RolesExist` shows with a least counterexample that the
recursion has a solution. `OptInv` says that the parser stands at an argument that is
not a value (`PlaceOK`), that `currentIndex_` is what the number of words so far calls
for (`IndexFor`), and that stars and values are those of the arguments read (`StarsOK`,
`ValuesOK`). An option of the map moves none of it (`OptionRead`); a word either has no
place (`WordDropped`) or is the next value of its place (`WordTaken`).

`MatcherCorrect` (`MatcherIsRight`), for every template and every string. `MatcherInv`
gives each node the part of the template it was made of (`NodesAt`), so that a node
that fits consumes what the items of its part consume (`NodeStep`) and sets what its
bracket says (`SubStep`). The property finds the partner of a bracket by counting, the
parser with its stack; `OpenedOK` names the bracket of each item of the stack, below
which the depth does not fall again (`StackItem`), and from it follow both the pair
that a ")" makes (`TopPairs`) and that a bracket left on the stack has no partner
(`PartnerIs`). Which characters begin an item is a recursive function of the template,
shown to exist with a least counterexample (`StartsExist`).

**Only model-checked.** Liveness and fairness, `ImplementsBag`, and everything about
`BTree`, whose operations are RECURSIVE operators, which the prover does not accept.

## 5. What is not modelled, and the plan

Modelled, in the order of importance: the event loop with its selector, the tree, the
transaction, the daemon that composes loop and transaction; then readers, database
clients, shared paths, processes, containers, values and parsers.

Worth proving next: the tree, once its descents are recursive functions rather than
RECURSIVE operators.

Worth modelling next: `BitSet`, string literals with their escapes over the character
sources of `tp`, and the conversion of PostgreSQL parameters.

Left out for good: formatting, strings, exceptions and tables (character by character
conversions, which a model would only transcribe); wrappers of one system call
(addresses, socket options, stat, directory readers); loggers; `Variant`; the handles of
the MySQL client, which adds no retry; RegExp, which forwards to PCRE; Perl glue and
packaging.

The map covers what is built and has behaviour of its own. Much of the tree is neither:
`src/trunk/perl` holds two generated copies of `ppport.h` and a vendored Math::Int64,
`_OLD_CODE`, `_TODO` and `todo` hold retired and unfinished copies that no build file
names, and `src/trunk/tests` is for the most part experiments and unit tests. A model of
those would describe no program.
