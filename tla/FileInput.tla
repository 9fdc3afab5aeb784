------------------------------ MODULE FileInput ------------------------------
(***************************************************************************)
(* XTL::FileInputStream and XTL::FileInputStreamBuffered (io/), on top of    *)
(* XTL::File, reading a file that another process may extend or truncate.   *)
(*                                                                         *)
(* Byte number i of the file is the integer i, so that what a Read delivers *)
(* tells where it was read from; Junk is a byte of the inBuffer's array that  *)
(* was never written.  A read of n bytes is one step: File::Read loops over  *)
(* ::read(), but another process that changes the file in the middle of the *)
(* loop brings about one of the outcomes that FileReads lists anyway.       *)
(*                                                                         *)
(* The same state serves both classes: a FileInputStream is the case        *)
(* "plain", where the inBuffer stays empty and Seek may be called.            *)
(***************************************************************************)
EXTENDS Integers

CONSTANTS
    Capacities,         \* the buffer capacities of the streams opened
    ReadSizes,          \* the sizes a caller asks for
    FileLengths,        \* the lengths the file may have
    FILE_SIZE_MODULUS,  \* FileSize is an unsigned integer below this
    MaxResizes,         \* bound: how often the file changes its length
    MaxReadFaults       \* bound: reads that fail or are given up after EINTR

ASSUME InputAssumption ==
    /\ Capacities \subseteq Nat
    /\ ReadSizes \subseteq Nat
    /\ FileLengths \subseteq Nat
    /\ FILE_SIZE_MODULUS \in Nat
    /\ \A l \in FileLengths : l < FILE_SIZE_MODULUS
    /\ MaxResizes \in Nat
    /\ MaxReadFaults \in Nat

VARIABLES
    length,     \* the length of the file
    resizes,    \* how often it has changed
    faults,     \* how many reads have failed
    stream,     \* FileInputStream: [opened, plain, offset, position, size]
    inBuffer,     \* FileInputStreamBuffered::Buffer: [capacity, data, size, position]
    consumed,   \* history: the byte the caller expects next, until a Read throws
    failed,     \* history: a Read has thrown (and no Seek came after it)
    last        \* history: the last Read of the caller

inputVars == <<length, resizes, faults, stream, inBuffer, consumed, failed, last>>

Junk == -1

\* XTL::Min (utils/Algorithm.hpp).
Lesser(a, b) == IF a < b THEN a ELSE b

NoRead == [kind |-> "none", start |-> 0, size |-> 0, bytes |-> << >>,
           clean |-> TRUE, excused |-> TRUE]

\* The constructors: the file is opened and its size is asked for once.
InputInit ==
    /\ length \in FileLengths
    /\ resizes = 0
    /\ faults = 0
    /\ \E plain \in BOOLEAN :
           stream = [opened |-> TRUE, plain |-> plain, offset |-> 0,
                     position |-> 0, size |-> length]
    /\ \E capacity \in Capacities :
           inBuffer = [capacity |-> capacity, data |-> [i \in 0 .. (capacity - 1) |-> Junk],
                     size |-> 0, position |-> 0]
    /\ consumed = 0
    /\ failed = FALSE
    /\ last = NoRead

-----------------------------------------------------------------------------
\* Bytes from offset on that the file still has.
Remaining == IF stream.offset < length THEN length - stream.offset ELSE 0

\* What File::Read(n) can come to: so many bytes read, and whether by a fault
\* (a failing ::read(), or more signals than are tolerated).  At the end of
\* the file the count is short and there is no fault.
FileReads(n) ==
    {[count |-> Lesser(n, Remaining), fault |-> FALSE]}
    \cup {[count |-> k, fault |-> TRUE] :
             k \in IF faults < MaxReadFaults THEN 0 .. (Lesser(n, Remaining + 1) - 1) ELSE {}}

\* The test of FileInputStream::Read on what File::Read returned.
ReadIsWhole(n, read) == read.count = n

\* FileInputStream::Read(n): the kernel's offset moves by what was read,
\* position_ only when it was everything.
StreamAfterRead(n, read) ==
    [stream EXCEPT !.offset = @ + read.count,
                   !.position = IF ReadIsWhole(n, read) THEN @ + n ELSE @]

\* SeekableInputStream::AvailableSize, an unsigned difference: it wraps around
\* once the file has grown and was read beyond the size it had at first.
StreamAvailable == (stream.size - stream.position) % FILE_SIZE_MODULUS

\* Buffer::AvailableSize.
BufferAvailable == inBuffer.size - inBuffer.position

\* How a Read of n bytes from position "start" ended.
Report(kind, n, bytes, excused) ==
    /\ last' = [kind |-> kind, start |-> consumed, size |-> n, bytes |-> bytes,
                clean |-> ~failed, excused |-> excused]
    /\ consumed' = IF kind = "ok" /\ ~failed THEN consumed + n ELSE consumed
    /\ failed' = (failed \/ kind = "error")

\* A ReadError is to be expected when the caller asks for more than was there
\* at the start, when the file shrank, and when ::read() itself failed.
Excused(n, read) ==
    \/ read.fault
    \/ length < stream.size
    \/ consumed + n > stream.size

CountFault(read) == faults' = IF read.fault THEN faults + 1 ELSE faults

\* FileInputStream::Read called by the user of a plain stream, and
\* FileInputStreamBuffered::Read when what the buffer does not have is at
\* least as much as it can hold: "taken" bytes come from the buffer and the
\* rest goes directly to the caller.
Direct(n, taken) ==
    \E read \in FileReads(n - taken) :
        /\ stream' = StreamAfterRead(n - taken, read)
        /\ CountFault(read)
        /\ inBuffer' = [inBuffer EXCEPT !.position = @ + taken]
        /\ IF ReadIsWhole(n - taken, read)
           THEN Report("ok", n,
                       [i \in 0 .. (n - 1) |->
                           IF i < taken THEN inBuffer.data[inBuffer.position + i]
                           ELSE IF i - taken < read.count
                                THEN stream.offset + (i - taken)
                                ELSE Junk], FALSE)
           ELSE Report("error", n, << >>, Excused(n, read))

PlainRead(n) ==
    /\ stream.opened /\ stream.plain
    /\ Direct(n, 0)
    /\ UNCHANGED <<length, resizes>>

\* Buffer::Read takes what it can from the buffer.
Taken(n) == Lesser(n, BufferAvailable)

ReadFromBuffer(n) ==
    /\ stream.opened /\ ~stream.plain
    /\ Taken(n) = n
    /\ inBuffer' = [inBuffer EXCEPT !.position = @ + n]
    /\ Report("ok", n, [i \in 0 .. (n - 1) |-> inBuffer.data[inBuffer.position + i]], FALSE)
    /\ UNCHANGED <<length, resizes, faults, stream>>

ReadDirect(n) ==
    /\ stream.opened /\ ~stream.plain
    /\ n - Taken(n) > 0
    /\ n - Taken(n) >= inBuffer.capacity
    /\ Direct(n, Taken(n))
    /\ UNCHANGED <<length, resizes>>

\* How much Buffer::Update asks for: a full buffer, or what is left of the
\* file, but never less than the caller needs.
UpdateSize(minimumSize) ==
    IF StreamAvailable >= inBuffer.capacity THEN inBuffer.capacity
    ELSE IF StreamAvailable < minimumSize THEN minimumSize ELSE StreamAvailable

\* Mutant: the bytes handed out right after Update stay in the buffer.
PositionAfterUpdateZero(rest) == 0

\* position_ after Update and the Buffer::Read(rest) that follows it.
PositionAfterUpdate(rest) == rest

\* Buffer::Update, then Buffer::Read for the rest.  size_ and position_ are
\* assigned before the read, so they stay so when it throws.
ReadThroughUpdate(n) ==
    LET taken == Taken(n)
        rest  == n - taken
        size  == UpdateSize(rest)
    IN  /\ stream.opened /\ ~stream.plain
        /\ rest > 0
        /\ rest < inBuffer.capacity
        /\ \E read \in FileReads(size) :
              LET data == [i \in DOMAIN inBuffer.data |->
                              IF i < read.count THEN stream.offset + i
                              ELSE inBuffer.data[i]]
              IN  /\ stream' = StreamAfterRead(size, read)
                  /\ CountFault(read)
                  /\ inBuffer' = [inBuffer EXCEPT
                        !.data = data, !.size = size,
                        !.position = IF ReadIsWhole(size, read)
                                     THEN PositionAfterUpdate(rest) ELSE 0]
                  /\ IF ReadIsWhole(size, read)
                     THEN Report("ok", n,
                                 [i \in 0 .. (n - 1) |->
                                     IF i < taken THEN inBuffer.data[inBuffer.position + i]
                                     ELSE data[i - taken]], FALSE)
                     ELSE Report("error", n, << >>, Excused(n, read))
        /\ UNCHANGED <<length, resizes>>

\* FileInputStream::Seek, of plain streams only.
InputSeek(offset) ==
    /\ stream.opened /\ stream.plain
    /\ stream' = [stream EXCEPT !.offset = offset, !.position = offset]
    /\ consumed' = offset
    /\ failed' = FALSE
    /\ UNCHANGED <<length, resizes, faults, inBuffer, last>>

\* FileInputStream::Close.
InputClose ==
    /\ stream.opened /\ stream.plain
    /\ stream' = [stream EXCEPT !.opened = FALSE]
    /\ UNCHANGED <<length, resizes, faults, inBuffer, consumed, failed, last>>

\* File::Read of a closed file throws and changes nothing.
ReadClosed(n) ==
    /\ ~stream.opened
    /\ Report("error", n, << >>, TRUE)
    /\ UNCHANGED <<length, resizes, faults, stream, inBuffer>>

\* Another process extends or truncates the file.
Resize(newLength) ==
    /\ resizes < MaxResizes
    /\ length' = newLength
    /\ resizes' = resizes + 1
    /\ UNCHANGED <<faults, stream, inBuffer, consumed, failed, last>>

InputNext ==
    \/ \E n \in ReadSizes :
          \/ PlainRead(n)
          \/ ReadFromBuffer(n)
          \/ ReadDirect(n)
          \/ ReadThroughUpdate(n)
          \/ ReadClosed(n)
    \/ \E offset \in FileLengths : InputSeek(offset)
    \/ InputClose
    \/ \E newLength \in FileLengths : Resize(newLength)

InputSpec == InputInit /\ [][InputNext]_inputVars

-----------------------------------------------------------------------------
\* FileInputStreamBuffered::Position, FileInputStream::Position.
Position == stream.position - BufferAvailable

\* FileInputStreamBuffered::AtEnd.
AtEnd == inBuffer.position >= inBuffer.size /\ stream.position >= stream.size

\* Type invariant: the window of the buffer that the next Read copies from lies
\* inside its array, also after reads that threw.
InputTypeOK ==
    /\ length \in FileLengths
    /\ resizes \in 0 .. MaxResizes
    /\ faults \in 0 .. MaxReadFaults
    /\ stream \in [opened : BOOLEAN, plain : BOOLEAN, offset : Nat,
                   position : Nat, size : FileLengths]
    /\ inBuffer.capacity \in Capacities
    /\ inBuffer.data \in [0 .. (inBuffer.capacity - 1) -> Int]
    /\ inBuffer.size \in 0 .. inBuffer.capacity
    /\ inBuffer.position \in 0 .. inBuffer.size
    /\ consumed \in Nat
    /\ failed \in BOOLEAN

\* Up to and including the first Read that throws, every Read that returns has
\* delivered exactly the next bytes of the file, in order, wherever the buffer
\* was refilled in between and however the file was extended or truncated.
\* (After a ReadError this no longer holds: Buffer::Update has already claimed
\* the bytes that it could not read.)
DeliversTheFile ==
    last.kind = "ok" /\ last.clean =>
        last.bytes = [i \in 0 .. (last.size - 1) |-> last.start + i]

\* Until a Read throws, Position() is what the callers have consumed, although
\* the stream below is ahead of them by what the buffer holds, and AtEnd() does
\* not come before the last byte of the file as it was opened.
PositionIsConsumed ==
    ~failed => /\ Position = consumed
               /\ AtEnd => consumed >= stream.size

\* A caller that asks for no more than the file had when it was opened gets it:
\* neither the read-ahead nor a request that straddles the buffer's end makes
\* a Read fail, unless the file shrank or ::read() failed.
WhatIsThereCanBeRead ==
    last.kind = "error" /\ last.clean => last.excused

\* Readers of a file that changes under them get its bytes in order at the
\* positions they are told, or an error, and get what is there.
ReaderIsInStep ==
    InputTypeOK /\ DeliversTheFile /\ PositionIsConsumed /\ WhatIsThereCanBeRead
=============================================================================
