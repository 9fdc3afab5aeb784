--------------------------- MODULE FileTransaction ---------------------------
(***************************************************************************)
(* XTL::FileTransaction over FileOutputStreamBuffered, FileOutputStream and *)
(* File: what is written goes through a buffer to "<path>.tmp", and Commit  *)
(* makes it durable and renames it to <path>.                               *)
(*                                                                         *)
(* One step is one system call or one buffer operation, so that a signal    *)
(* (EINTR), a failing call or a crash of the machine can come between any   *)
(* two.  A call that throws leaves the object usable: the caller may call   *)
(* again.  Data are units numbered in the order in which they are passed.   *)
(***************************************************************************)
EXTENDS Integers, Sequences

CONSTANTS
    BufferCapacity,         \* bufferCapacity
    MAX_INTERRUPTS_IGNORES, \* EINTRs in one call that File hides from its caller
    MaxUnits,               \* bound: units passed to Write in all
    MaxInterrupts,          \* bound: signals that interrupt a system call
    MaxErrors               \* bound: system calls that fail

ASSUME FileAssumption ==
    /\ BufferCapacity \in Nat
    /\ MAX_INTERRUPTS_IGNORES \in Nat
    /\ MaxUnits \in Nat
    /\ MaxInterrupts \in Nat
    /\ MaxErrors \in Nat

VARIABLES
    pc,         \* "idle" between calls; "flush" and "direct" in File::Write,
                \* "fill" between the two; "sync", "close", "rename" in Commit;
                \* one of Ended
    call,       \* the call under way: "none", "write", "commit" or "destroy"
    passed,     \* units passed to Write so far
    request,    \* what the Write under way was passed
    accepted,   \* what all the Writes that returned were passed
    buffer,     \* FileOutputStreamBuffered::Buffer
    todo,       \* what File::Write still has to write
    patience,   \* interruptsCount of File::Write or File::Flush
    position,   \* FileOutputStream::position_
    isOpened,   \* File::IsOpened
    data,       \* the content of the temporary file
    synced,     \* how much of it is on the disk for certain
    renamed,    \* has the file got its final name?
    signals,    \* interruptions so far
    errors      \* failed system calls so far

fileVars == <<isOpened, data, synced, renamed>>
vars == <<pc, call, passed, request, accepted, buffer, todo, patience,
          position, fileVars, signals, errors>>

InFileWrite == pc \in {"flush", "direct"}

\* "terminated": an exception left a destructor, which calls std::terminate.
Ended == {"committed", "destroyed", "terminated", "crashed"}

Init ==
    /\ pc = "idle"
    /\ call = "none"
    /\ passed = 0
    /\ request = <<>>
    /\ accepted = <<>>
    /\ buffer = <<>>
    /\ todo = <<>>
    /\ patience = 0
    /\ position = 0
    /\ isOpened = TRUE
    /\ data = <<>>
    /\ synced = 0
    /\ renamed = FALSE
    /\ signals = 0
    /\ errors = 0

-----------------------------------------------------------------------------
(* FileOutputStreamBuffered::Write, called by FileTransaction::Write.       *)

\* The start of File::Write(what).
BeginFileWrite(what) ==
    /\ todo' = what
    /\ patience' = MAX_INTERRUPTS_IGNORES

\* Buffer::Flush, the first thing a call c does: an empty buffer is not written,
\* and the call goes on at next.
BeginFlush(c, next) ==
    /\ call' = c
    /\ pc' = IF buffer = <<>> THEN next ELSE "flush"
    /\ BeginFileWrite(buffer)

Fits(n) == n <= BufferCapacity - Len(buffer)

\* A request that fits goes into the buffer; otherwise the buffer goes first.
Write(n) ==
    LET new == [i \in 1 .. n |-> passed + i]
    IN  /\ pc = "idle"
        /\ passed + n <= MaxUnits
        /\ passed' = passed + n
        /\ IF Fits(n)
           THEN /\ buffer' = buffer \o new
                /\ accepted' = accepted \o new
                /\ UNCHANGED <<pc, call, request, todo, patience>>
           ELSE /\ request' = new
                /\ BeginFlush("write", "fill")
                /\ UNCHANGED <<buffer, accepted>>
        /\ UNCHANGED <<position, fileVars, signals, errors>>

\* Write returns.
Accept ==
    /\ pc' = "idle"
    /\ call' = "none"
    /\ request' = <<>>
    /\ accepted' = accepted \o request

\* After the flush, a request smaller than the buffer is buffered.
Fill ==
    /\ pc = "fill"
    /\ Len(request) < BufferCapacity
    /\ buffer' = buffer \o request
    /\ Accept
    /\ UNCHANGED <<passed, todo, patience, position, fileVars, signals, errors>>

\* A larger one is written directly.
WriteDirect ==
    /\ pc = "fill"
    /\ Len(request) >= BufferCapacity
    /\ pc' = "direct"
    /\ BeginFileWrite(request)
    /\ UNCHANGED <<call, passed, request, accepted, buffer, position, fileVars,
                   signals, errors>>

-----------------------------------------------------------------------------
(* File::Write: a loop of write(2).                                         *)

WriteSome ==
    /\ InFileWrite
    /\ isOpened
    /\ \E n \in 1 .. Len(todo) :
         /\ data' = data \o SubSeq(todo, 1, n)
         /\ todo' = SubSeq(todo, n + 1, Len(todo))
    /\ UNCHANGED <<pc, call, passed, request, accepted, buffer, patience,
                   position, isOpened, synced, renamed, signals, errors>>

\* A signal: File::Write tries again until its patience ends; then it returns
\* the number of bytes written so far, and no error.
WriteInterrupted ==
    /\ InFileWrite
    /\ isOpened
    /\ todo # <<>>
    /\ signals < MaxInterrupts
    /\ signals' = signals + 1
    /\ IF patience > 0
       THEN patience' = patience - 1 /\ UNCHANGED todo
       ELSE todo' = <<>> /\ UNCHANGED patience
    /\ UNCHANGED <<pc, call, passed, request, accepted, buffer, position,
                   fileVars, errors>>

AfterFlush ==
    CASE call = "write"   -> "fill"
      [] call = "commit"  -> "sync"
      [] call = "destroy" -> "destroyed"

\* Mistake: Buffer::Flush does not reset size_.
FlushKeepsBuffer ==
    /\ pc = "flush"
    /\ todo = <<>>
    /\ position' = position + Len(buffer)
    /\ pc' = AfterFlush
    /\ patience' = MAX_INTERRUPTS_IGNORES
    /\ UNCHANGED <<call, passed, request, accepted, buffer, todo, fileVars,
                   signals, errors>>

\* FileOutputStream::Write ignores the count File::Write returned: position_
\* grows by what was asked for, and the buffer is taken as written.
FlushReturns ==
    /\ pc = "flush"
    /\ todo = <<>>
    /\ position' = position + Len(buffer)
    /\ buffer' = <<>>
    /\ pc' = AfterFlush
    /\ patience' = MAX_INTERRUPTS_IGNORES
    /\ UNCHANGED <<call, passed, request, accepted, todo, fileVars, signals,
                   errors>>

DirectReturns ==
    /\ pc = "direct"
    /\ todo = <<>>
    /\ position' = position + Len(request)
    /\ Accept
    /\ UNCHANGED <<passed, buffer, todo, patience, fileVars, signals, errors>>

-----------------------------------------------------------------------------
(* FileTransaction::Commit: Flush, Close (which flushes the empty buffer     *)
(* again and calls File::Flush, an fsync), Rename.                          *)

Commit ==
    /\ pc = "idle"
    /\ BeginFlush("commit", "sync")
    /\ UNCHANGED <<passed, request, accepted, buffer, position, fileVars,
                   signals, errors>>

\* Mistake: Close without File::Flush.
CloseWithoutSync ==
    /\ pc = "sync"
    /\ isOpened
    /\ pc' = "close"
    /\ UNCHANGED <<call, passed, request, accepted, buffer, todo, patience,
                   position, fileVars, signals, errors>>

Sync ==
    /\ pc = "sync"
    /\ isOpened
    /\ synced' = Len(data)
    /\ pc' = "close"
    /\ UNCHANGED <<call, passed, request, accepted, buffer, todo, patience,
                   position, isOpened, data, renamed, signals, errors>>

Close ==
    /\ pc = "close"
    /\ isOpened' = FALSE
    /\ pc' = "rename"
    /\ UNCHANGED <<call, passed, request, accepted, buffer, todo, patience,
                   position, data, synced, renamed, signals, errors>>

\* After Commit its callers only destroy the object, which has nothing to do.
Rename ==
    /\ pc = "rename"
    /\ renamed' = TRUE
    /\ pc' = "committed"
    /\ call' = "none"
    /\ UNCHANGED <<passed, request, accepted, buffer, todo, patience, position,
                   isOpened, data, synced, signals, errors>>

\* ~FileOutputStreamBuffered without a Commit: the buffer is flushed.
Destroy ==
    /\ pc = "idle"
    /\ BeginFlush("destroy", "destroyed")
    /\ UNCHANGED <<passed, request, accepted, buffer, position, fileVars,
                   signals, errors>>

-----------------------------------------------------------------------------
(* Failures.                                                                *)

\* Mistake: Buffer::Flush resets size_ before it writes.
ThrowDropsBuffer ==
    /\ pc' = IF call = "destroy" THEN "terminated" ELSE "idle"
    /\ call' = "none"
    /\ request' = <<>>
    /\ todo' = <<>>
    /\ buffer' = <<>>
    /\ UNCHANGED <<passed, accepted, patience, position, data, synced, renamed>>

\* The call throws; nobody catches an exception of the destructor.
Throw ==
    /\ pc' = IF call = "destroy" THEN "terminated" ELSE "idle"
    /\ call' = "none"
    /\ request' = <<>>
    /\ todo' = <<>>
    /\ UNCHANGED <<passed, accepted, buffer, patience, position, data, synced,
                   renamed>>

\* File::Flush gives up with UnixError::Interrupted when its patience ends.
SyncInterrupted ==
    /\ pc = "sync"
    /\ isOpened
    /\ signals < MaxInterrupts
    /\ signals' = signals + 1
    /\ IF patience > 0
       THEN /\ patience' = patience - 1
            /\ UNCHANGED <<pc, call, passed, request, accepted, buffer, todo,
                           position, data, synced, renamed>>
       ELSE Throw
    /\ UNCHANGED <<isOpened, errors>>

InSystemCall ==
    \/ InFileWrite /\ isOpened /\ todo # <<>>
    \/ pc = "sync" /\ isOpened
    \/ pc \in {"close", "rename"}

\* write, fsync, close or rename fails; a close that fails closes all the same.
SystemCallFails ==
    /\ InSystemCall
    /\ errors < MaxErrors
    /\ errors' = errors + 1
    /\ isOpened' = (isOpened /\ pc # "close")
    /\ Throw
    /\ UNCHANGED signals

\* File refuses a closed file: a Commit that failed late cannot be repeated.
FileIsClosed ==
    /\ pc = "sync" \/ (InFileWrite /\ todo # <<>>)
    /\ ~isOpened
    /\ Throw
    /\ UNCHANGED <<isOpened, signals, errors>>

\* The machine stops: of what was not synced the disk holds any part, and the
\* directory may hold the old name.
Crash ==
    /\ pc # "crashed"
    /\ pc' = "crashed"
    /\ \E n \in synced .. Len(data) : data' = SubSeq(data, 1, n)
    /\ renamed' \in {renamed, FALSE}
    /\ UNCHANGED <<call, passed, request, accepted, buffer, todo, patience,
                   position, isOpened, synced, signals, errors>>

Done ==
    /\ pc \in Ended
    /\ UNCHANGED vars

Next ==
    \/ \E n \in 1 .. MaxUnits : Write(n)
    \/ Fill \/ WriteDirect
    \/ WriteSome \/ WriteInterrupted \/ FlushReturns \/ DirectReturns
    \/ Commit \/ Sync \/ SyncInterrupted \/ Close \/ Rename
    \/ Destroy
    \/ SystemCallFails \/ FileIsClosed \/ Crash
    \/ Done

Spec == Init /\ [][Next]_vars
-----------------------------------------------------------------------------
(* Properties.                                                              *)

\* Type invariant; the buffer never holds more than its capacity.
TypeOK ==
    /\ pc \in {"idle", "flush", "fill", "direct", "sync", "close", "rename"}
              \cup Ended
    /\ call \in {"none", "write", "commit", "destroy"}
    /\ passed \in 0 .. MaxUnits
    /\ request \in Seq(1 .. MaxUnits)
    /\ accepted \in Seq(1 .. MaxUnits)
    /\ buffer \in Seq(1 .. MaxUnits) /\ Len(buffer) <= BufferCapacity
    /\ todo \in Seq(1 .. MaxUnits)
    /\ patience \in 0 .. MAX_INTERRUPTS_IGNORES
    /\ position \in Nat
    /\ isOpened \in BOOLEAN
    /\ data \in Seq(1 .. MaxUnits)
    /\ synced \in 0 .. Len(data)
    /\ renamed \in BOOLEAN
    /\ signals \in 0 .. MaxInterrupts
    /\ errors \in 0 .. MaxErrors

\* Between two calls Position() is the amount of data that the Writes that
\* returned were passed, whatever failed or was interrupted before.
PositionIsAccepted ==
    pc = "idle" => position + Len(buffer) = Len(accepted)

\* The buffer never holds more than its capacity, and Position() counts what was
\* accepted, through partial writes, retries and failures.
WritingIsAccounted == TypeOK /\ PositionIsAccepted

\* As long as no call has failed, a file under its final name holds exactly what
\* was written, in order, even after a crash of the machine: Commit gives the
\* file its name only when all of it is on the disk.
CommittedIsWhole ==
    renamed /\ errors = 0 => data = accepted

IsSubsequence(s, t) ==
    \E at \in [1 .. Len(s) -> 1 .. Len(t)] :
        /\ \A i \in 1 .. Len(s) : t[at[i]] = s[i]
        /\ \A i, j \in 1 .. Len(s) : i < j => at[i] < at[j]

\* After failed calls that the caller repeated, a committed file still misses
\* nothing of what was accepted, in order; what a failed write had written
\* already is there twice.
CommittedMissesNothing ==
    renamed => IsSubsequence(accepted, data)

\* A file gets its final name only in a Commit and with all its data on the
\* disk; from then on nothing but a crash touches it.
FinalFileIsFrozen ==
    [][/\ renamed' /\ ~renamed => call = "commit" /\ synced = Len(data)
       /\ renamed => pc' = "crashed" \/ UNCHANGED fileVars]_vars
=============================================================================
