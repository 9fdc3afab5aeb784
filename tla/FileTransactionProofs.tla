------------------------ MODULE FileTransactionProofs ------------------------
(***************************************************************************)
(* Proofs about FileTransaction, for every buffer capacity, amount of data  *)
(* and number of failures: the type invariant, PositionIsAccepted, and, as  *)
(* long as no more signals come than File tolerates, CommittedIsWhole and,  *)
(* whatever fails, CommittedMissesNothing.                                  *)
(***************************************************************************)
EXTENDS FileTransaction, SequenceTheorems, TLAPS

Unit == 1 .. MaxUnits

\* What is true of the control state whatever fails.
ControlInv ==
    /\ pc \in {"fill", "direct", "sync", "close", "rename"} => buffer = <<>>
    /\ pc = "flush" => call \in {"write", "commit", "destroy"}
    /\ pc \in {"sync", "close", "rename"} => call = "commit"

\* Position() during every call.
PositionInv == position + Len(buffer) = Len(accepted)

\* From the fsync on, all data is on the disk.
DurableInv ==
    /\ pc \in {"close", "rename"} => synced = Len(data)
    /\ renamed => pc \in {"committed", "crashed"} /\ synced = Len(data)

\* Where the accepted data is during every call, as long as no call failed and
\* patience lasts.
ContentInv ==
    errors = 0 =>
      /\ pc = "idle" => data \o buffer = accepted
      /\ pc = "flush" => data \o todo = accepted
      /\ pc = "direct" => data \o todo = accepted \o request
      /\ pc \in {"fill", "sync", "close", "rename"} => data = accepted
      /\ renamed => data = accepted
      /\ ~isOpened => pc \in {"rename"} \cup Ended

PatienceInv == InFileWrite => patience + signals >= MAX_INTERRUPTS_IGNORES

-----------------------------------------------------------------------------
(* Sequences.                                                               *)

\* A sequence cut in two is the two parts.
LEMMA Slices ==
    ASSUME NEW S, NEW s \in Seq(S), NEW n \in 0 .. Len(s)
    PROVE  /\ SubSeq(s, 1, n) \in Seq(S)
           /\ Len(SubSeq(s, 1, n)) = n
           /\ SubSeq(s, n + 1, Len(s)) \in Seq(S)
           /\ SubSeq(s, 1, n) \o SubSeq(s, n + 1, Len(s)) = s
           /\ n = Len(s) => SubSeq(s, 1, n) = s
<1>0. Len(s) \in Nat /\ n \in Nat /\ n <= Len(s) /\ \A i \in 1 .. Len(s) : s[i] \in S
  BY LenProperties, ElementOfSeq
<1>1. /\ SubSeq(s, 1, n) \in Seq(S)
      /\ Len(SubSeq(s, 1, n)) = IF 1 <= n THEN n - 1 + 1 ELSE 0
  BY <1>0, SubSeqProperties
<1>2. SubSeq(s, n + 1, Len(s)) \in Seq(S)
  BY <1>0, SubSeqProperties
<1>3. SubSeq(s, 1, n) \o SubSeq(s, n + 1, Len(s)) = SubSeq(s, 1, Len(s))
  <2>1. 1 \in 1 .. Len(s) + 1 /\ n \in (1 - 1) .. Len(s) /\ Len(s) \in n .. Len(s)
    BY <1>0
  <2> QED
    BY <2>1, ConcatAdjacentSubSeq
<1>4. SubSeq(s, 1, Len(s)) = s
  BY SubSeqFull
<1>5. Len(SubSeq(s, 1, n)) = n
  BY <1>0, <1>1
<1> QED
  BY <1>1, <1>2, <1>3, <1>4, <1>5, Zenon

\* Concatenation is associative.
IsAssociative(a, b, c) == (a \o b) \o c = a \o (b \o c)

\* Concatenation is so for all sequences.
LEMMA Associative ==
    ASSUME NEW S, NEW a \in Seq(S), NEW b \in Seq(S), NEW c \in Seq(S)
    PROVE  IsAssociative(a, b, c)
  BY ConcatAssociative DEF IsAssociative

\* The units of a new request.
LEMMA NewUnits ==
    ASSUME NEW m \in Nat, NEW n \in Nat, m + n <= MaxUnits
    PROVE  LET new == [i \in 1 .. n |-> m + i]
           IN  new \in Seq(Unit) /\ Len(new) = n
<1> DEFINE new == [i \in 1 .. n |-> m + i]
<1>1. new \in [1 .. n -> Unit]
  BY FileAssumption DEF Unit
<1> QED
  BY <1>1

-----------------------------------------------------------------------------
(* The type invariant.                                                      *)

TypeInv == TypeOK /\ ControlInv

\* The type invariant holds initially.
LEMMA TypeInit == Init => TypeInv
<1>1. <<>> \in Seq(1 .. MaxUnits) /\ Len(<<>>) = 0
  BY EmptySeq
<1>2. Init => isOpened \in BOOLEAN /\ renamed \in BOOLEAN
  BY Zenon DEF Init
<1> QED
  BY <1>1, <1>2, FileAssumption DEF Init, TypeInv, TypeOK, ControlInv, Ended

\* Every step preserves it.
LEMMA TypeStep ==
    ASSUME TypeInv, [Next]_vars
    PROVE  TypeInv'
<1> USE FileAssumption DEF TypeInv
<1>0. TypeOK /\ ControlInv
  OBVIOUS
<1>1. ASSUME NEW n \in 1 .. MaxUnits, Write(n) PROVE TypeInv'
  <2> DEFINE new == [i \in 1 .. n |-> passed + i]
  <2>1. new \in Seq(Unit) /\ Len(new) = n
    <3>1. passed \in Nat /\ n \in Nat /\ passed + n <= MaxUnits
      BY <1>0, <1>1 DEF Write, TypeOK
    <3> QED
      BY <3>1, NewUnits
  <2>2. CASE Fits(n)
    <3>1. /\ buffer' = buffer \o new
          /\ accepted' = accepted \o new
          /\ passed' = passed + n
          /\ passed + n <= MaxUnits
          /\ UNCHANGED <<pc, call, request, todo, patience, position, fileVars, signals, errors>>
          /\ pc = "idle"
      BY <1>1, <2>2 DEF Write
    <3> HIDE DEF new
    <3>2. /\ buffer' \in Seq(Unit) /\ Len(buffer') = Len(buffer) + n
          /\ accepted' \in Seq(Unit)
      <4>1. buffer \in Seq(Unit) /\ accepted \in Seq(Unit)
        BY <1>0 DEF TypeOK, Unit
      <4> QED
        BY <3>1, <2>1, <4>1, ConcatProperties
    <3> QED
      BY <3>1, <3>2, <2>2, <1>0 DEF TypeOK, ControlInv, Fits, fileVars, Unit
  <2>3. CASE ~Fits(n)
    <3>1. /\ request' = new
          /\ todo' = buffer
          /\ patience' = MAX_INTERRUPTS_IGNORES
          /\ call' = "write"
          /\ pc' = IF buffer = <<>> THEN "fill" ELSE "flush"
          /\ passed' = passed + n
          /\ passed + n <= MaxUnits
          /\ UNCHANGED <<buffer, accepted, position, fileVars, signals, errors>>
      BY <1>1, <2>3 DEF Write, BeginFlush, BeginFileWrite
    <3> HIDE DEF new
    <3> QED
      BY <3>1, <2>1, <1>0 DEF TypeOK, ControlInv, fileVars, Unit
  <2> QED
    BY <2>2, <2>3
<1>2. CASE Fill
  <2>1. buffer = <<>> /\ request \in Seq(Unit) /\ accepted \in Seq(Unit)
    BY <1>2, <1>0 DEF Fill, TypeOK, ControlInv, Unit
  <2>2. buffer \o request = request /\ accepted \o request \in Seq(Unit)
    BY <2>1, ConcatEmptySeq, ConcatProperties
  <2> QED
    BY <1>2, <1>0, <2>1, <2>2 DEF Fill, Accept, TypeOK, ControlInv, fileVars, Unit
<1>3. CASE WriteDirect
  BY <1>3, <1>0 DEF WriteDirect, BeginFileWrite, TypeOK, ControlInv, fileVars
<1>4. CASE WriteSome
  <2>1. PICK n \in 1 .. Len(todo) :
          /\ data' = data \o SubSeq(todo, 1, n)
          /\ todo' = SubSeq(todo, n + 1, Len(todo))
    BY <1>4 DEF WriteSome
  <2>2. todo \in Seq(Unit) /\ n \in 0 .. Len(todo)
    BY <1>0, <2>1 DEF TypeOK, Unit
  <2>3. SubSeq(todo, 1, n) \in Seq(Unit) /\ SubSeq(todo, n + 1, Len(todo)) \in Seq(Unit)
    BY <2>2, Slices
  <2>4. data' \in Seq(Unit) /\ Len(data') >= Len(data)
    BY <2>1, <2>3, <1>0, ConcatProperties, LenProperties, SMTT(30) DEF TypeOK, Unit
  <2> QED
    BY <1>4, <1>0, <2>1, <2>3, <2>4, SMTT(30) DEF WriteSome, InFileWrite, TypeOK, ControlInv, Unit
<1>5. CASE WriteInterrupted
  <2>1. <<>> \in Seq(Unit)
    BY EmptySeq
  <2> QED
    <3>1. todo' \in Seq(1 .. MaxUnits) /\ patience' \in 0 .. MAX_INTERRUPTS_IGNORES
      <4>1. todo' = todo \/ todo' = <<>>
        BY <1>5, Zenon DEF WriteInterrupted
      <4>2. patience' = patience \/ (patience > 0 /\ patience' = patience - 1)
        BY <1>5, Zenon DEF WriteInterrupted
      <4>3. todo \in Seq(1 .. MaxUnits) /\ patience \in 0 .. MAX_INTERRUPTS_IGNORES
        BY <1>0 DEF TypeOK
      <4>4. todo' \in Seq(1 .. MaxUnits)
        BY <4>1, <4>3, <2>1, Zenon DEF Unit
      <4>5. patience' \in 0 .. MAX_INTERRUPTS_IGNORES
        BY <4>2, <4>3
      <4> QED
        BY <4>4, <4>5
    <3>2. signals' \in 0 .. MaxInterrupts
      BY <1>5, <1>0 DEF WriteInterrupted, TypeOK
    <3> QED
      BY <1>5, <1>0, <3>1, <3>2 DEF WriteInterrupted, InFileWrite, TypeOK, ControlInv, fileVars
<1>6. CASE FlushReturns
  <2>1. AfterFlush \in {"fill", "sync", "destroyed"} /\ (AfterFlush = "sync" => call = "commit")
    BY <1>6, <1>0 DEF FlushReturns, ControlInv, AfterFlush
  <2>2. Len(buffer) \in Nat
    BY <1>0 DEF TypeOK
  <2> QED
    BY <1>6, <1>0, <2>1, <2>2 DEF FlushReturns, TypeOK, ControlInv, fileVars, Ended
<1>7. CASE DirectReturns
  <2>1. request \in Seq(Unit) /\ accepted \in Seq(Unit)
    BY <1>0 DEF TypeOK, Unit
  <2>2. accepted \o request \in Seq(Unit) /\ Len(request) \in Nat /\ <<>> \in Seq(Unit)
    BY <2>1, ConcatProperties, LenProperties, EmptySeq
  <2> QED
    BY <1>7, <1>0, <2>2 DEF DirectReturns, Accept, TypeOK, ControlInv, fileVars, Unit
<1>8. CASE Commit
  BY <1>8, <1>0 DEF Commit, BeginFlush, BeginFileWrite, TypeOK, ControlInv, fileVars
<1>9. CASE Sync
  BY <1>9, <1>0 DEF Sync, TypeOK, ControlInv
<1>10. CASE Close
  BY <1>10, <1>0 DEF Close, TypeOK, ControlInv
<1>11. CASE Rename
  <2>1. renamed' \in BOOLEAN
    BY <1>11, Zenon DEF Rename
  <2> QED
    BY <1>11, <1>0, <2>1 DEF Rename, TypeOK, ControlInv, Ended
<1>12. CASE Destroy
  BY <1>12, <1>0 DEF Destroy, BeginFlush, BeginFileWrite, TypeOK, ControlInv, fileVars, Ended
<1>13. CASE SyncInterrupted
  <2>1. CASE patience > 0
    BY <1>13, <1>0, <2>1 DEF SyncInterrupted, TypeOK, ControlInv, Ended
  <2>2. CASE ~(patience > 0)
    <3>1. Throw /\ signals < MaxInterrupts /\ signals' = signals + 1
          /\ UNCHANGED <<isOpened, errors>>
      BY <1>13, <2>2, Zenon DEF SyncInterrupted
    <3> QED
      BY <3>1, <1>0 DEF Throw, TypeOK, ControlInv, Ended
  <2> QED
    BY <2>1, <2>2
<1>14. CASE SystemCallFails
  BY <1>14, <1>0 DEF SystemCallFails, Throw, TypeOK, ControlInv, Ended
<1>15. CASE FileIsClosed
  BY <1>15, <1>0 DEF FileIsClosed, Throw, TypeOK, ControlInv, Ended
<1>16. CASE Crash
  <2>1. PICK n \in synced .. Len(data) : data' = SubSeq(data, 1, n)
    BY <1>16 DEF Crash
  <2>2. data \in Seq(Unit) /\ n \in 0 .. Len(data) /\ synced \in 0 .. n
    BY <2>1, <1>0 DEF TypeOK, Unit
  <2>3. data' \in Seq(Unit) /\ Len(data') = n
    BY <2>1, <2>2, Slices
  <2> QED
    BY <1>16, <1>0, <2>2, <2>3 DEF Crash, TypeOK, ControlInv, Ended, Unit
<1>17. CASE UNCHANGED vars
  BY <1>17, <1>0 DEF vars, fileVars, TypeOK, ControlInv
<1>18. CASE Done
  BY <1>18, <1>17 DEF Done
<1> QED
  BY <1>1, <1>2, <1>3, <1>4, <1>5, <1>6, <1>7, <1>8, <1>9, <1>10, <1>11, <1>12,
     <1>13, <1>14, <1>15, <1>16, <1>17, <1>18 DEF Next

\* Every buffer and counter stays in its range; in particular the buffer never
\* holds more than its capacity (Buffer::Write has no check of its own).
THEOREM TypeCorrect == Spec => []TypeOK
<1>1. Init => TypeInv
  BY TypeInit
<1>2. TypeInv /\ [Next]_vars => TypeInv'
  BY TypeStep
<1>3. TypeInv => TypeOK
  BY DEF TypeInv
<1> QED
  BY <1>1, <1>2, <1>3, PTL DEF Spec
-----------------------------------------------------------------------------
(* Position().                                                              *)

\* Every step preserves PositionInv.
LEMMA PositionStep ==
    ASSUME TypeInv, PositionInv, [Next]_vars
    PROVE  PositionInv'
<1>0. /\ buffer \in Seq(Unit) /\ accepted \in Seq(Unit) /\ request \in Seq(Unit)
      /\ position \in Nat /\ passed \in Nat
      /\ Len(buffer) \in Nat /\ Len(accepted) \in Nat /\ Len(request) \in Nat
      /\ position + Len(buffer) = Len(accepted)
  <2>1. /\ buffer \in Seq(Unit) /\ accepted \in Seq(Unit) /\ request \in Seq(Unit)
        /\ position \in Nat /\ passed \in Nat
    BY DEF TypeInv, TypeOK, Unit
  <2> QED
    BY <2>1, LenProperties DEF PositionInv
<1>01. /\ position \in Nat /\ Len(buffer) \in Nat /\ Len(accepted) \in Nat
       /\ Len(request) \in Nat /\ position + Len(buffer) = Len(accepted)
  BY <1>0, Zenon
<1>1. CASE UNCHANGED <<position, buffer, accepted>>
  BY <1>1, <1>0 DEF PositionInv
<1>2. ASSUME NEW n \in 1 .. MaxUnits, Write(n) PROVE PositionInv'
  <2> DEFINE new == [i \in 1 .. n |-> passed + i]
  <2>1. CASE Fits(n)
    <3>1. new \in Seq(Unit) /\ Len(new) = n
      <4>1. passed + n <= MaxUnits /\ n \in Nat
        BY <1>2 DEF Write
      <4> QED
        BY <4>1, <1>0, NewUnits
    <3>2. buffer' = buffer \o new /\ accepted' = accepted \o new /\ position' = position
      BY <1>2, <2>1 DEF Write
    <3> HIDE DEF new
    <3>3. Len(buffer') = Len(buffer) + n /\ Len(accepted') = Len(accepted) + n
      BY <1>0, <3>1, <3>2, ConcatProperties
    <3>4. n \in Nat /\ position' = position
      BY <3>2
    <3> QED
      BY <1>01, <3>3, <3>4 DEF PositionInv
  <2>2. CASE ~Fits(n)
    BY <1>1, <1>2, <2>2 DEF Write
  <2> QED
    BY <2>1, <2>2
<1>3. CASE Fill
  <2>1. Len(buffer') = Len(buffer) + Len(request) /\ Len(accepted') = Len(accepted) + Len(request)
    BY <1>0, <1>3, ConcatProperties DEF Fill, Accept
  <2>2. position' = position
    BY <1>3 DEF Fill
  <2> QED
    BY <1>01, <2>1, <2>2 DEF PositionInv
<1>4. CASE FlushReturns
  <2>1. Len(buffer') = 0
    BY <1>4 DEF FlushReturns
  <2> QED
    BY <1>0, <1>4, <2>1 DEF FlushReturns, PositionInv
<1>5. CASE DirectReturns
  <2>1. Len(accepted') = Len(accepted) + Len(request)
    BY <1>0, <1>5, ConcatProperties DEF DirectReturns, Accept
  <2> QED
    BY <1>0, <1>5, <2>1, SMTT(30) DEF DirectReturns, PositionInv
<1>6. CASE WriteDirect \/ WriteSome \/ WriteInterrupted \/ Commit \/ Sync \/ Close
           \/ Rename \/ Destroy \/ SystemCallFails \/ FileIsClosed \/ Crash \/ Done
  BY <1>1, <1>6 DEF WriteDirect, WriteSome, WriteInterrupted, Commit, Sync, Close,
     Rename, Destroy, SystemCallFails, FileIsClosed, Throw, Crash, Done, vars
<1>7. CASE SyncInterrupted
  <2>1. UNCHANGED <<position, buffer, accepted>>
    BY <1>7, Zenon DEF SyncInterrupted, Throw
  <2> QED
    BY <1>1, <2>1
<1> QED
  BY <1>1, <1>2, <1>3, <1>4, <1>5, <1>6, <1>7 DEF Next, vars

\* Position(), which StatsWriterServer compares with its limit, is the amount of
\* data accepted, whatever was interrupted, failed or was repeated.
THEOREM PositionCorrect == Spec => []PositionIsAccepted
<1>1. Init => TypeInv /\ PositionInv
  BY TypeInit DEF Init, PositionInv
<1>2. TypeInv /\ PositionInv /\ [Next]_vars => (TypeInv /\ PositionInv)'
  BY TypeStep, PositionStep
<1>3. TypeInv /\ PositionInv => PositionIsAccepted
  BY DEF PositionInv, PositionIsAccepted
<1> QED
  BY <1>1, <1>2, <1>3, PTL DEF Spec

\* The buffer never overruns, and Position() is what was accepted, through every
\* partial write, retry and failure.
THEOREM WritingCorrect == Spec => []WritingIsAccounted
<1>1. TypeOK /\ PositionIsAccepted => WritingIsAccounted
  BY DEF WritingIsAccounted
<1> QED
  BY <1>1, TypeCorrect, PositionCorrect, PTL

-----------------------------------------------------------------------------
(* Durability.                                                              *)

\* Before the fsync and after the rename nothing touches what DurableInv is
\* about; a crash keeps what is synced.
LEMMA DurableStep ==
    ASSUME TypeInv, DurableInv, [Next]_vars
    PROVE  DurableInv'
<1>0. /\ data \in Seq(Unit) /\ Len(data) \in Nat /\ synced \in 0 .. Len(data)
      /\ renamed \in BOOLEAN
  <2>1. data \in Seq(Unit) /\ synced \in 0 .. Len(data) /\ renamed \in BOOLEAN
    BY DEF TypeInv, TypeOK, Unit
  <2> QED
    BY <2>1, LenProperties
<1>1. CASE Crash
  <2>1. PICK n \in synced .. Len(data) : data' = SubSeq(data, 1, n)
    BY <1>1 DEF Crash
  <2>2. n \in 0 .. Len(data) /\ synced <= n
    BY <2>1, <1>0
  <2>3. Len(data') = n
    BY <2>1, <2>2, <1>0, Slices
  <2>4. renamed' => renamed /\ n = Len(data)
    <3>1. renamed' => renamed
      BY <1>1, <1>0, Zenon DEF Crash
    <3>2. renamed => synced = Len(data)
      BY Zenon DEF DurableInv
    <3>3. synced = Len(data) => n = Len(data)
      BY <1>0, <2>2
    <3> QED
      BY <3>1, <3>2, <3>3, Zenon
  <2> QED
    BY <1>1, <2>3, <2>4 DEF Crash, DurableInv
<1>2. CASE UNCHANGED vars
  BY <1>2 DEF vars, fileVars, DurableInv
<1>3. ASSUME NEW n \in 1 .. MaxUnits, Write(n) PROVE DurableInv'
  <2>1. pc = "idle" /\ pc' \in {"idle", "fill", "flush"} /\ UNCHANGED <<renamed, data, synced>>
    BY <1>3, Zenon DEF Write, BeginFlush, fileVars
  <2> QED
    BY <2>1 DEF DurableInv
<1>4. CASE Fill \/ WriteDirect \/ WriteInterrupted \/ DirectReturns \/ Commit \/ Destroy
  BY <1>4 DEF Fill, Accept, WriteDirect, WriteInterrupted, InFileWrite, DirectReturns, Commit,
     Destroy, BeginFlush, fileVars, DurableInv
<1>5. CASE WriteSome
  BY <1>5 DEF WriteSome, InFileWrite, DurableInv
<1>6. CASE FlushReturns
  <2>1. AfterFlush \in {"fill", "sync", "destroyed"}
    BY <1>6 DEF FlushReturns, TypeInv, ControlInv, AfterFlush
  <2> QED
    BY <1>6, <2>1 DEF FlushReturns, fileVars, DurableInv
<1>7. CASE Sync \/ Close
  BY <1>7 DEF Sync, Close, DurableInv
<1>8. CASE Rename
  BY <1>8 DEF Rename, DurableInv
<1>9. CASE SyncInterrupted
  <2>1. pc = "sync" /\ pc' \in {"sync", "idle", "terminated"} /\ UNCHANGED <<renamed, data, synced>>
    BY <1>9, Zenon DEF SyncInterrupted, Throw
  <2> QED
    BY <2>1 DEF DurableInv
<1>10. CASE SystemCallFails \/ FileIsClosed
  BY <1>10 DEF SystemCallFails, InSystemCall, FileIsClosed, InFileWrite, Throw, DurableInv
<1>11. CASE Done
  BY <1>11, <1>2 DEF Done
<1> QED
  BY <1>1, <1>2, <1>3, <1>4, <1>5, <1>6, <1>7, <1>8, <1>9, <1>10, <1>11 DEF Next
\* A file gets its final name only with all its data on the disk, and from then
\* on only a crash touches it.
THEOREM FinalFileCorrect == Spec => FinalFileIsFrozen
<1> DEFINE A == /\ renamed' /\ ~renamed => call = "commit" /\ synced = Len(data)
                /\ renamed => pc' = "crashed" \/ UNCHANGED fileVars
<1>1. Init => TypeInv /\ DurableInv
  BY TypeInit DEF Init, DurableInv
<1>2. TypeInv /\ DurableInv /\ [Next]_vars => (TypeInv /\ DurableInv)'
  BY TypeStep, DurableStep
<1>3. TypeInv /\ DurableInv /\ [Next]_vars => [A]_vars
  <2> SUFFICES ASSUME TypeInv, DurableInv, Next PROVE A
    OBVIOUS
  <2>1. CASE Rename
    <3>1. call = "commit" /\ synced = Len(data)
      BY <2>1 DEF Rename, TypeInv, ControlInv, DurableInv
    <3>2. ~renamed
      BY <2>1 DEF Rename, DurableInv
    <3> QED
      BY <3>1, <3>2
  <2>2. CASE Crash
    <3>1. renamed \in BOOLEAN
      BY DEF TypeInv, TypeOK
    <3>2. renamed' => renamed
      BY <2>2, <3>1, Zenon DEF Crash
    <3>3. pc' = "crashed"
      BY <2>2, Zenon DEF Crash
    <3> QED
      BY <3>2, <3>3, Zenon
  <2>3. CASE Done
    <3>1. UNCHANGED fileVars /\ renamed' = renamed
      BY <2>3 DEF Done, vars, fileVars
    <3> QED
      BY <3>1, Zenon
  <2>4. CASE /\ pc \notin {"committed", "crashed"}
             /\ renamed' = renamed
    BY <2>4 DEF DurableInv
  <2>5. ASSUME NEW n \in 1 .. MaxUnits, Write(n) PROVE A
    BY <2>4, <2>5 DEF Write, fileVars
  <2>6. CASE Fill \/ WriteDirect \/ WriteSome \/ WriteInterrupted \/ FlushReturns
             \/ DirectReturns \/ Commit \/ Sync \/ Close \/ Destroy
    BY <2>4, <2>6 DEF Fill, WriteDirect, WriteSome, WriteInterrupted, InFileWrite, FlushReturns,
       DirectReturns, Commit, Sync, Close, Destroy, fileVars
  <2>7. CASE SyncInterrupted
    <3>1. pc = "sync" /\ renamed' = renamed
      BY <2>7, Zenon DEF SyncInterrupted, Throw
    <3> QED
      BY <2>4, <3>1
  <2>8. CASE SystemCallFails \/ FileIsClosed
    BY <2>4, <2>8 DEF SystemCallFails, InSystemCall, FileIsClosed, InFileWrite, Throw
  <2> QED
    BY <2>1, <2>2, <2>3, <2>5, <2>6, <2>7, <2>8 DEF Next
<1> QED
  BY <1>1, <1>2, <1>3, PTL DEF Spec, FinalFileIsFrozen

-----------------------------------------------------------------------------
(* The content of the file.                                                 *)

\* With no more signals than one call tolerates, patience never ends.
LEMMA PatienceStep ==
    ASSUME TypeInv, PatienceInv, [Next]_vars
    PROVE  PatienceInv'
<1>0. patience \in Nat /\ signals \in Nat /\ MAX_INTERRUPTS_IGNORES \in Nat
  BY FileAssumption DEF TypeInv, TypeOK
<1>1. CASE ~InFileWrite'
  BY <1>1 DEF PatienceInv
<1>2. CASE patience' = MAX_INTERRUPTS_IGNORES /\ signals' = signals
  BY <1>2, <1>0 DEF PatienceInv
<1>3. CASE UNCHANGED <<pc, patience, signals>>
  BY <1>3 DEF PatienceInv, InFileWrite
<1>4. ASSUME NEW n \in 1 .. MaxUnits, Write(n) PROVE PatienceInv'
  <2>1. CASE Fits(n)
    BY <1>4, <1>3, <2>1 DEF Write
  <2>2. CASE ~Fits(n)
    BY <1>4, <1>2, <2>2 DEF Write, BeginFlush, BeginFileWrite
  <2> QED
    BY <2>1, <2>2
<1>5. CASE WriteInterrupted
  <2>1. InFileWrite /\ signals' = signals + 1
        /\ (patience' = patience \/ (patience > 0 /\ patience' = patience - 1))
    BY <1>5, Zenon DEF WriteInterrupted
  <2> QED
    BY <1>0, <2>1 DEF PatienceInv
<1>6. CASE Fill \/ DirectReturns \/ Sync \/ Close \/ Rename \/ Crash
  BY <1>1, <1>6 DEF Fill, Accept, DirectReturns, Sync, Close, Rename, Crash, InFileWrite
<1>7. CASE WriteDirect \/ Commit \/ Destroy \/ FlushReturns
  BY <1>2, <1>7 DEF WriteDirect, Commit, Destroy, BeginFlush, BeginFileWrite, FlushReturns
<1>8. CASE WriteSome \/ Done \/ UNCHANGED vars
  BY <1>3, <1>8 DEF WriteSome, Done, vars
<1>9. CASE SyncInterrupted
  <2>1. pc' \in {"sync", "idle", "terminated"}
    BY <1>9, Zenon DEF SyncInterrupted, Throw
  <2> QED
    BY <1>1, <2>1 DEF InFileWrite
<1>10. CASE SystemCallFails \/ FileIsClosed
  <2>1. pc' \in {"idle", "terminated"}
    BY <1>10, Zenon DEF SystemCallFails, FileIsClosed, Throw
  <2> QED
    BY <1>1, <2>1 DEF InFileWrite
<1> QED
  BY <1>4, <1>5, <1>6, <1>7, <1>8, <1>9, <1>10 DEF Next

\* Every unit accepted is in exactly one place, in order, during every call.
LEMMA ContentStep ==
    ASSUME MaxInterrupts <= MAX_INTERRUPTS_IGNORES,
           TypeInv, DurableInv, PatienceInv, ContentInv, [Next]_vars
    PROVE  ContentInv'
<1> DEFINE Goal == /\ pc = "idle" => data \o buffer = accepted
                   /\ pc = "flush" => data \o todo = accepted
                   /\ pc = "direct" => data \o todo = accepted \o request
                   /\ pc \in {"fill", "sync", "close", "rename"} => data = accepted
                   /\ renamed => data = accepted
                   /\ ~isOpened => pc \in {"rename"} \cup Ended
<1>0. /\ buffer \in Seq(Unit) /\ accepted \in Seq(Unit) /\ request \in Seq(Unit)
      /\ data \in Seq(Unit) /\ todo \in Seq(Unit)
  BY DEF TypeInv, TypeOK, Unit
<1>assoc. \A a, b, c \in Seq(Unit) : (a \o b) \o c = a \o (b \o c)
  <2> TAKE a, b, c \in Seq(Unit)
  <2>1. IsAssociative(a, b, c)
    BY Associative, Zenon
  <2> QED
    BY <2>1 DEF IsAssociative
<1>00. /\ passed \in Nat /\ patience \in Nat /\ signals \in Nat /\ errors \in Nat
       /\ isOpened \in BOOLEAN /\ renamed \in BOOLEAN
  BY DEF TypeInv, TypeOK
<1>1. CASE errors' # 0
  BY <1>1 DEF ContentInv
<1> SUFFICES ASSUME errors' = 0 PROVE Goal'
  BY <1>1 DEF ContentInv
<1>2. errors = 0 /\ ~SystemCallFails
  <2>1. SystemCallFails => errors' = errors + 1
    BY Zenon DEF SystemCallFails
  <2>2. ~SystemCallFails
    BY <1>00, <2>1
  <2>3. errors' = errors
    BY <2>2 DEF Next, vars, Write, Fill, WriteDirect, WriteSome, WriteInterrupted, FlushReturns,
       DirectReturns, Commit, Sync, SyncInterrupted, Close, Rename, Destroy, FileIsClosed,
       Crash, Done
  <2> QED
    BY <2>2, <2>3
<1>3. Goal
  BY <1>2 DEF ContentInv
<1> HIDE DEF Goal
<1>4. pc \in {"idle", "flush", "fill", "direct", "sync", "close"} => ~renamed /\ isOpened
  BY <1>3, <1>00 DEF Goal, DurableInv, Ended
<1>5. pc \in {"fill", "direct", "sync", "close", "rename"} => buffer = <<>>
  BY DEF TypeInv, ControlInv
<1>6. ASSUME NEW n \in 1 .. MaxUnits, Write(n) PROVE Goal'
  <2> DEFINE new == [i \in 1 .. n |-> passed + i]
  <2>1. pc = "idle" /\ ~renamed /\ isOpened /\ data \o buffer = accepted
    BY <1>3, <1>4, <1>6 DEF Write, Goal
  <2>2. UNCHANGED <<isOpened, data, synced, renamed>>
    BY <1>6 DEF Write, fileVars
  <2>3. CASE Fits(n)
    <3>1. new \in Seq(Unit)
      <4>1. passed + n <= MaxUnits /\ n \in Nat
        BY <1>6 DEF Write
      <4> QED
        BY <4>1, <1>00, NewUnits
    <3>2. buffer' = buffer \o new /\ accepted' = accepted \o new /\ pc' = pc
      BY <1>6, <2>3 DEF Write
    <3> HIDE DEF new
    <3>3. data \o (buffer \o new) = (data \o buffer) \o new
      BY <1>0, <3>1, <1>assoc, ZenonT(30)
    <3>4. data' \o buffer' = accepted'
      BY <2>1, <2>2, <3>2, <3>3, Zenon
    <3> QED
      BY <2>1, <2>2, <3>2, <3>4 DEF Goal
  <2>4. CASE ~Fits(n)
    <3>1. /\ todo' = buffer /\ accepted' = accepted
          /\ pc' = IF buffer = <<>> THEN "fill" ELSE "flush"
      BY <1>6, <2>4 DEF Write, BeginFlush, BeginFileWrite
    <3>2. data \o <<>> = data
      BY <1>0, ConcatEmptySeq
    <3> QED
      BY <2>1, <2>2, <3>1, <3>2 DEF Goal
  <2> QED
    BY <2>3, <2>4
<1>7. CASE Fill
  <2>1. pc = "fill" /\ pc' = "idle" /\ data = accepted /\ buffer = <<>> /\ ~renamed /\ isOpened
        /\ buffer' = buffer \o request /\ accepted' = accepted \o request
        /\ UNCHANGED <<isOpened, data, renamed>>
    BY <1>3, <1>4, <1>5, <1>7 DEF Fill, Accept, Goal, fileVars
  <2>2. <<>> \o request = request
    BY <1>0, ConcatEmptySeq
  <2> QED
    BY <2>1, <2>2 DEF Goal
<1>8. CASE WriteDirect
  <2>1. pc = "fill" /\ pc' = "direct" /\ data = accepted /\ ~renamed /\ isOpened
        /\ todo' = request /\ UNCHANGED <<isOpened, data, renamed, accepted, request>>
    BY <1>3, <1>4, <1>8 DEF WriteDirect, BeginFileWrite, Goal, fileVars
  <2> QED
    BY <2>1 DEF Goal
<1>9. CASE WriteSome
  <2>1. PICK n \in 1 .. Len(todo) :
          /\ data' = data \o SubSeq(todo, 1, n)
          /\ todo' = SubSeq(todo, n + 1, Len(todo))
    BY <1>9 DEF WriteSome
  <2>2. n \in 0 .. Len(todo)
    BY <2>1
  <2>3. /\ SubSeq(todo, 1, n) \in Seq(Unit)
        /\ SubSeq(todo, n + 1, Len(todo)) \in Seq(Unit)
        /\ SubSeq(todo, 1, n) \o SubSeq(todo, n + 1, Len(todo)) = todo
    BY <1>0, <2>2, Slices
  <2>4. (data \o SubSeq(todo, 1, n)) \o SubSeq(todo, n + 1, Len(todo))
          = data \o (SubSeq(todo, 1, n) \o SubSeq(todo, n + 1, Len(todo)))
    BY <1>0, <2>3, <1>assoc, ZenonT(30)
  <2>5. data' \o todo' = data \o todo
    BY <2>1, <2>3, <2>4, Zenon
  <2>6. pc \in {"flush", "direct"} /\ ~renamed /\ isOpened
        /\ UNCHANGED <<pc, accepted, request, isOpened, renamed>>
    BY <1>4, <1>9 DEF WriteSome, InFileWrite
  <2> QED
    BY <1>3, <2>5, <2>6 DEF Goal
<1>10. CASE WriteInterrupted
  <2>1. patience > 0
    <3>1. InFileWrite /\ signals < MaxInterrupts
      BY <1>10 DEF WriteInterrupted
    <3> QED
      BY <3>1, <1>00, FileAssumption DEF PatienceInv
  <2>2. UNCHANGED <<pc, todo, accepted, request, isOpened, data, renamed>> /\ pc \in {"flush", "direct"}
    BY <1>10, <2>1 DEF WriteInterrupted, InFileWrite, fileVars
  <2> QED
    BY <1>3, <2>2 DEF Goal
<1>11. CASE FlushReturns
  <2>1. AfterFlush \in {"fill", "sync", "destroyed"}
    BY <1>11 DEF FlushReturns, TypeInv, ControlInv, AfterFlush
  <2>2. data \o <<>> = data
    BY <1>0, ConcatEmptySeq
  <2>3. pc = "flush" /\ todo = <<>> /\ pc' = AfterFlush /\ ~renamed /\ isOpened
        /\ UNCHANGED <<isOpened, data, renamed, accepted>>
    BY <1>4, <1>11 DEF FlushReturns, fileVars
  <2>4. data = accepted
    BY <1>3, <2>2, <2>3 DEF Goal
  <2> QED
    BY <2>1, <2>3, <2>4 DEF Goal
<1>12. CASE DirectReturns
  <2>1. pc = "direct" /\ pc' = "idle" /\ todo = <<>> /\ buffer = <<>> /\ ~renamed /\ isOpened
        /\ accepted' = accepted \o request /\ UNCHANGED <<isOpened, data, renamed, buffer>>
    BY <1>4, <1>5, <1>12 DEF DirectReturns, Accept, fileVars
  <2> QED
    BY <1>3, <2>1 DEF Goal
<1>13. CASE Commit \/ Destroy
  <2>1. pc = "idle" /\ pc' \in {IF buffer = <<>> THEN "sync" ELSE "flush",
                                IF buffer = <<>> THEN "destroyed" ELSE "flush"}
        /\ todo' = buffer /\ ~renamed /\ isOpened
        /\ UNCHANGED <<isOpened, data, renamed, accepted>>
    BY <1>4, <1>13 DEF Commit, Destroy, BeginFlush, BeginFileWrite, fileVars
  <2>2. data \o <<>> = data
    BY <1>0, ConcatEmptySeq
  <2> QED
    BY <1>3, <2>1, <2>2 DEF Goal
<1>14. CASE Sync \/ Close \/ Rename
  BY <1>3, <1>4, <1>14 DEF Sync, Close, Rename, Goal, Ended
<1>15. CASE SyncInterrupted
  <2>1. pc = "sync" /\ pc' \in {"sync", "idle", "terminated"} /\ ~renamed /\ isOpened
        /\ UNCHANGED <<isOpened, data, renamed, accepted, buffer>>
    <3>1. pc = "sync" /\ pc' \in {"sync", "idle", "terminated"}
          /\ UNCHANGED <<isOpened, data, renamed, accepted, buffer>>
      BY <1>15, Zenon DEF SyncInterrupted, Throw
    <3> QED
      BY <3>1, <1>4
  <2>2. data \o <<>> = data /\ buffer = <<>>
    BY <1>0, <1>5, <2>1, ConcatEmptySeq
  <2> QED
    BY <1>3, <2>1, <2>2 DEF Goal
<1>16. CASE FileIsClosed
  BY <1>4, <1>16 DEF FileIsClosed, InFileWrite
<1>17. CASE Crash
  <2>1. PICK n \in synced .. Len(data) : data' = SubSeq(data, 1, n)
    BY <1>17 DEF Crash
  <2>2. pc' = "crashed" /\ (renamed' => renamed) /\ accepted' = accepted
    <3>1. renamed' => renamed
      BY <1>17, <1>00, Zenon DEF Crash
    <3>2. pc' = "crashed" /\ accepted' = accepted
      BY <1>17, Zenon DEF Crash
    <3> QED
      BY <3>1, <3>2, Zenon
  <2>3. renamed => data' = data
    <3> SUFFICES ASSUME renamed PROVE data' = data
      OBVIOUS
    <3>1. n = Len(data) /\ n \in 0 .. Len(data)
      <4>1. synced = Len(data) /\ Len(data) \in Nat
        BY <1>0, LenProperties DEF DurableInv
      <4> QED
        BY <4>1, <2>1
    <3> QED
      BY <1>0, <2>1, <3>1, Slices
  <2>4. renamed' => data' = accepted'
    BY <1>3, <2>2, <2>3 DEF Goal
  <2> QED
    BY <2>2, <2>4 DEF Goal, Ended
<1>18. CASE Done \/ UNCHANGED vars
  <2>1. UNCHANGED <<pc, data, buffer, todo, accepted, request, renamed, isOpened>>
    BY <1>18 DEF Done, vars, fileVars
  <2> QED
    BY <1>3, <2>1 DEF Goal
<1> QED
  BY <1>2, <1>6, <1>7, <1>8, <1>9, <1>10, <1>11, <1>12, <1>13, <1>14, <1>15, <1>16,
     <1>17, <1>18 DEF Next

\* With no more signals than File tolerates, a file under its final name holds
\* exactly what was accepted, after a crash too, whatever the sizes of the buffer
\* and of the requests, unless a system call failed.
THEOREM CommittedCorrect ==
    ASSUME MaxInterrupts <= MAX_INTERRUPTS_IGNORES
    PROVE  Spec => []CommittedIsWhole
<1> DEFINE IInv == TypeInv /\ DurableInv /\ PatienceInv /\ ContentInv
<1>1. Init => IInv
  <2> SUFFICES ASSUME Init PROVE IInv
    OBVIOUS
  <2>1. DurableInv /\ PatienceInv
    BY DEF Init, DurableInv, PatienceInv, InFileWrite
  <2>2. ContentInv
    <3>1. <<>> \o <<>> = <<>>
      BY EmptySeq, ConcatEmptySeq
    <3> QED
      BY <3>1 DEF Init, ContentInv
  <2> QED
    BY <2>1, <2>2, TypeInit
<1>2. IInv /\ [Next]_vars => IInv'
  BY TypeStep, DurableStep, PatienceStep, ContentStep
<1>3. IInv => CommittedIsWhole
  BY DEF ContentInv, CommittedIsWhole
<1> QED
  BY <1>1, <1>2, <1>3, PTL DEF Spec

-----------------------------------------------------------------------------
(* What is kept when calls fail and are repeated.                           *)

\* All of total but rest, which is still to be written, is in d in its order.
HoldsAllBut(d, total, rest) ==
    \E w \in Seq(Unit) : total = w \o rest /\ IsSubsequence(w, d)

\* Where the accepted data is, whatever failed.  During a flush the data may have
\* a part of the buffer: the buffer is written from its start if the call is
\* repeated.
KeptInv ==
    /\ pc \in {"idle", "flush"} => HoldsAllBut(data, accepted, buffer)
    /\ pc = "flush" => HoldsAllBut(data, accepted, todo)
    /\ pc = "direct" => HoldsAllBut(data, accepted \o request, todo)
    /\ pc \in {"fill", "direct", "sync", "close", "rename"} => IsSubsequence(accepted, data)
    /\ renamed => IsSubsequence(accepted, data)

\* The items of a concatenation.
LEMMA Joined ==
    ASSUME NEW S, NEW s \in Seq(S), NEW u \in Seq(S)
    PROVE  /\ s \o u \in Seq(S) /\ Len(s) \in Nat /\ Len(u) \in Nat
           /\ Len(s \o u) = Len(s) + Len(u)
           /\ \A i \in 1 .. Len(s) : (s \o u)[i] = s[i]
           /\ \A i \in (Len(s) + 1) .. (Len(s) + Len(u)) : (s \o u)[i] = u[i - Len(s)]
<1>1. Len(s) \in Nat /\ Len(u) \in Nat
  BY LenProperties
<1>2. /\ s \o u \in Seq(S) /\ Len(s \o u) = Len(s) + Len(u)
      /\ \A i \in 1 .. Len(s) + Len(u) :
             (s \o u)[i] = IF i <= Len(s) THEN s[i] ELSE u[i - Len(s)]
  BY ConcatProperties
<1> QED
  BY <1>1, <1>2

\* What is written after a subsequence leaves it one.
LEMMA SubsequenceOfMore ==
    ASSUME NEW S, NEW s \in Seq(S), NEW t \in Seq(S), NEW u \in Seq(S), IsSubsequence(s, t)
    PROVE  IsSubsequence(s, t \o u)
<1>1. PICK at \in [1 .. Len(s) -> 1 .. Len(t)] :
          /\ \A i \in 1 .. Len(s) : t[at[i]] = s[i]
          /\ \A i, j \in 1 .. Len(s) : i < j => at[i] < at[j]
  BY DEF IsSubsequence
<1>2. /\ Len(t) \in Nat /\ Len(t \o u) = Len(t) + Len(u) /\ Len(u) \in Nat
      /\ \A i \in 1 .. Len(t) : (t \o u)[i] = t[i]
  BY Joined
<1>3. at \in [1 .. Len(s) -> 1 .. Len(t \o u)]
  BY <1>2
<1>4. \A i \in 1 .. Len(s) : (t \o u)[at[i]] = s[i]
  BY <1>1, <1>2
<1> QED
  BY <1>1, <1>3, <1>4 DEF IsSubsequence

\* The same data at the end of both.
LEMMA SubsequenceOfBoth ==
    ASSUME NEW S, NEW s \in Seq(S), NEW t \in Seq(S), NEW u \in Seq(S), IsSubsequence(s, t)
    PROVE  IsSubsequence(s \o u, t \o u)
<1> DEFINE m == Len(s)
           n == Len(t)
           l == Len(u)
<1>1. PICK at \in [1 .. m -> 1 .. n] :
          /\ \A i \in 1 .. m : t[at[i]] = s[i]
          /\ \A i, j \in 1 .. m : i < j => at[i] < at[j]
  BY DEF IsSubsequence
<1>2. /\ m \in Nat /\ n \in Nat /\ l \in Nat
      /\ Len(s \o u) = m + l /\ Len(t \o u) = n + l
      /\ \A i \in 1 .. m : (s \o u)[i] = s[i]
      /\ \A i \in (m + 1) .. (m + l) : (s \o u)[i] = u[i - m]
      /\ \A i \in 1 .. n : (t \o u)[i] = t[i]
      /\ \A i \in (n + 1) .. (n + l) : (t \o u)[i] = u[i - n]
  BY Joined
<1> HIDE DEF m, n, l
<1> DEFINE to == [i \in 1 .. (m + l) |-> IF i <= m THEN at[i] ELSE n + (i - m)]
<1>3. \A i \in 1 .. m : to[i] = at[i] /\ at[i] \in 1 .. n
  BY <1>1, <1>2
<1>4. \A i \in (m + 1) .. (m + l) : to[i] = n + (i - m) /\ to[i] \in (n + 1) .. (n + l)
  BY <1>2
<1>5. to \in [1 .. (m + l) -> 1 .. (n + l)]
  <2>1. ASSUME NEW i \in 1 .. (m + l)
        PROVE  to[i] \in 1 .. (n + l)
    <3>1. i \in 1 .. m \/ i \in (m + 1) .. (m + l)
      BY <1>2
    <3> HIDE DEF to
    <3> QED
      BY <1>2, <1>3, <1>4, <3>1
  <2> QED
    BY <2>1
<1> HIDE DEF to
<1>6. ASSUME NEW i \in 1 .. (m + l)
      PROVE  (t \o u)[to[i]] = (s \o u)[i]
  <2>1. CASE i \in 1 .. m
    BY <1>1, <1>2, <1>3, <2>1, SMTT(30)
  <2>2. CASE i \in (m + 1) .. (m + l)
    <3>1. to[i] = n + (i - m) /\ to[i] \in (n + 1) .. (n + l) /\ to[i] - n = i - m
      BY <1>2, <1>4, <2>2
    <3>2. (t \o u)[to[i]] = u[to[i] - n]
      BY <1>2, <3>1, Zenon
    <3>3. (s \o u)[i] = u[i - m]
      BY <1>2, <2>2, Zenon
    <3> QED
      BY <3>1, <3>2, <3>3, Zenon
  <2>3. i \in 1 .. m \/ i \in (m + 1) .. (m + l)
    BY <1>2
  <2> QED
    BY <2>1, <2>2, <2>3
<1>7. ASSUME NEW i \in 1 .. (m + l), NEW j \in 1 .. (m + l), i < j
      PROVE  to[i] < to[j]
  <2>1. CASE j \in 1 .. m
    <3>1. i \in 1 .. m
      BY <1>2, <1>7, <2>1
    <3> QED
      BY <1>1, <1>3, <1>7, <2>1, <3>1
  <2>2. CASE i \in 1 .. m /\ j \in (m + 1) .. (m + l)
    BY <1>2, <1>3, <1>4, <2>2, SMTT(30)
  <2>3. CASE i \in (m + 1) .. (m + l) /\ j \in (m + 1) .. (m + l)
    BY <1>2, <1>4, <1>7, <2>3
  <2> QED
    BY <1>2, <1>7, <2>1, <2>2, <2>3
<1> QED
  BY <1>2, <1>5, <1>6, <1>7 DEF IsSubsequence

\* Nothing is missing when nothing is left to write, and the other way around.
LEMMA HoldsAll ==
    ASSUME NEW d \in Seq(Unit), NEW total \in Seq(Unit)
    PROVE  HoldsAllBut(d, total, <<>>) <=> IsSubsequence(total, d)
<1>1. \A w \in Seq(Unit) : w \o <<>> = w
  BY ConcatEmptySeq
<1> QED
  BY <1>1 DEF HoldsAllBut

\* One more request, accepted into the buffer.
LEMMA HoldsAllButMore ==
    ASSUME NEW d, NEW total \in Seq(Unit), NEW rest \in Seq(Unit),
           NEW new \in Seq(Unit), HoldsAllBut(d, total, rest)
    PROVE  HoldsAllBut(d, total \o new, rest \o new)
<1>1. PICK w \in Seq(Unit) : total = w \o rest /\ IsSubsequence(w, d)
  BY DEF HoldsAllBut
<1>2. (w \o rest) \o new = w \o (rest \o new)
  <2>1. IsAssociative(w, rest, new)
    BY <1>1, Associative, Zenon
  <2> QED
    BY <2>1 DEF IsAssociative
<1>3. total \o new = w \o (rest \o new)
  BY <1>1, <1>2, Zenon
<1> QED
  BY <1>1, <1>3 DEF HoldsAllBut

\* write(2) wrote a part of what is left.
LEMMA HoldsAllButWritten ==
    ASSUME NEW d \in Seq(Unit), NEW total \in Seq(Unit), NEW rest \in Seq(Unit),
           NEW part \in Seq(Unit), NEW left \in Seq(Unit), rest = part \o left,
           HoldsAllBut(d, total, rest)
    PROVE  HoldsAllBut(d \o part, total, left)
<1>1. PICK w \in Seq(Unit) : total = w \o rest /\ IsSubsequence(w, d)
  BY DEF HoldsAllBut
<1>2. (w \o part) \o left = w \o (part \o left)
  <2>1. IsAssociative(w, part, left)
    BY <1>1, Associative, Zenon
  <2> QED
    BY <2>1 DEF IsAssociative
<1>3. total = (w \o part) \o left
  BY <1>1, <1>2, Zenon
<1>4. w \o part \in Seq(Unit)
  BY Joined
<1>5. IsSubsequence(w \o part, d \o part)
  BY <1>1, SubsequenceOfBoth
<1> QED
  BY <1>3, <1>4, <1>5 DEF HoldsAllBut

\* More data in the file does no harm.
LEMMA HoldsAllButInMore ==
    ASSUME NEW d \in Seq(Unit), NEW part \in Seq(Unit), NEW total, NEW rest,
           HoldsAllBut(d, total, rest)
    PROVE  HoldsAllBut(d \o part, total, rest)
BY SubsequenceOfMore DEF HoldsAllBut

\* No step loses what was accepted, as long as patience lasts.
LEMMA KeptStep ==
    ASSUME MaxInterrupts <= MAX_INTERRUPTS_IGNORES,
           TypeInv, DurableInv, PatienceInv, KeptInv, [Next]_vars
    PROVE  KeptInv'
<1>0. /\ buffer \in Seq(Unit) /\ accepted \in Seq(Unit) /\ request \in Seq(Unit)
      /\ data \in Seq(Unit) /\ todo \in Seq(Unit) /\ <<>> \in Seq(Unit)
  BY DEF TypeInv, TypeOK, Unit
<1>1. pc \in {"fill", "direct", "sync", "close", "rename"} => buffer = <<>>
  BY DEF TypeInv, ControlInv
<1>2. renamed \in BOOLEAN /\ (renamed => pc \in {"committed", "crashed"})
  BY DEF TypeInv, TypeOK, DurableInv
<1>3. pc \notin {"committed", "crashed"} => HoldsAllBut(data, accepted, buffer) \/ pc \in Ended
  <2>1. pc \in {"fill", "direct", "sync", "close", "rename"} => HoldsAllBut(data, accepted, <<>>)
    BY <1>0, HoldsAll DEF KeptInv
  <2> QED
    BY <1>1, <2>1 DEF KeptInv, TypeInv, TypeOK
<1>4. CASE pc' \in Ended /\ ~renamed'
  BY <1>4 DEF KeptInv, Ended
<1>throw. ASSUME Throw, pc \notin Ended
          PROVE  KeptInv'
  <2>1. ~renamed' /\ pc' \in {"idle", "terminated"}
    BY <1>2, <1>throw DEF Throw, Ended
  <2>2. HoldsAllBut(data', accepted', buffer')
    BY <1>3, <1>throw DEF Throw, Ended
  <2> QED
    BY <2>1, <2>2 DEF KeptInv
<1>6. ASSUME NEW n \in 1 .. MaxUnits, Write(n)
      PROVE  KeptInv'
  <2> DEFINE new == [i \in 1 .. n |-> passed + i]
  <2>1. pc = "idle" /\ ~renamed /\ HoldsAllBut(data, accepted, buffer)
    BY <1>2, <1>6 DEF Write, KeptInv
  <2>2. UNCHANGED <<data, renamed>>
    BY <1>6 DEF Write, fileVars
  <2>3. CASE Fits(n)
    <3>1. new \in Seq(Unit)
      <4>1. passed + n <= MaxUnits /\ n \in Nat /\ passed \in Nat
        BY <1>6 DEF Write, TypeInv, TypeOK
      <4> QED
        BY <4>1, NewUnits
    <3>2. buffer' = buffer \o new /\ accepted' = accepted \o new /\ pc' = "idle"
      BY <1>6, <2>1, <2>3 DEF Write
    <3> HIDE DEF new
    <3>3. HoldsAllBut(data, accepted \o new, buffer \o new)
      BY <1>0, <2>1, <3>1, HoldsAllButMore
    <3> QED
      BY <2>1, <2>2, <3>2, <3>3 DEF KeptInv
  <2>4. CASE ~Fits(n)
    <3>1. /\ todo' = buffer /\ accepted' = accepted /\ buffer' = buffer
          /\ pc' = IF buffer = <<>> THEN "fill" ELSE "flush"
      BY <1>6, <2>4 DEF Write, BeginFlush, BeginFileWrite
    <3>2. buffer = <<>> => IsSubsequence(accepted, data)
      BY <1>0, <2>1, HoldsAll
    <3> QED
      BY <2>1, <2>2, <3>1, <3>2 DEF KeptInv
  <2> QED
    BY <2>3, <2>4
<1>7. CASE Fill
  <2>1. /\ pc = "fill" /\ pc' = "idle" /\ ~renamed /\ buffer = <<>>
        /\ buffer' = buffer \o request /\ accepted' = accepted \o request
        /\ UNCHANGED <<data, renamed>>
    BY <1>1, <1>2, <1>7 DEF Fill, Accept, fileVars
  <2>2. HoldsAllBut(data, accepted, buffer)
    BY <1>3, <2>1 DEF Ended
  <2>3. HoldsAllBut(data, accepted \o request, buffer \o request)
    BY <1>0, <2>2, HoldsAllButMore
  <2> QED
    BY <2>1, <2>3 DEF KeptInv
<1>8. CASE WriteDirect
  <2>1. /\ pc = "fill" /\ pc' = "direct" /\ ~renamed /\ todo' = request
        /\ UNCHANGED <<data, renamed, accepted, request>>
    BY <1>2, <1>8 DEF WriteDirect, BeginFileWrite, fileVars
  <2>2. IsSubsequence(accepted, data)
    BY <2>1 DEF KeptInv
  <2>3. HoldsAllBut(data, accepted \o request, request)
    BY <1>0, <2>2 DEF HoldsAllBut
  <2> QED
    BY <2>1, <2>2, <2>3 DEF KeptInv
<1>9. CASE WriteSome
  <2>1. PICK n \in 1 .. Len(todo) :
          /\ data' = data \o SubSeq(todo, 1, n)
          /\ todo' = SubSeq(todo, n + 1, Len(todo))
    BY <1>9 DEF WriteSome
  <2> DEFINE part == SubSeq(todo, 1, n)
             left == SubSeq(todo, n + 1, Len(todo))
  <2>2. n \in 0 .. Len(todo)
    BY <2>1
  <2>3. part \in Seq(Unit) /\ left \in Seq(Unit) /\ part \o left = todo
    BY <1>0, <2>2, Slices
  <2>4. /\ pc \in {"flush", "direct"} /\ ~renamed
        /\ UNCHANGED <<pc, accepted, request, buffer, renamed>>
    BY <1>2, <1>9 DEF WriteSome, InFileWrite
  <2> HIDE DEF part, left
  <2>5. data' = data \o part /\ todo' = left
    BY <2>1 DEF part, left
  <2>6. CASE pc = "flush"
    <3>1. HoldsAllBut(data, accepted, buffer) /\ HoldsAllBut(data, accepted, todo)
      BY <2>6 DEF KeptInv
    <3>2. HoldsAllBut(data \o part, accepted, buffer)
      BY <1>0, <2>3, <3>1, HoldsAllButInMore
    <3>3. HoldsAllBut(data \o part, accepted, left)
      BY <1>0, <2>3, <3>1, HoldsAllButWritten
    <3> QED
      BY <2>4, <2>5, <2>6, <3>2, <3>3 DEF KeptInv
  <2>7. CASE pc = "direct"
    <3>1. IsSubsequence(accepted, data) /\ HoldsAllBut(data, accepted \o request, todo)
      BY <2>7 DEF KeptInv
    <3>2. IsSubsequence(accepted, data \o part)
      BY <1>0, <2>3, <3>1, SubsequenceOfMore
    <3>3. accepted \o request \in Seq(Unit)
      BY <1>0, Joined
    <3>4. HoldsAllBut(data \o part, accepted \o request, left)
      BY <1>0, <2>3, <3>1, <3>3, HoldsAllButWritten
    <3> QED
      BY <2>4, <2>5, <2>7, <3>2, <3>4 DEF KeptInv
  <2> QED
    BY <2>4, <2>6, <2>7
<1>10. CASE WriteInterrupted
  <2>1. patience > 0
    <3>1. InFileWrite /\ signals < MaxInterrupts /\ patience \in Nat /\ signals \in Nat
      BY <1>10 DEF WriteInterrupted, TypeInv, TypeOK
    <3> QED
      BY <3>1, FileAssumption DEF PatienceInv
  <2>2. UNCHANGED <<pc, todo, accepted, request, buffer, data, renamed>>
    BY <1>10, <2>1 DEF WriteInterrupted, fileVars
  <2> QED
    BY <2>2 DEF KeptInv
<1>11. CASE FlushReturns
  <2>1. AfterFlush \in {"fill", "sync", "destroyed"}
    BY <1>11 DEF FlushReturns, TypeInv, ControlInv, AfterFlush
  <2>2. /\ pc = "flush" /\ todo = <<>> /\ pc' = AfterFlush /\ ~renamed
        /\ UNCHANGED <<data, renamed, accepted>>
    BY <1>2, <1>11 DEF FlushReturns, fileVars
  <2>3. IsSubsequence(accepted, data)
    BY <1>0, <2>2, HoldsAll DEF KeptInv
  <2> QED
    BY <2>1, <2>2, <2>3 DEF KeptInv
<1>12. CASE DirectReturns
  <2>1. /\ pc = "direct" /\ pc' = "idle" /\ todo = <<>> /\ buffer = <<>> /\ ~renamed
        /\ accepted' = accepted \o request /\ UNCHANGED <<data, renamed, buffer>>
    BY <1>1, <1>2, <1>12 DEF DirectReturns, Accept, fileVars
  <2>2. HoldsAllBut(data, accepted \o request, todo)
    BY <2>1 DEF KeptInv
  <2> QED
    BY <2>1, <2>2 DEF KeptInv
<1>13. CASE Commit \/ Destroy
  <2>1. /\ pc = "idle" /\ ~renamed /\ todo' = buffer
        /\ pc' \in {IF buffer = <<>> THEN "sync" ELSE "flush",
                    IF buffer = <<>> THEN "destroyed" ELSE "flush"}
        /\ UNCHANGED <<data, renamed, accepted, buffer>>
    BY <1>2, <1>13 DEF Commit, Destroy, BeginFlush, BeginFileWrite, fileVars
  <2>2. HoldsAllBut(data, accepted, buffer)
    BY <2>1 DEF KeptInv
  <2>3. buffer = <<>> => IsSubsequence(accepted, data)
    BY <1>0, <2>2, HoldsAll
  <2> QED
    BY <2>1, <2>2, <2>3 DEF KeptInv
<1>14. CASE Sync \/ Close \/ Rename
  <2>1. /\ pc \in {"sync", "close", "rename"} /\ pc' \in {"close", "rename", "committed"}
        /\ UNCHANGED <<data, accepted>>
    BY <1>14 DEF Sync, Close, Rename
  <2> QED
    BY <2>1 DEF KeptInv
<1>15. CASE SyncInterrupted
  <2>1. CASE Throw
    <3>1. pc \notin Ended
      BY <1>15 DEF SyncInterrupted, Ended
    <3> QED
      BY <1>throw, <2>1, <3>1
  <2>2. CASE ~Throw
    <3>1. UNCHANGED <<pc, todo, accepted, request, buffer, data, renamed>>
      BY <1>15, <2>2, Zenon DEF SyncInterrupted
    <3> QED
      BY <3>1 DEF KeptInv
  <2> QED
    BY <2>1, <2>2
<1>16. CASE SystemCallFails \/ FileIsClosed
  <2>1. Throw /\ pc \notin Ended
    BY <1>16 DEF SystemCallFails, FileIsClosed, InSystemCall, InFileWrite, Ended
  <2> QED
    BY <1>throw, <2>1
<1>17. CASE Crash
  <2>1. PICK n \in synced .. Len(data) : data' = SubSeq(data, 1, n)
    BY <1>17 DEF Crash
  <2>2. pc' = "crashed" /\ accepted' = accepted
    BY <1>17, Zenon DEF Crash
  <2>3. renamed' => renamed
    BY <1>2, <1>17, Zenon DEF Crash
  <2>4. renamed => data' = data
    <3> SUFFICES ASSUME renamed PROVE data' = data
      OBVIOUS
    <3>1. n = Len(data) /\ n \in 0 .. Len(data)
      <4>1. synced = Len(data) /\ Len(data) \in Nat
        BY <1>0, LenProperties DEF DurableInv
      <4> QED
        BY <4>1, <2>1
    <3> QED
      BY <1>0, <2>1, <3>1, Slices
  <2>5. renamed' => IsSubsequence(accepted', data')
    BY <2>2, <2>3, <2>4 DEF KeptInv
  <2> QED
    BY <2>2, <2>5 DEF KeptInv
<1>18. CASE Done \/ UNCHANGED vars
  <2>1. UNCHANGED <<pc, data, buffer, todo, accepted, request, renamed>>
    BY <1>18 DEF Done, vars, fileVars
  <2> QED
    BY <2>1 DEF KeptInv
<1> QED
  BY <1>6, <1>7, <1>8, <1>9, <1>10, <1>11, <1>12, <1>13, <1>14, <1>15, <1>16, <1>17, <1>18
     DEF Next

\* With no more signals than File tolerates, a committed file misses nothing of
\* what was accepted, in order, whatever system calls failed and however often the
\* caller repeated what failed.
THEOREM MissesNothingCorrect ==
    ASSUME MaxInterrupts <= MAX_INTERRUPTS_IGNORES
    PROVE  Spec => []CommittedMissesNothing
<1> DEFINE IInv == TypeInv /\ DurableInv /\ PatienceInv /\ KeptInv
<1>1. Init => IInv
  <2> SUFFICES ASSUME Init PROVE IInv
    OBVIOUS
  <2>1. DurableInv /\ PatienceInv
    BY DEF Init, DurableInv, PatienceInv, InFileWrite
  <2>2. KeptInv
    <3>1. <<>> \in Seq(Unit) /\ Len(<<>>) = 0
      OBVIOUS
    <3>2. IsSubsequence(<<>>, <<>>)
      <4> DEFINE at == [i \in 1 .. 0 |-> i]
      <4>1. at \in [1 .. 0 -> 1 .. 0]
        OBVIOUS
      <4> QED
        BY <4>1 DEF IsSubsequence
    <3>3. HoldsAllBut(<<>>, <<>>, <<>>)
      BY <3>1, <3>2, HoldsAll
    <3> QED
      BY <3>3 DEF Init, KeptInv
  <2> QED
    BY <2>1, <2>2, TypeInit
<1>2. IInv /\ [Next]_vars => IInv'
  BY TypeStep, DurableStep, PatienceStep, KeptStep
<1>3. IInv => CommittedMissesNothing
  BY DEF KeptInv, CommittedMissesNothing
<1> QED
  BY <1>1, <1>2, <1>3, PTL DEF Spec
=============================================================================
