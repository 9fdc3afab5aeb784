---------------------------- MODULE StorageProofs ----------------------------
(***************************************************************************)
(* Proof of ReaderIsInStep, for every buffer capacity, file length and      *)
(* sequence of reads, however often the file changes its length and a read  *)
(* fails.                                                                   *)
(* Proof of PathsAreShared, for every number of processes, temporary links  *)
(* and path components, however often they are started, fail or are killed. *)
(* The four groups of SharedPaths' operations share no path, so each has    *)
(* an inductive invariant of its own.  And of Processes: what a caller may  *)
(* rely on when ForkExecWait, DoubleForkExec or Daemonize comes back.       *)
(* Proof of PathIsFaithful of FilePath, whose paths are built token by      *)
(* token: the lemmas about recursion (Built, WalkConcat) say what a run of  *)
(* tokens does, the invariant that a path leads where its components lead   *)
(* from every directory, however deep.                                      *)
(* Proof of TemplateIsAsWritten of SimpleTemplate: the invariant PatternInv *)
(* says that the parser stands behind no control and among no digits, that  *)
(* the items and the text not yet in one of them write what the template    *)
(* means so far (SaidUpTo), and that the parameters are those in front of   *)
(* it (ParamsOK).  What a character means depends on all that stands before *)
(* it; the Step lemmas find it from where the parser stands.                *)
(***************************************************************************)
EXTENDS FileInput, SharedPaths, Processes, FilePath, SimpleTemplate, FiniteSetTheorems,
        NaturalsInduction, WellFoundedInduction, SequenceTheorems, TLAPS

-----------------------------------------------------------------------------
(* FileInput.                                                               *)

\* What is true of the members also after reads that threw.
MembersInv ==
    /\ length \in FileLengths
    /\ resizes \in 0 .. MaxResizes
    /\ faults \in 0 .. MaxReadFaults
    /\ stream \in [opened : BOOLEAN, plain : BOOLEAN, offset : Nat,
                   position : Nat, size : FileLengths]
    /\ inBuffer.capacity \in Capacities
    /\ inBuffer \in [capacity : Nat, data : [0 .. (inBuffer.capacity - 1) -> Int],
                     size : Nat, position : Nat]
    /\ inBuffer.position <= inBuffer.size
    /\ inBuffer.size <= inBuffer.capacity
    /\ stream.plain => inBuffer.size = 0

\* The kernel's offset is position_, the buffer holds the bytes before it, and the
\* caller is behind it by what the buffer still has.
InStep(s, b, next) ==
    /\ s.offset = s.position
    /\ s.position - (b.size - b.position) = next
    /\ \A i \in b.position .. (b.size - 1) : b.data[i] = s.position - b.size + i

InputInv ==
    /\ MembersInv
    /\ consumed \in Nat
    /\ failed \in BOOLEAN
    /\ ~failed => InStep(stream, inBuffer, consumed)
    /\ DeliversTheFile
    /\ WhatIsThereCanBeRead

-----------------------------------------------------------------------------
(* The operators.                                                           *)

\* The numbers among the members.
LEMMA MemberTypes ==
    ASSUME MembersInv
    PROVE  /\ length \in Nat /\ stream.size \in Nat
           /\ stream.offset \in Nat /\ stream.position \in Nat
           /\ inBuffer.capacity \in Nat /\ inBuffer.size \in Nat /\ inBuffer.position \in Nat
           /\ faults \in Nat /\ faults <= MaxReadFaults
           /\ stream.size < FILE_SIZE_MODULUS
<1>1. /\ length \in FileLengths /\ stream.size \in FileLengths
      /\ stream.offset \in Nat /\ stream.position \in Nat
      /\ inBuffer.capacity \in Nat /\ inBuffer.size \in Nat /\ inBuffer.position \in Nat
  BY DEF MembersInv
<1>2. faults \in Nat /\ faults <= MaxReadFaults
  BY InputAssumption DEF MembersInv
<1> QED
  BY <1>1, <1>2, InputAssumption

\* The buffer's members after an assignment to some of them.
LEMMA BufferFields ==
    ASSUME NEW b, NEW c \in Nat, b \in [capacity : Nat, data : [0 .. (c - 1) -> Int],
                                        size : Nat, position : Nat],
           NEW data \in [0 .. (c - 1) -> Int], NEW size \in Nat, NEW position \in Nat
    PROVE  /\ LET d == [b EXCEPT !.position = position]
              IN  /\ d \in [capacity : Nat, data : [0 .. (c - 1) -> Int], size : Nat, position : Nat]
                  /\ d.capacity = b.capacity /\ d.data = b.data /\ d.size = b.size
                  /\ d.position = position
           /\ LET d == [b EXCEPT !.data = data, !.size = size, !.position = position]
              IN  /\ d \in [capacity : Nat, data : [0 .. (c - 1) -> Int], size : Nat, position : Nat]
                  /\ d.capacity = b.capacity /\ d.data = data /\ d.size = size
                  /\ d.position = position
<1> DEFINE Data == [0 .. (c - 1) -> Int]
<1> HIDE DEF Data
<1>1. b \in [capacity : Nat, data : Data, size : Nat, position : Nat] /\ data \in Data
  BY DEF Data
<1>2. LET d == [b EXCEPT !.position = position]
      IN  /\ d \in [capacity : Nat, data : Data, size : Nat, position : Nat]
          /\ d.capacity = b.capacity /\ d.data = b.data /\ d.size = b.size
          /\ d.position = position
  BY <1>1
<1>3. LET d == [b EXCEPT !.data = data, !.size = size, !.position = position]
      IN  /\ d \in [capacity : Nat, data : Data, size : Nat, position : Nat]
          /\ d.capacity = b.capacity /\ d.data = data /\ d.size = size
          /\ d.position = position
  BY <1>1
<1> QED
  BY <1>2, <1>3 DEF Data

\* What File::Read can return.
LEMMA ReadOutcomes ==
    ASSUME MembersInv, NEW n \in Nat, NEW read \in FileReads(n)
    PROVE  /\ read.count \in 0 .. n
           /\ read.fault \in BOOLEAN
           /\ read.fault => read.count < n /\ faults < MaxReadFaults
           /\ ~read.fault /\ read.count # n => Remaining < n
           /\ Remaining \in Nat
           /\ stream.offset < length => Remaining = length - stream.offset
<1>0. length \in Nat /\ stream.offset \in Nat
  BY InputAssumption DEF MembersInv
<1>1. Remaining \in Nat /\ (stream.offset < length => Remaining = length - stream.offset)
  BY <1>0 DEF Remaining
<1>2. CASE read = [count |-> Lesser(n, Remaining), fault |-> FALSE]
  BY <1>1, <1>2 DEF Lesser
<1>3. ASSUME NEW k \in IF faults < MaxReadFaults THEN 0 .. (Lesser(n, Remaining + 1) - 1) ELSE {},
             read = [count |-> k, fault |-> TRUE]
      PROVE  read.count \in 0 .. n /\ read.fault /\ read.count < n /\ faults < MaxReadFaults
  BY <1>1, <1>3 DEF Lesser
<1> QED
  BY <1>1, <1>2, <1>3 DEF FileReads

\* A count that is short without a fault means that the file ends there.
LEMMA ShortMeansEnd ==
    ASSUME MembersInv, NEW n \in Nat, NEW read \in FileReads(n),
           ~read.fault, read.count # n
    PROVE  stream.offset + n > length
<1>1. Remaining < n /\ Remaining \in Nat
  BY ReadOutcomes
<1>2. length \in Nat /\ stream.offset \in Nat
  BY MemberTypes
<1> QED
  BY <1>1, <1>2 DEF Remaining

\* The fields of the stream after FileInputStream::Read.
LEMMA StreamFields ==
    ASSUME MembersInv, NEW n \in Nat, NEW read \in FileReads(n),
           stream' = StreamAfterRead(n, read)
    PROVE  /\ stream' \in [opened : BOOLEAN, plain : BOOLEAN, offset : Nat,
                           position : Nat, size : FileLengths]
           /\ stream'.plain = stream.plain
           /\ stream'.offset = stream.offset + read.count
           /\ read.count = n => stream'.position = stream.position + n
<1>1. read.count \in Nat
  BY ReadOutcomes
<1>2. stream \in [opened : BOOLEAN, plain : BOOLEAN, offset : Nat,
                  position : Nat, size : FileLengths]
  BY DEF MembersInv
<1> DEFINE position == IF ReadIsWhole(n, read) THEN stream.position + n ELSE stream.position
<1>3. position \in Nat /\ (read.count = n => position = stream.position + n)
  BY <1>2 DEF ReadIsWhole
<1> DEFINE moved == [stream EXCEPT !.offset = stream.offset + read.count]
<1>4. stream' = [moved EXCEPT !.position = position]
  BY DEF StreamAfterRead
<1> HIDE DEF position
<1>5. /\ moved \in [opened : BOOLEAN, plain : BOOLEAN, offset : Nat,
                    position : Nat, size : FileLengths]
      /\ moved.plain = stream.plain /\ moved.offset = stream.offset + read.count
  BY <1>1, <1>2
<1> HIDE DEF moved
<1> QED
  BY <1>3, <1>4, <1>5

\* Unsigned subtraction below the modulus.
LEMMA AvailableBeforeEnd ==
    ASSUME MembersInv
    PROVE  /\ StreamAvailable \in Nat
           /\ stream.position <= stream.size => StreamAvailable = stream.size - stream.position
<1>1. /\ stream.size \in Nat /\ stream.position \in Nat
      /\ FILE_SIZE_MODULUS \in Nat /\ stream.size < FILE_SIZE_MODULUS
  BY InputAssumption DEF MembersInv
<1> DEFINE d == stream.size - stream.position
<1>2. d \in Int /\ FILE_SIZE_MODULUS > 0 /\ d < FILE_SIZE_MODULUS
  BY <1>1
<1>3. (d % FILE_SIZE_MODULUS) \in 0 .. (FILE_SIZE_MODULUS - 1)
  BY <1>1, <1>2
<1>4. d >= 0 => d % FILE_SIZE_MODULUS = d
  BY <1>1, <1>2
<1> QED
  BY <1>1, <1>2, <1>3, <1>4 DEF StreamAvailable

\* What Update asks for fits the buffer, is enough for the caller, and is not more
\* than the file had as long as the caller's bytes are not.
LEMMA UpdateFits ==
    ASSUME MembersInv, NEW rest \in Nat, rest < inBuffer.capacity
    PROVE  /\ UpdateSize(rest) \in Nat
           /\ UpdateSize(rest) >= rest
           /\ UpdateSize(rest) <= inBuffer.capacity
           /\ stream.position + rest <= stream.size =>
                 stream.position + UpdateSize(rest) <= stream.size
<1>1. /\ stream.size \in Nat /\ stream.position \in Nat /\ inBuffer.capacity \in Nat
      /\ StreamAvailable \in Nat
      /\ stream.position <= stream.size => StreamAvailable = stream.size - stream.position
  BY AvailableBeforeEnd, InputAssumption DEF MembersInv
<1> QED
  BY <1>1 DEF UpdateSize

-----------------------------------------------------------------------------
(* The end of a Read.                                                       *)

\* A Read that returns.
LEMMA ReadReturns ==
    ASSUME InputInv, NEW n \in Nat, NEW bytes, Report("ok", n, bytes, FALSE), MembersInv',
           ~failed => /\ bytes = [i \in 0 .. (n - 1) |-> consumed + i]
                      /\ InStep(stream', inBuffer', consumed + n)
    PROVE  InputInv'
<1>1. /\ last'.kind = "ok" /\ last'.start = consumed /\ last'.size = n /\ last'.bytes = bytes
      /\ last'.clean = ~failed
  BY DEF Report
<1>2. failed' = failed
  BY DEF Report, InputInv
<1>3. ~failed => consumed' = consumed + n
  BY DEF Report
<1>4. failed => consumed' = consumed
  BY DEF Report
<1>5. consumed' \in Nat /\ failed' \in BOOLEAN
  BY <1>2, <1>3, <1>4 DEF InputInv
<1>6. DeliversTheFile'
  BY <1>1 DEF DeliversTheFile
<1>7. WhatIsThereCanBeRead'
  BY <1>1 DEF WhatIsThereCanBeRead
<1>8. ~failed' => InStep(stream', inBuffer', consumed')
  BY <1>2, <1>3
<1> QED
  BY <1>5, <1>6, <1>7, <1>8 DEF InputInv, InStep

\* A Read that throws.
LEMMA ReadThrows ==
    ASSUME InputInv, NEW n, NEW excused, Report("error", n, << >>, excused), MembersInv',
           ~failed => excused
    PROVE  InputInv'
<1>1. /\ last'.kind = "error" /\ last'.clean = ~failed /\ last'.excused = excused
      /\ consumed' = consumed
  BY DEF Report
<1>2. failed' = TRUE
  BY DEF Report, InputInv
<1>3. DeliversTheFile'
  BY <1>1 DEF DeliversTheFile
<1>4. WhatIsThereCanBeRead'
  BY <1>1 DEF WhatIsThereCanBeRead
<1> QED
  BY <1>1, <1>2, <1>3, <1>4 DEF InputInv

-----------------------------------------------------------------------------
(* The actions.                                                             *)

\* A Read past the buffer: the buffer is used up by it.
LEMMA DirectStep ==
    ASSUME InputInv, NEW n \in Nat, NEW taken \in Nat, taken <= n, taken <= BufferAvailable,
           taken = n \/ taken = BufferAvailable,
           Direct(n, taken), UNCHANGED <<length, resizes>>
    PROVE  InputInv'
<1> DEFINE rest == n - taken
<1>0. /\ MembersInv /\ rest \in Nat
      /\ inBuffer.size \in Nat /\ inBuffer.position \in Nat /\ inBuffer.position <= inBuffer.size
      /\ stream.offset \in Nat /\ stream.position \in Nat /\ consumed \in Nat
      /\ stream.size \in Nat /\ length \in Nat
  <2>1. MembersInv /\ consumed \in Nat /\ inBuffer.position <= inBuffer.size
    BY DEF InputInv, MembersInv
  <2> QED
    BY <2>1, MemberTypes
<1>1. PICK read \in FileReads(rest) :
        /\ stream' = StreamAfterRead(rest, read)
        /\ CountFault(read)
        /\ inBuffer' = [inBuffer EXCEPT !.position = @ + taken]
        /\ IF ReadIsWhole(rest, read)
           THEN Report("ok", n,
                       [i \in 0 .. (n - 1) |->
                           IF i < taken THEN inBuffer.data[inBuffer.position + i]
                           ELSE IF i - taken < read.count
                                THEN stream.offset + (i - taken)
                                ELSE Junk], FALSE)
           ELSE Report("error", n, << >>, Excused(n, read))
  BY DEF Direct
<1>2. /\ read.count \in Nat /\ read.fault \in BOOLEAN
      /\ read.fault => faults < MaxReadFaults
  BY <1>0, ReadOutcomes
<1>3. /\ inBuffer' \in [capacity : Nat, data : [0 .. (inBuffer.capacity - 1) -> Int],
                        size : Nat, position : Nat]
      /\ inBuffer'.capacity = inBuffer.capacity /\ inBuffer'.data = inBuffer.data
      /\ inBuffer'.size = inBuffer.size /\ inBuffer'.position = inBuffer.position + taken
  <2>1. /\ inBuffer' = [inBuffer EXCEPT !.position = inBuffer.position + taken]
        /\ inBuffer.position + taken \in Nat
    BY <1>0, <1>1
  <2>2. /\ inBuffer \in [capacity : Nat, data : [0 .. (inBuffer.capacity - 1) -> Int],
                         size : Nat, position : Nat]
        /\ inBuffer.capacity \in Nat /\ inBuffer.data \in [0 .. (inBuffer.capacity - 1) -> Int]
    BY <1>0 DEF MembersInv
  <2> QED
    BY <2>1, <2>2, BufferFields
<1>4. faults' \in 0 .. MaxReadFaults
  <2>1. faults' = IF read.fault THEN faults + 1 ELSE faults
    BY <1>1 DEF CountFault
  <2> QED
    BY <1>0, <1>2, <2>1, MemberTypes, InputAssumption
<1>5. /\ stream' \in [opened : BOOLEAN, plain : BOOLEAN, offset : Nat,
                      position : Nat, size : FileLengths]
      /\ stream'.plain = stream.plain
      /\ stream'.offset = stream.offset + read.count
      /\ read.count = rest => stream'.position = stream.position + rest
  BY <1>0, <1>1, StreamFields
<1>6. MembersInv'
  BY <1>0, <1>3, <1>4, <1>5, SMTT(30) DEF MembersInv, BufferAvailable
<1>7. CASE read.count = rest
  <2> DEFINE bytes == [i \in 0 .. (n - 1) |->
                          IF i < taken THEN inBuffer.data[inBuffer.position + i]
                          ELSE IF i - taken < read.count
                               THEN stream.offset + (i - taken)
                               ELSE Junk]
  <2>1. Report("ok", n, bytes, FALSE)
    BY <1>1, <1>7 DEF ReadIsWhole
  <2>2. ASSUME ~failed
        PROVE  /\ bytes = [i \in 0 .. (n - 1) |-> consumed + i]
               /\ InStep(stream', inBuffer', consumed + n)
    <3>1. InStep(stream, inBuffer, consumed)
      BY <2>2 DEF InputInv
    <3>2. ASSUME NEW i \in 0 .. (n - 1), i < taken
          PROVE  inBuffer.data[inBuffer.position + i] = consumed + i
      <4>1. /\ i \in Int /\ i >= 0
            /\ inBuffer.position + i \in inBuffer.position .. (inBuffer.size - 1)
        BY <1>0, <3>2 DEF BufferAvailable
      <4> QED
        BY <1>0, <3>1, <4>1 DEF InStep
    <3>3. ASSUME NEW i \in 0 .. (n - 1), ~(i < taken)
          PROVE  i - taken < read.count /\ stream.offset + (i - taken) = consumed + i
      BY <1>0, <1>7, <3>1, <3>3 DEF InStep, BufferAvailable
    <3>4. bytes = [i \in 0 .. (n - 1) |-> consumed + i]
      BY <3>2, <3>3
    <3>5. /\ stream'.offset = stream'.position
          /\ stream'.position - (inBuffer'.size - inBuffer'.position) = consumed + n
      <4>1. /\ stream.offset = stream.position
            /\ stream.position - (inBuffer.size - inBuffer.position) = consumed
        BY <3>1 DEF InStep
      <4>2. /\ stream'.offset = stream.offset + rest /\ stream'.position = stream.position + rest
            /\ inBuffer'.size = inBuffer.size /\ inBuffer'.position = inBuffer.position + taken
        BY <1>3, <1>5, <1>7
      <4> QED
        BY <1>0, <4>1, <4>2
    <3>6. ASSUME NEW i \in inBuffer'.position .. (inBuffer'.size - 1)
          PROVE  inBuffer'.data[i] = stream'.position - inBuffer'.size + i
      <4>1. i \in inBuffer.position .. (inBuffer.size - 1) /\ taken = n
        BY <1>0, <1>3, SMTT(30) DEF BufferAvailable
      <4> QED
        BY <1>0, <1>3, <1>5, <1>7, <3>1, <4>1 DEF InStep
    <3> QED
      BY <3>4, <3>5, <3>6 DEF InStep
  <2> HIDE DEF bytes
  <2> QED
    BY <1>6, <2>1, <2>2, ReadReturns
<1>8. CASE read.count # rest
  <2>1. Report("error", n, << >>, Excused(n, read))
    BY <1>1, <1>8 DEF ReadIsWhole
  <2>2. ASSUME ~failed PROVE Excused(n, read)
    <3>1. InStep(stream, inBuffer, consumed)
      BY <2>2 DEF InputInv
    <3>2. CASE ~read.fault
      <4>1. stream.offset + rest > length
        BY <1>0, <1>8, <3>2, ShortMeansEnd
      <4>2. taken # n
        BY <1>0, <1>2, <1>8, ReadOutcomes
      <4>3. consumed + n = stream.offset + rest
        BY <1>0, <3>1, <4>2 DEF InStep, BufferAvailable
      <4> QED
        BY <1>0, <4>1, <4>3 DEF Excused
    <3> QED
      BY <3>2 DEF Excused
  <2> QED
    BY <1>6, <2>1, <2>2, ReadThrows
<1> QED
  BY <1>7, <1>8

\* What is taken from the buffer was in it.
LEMMA TakenFits ==
    ASSUME MembersInv, NEW n \in Nat
    PROVE  /\ Taken(n) \in Nat /\ Taken(n) <= n /\ Taken(n) <= BufferAvailable
           /\ Taken(n) = n \/ Taken(n) = BufferAvailable
           /\ BufferAvailable \in Nat
BY DEF Taken, Lesser, BufferAvailable, MembersInv

\* A Read or Skip that the buffer serves.
LEMMA FromBufferStep ==
    ASSUME InputInv, NEW n \in Nat, ReadFromBuffer(n)
    PROVE  InputInv'
<1> DEFINE bytes == [i \in 0 .. (n - 1) |-> inBuffer.data[inBuffer.position + i]]
<1>0. /\ MembersInv
      /\ inBuffer.size \in Nat /\ inBuffer.position \in Nat /\ inBuffer.position <= inBuffer.size
      /\ stream.position \in Nat /\ consumed \in Nat /\ n <= BufferAvailable
  BY TakenFits DEF InputInv, MembersInv, ReadFromBuffer
<1>1. /\ inBuffer' = [inBuffer EXCEPT !.position = @ + n]
      /\ Report("ok", n, bytes, FALSE)
      /\ UNCHANGED <<length, resizes, faults, stream>>
  BY DEF ReadFromBuffer
<1>2. /\ inBuffer' \in [capacity : Nat, data : [0 .. (inBuffer.capacity - 1) -> Int],
                        size : Nat, position : Nat]
      /\ inBuffer'.capacity = inBuffer.capacity /\ inBuffer'.data = inBuffer.data
      /\ inBuffer'.size = inBuffer.size /\ inBuffer'.position = inBuffer.position + n
  <2> DEFINE end == inBuffer.position + n
  <2>1. /\ inBuffer.capacity \in Nat
        /\ inBuffer \in [capacity : Nat, data : [0 .. (inBuffer.capacity - 1) -> Int],
                         size : Nat, position : Nat]
    BY <1>0 DEF MembersInv
  <2>2. inBuffer.data \in [0 .. (inBuffer.capacity - 1) -> Int]
    BY <2>1
  <2>3. end \in Nat /\ inBuffer.size \in Nat
    BY <1>0
  <2>4. inBuffer' = [inBuffer EXCEPT !.position = end]
    BY <1>1
  <2> HIDE DEF end
  <2>5. LET d == [inBuffer EXCEPT !.position = end]
        IN  /\ d \in [capacity : Nat, data : [0 .. (inBuffer.capacity - 1) -> Int],
                      size : Nat, position : Nat]
            /\ d.capacity = inBuffer.capacity /\ d.data = inBuffer.data
            /\ d.size = inBuffer.size /\ d.position = end
    BY <2>1, <2>2, <2>3, BufferFields, Zenon
  <2> QED
    BY <2>4, <2>5, Zenon DEF end
<1>3. MembersInv'
  <2>1. inBuffer'.position <= inBuffer'.size
    BY <1>0, <1>2 DEF BufferAvailable
  <2> QED
    BY <1>0, <1>1, <1>2, <2>1 DEF MembersInv
<1>4. ASSUME ~failed
      PROVE  /\ bytes = [i \in 0 .. (n - 1) |-> consumed + i]
             /\ InStep(stream', inBuffer', consumed + n)
  <2>1. InStep(stream, inBuffer, consumed)
    BY <1>4 DEF InputInv
  <2>2. ASSUME NEW i \in 0 .. (n - 1)
        PROVE  inBuffer.data[inBuffer.position + i] = consumed + i
    <3>1. inBuffer.position + i \in inBuffer.position .. (inBuffer.size - 1) /\ i \in Int
      BY <1>0 DEF BufferAvailable
    <3> QED
      BY <1>0, <2>1, <3>1 DEF InStep
  <2>3. InStep(stream', inBuffer', consumed + n)
    BY <1>0, <1>1, <1>2, <2>1, SMTT(30) DEF InStep, BufferAvailable
  <2> QED
    BY <2>2, <2>3
<1> HIDE DEF bytes
<1> QED
  BY <1>1, <1>3, <1>4, ReadReturns

\* A call that fills the buffer again before it goes on.
LEMMA ThroughUpdateStep ==
    ASSUME InputInv, NEW n \in Nat, ReadThroughUpdate(n)
    PROVE  InputInv'
<1> DEFINE taken == Taken(n)
           rest == n - taken
           size == UpdateSize(rest)
           data(read) == [i \in DOMAIN inBuffer.data |->
                             IF i < read.count THEN stream.offset + i ELSE inBuffer.data[i]]
           position(read) == IF ReadIsWhole(size, read) THEN PositionAfterUpdate(rest) ELSE 0
           bytes(read) == [i \in 0 .. (n - 1) |->
                              IF i < taken THEN inBuffer.data[inBuffer.position + i]
                              ELSE data(read)[i - taken]]
<1>0. /\ MembersInv
      /\ taken \in Nat /\ taken <= n /\ rest \in Nat
      /\ rest > 0 /\ rest < inBuffer.capacity /\ ~stream.plain
      /\ taken = inBuffer.size - inBuffer.position
      /\ inBuffer.size \in Nat /\ inBuffer.position \in Nat /\ inBuffer.capacity \in Nat
      /\ stream.offset \in Nat /\ stream.position \in Nat /\ consumed \in Nat
      /\ stream.size \in Nat /\ length \in Nat
  <2>1. MembersInv
    BY DEF InputInv
  <2>2. rest > 0 /\ rest < inBuffer.capacity /\ ~stream.plain
    BY DEF ReadThroughUpdate
  <2>3. taken \in Nat /\ taken <= n /\ (taken = n \/ taken = BufferAvailable)
    BY <2>1, TakenFits
  <2> HIDE DEF taken
  <2>4. consumed \in Nat /\ inBuffer.position <= inBuffer.size
    BY DEF InputInv, MembersInv
  <2> QED
    BY <2>1, <2>2, <2>3, <2>4, MemberTypes DEF BufferAvailable
<1>1. PICK read \in FileReads(size) :
        /\ stream' = StreamAfterRead(size, read)
        /\ CountFault(read)
        /\ inBuffer' = [inBuffer EXCEPT !.data = data(read), !.size = size,
                                        !.position = position(read)]
        /\ IF ReadIsWhole(size, read)
           THEN Report("ok", n, bytes(read), FALSE)
           ELSE Report("error", n, << >>, Excused(n, read))
  BY DEF ReadThroughUpdate
<1>2. UNCHANGED <<length, resizes>>
  BY DEF ReadThroughUpdate
<1> HIDE DEF taken
<1>3. /\ size \in Nat /\ size >= rest /\ size <= inBuffer.capacity
      /\ stream.position + rest <= stream.size => stream.position + size <= stream.size
  BY <1>0, UpdateFits
<1> HIDE DEF size
<1>4. /\ read.count \in Nat /\ read.count <= size /\ read.fault \in BOOLEAN
      /\ read.fault => faults < MaxReadFaults
  BY <1>0, <1>3, ReadOutcomes
<1>5. /\ data(read) \in [0 .. (inBuffer.capacity - 1) -> Int]
      /\ \A i \in 0 .. (inBuffer.capacity - 1) : i < read.count => data(read)[i] = stream.offset + i
  <2>1. inBuffer.data \in [0 .. (inBuffer.capacity - 1) -> Int]
    BY <1>0 DEF MembersInv
  <2>2. DOMAIN inBuffer.data = 0 .. (inBuffer.capacity - 1)
        /\ \A i \in 0 .. (inBuffer.capacity - 1) : i \in Int /\ inBuffer.data[i] \in Int
    <3>1. \A i \in 0 .. (inBuffer.capacity - 1) : i \in Int
      OBVIOUS
    <3>2. DOMAIN inBuffer.data = 0 .. (inBuffer.capacity - 1)
          /\ \A i \in 0 .. (inBuffer.capacity - 1) : inBuffer.data[i] \in Int
      BY <2>1, Zenon
    <3> QED
      BY <3>1, <3>2, Zenon
  <2>3. \A i \in 0 .. (inBuffer.capacity - 1) : stream.offset + i \in Int
    BY <1>0
  <2> QED
    BY <2>2, <2>3
<1>6. position(read) \in Nat /\ position(read) <= size
  BY <1>0, <1>3 DEF PositionAfterUpdate
<1> HIDE DEF data
<1>7. /\ inBuffer' \in [capacity : Nat, data : [0 .. (inBuffer.capacity - 1) -> Int],
                        size : Nat, position : Nat]
      /\ inBuffer'.capacity = inBuffer.capacity /\ inBuffer'.data = data(read)
      /\ inBuffer'.size = size /\ inBuffer'.position = position(read)
  <2> HIDE DEF position
  <2> QED
    BY <1>0, <1>1, <1>3, <1>5, <1>6 DEF MembersInv
<1>8. /\ stream' \in [opened : BOOLEAN, plain : BOOLEAN, offset : Nat,
                      position : Nat, size : FileLengths]
      /\ stream'.plain = stream.plain
      /\ stream'.offset = stream.offset + read.count
      /\ read.count = size => stream'.position = stream.position + size
  BY <1>0, <1>1, <1>3, StreamFields
<1>9. faults' \in 0 .. MaxReadFaults
  <2>1. faults' = IF read.fault THEN faults + 1 ELSE faults
    BY <1>1 DEF CountFault
  <2> QED
    BY <1>0, <1>4, <2>1, MemberTypes, InputAssumption
<1>10. MembersInv'
  BY <1>0, <1>2, <1>3, <1>6, <1>7, <1>8, <1>9 DEF MembersInv
<1>11. CASE read.count = size
  <2>1. Report("ok", n, bytes(read), FALSE) /\ position(read) = rest
    BY <1>1, <1>11 DEF ReadIsWhole, PositionAfterUpdate
  <2>2. ASSUME ~failed
        PROVE  /\ bytes(read) = [i \in 0 .. (n - 1) |-> consumed + i]
               /\ InStep(stream', inBuffer', consumed + n)
    <3>1. InStep(stream, inBuffer, consumed)
      BY <2>2 DEF InputInv
    <3>2. ASSUME NEW i \in 0 .. (n - 1), i < taken
          PROVE  inBuffer.data[inBuffer.position + i] = consumed + i
      <4>1. inBuffer.position + i \in inBuffer.position .. (inBuffer.size - 1) /\ i \in Int
        BY <1>0, <3>2
      <4> QED
        BY <1>0, <3>1, <4>1 DEF InStep
    <3>3. ASSUME NEW i \in 0 .. (n - 1), ~(i < taken)
          PROVE  data(read)[i - taken] = consumed + i
      <4>1. i - taken \in 0 .. (inBuffer.capacity - 1) /\ i - taken < read.count
        BY <1>0, <1>3, <1>11, <3>3
      <4>2. data(read)[i - taken] = stream.offset + (i - taken)
        BY <1>5, <4>1
      <4>3. consumed = stream.offset - taken
        BY <1>0, <3>1 DEF InStep
      <4> QED
        BY <1>0, <4>2, <4>3
    <3>4. bytes(read) = [i \in 0 .. (n - 1) |-> consumed + i]
      BY <3>2, <3>3
    <3>5. /\ stream'.offset = stream'.position
          /\ stream'.position - (inBuffer'.size - inBuffer'.position) = consumed + n
      <4>1. /\ stream.offset = stream.position
            /\ stream.position - (inBuffer.size - inBuffer.position) = consumed
        BY <3>1 DEF InStep
      <4>2. /\ stream'.offset = stream.offset + size /\ stream'.position = stream.position + size
            /\ inBuffer'.size = size /\ inBuffer'.position = rest
        BY <1>7, <1>8, <1>11, <2>1
      <4>3. stream.position \in Nat /\ size \in Nat /\ rest \in Nat /\ rest = n - taken
            /\ taken \in Nat /\ stream.position - taken = consumed
        BY <1>0, <1>3, <4>1
      <4>4. stream'.offset = stream'.position
        BY <4>1, <4>2
      <4> HIDE DEF rest
      <4>5. (stream.position + size) - (size - rest) = consumed + n
        BY <4>3
      <4> QED
        BY <4>2, <4>4, <4>5
    <3>6. ASSUME NEW i \in inBuffer'.position .. (inBuffer'.size - 1)
          PROVE  inBuffer'.data[i] = stream'.position - inBuffer'.size + i
      <4>1. i \in 0 .. (inBuffer.capacity - 1) /\ i < read.count
        BY <1>0, <1>3, <1>6, <1>7, <1>11
      <4>2. inBuffer'.data[i] = stream.offset + i
        BY <1>5, <1>7, <4>1
      <4>3. stream'.position = stream.offset + size /\ inBuffer'.size = size
        BY <1>7, <1>8, <1>11, <3>1 DEF InStep
      <4> QED
        BY <1>0, <1>3, <4>1, <4>2, <4>3
    <3> QED
      BY <3>4, <3>5, <3>6 DEF InStep
  <2> HIDE DEF bytes
  <2> QED
    BY <1>10, <2>1, <2>2, ReadReturns
<1>12. CASE read.count # size
  <2>1. Report("error", n, << >>, Excused(n, read))
    BY <1>1, <1>12 DEF ReadIsWhole
  <2>2. ASSUME ~failed PROVE Excused(n, read)
    <3>1. InStep(stream, inBuffer, consumed)
      BY <2>2 DEF InputInv
    <3>2. CASE ~read.fault
      <4>1. stream.offset + size > length
        BY <1>0, <1>3, <1>12, <3>2, ShortMeansEnd
      <4>2. consumed + n = stream.position + rest /\ stream.offset = stream.position
        BY <1>0, <3>1 DEF InStep
      <4> QED
        BY <1>0, <1>3, <4>1, <4>2 DEF Excused
    <3> QED
      BY <3>2 DEF Excused
  <2> QED
    BY <1>10, <2>1, <2>2, ReadThrows
<1> QED
  BY <1>11, <1>12

\* Every call of both streams, and every change of the file, preserves the invariant.
LEMMA InputStep ==
    ASSUME InputInv, [InputNext]_inputVars
    PROVE  InputInv'
<1>0. MembersInv
  BY DEF InputInv
<1>1. ASSUME NEW n \in ReadSizes, PlainRead(n) PROVE InputInv'
  <2>1. n \in Nat /\ 0 <= BufferAvailable /\ 0 = BufferAvailable
    BY <1>0, <1>1, InputAssumption DEF PlainRead, MembersInv, BufferAvailable
  <2> QED
    BY <1>1, <2>1, DirectStep DEF PlainRead
<1>2. ASSUME NEW n \in ReadSizes, ReadFromBuffer(n) PROVE InputInv'
  BY <1>2, FromBufferStep, InputAssumption
<1>3. ASSUME NEW n \in ReadSizes, ReadDirect(n) PROVE InputInv'
  <2>1. n \in Nat
    BY InputAssumption
  <2>2. /\ Taken(n) \in Nat /\ Taken(n) <= n /\ Taken(n) <= BufferAvailable
        /\ Taken(n) = n \/ Taken(n) = BufferAvailable
    BY <1>0, <2>1, TakenFits
  <2> QED
    BY <1>3, <2>1, <2>2, DirectStep DEF ReadDirect
<1>4. ASSUME NEW n \in ReadSizes, ReadThroughUpdate(n) PROVE InputInv'
  BY <1>4, ThroughUpdateStep, InputAssumption
<1>5. ASSUME NEW n \in ReadSizes, ReadClosed(n) PROVE InputInv'
  <2>1. MembersInv'
    BY <1>0, <1>5 DEF ReadClosed, MembersInv
  <2> QED
    BY <1>5, <2>1, ReadThrows DEF ReadClosed
<1>6. ASSUME NEW offset \in FileLengths, InputSeek(offset) PROVE InputInv'
  <2>1. /\ stream' = [stream EXCEPT !.offset = offset, !.position = offset]
        /\ consumed' = offset /\ failed' = FALSE /\ stream.plain
        /\ UNCHANGED <<length, resizes, faults, inBuffer, last>>
        /\ offset \in Nat
    BY <1>6, InputAssumption DEF InputSeek
  <2>2. /\ stream' \in [opened : BOOLEAN, plain : BOOLEAN, offset : Nat,
                        position : Nat, size : FileLengths]
        /\ stream'.plain = stream.plain /\ stream'.offset = offset /\ stream'.position = offset
    BY <1>0, <2>1 DEF MembersInv
  <2>3. MembersInv'
    BY <1>0, <2>1, <2>2 DEF MembersInv
  <2>4. InStep(stream', inBuffer', consumed')
    BY <1>0, <2>1, <2>2 DEF MembersInv, InStep
  <2> QED
    BY <2>1, <2>3, <2>4 DEF InputInv, InStep, DeliversTheFile, WhatIsThereCanBeRead
<1>7. CASE InputClose
  <2>1. /\ stream' = [stream EXCEPT !.opened = FALSE]
        /\ UNCHANGED <<length, resizes, faults, inBuffer, consumed, failed, last>>
    BY <1>7 DEF InputClose
  <2>2. /\ stream' \in [opened : BOOLEAN, plain : BOOLEAN, offset : Nat,
                        position : Nat, size : FileLengths]
        /\ stream'.plain = stream.plain
        /\ stream'.offset = stream.offset /\ stream'.position = stream.position
    BY <1>0, <2>1 DEF MembersInv
  <2> QED
    BY <2>1, <2>2 DEF InputInv, MembersInv, InStep, DeliversTheFile, WhatIsThereCanBeRead
<1>8. ASSUME NEW newLength \in FileLengths, Resize(newLength) PROVE InputInv'
  BY <1>8, InputAssumption
     DEF Resize, InputInv, MembersInv, InStep, DeliversTheFile, WhatIsThereCanBeRead
<1>9. CASE UNCHANGED inputVars
  BY <1>9 DEF inputVars, InputInv, MembersInv, InStep, DeliversTheFile, WhatIsThereCanBeRead
<1> QED
  BY <1>1, <1>2, <1>3, <1>4, <1>5, <1>6, <1>7, <1>8, <1>9 DEF InputNext

\* A stream that was just opened.
LEMMA InputInvInit == InputInit => InputInv
<1> SUFFICES ASSUME InputInit PROVE InputInv
  OBVIOUS
<1>1. PICK plain \in BOOLEAN : stream = [opened |-> TRUE, plain |-> plain, offset |-> 0,
                                         position |-> 0, size |-> length]
  BY DEF InputInit
<1>2. PICK capacity \in Capacities :
          inBuffer = [capacity |-> capacity, data |-> [i \in 0 .. (capacity - 1) |-> Junk],
                      size |-> 0, position |-> 0]
  BY DEF InputInit
<1>3. MembersInv
  BY <1>1, <1>2, InputAssumption DEF InputInit, MembersInv, Junk
<1>4. InStep(stream, inBuffer, consumed)
  BY <1>1, <1>2 DEF InputInit, InStep
<1>5. DeliversTheFile /\ WhatIsThereCanBeRead /\ consumed \in Nat /\ failed \in BOOLEAN
  BY DEF InputInit, NoRead, DeliversTheFile, WhatIsThereCanBeRead
<1> QED
  BY <1>3, <1>4, <1>5 DEF InputInv

\* Readers of a file that changes under them get its bytes in order at the
\* positions they are told, or an error, and get what is there: FileInputStream
\* and FileInputStreamBuffered, up to the first Read that throws.
THEOREM InputCorrect == InputSpec => []ReaderIsInStep
<1>1. InputInv /\ [InputNext]_inputVars => InputInv'
  BY InputStep
<1>2. InputInv => ReaderIsInStep
  <2> SUFFICES ASSUME InputInv PROVE ReaderIsInStep
    OBVIOUS
  <2>1. InputTypeOK
    BY DEF InputInv, MembersInv, InputTypeOK
  <2>2. PositionIsConsumed
    BY InputAssumption
       DEF InputInv, MembersInv, InStep, PositionIsConsumed, Position, BufferAvailable, AtEnd
  <2> QED
    BY <2>1, <2>2 DEF InputInv, ReaderIsInStep
<1> QED
  BY <1>1, <1>2, InputInvInit, PTL DEF InputSpec

-----------------------------------------------------------------------------
(* SharedPaths.                                                             *)

\* A call that has made a temporary link has a number of one.
LinkInv ==
    /\ link \in Procs \cup {Nobody}
    /\ temp \in [TempNumbers -> Procs \cup {Nobody}]
    /\ linker \in [Procs -> [pc : {"idle", "create", "temp", "rename", "unlink", "returned",
                                   "left", "killed"},
                             i : TempNumbers \cup {1}]]
    /\ \A p \in Procs : linker[p].pc \in {"rename", "unlink"} => linker[p].i \in TempNumbers
    /\ TempLinksAreOwned

\* CreatePath has seen that all components before its current one are
\* directories, and nobody removes one.
MadeSoFar ==
    \A p \in Procs : \A k \in 1 .. MaxDepth : k < maker[p].i => dirs[k] = "dir"

\* Of two calls at one component at most one made the component before it.
MadeByOne ==
    \A p, q \in Procs :
        (maker[p].created /\ maker[q].created /\ maker[p].i = maker[q].i) => p = q

DirInv ==
    /\ dirs \in [1 .. MaxDepth -> {"none", "dir", "file"}]
    /\ maker \in [Procs -> [pc : {"idle", "mkdir", "stat", "returned", "threw"},
                            i : 1 .. MaxDepth + 1, created : BOOLEAN]]
    /\ \A p \in Procs :
          /\ maker[p].pc \in {"mkdir", "stat"} => maker[p].i <= MaxDepth
          /\ maker[p].pc = "idle" => maker[p].i = 1
          /\ maker[p].pc = "returned" => maker[p].i = MaxDepth + 1
          /\ maker[p].created => maker[p].i > 1
    /\ MadeSoFar
    /\ MadeByOne

\* The path is free between the unlink and the second bind unless another
\* process has touched it.
RebindInv ==
    \A p \in Procs :
        /\ (server[p].pc = "rebind" /\ ~meddled[p]) => socketAt = Nobody
        /\ server[p].pc = "unlink" => server[p].recreate

SocketInv ==
    /\ socketAt \in Procs \cup {Nobody}
    /\ server \in [Procs -> [pc : {"idle", "bind", "unlink", "rebind", "bound", "listening",
                                   "inuse", "throw"},
                             recreate : BOOLEAN]]
    /\ meddled \in [Procs -> BOOLEAN]
    /\ RebindInv
    /\ ServerIsReachable
    /\ RecreateLosesOnlyRaces

\* A created file is empty, and a file without a name was removed by another.
PidCreatedInv ==
    \A p \in Procs :
        /\ (pidFile[p] = "created" /\ ~pidTouched[p]) => pidText = Nobody
        /\ pidFile[p] = "orphaned" => pidTouched[p]

PidInv ==
    /\ pidText \in Procs \cup {Nobody, "both", "missing"}
    /\ pidFile \in [Procs -> {"none", "created", "orphaned", "written", "short"}]
    /\ pidTouched \in [Procs -> BOOLEAN]
    /\ PidCreatedInv
    /\ PidFileNamesItsProcess

BoundsInv == starts \in 0 .. MaxStarts /\ callFaults \in 0 .. MaxCallFaults

PathsInv == LinkInv /\ DirInv /\ SocketInv /\ PidInv /\ BoundsInv

-----------------------------------------------------------------------------
(* RecreateSymlink.                                                         *)

\* At the start no link is being made.
LEMMA LinkInit == PathsInit => LinkInv
BY PathsAssumption DEF PathsInit, LinkInv, TempLinksAreOwned, TempNumbers

\* Each call of RecreateSymlink, by any process, preserves what is known of the links.
LEMMA LinkStep ==
    ASSUME LinkInv, LinkNext
    PROVE  LinkInv'
<1> USE PathsAssumption DEF LinkInv, TempLinksAreOwned, LinkGoes
<1>1. ASSUME NEW p \in Procs, LinkCall(p) PROVE LinkInv'
  BY <1>1 DEF LinkCall
<1>2. ASSUME NEW p \in Procs, LinkCreate(p) PROVE LinkInv'
  BY <1>2 DEF LinkCreate
<1>3. ASSUME NEW p \in Procs, LinkTemp(p) PROVE LinkInv'
  <2> DEFINE i == linker[p].i
  <2>1. CASE TempIsFree(i)
    <3>1. /\ temp' = [temp EXCEPT ![i] = p] /\ UNCHANGED link
          /\ linker' = [linker EXCEPT ![p].pc = "rename"]
          /\ i \in TempNumbers /\ temp[i] = Nobody /\ linker[p].pc = "temp"
      BY <1>3, <2>1 DEF LinkTemp, TempIsFree
    <3> QED
      BY <3>1
  <2>2. CASE ~TempIsFree(i)
    <3>1. /\ UNCHANGED <<link, temp>> /\ linker' = [linker EXCEPT ![p].i = @ + 1]
          /\ i < MaxTempLinks /\ linker[p].pc = "temp"
      BY <1>3, <2>2 DEF LinkTemp
    <3>2. i + 1 \in TempNumbers
      BY <3>1 DEF TempNumbers
    <3> QED
      BY <3>1, <3>2
  <2> QED
    BY <2>1, <2>2
<1>4. ASSUME NEW p \in Procs, LinkRename(p) PROVE LinkInv'
  BY <1>4 DEF LinkRename, Renamed
<1>5. ASSUME NEW p \in Procs, LinkRenameFails(p) PROVE LinkInv'
  BY <1>5 DEF LinkRenameFails
<1>6. ASSUME NEW p \in Procs, LinkUnlink(p) PROVE LinkInv'
  BY <1>6 DEF LinkUnlink
<1>7. ASSUME NEW p \in Procs, LinkUnlinkFails(p) PROVE LinkInv'
  BY <1>7 DEF LinkUnlinkFails
<1>8. ASSUME NEW p \in Procs, LinkFails(p) PROVE LinkInv'
  BY <1>8 DEF LinkFails
<1>9. ASSUME NEW p \in Procs, LinkDone(p) PROVE LinkInv'
  BY <1>9 DEF LinkDone
<1>10. ASSUME NEW p \in Procs, LinkKilled(p) PROVE LinkInv'
  BY <1>10 DEF LinkKilled
<1> QED
  BY <1>1, <1>2, <1>3, <1>4, <1>5, <1>6, <1>7, <1>8, <1>9, <1>10 DEF LinkNext

\* Only the rename changes a link that exists, and it puts a link in its place.
LEMMA LinkStays ==
    ASSUME LinkInv, LinkNext, link # Nobody
    PROVE  link' # Nobody
<1> USE PathsAssumption DEF LinkInv, TempLinksAreOwned
<1>1. ASSUME NEW p \in Procs, LinkRename(p) PROVE link' # Nobody
  BY <1>1 DEF LinkRename, Renamed
<1>2. ASSUME NEW p \in Procs, LinkCreate(p) PROVE link' # Nobody
  BY <1>2 DEF LinkCreate
<1> QED
  BY <1>1, <1>2 DEF LinkNext, LinkCall, LinkTemp, LinkRenameFails, LinkUnlink, LinkUnlinkFails,
                    LinkFails, LinkDone, LinkKilled

-----------------------------------------------------------------------------
(* CreatePath.                                                              *)

\* At the start no path is being created.
LEMMA DirInit == PathsInit => DirInv
BY PathsAssumption DEF PathsInit, DirInv, MadeSoFar, MadeByOne

\* The end of one turn of CreatePath's loop.
Turned(p, created) ==
    /\ maker' \in [Procs -> [pc : {"idle", "mkdir", "stat", "returned", "threw"},
                             i : 1 .. MaxDepth + 1, created : BOOLEAN]]
    /\ maker'[p].i = maker[p].i + 1
    /\ maker'[p].created = created
    /\ maker'[p].pc \in {"mkdir", "returned"}
    /\ maker'[p].pc = "mkdir" => maker'[p].i <= MaxDepth
    /\ maker'[p].pc = "returned" => maker'[p].i = MaxDepth + 1
    /\ \A q \in Procs : q # p => maker'[q] = maker[q]

\* What CreatePath does next after a component exists.
LEMMA NextComponent ==
    ASSUME DirInv, NEW p \in Procs, NEW created \in BOOLEAN,
           maker[p].pc \in {"mkdir", "stat"}, MakeNextComponent(p, created)
    PROVE  Turned(p, created)
<1> DEFINE turn == [pc |-> IF IsLastComponent(maker[p].i) THEN "returned" ELSE "mkdir",
                    i |-> maker[p].i + 1, created |-> created]
<1>1. maker' = [maker EXCEPT ![p] = turn]
  BY DEF MakeNextComponent
<1>2. maker[p].i \in 1 .. MaxDepth
  BY PathsAssumption DEF DirInv
<1>3. /\ turn \in [pc : {"idle", "mkdir", "stat", "returned", "threw"},
                   i : 1 .. MaxDepth + 1, created : BOOLEAN]
      /\ turn.pc = "mkdir" => turn.i <= MaxDepth
      /\ turn.pc = "returned" => turn.i = MaxDepth + 1
      /\ turn.pc \in {"mkdir", "returned"}
      /\ turn.i = maker[p].i + 1
      /\ turn.created = created
  BY <1>2, PathsAssumption DEF IsLastComponent
<1> QED
  BY <1>1, <1>2, <1>3 DEF DirInv, Turned

\* Each mkdir and stat of CreatePath, by any process, preserves what is known of the path.
LEMMA DirStep ==
    ASSUME DirInv, MakeNext
    PROVE  DirInv'
<1> USE PathsAssumption DEF DirInv, MadeSoFar, MadeByOne
<1>1. ASSUME NEW p \in Procs, MakeCall(p) PROVE DirInv'
  BY <1>1 DEF MakeCall
<1>2. ASSUME NEW p \in Procs, MakeDirFails(p) PROVE DirInv'
  BY <1>2, SMTT(30) DEF MakeDirFails
<1>3. ASSUME NEW p \in Procs, MakeDir(p) PROVE DirInv'
  <2>1. CASE dirs[maker[p].i] = "none"
    <3>1. /\ dirs' = [dirs EXCEPT ![maker[p].i] = "dir"]
          /\ MakeNextComponent(p, TRUE)
          /\ maker[p].pc = "mkdir"
      BY <1>3, <2>1 DEF MakeDir
    <3>2. \A q \in Procs : maker[q].i # maker[p].i + 1
      BY <2>1, <3>1
    <3>3. Turned(p, TRUE)
      BY <3>1, NextComponent
    <3>4. MadeSoFar'
      BY <3>1, <3>3 DEF Turned
    <3>5. MadeByOne'
      <4> SUFFICES ASSUME NEW a \in Procs, NEW b \in Procs, a # b, maker'[a].created,
                          maker'[b].created, maker'[a].i = maker'[b].i
                   PROVE  FALSE
        OBVIOUS
      <4>1. CASE a = p
        BY <3>2, <3>3, <4>1 DEF Turned
      <4>2. CASE b = p
        BY <3>2, <3>3, <4>2 DEF Turned
      <4>3. CASE a # p /\ b # p
        BY <3>3, <4>3 DEF Turned
      <4> QED
        BY <4>1, <4>2, <4>3
    <3> QED
      BY <3>1, <3>3, <3>4, <3>5 DEF Turned
  <2>2. CASE dirs[maker[p].i] # "none"
    <3>1. UNCHANGED dirs /\ maker' = [maker EXCEPT ![p].pc = "stat"] /\ maker[p].pc = "mkdir"
      BY <1>3, <2>2 DEF MakeDir
    <3> QED
      BY <3>1
  <2> QED
    BY <2>1, <2>2
<1>4. ASSUME NEW p \in Procs, MakeStat(p) PROVE DirInv'
  <2>1. CASE IsDirectory(maker[p].i)
    <3>1. /\ UNCHANGED dirs
          /\ MakeNextComponent(p, FALSE)
          /\ dirs[maker[p].i] = "dir"
          /\ maker[p].pc = "stat"
      BY <1>4, <2>1 DEF MakeStat, IsDirectory, CreatedIfExists
    <3>2. Turned(p, FALSE)
      BY <3>1, NextComponent
    <3>3. MadeSoFar'
      BY <3>1, <3>2 DEF Turned
    <3>4. MadeByOne'
      BY <3>2 DEF Turned
    <3>5. \A q \in Procs :
             /\ maker'[q].pc \in {"mkdir", "stat"} => maker'[q].i <= MaxDepth
             /\ maker'[q].pc = "idle" => maker'[q].i = 1
             /\ maker'[q].pc = "returned" => maker'[q].i = MaxDepth + 1
      <4> TAKE q \in Procs
      <4>1. CASE q = p
        BY <3>2, <4>1 DEF Turned
      <4>2. CASE q # p
        BY <3>2, <4>2 DEF Turned
      <4> QED
        BY <4>1, <4>2
    <3>6. \A q \in Procs : maker'[q].created => maker'[q].i > 1
      BY <3>1, <3>2 DEF Turned
    <3> QED
      BY <3>1, <3>2, <3>3, <3>4, <3>5, <3>6 DEF Turned
  <2>2. CASE ~IsDirectory(maker[p].i)
    <3>1. /\ UNCHANGED dirs /\ maker' = [maker EXCEPT ![p].pc = "threw"]
          /\ maker[p].pc = "stat"
      BY <1>4, <2>2 DEF MakeStat
    <3> QED
      BY <3>1
  <2> QED
    BY <2>1, <2>2
<1> QED
  BY <1>1, <1>2, <1>3, <1>4 DEF MakeNext

-----------------------------------------------------------------------------
(* UnixSocketServer::Listen.                                                *)

\* At the start no server is bound.
LEMMA SocketInit == PathsInit => SocketInv
BY PathsAssumption DEF PathsInit, SocketInv, RebindInv, ServerIsReachable, RecreateLosesOnlyRaces

\* Whatever a process does to the socket's path may surprise every other one.
LEMMA MeddleAll ==
    ASSUME NEW p \in Procs, Meddle(p)
    PROVE  meddled' = [q \in Procs |-> q # p]
BY Zenon DEF Meddle

\* Each step of a UnixSocketServer preserves what is known of its path.
LEMMA SocketStep ==
    ASSUME SocketInv, SocketNext
    PROVE  SocketInv'
<1> USE PathsAssumption DEF SocketInv, RebindInv, ServerIsReachable, RecreateLosesOnlyRaces,
                            ServerGoes
<1>1. ASSUME NEW p \in Procs, NEW recreate \in BOOLEAN, ListenCall(p, recreate)
      PROVE SocketInv'
  BY <1>1 DEF ListenCall
<1>2. ASSUME NEW p \in Procs, ListenBind(p) PROVE SocketInv'
  <2>1. CASE socketAt = Nobody
    <3>1. /\ server[p].pc = "bind"
          /\ socketAt' = p
          /\ server' = [server EXCEPT ![p].pc = "bound"]
          /\ meddled' = [q \in Procs |-> q # p]
      BY <1>2, <2>1, MeddleAll DEF ListenBind
    <3> QED
      BY <3>1
  <2>2. CASE socketAt # Nobody
    <3>1. /\ server[p].pc = "bind"
          /\ UNCHANGED <<socketAt, meddled>>
          /\ \/ ~server[p].recreate /\ server' = [server EXCEPT ![p].pc = "inuse"]
             \/ server[p].recreate /\ server' = [server EXCEPT ![p].pc = "unlink"]
      BY <1>2, <2>2 DEF ListenBind, TakesOver
    <3> QED
      BY <3>1, SMTT(30)
  <2> QED
    BY <2>1, <2>2
<1>3. ASSUME NEW p \in Procs, ListenFails(p) PROVE SocketInv'
  BY <1>3 DEF ListenFails
<1>4. ASSUME NEW p \in Procs, ListenUnlink(p) PROVE SocketInv'
  <2>1. /\ server[p].pc = "unlink"
        /\ socketAt' = Nobody
        /\ server' = [server EXCEPT ![p].pc = "rebind"]
        /\ meddled' = [q \in Procs |-> q # p]
    BY <1>4, MeddleAll DEF ListenUnlink
  <2> QED
    BY <2>1
<1>5. ASSUME NEW p \in Procs, ListenRebind(p) PROVE SocketInv'
  <2>1. CASE socketAt = Nobody
    <3>1. /\ server[p].pc = "rebind"
          /\ socketAt' = p
          /\ server' = [server EXCEPT ![p].pc = "bound"]
          /\ meddled' = [q \in Procs |-> q # p]
      BY <1>5, <2>1, MeddleAll DEF ListenRebind
    <3> QED
      BY <3>1
  <2>2. CASE socketAt # Nobody
    <3>1. /\ server[p].pc = "rebind" /\ meddled[p]
          /\ UNCHANGED <<socketAt, meddled>>
          /\ server' = [server EXCEPT ![p].pc = "inuse"]
      BY <1>5, <2>2 DEF ListenRebind
    <3> QED
      BY <3>1
  <2> QED
    BY <2>1, <2>2
<1>6. ASSUME NEW p \in Procs, ListenEnds(p) PROVE SocketInv'
  BY <1>6 DEF ListenEnds, SocketAtAfterListen
<1>7. ASSUME NEW p \in Procs, ServerEnds(p) PROVE SocketInv'
  <2>1. /\ socketAt' = Nobody
        /\ server' = [server EXCEPT ![p].pc = "idle"]
        /\ meddled' = [q \in Procs |-> q # p]
    BY <1>7, MeddleAll DEF ServerEnds
  <2> QED
    BY <2>1
<1>8. ASSUME NEW p \in Procs, ServerKilled(p) PROVE SocketInv'
  BY <1>8 DEF ServerKilled
<1> QED
  BY <1>1, <1>2, <1>3, <1>4, <1>5, <1>6, <1>7, <1>8 DEF SocketNext

-----------------------------------------------------------------------------
(* PidFile.                                                                 *)

\* At the start there is no pid file.
LEMMA PidInit == PathsInit => PidInv
BY PathsAssumption DEF PathsInit, PidInv, PidCreatedInv, PidFileNamesItsProcess

\* Each step of a PidFile preserves what is known of the file.
LEMMA PidStep ==
    ASSUME PidInv, PidNext
    PROVE  PidInv'
<1> USE PathsAssumption DEF PidInv, PidCreatedInv, PidFileNamesItsProcess, PidGoes, TouchPidFile
<1>1. ASSUME NEW p \in Procs, PidCreate(p) PROVE PidInv'
  BY <1>1 DEF PidCreate, PidCreatedText
<1>2. ASSUME NEW p \in Procs, PidWrite(p) PROVE PidInv'
  BY <1>2 DEF PidWrite
<1>3. ASSUME NEW p \in Procs, PidWriteOrphan(p) PROVE PidInv'
  BY <1>3 DEF PidWriteOrphan
<1>4. ASSUME NEW p \in Procs, PidWriteFails(p) PROVE PidInv'
  BY <1>4 DEF PidWriteFails
<1>s. ASSUME NEW p \in Procs, PidWriteShort(p) PROVE PidInv'
  BY <1>s DEF PidWriteShort
<1>5. ASSUME NEW p \in Procs, PidRemove(p) PROVE PidInv'
  BY <1>5 DEF PidRemove
<1>6. ASSUME NEW p \in Procs, PidLeft(p) PROVE PidInv'
  BY <1>6 DEF PidLeft
<1> QED
  BY <1>1, <1>2, <1>3, <1>4, <1>s, <1>5, <1>6 DEF PidNext

-----------------------------------------------------------------------------
(* The operations together.                                                 *)

\* The four users of paths do not touch each other's variables: making links.
LEMMA LinkFrame == LinkNext => UNCHANGED <<dirVars, socketVars, pidVars>>
BY DEF LinkNext, LinkCall, LinkCreate, LinkTemp, LinkRename, LinkRenameFails, LinkUnlink,
       LinkUnlinkFails, LinkFails, LinkDone, LinkKilled

\* ... creating directories.
LEMMA MakeFrame == MakeNext => UNCHANGED <<linkVars, socketVars, pidVars>>
BY DEF MakeNext, MakeCall, MakeDir, MakeDirFails, MakeStat

\* ... serving a socket.
LEMMA SocketFrame == SocketNext => UNCHANGED <<linkVars, dirVars, pidVars>>
BY DEF SocketNext, ListenCall, ListenBind, ListenFails, ListenUnlink, ListenRebind, ListenEnds,
       ServerEnds, ServerKilled

\* ... writing a pid file.
LEMMA PidFrame == PidNext => UNCHANGED <<linkVars, dirVars, socketVars>>
BY DEF PidNext, PidCreate, PidWrite, PidWriteOrphan, PidWriteFails, PidWriteShort, PidRemove, PidLeft

\* An invariant over variables that did not change is preserved: links.
LEMMA LinkSame == LinkInv /\ UNCHANGED linkVars => LinkInv'
BY DEF LinkInv, TempLinksAreOwned, linkVars

\* ... directories.
LEMMA DirSame == DirInv /\ UNCHANGED dirVars => DirInv'
BY DEF DirInv, MadeSoFar, MadeByOne, dirVars

\* ... sockets.
LEMMA SocketSame == SocketInv /\ UNCHANGED socketVars => SocketInv'
BY DEF SocketInv, RebindInv, ServerIsReachable, RecreateLosesOnlyRaces, socketVars

\* ... pid files.
LEMMA PidSame == PidInv /\ UNCHANGED pidVars => PidInv'
BY DEF PidInv, PidCreatedInv, PidFileNamesItsProcess, pidVars

\* The bounds of calls and failures are kept.
LEMMA BoundsStep ==
    ASSUME BoundsInv, PathsNext
    PROVE  BoundsInv'
<1> USE PathsAssumption DEF BoundsInv, Start, Fault
<1>1. CASE LinkNext
  BY <1>1 DEF LinkNext, LinkCall, LinkCreate, LinkTemp, LinkRename, LinkRenameFails, LinkUnlink,
              LinkUnlinkFails, LinkFails, LinkDone, LinkKilled
<1>2. CASE MakeNext
  <2>1. ASSUME NEW p \in Procs, MakeCall(p) \/ MakeDirFails(p) PROVE BoundsInv'
    BY <2>1 DEF MakeCall, MakeDirFails
  <2>2. ASSUME NEW p \in Procs, MakeDir(p) PROVE BoundsInv'
    BY <2>2 DEF MakeDir
  <2>3. ASSUME NEW p \in Procs, MakeStat(p) PROVE BoundsInv'
    BY <2>3 DEF MakeStat
  <2> QED
    BY <1>2, <2>1, <2>2, <2>3 DEF MakeNext
<1>3. CASE SocketNext
  BY <1>3 DEF SocketNext, ListenCall, ListenBind, ListenFails, ListenUnlink, ListenRebind,
              ListenEnds, ServerEnds, ServerKilled
<1>4. CASE PidNext
  BY <1>4 DEF PidNext, PidCreate, PidWrite, PidWriteOrphan, PidWriteFails, PidWriteShort, PidRemove,
              PidLeft
<1> QED
  BY <1>1, <1>2, <1>3, <1>4 DEF PathsNext

\* PathsInv is inductive.
THEOREM PathsInvariant == PathsSpec => []PathsInv
<1>1. PathsInit => PathsInv
  BY LinkInit, DirInit, SocketInit, PidInit, PathsAssumption DEF PathsInv, BoundsInv, PathsInit
<1>2. PathsInv /\ [PathsNext]_pathVars => PathsInv'
  <2> SUFFICES ASSUME PathsInv, [PathsNext]_pathVars PROVE PathsInv'
    OBVIOUS
  <2> USE DEF PathsInv
  <2>1. CASE LinkNext
    BY <2>1, LinkStep, LinkFrame, DirSame, SocketSame, PidSame, BoundsStep DEF PathsNext
  <2>2. CASE MakeNext
    BY <2>2, DirStep, MakeFrame, LinkSame, SocketSame, PidSame, BoundsStep DEF PathsNext
  <2>3. CASE SocketNext
    BY <2>3, SocketStep, SocketFrame, LinkSame, DirSame, PidSame, BoundsStep DEF PathsNext
  <2>4. CASE PidNext
    BY <2>4, PidStep, PidFrame, LinkSame, DirSame, SocketSame, BoundsStep DEF PathsNext
  <2>5. CASE UNCHANGED pathVars
    BY <2>5, LinkSame, DirSame, SocketSame, PidSame
       DEF pathVars, linkVars, dirVars, socketVars, pidVars, BoundsInv
  <2> QED
    BY <2>1, <2>2, <2>3, <2>4, <2>5 DEF PathsNext
<1> QED
  BY <1>1, <1>2, PTL DEF PathsSpec

\* What several processes do at one path keeps what they were promised: a link
\* that RecreateSymlink replaces never vanishes, a temporary link has one owner,
\* a path is created by one process and exists for all, and a server and a pid
\* file keep their path until another process takes it.
THEOREM PathsSharedCorrect == PathsSpec => PathsAreShared
<1>1. PathsInv => TempLinksAreOwned /\ CreatedPathExists /\ CreatedByOneOnly
  <2> SUFFICES ASSUME PathsInv
               PROVE  TempLinksAreOwned /\ CreatedPathExists /\ CreatedByOneOnly
    OBVIOUS
  <2>1. TempLinksAreOwned
    BY DEF PathsInv, LinkInv
  <2>2. CreatedPathExists
    BY PathsAssumption DEF PathsInv, DirInv, MadeSoFar, CreatedPathExists
  <2>3. CreatedByOneOnly
    BY DEF PathsInv, DirInv, MadeByOne, CreatedByOneOnly
  <2> QED
    BY <2>1, <2>2, <2>3
<1>2. PathsInv => PathsAreKept
  BY DEF PathsInv, LinkInv, DirInv, SocketInv, PidInv, BoundsInv, PathsAreKept, PathsTypeOK
<1>3. PathsInv /\ [PathsNext]_pathVars => [link # Nobody => link' # Nobody]_pathVars
  <2> SUFFICES ASSUME PathsInv, PathsNext, link # Nobody PROVE link' # Nobody
    BY DEF pathVars
  <2>1. CASE LinkNext
    BY <2>1, LinkStays DEF PathsInv
  <2>2. CASE MakeNext \/ SocketNext \/ PidNext
    BY <2>2, MakeFrame, SocketFrame, PidFrame DEF linkVars
  <2> QED
    BY <2>1, <2>2 DEF PathsNext
<1> QED
  BY <1>1, <1>2, <1>3, PathsInvariant, PTL
     DEF PathsSpec, PathsAreShared, PathsAreMade, LinkNeverVanishes

-----------------------------------------------------------------------------
(***************************************************************************)
(* Processes: ForkExecWait, DoubleForkExec and Daemonize.                   *)
(***************************************************************************)

\* Where the three processes are during ForkExecWait and DoubleForkExec.
ExecInv ==
    called \in ExecFunctions =>
        /\ proc[Caller] \in {"fork", "wait", "returned", "threw"}
        /\ proc[Caller] = "fork" => proc[Child] = "none"
        /\ proc[Caller] = "wait" => proc[Child] \in {"fork", "exec", "unwind", "program", "zombie"}
        /\ proc[Caller] \in {"returned", "threw"} => proc[Child] \in {"none", "reaped"}
        /\ proc[Child] = "fork" => called = "DoubleForkExec"
        /\ proc[Grandchild] \in {"none", "exec", "unwind", "program", "zombie"}

\* A child of ForkExecWait unwinds only after it has reported an error.
ReportInv ==
    called = "ForkExecWait" =>
        /\ proc[Child] = "unwind" \/ ~callerFile => Child \in reported
        /\ proc[Grandchild] = "none"

\* Where the caller and its child are during Daemonize.
DaemonInv ==
    called = "Daemonize" =>
        /\ callerFile
        /\ proc[Caller] \in {"fork", "returned", "exit", "exited"}
        /\ proc[Caller] = "returned" => orphan
        /\ proc[Child] \in {"none", "setsid", "chdir", "returned", "exit", "exited"}
        /\ proc[Child] # "none" => proc[Caller] \in {"exit", "exited"}
        /\ proc[Child] \in {"chdir", "returned"} => Child \in detached.session
        /\ proc[Child] = "returned" => Child \in detached.root
        /\ proc[Grandchild] = "none"

\* The inductive invariant of the functions that fork.
ProcessesInv ==
    /\ called \in ExecFunctions \cup {"none", "Daemonize"}
    /\ DOMAIN proc = Pids
    /\ callerFile \in BOOLEAN
    /\ detached = [session |-> detached.session, root |-> detached.root]
    /\ called = "none" <=> proc[Caller] = "ready"
    /\ called = "none" => callerFile /\ proc[Child] = "none" /\ proc[Grandchild] = "none"
    /\ ExecInv
    /\ ReportInv
    /\ DaemonInv

\* Before the call there is one process.
LEMMA ProcessesInvInit == ProcessesInit => ProcessesInv
BY DEF ProcessesInit, ProcessesInv, ExecInv, ReportInv, DaemonInv, ExecFunctions, Pids, Caller, Child,
       Grandchild

\* Every step of the three processes preserves the invariant.
LEMMA ProcessesInvStep ==
    ASSUME ProcessesInv, ProcessesNext
    PROVE  ProcessesInv'
<1> USE DEF ProcessesInv, ExecInv, ReportInv, DaemonInv, ExecFunctions, Pids, Caller, Child, Grandchild,
            Goes, ForkFault
<1>1. ASSUME NEW f \in ExecFunctions, CallExecFunction(f) PROVE ProcessesInv'
  BY <1>1 DEF CallExecFunction
<1>2. CASE CallDaemonize
  BY <1>2 DEF CallDaemonize
<1>3. CASE ForkForExec
  BY <1>3 DEF ForkForExec
<1>4. CASE SecondFork
  BY <1>4 DEF SecondFork, AfterSecondFork
<1>5. CASE WaitPid
  BY <1>5 DEF WaitPid
<1>6. CASE ForkDaemon
  BY <1>6 DEF ForkDaemon
<1>7. CASE SetSid
  BY <1>7 DEF SetSid
<1>8. CASE ChDir
  BY <1>8 DEF ChDir
<1>9. ASSUME NEW p \in Pids, ExecProgram(p) PROVE ProcessesInv'
  BY <1>9 DEF ExecProgram
<1>10. ASSUME NEW p \in Pids, Unwind(p) PROVE ProcessesInv'
  BY <1>10 DEF Unwind
<1>11. ASSUME NEW p \in Pids, Exit(p) PROVE ProcessesInv'
  BY <1>11 DEF Exit
<1>12. CASE ForkForExecFails
  BY <1>12 DEF ForkForExecFails
<1>13. CASE SecondForkFails
  BY <1>13 DEF SecondForkFails
<1>14. CASE WaitPidInterrupted
  BY <1>14 DEF WaitPidInterrupted, AfterInterrupt
<1>15. CASE WaitPidFails
  BY <1>15 DEF WaitPidFails
<1>16. ASSUME NEW p \in Pids, ExecFails(p) PROVE ProcessesInv'
  BY <1>16 DEF ExecFails, ReportedBy
<1>17. ASSUME NEW p \in Pids, ProgramEnds(p) PROVE ProcessesInv'
  BY <1>17 DEF ProgramEnds
<1>18. ASSUME NEW p \in Pids, DaemonCallFails(p) PROVE ProcessesInv'
  BY <1>18 DEF DaemonCallFails, AfterDaemonError
<1> QED
  BY <1>1, <1>2, <1>3, <1>4, <1>5, <1>6, <1>7, <1>8, <1>9, <1>10, <1>11, <1>12, <1>13, <1>14,
     <1>15, <1>16, <1>17, <1>18 DEF ProcessesNext, ProcessStep

\* The safety part of ProcessesAreOrderly, for any number of signals and failing
\* calls: one process goes on with the caller's code, no zombie stays, and the
\* caller's files are removed only by a child that unwound.
THEOREM ProcessesCorrect ==
    ProcessesSpec => [](OneProcessGoesOn /\ NoZombieStays /\ FileLostOnlyByReportedError)
<1>1. ProcessesInv /\ [ProcessesNext]_procVars => ProcessesInv'
  <2>1. ASSUME ProcessesInv, UNCHANGED procVars PROVE ProcessesInv'
    BY <2>1 DEF procVars, ProcessesInv, ExecInv, ReportInv, DaemonInv
  <2> QED
    BY <2>1, ProcessesInvStep
<1>2. ProcessesInv => OneProcessGoesOn /\ NoZombieStays /\ FileLostOnlyByReportedError
  BY DEF ProcessesInv, ExecInv, ReportInv, DaemonInv, ExecFunctions, Pids, Caller, Child, Grandchild,
         OneProcessGoesOn, NoZombieStays, FileLostOnlyByReportedError
<1> QED
  BY <1>1, <1>2, ProcessesInvInit, PTL DEF ProcessesSpec

-----------------------------------------------------------------------------
(* FilePath.                                                                *)

\* A set of numbers has a least one.
LEMMA LeastNumber ==
    ASSUME NEW S \in SUBSET Nat, S # {}
    PROVE  \E n \in S : \A m \in S : n <= m
<1>1. PICK x \in S : \A y \in S : ~ (<<y, x>> \in OpToRel(<, Nat))
  BY NatLessThanWellFounded, WFMin, Zenon
<1>2. \A y \in S : ~ (y < x)
  BY <1>1 DEF OpToRel
<1> QED
  BY <1>2

\* The paths on the way, one for each number of tokens.
Building(g, p, ts, n) == g = [k \in 0 .. n |-> IF k = 0 THEN p ELSE ProcessToken(g[k - 1], ts[k])]
Builds(g, p, ts) == g[0] = p /\ \A k \in 1 .. Len(ts) : g[k] = ProcessToken(g[k - 1], ts[k])

LEMMA BuildingMore ==
    ASSUME NEW p, NEW ts, NEW n \in Nat, NEW g, Building(g, p, ts, n)
    PROVE  \E h : Building(h, p, ts, n + 1)
<1> DEFINE h == [k \in 0 .. n + 1 |-> IF k = 0 THEN p ELSE ProcessToken(g[k - 1], ts[k])]
<1>1. \A k \in 0 .. n : h[k] = g[k]
  BY DEF Building
<1>2. ASSUME NEW k \in 0 .. n + 1
      PROVE  (IF k = 0 THEN p ELSE ProcessToken(g[k - 1], ts[k])) = (IF k = 0 THEN p ELSE ProcessToken(h[k - 1], ts[k]))
  <2>1. CASE k # 0
    <3>1. k - 1 \in 0 .. n
      BY <2>1
    <3>2. h[k - 1] = g[k - 1]
      BY <3>1, <1>1
    <3> HIDE DEF h
    <3> QED
      BY <3>2, Zenon
  <2>2. CASE k = 0
    <3> HIDE DEF h
    <3> QED
      BY <2>2, Zenon
  <2> QED
    BY <2>1, <2>2
<1>3. h = [k \in 0 .. n + 1 |-> IF k = 0 THEN p ELSE ProcessToken(h[k - 1], ts[k])]
  BY <1>2, Zenon
<1> QED
  BY <1>3, Zenon DEF Building

LEMMA BuildingExists ==
    ASSUME NEW p, NEW ts, NEW n \in Nat
    PROVE  \E g : Building(g, p, ts, n)
<1> DEFINE S == {m \in Nat : ~ \E g : Building(g, p, ts, m)}
<1>1. ASSUME S # {} PROVE FALSE
  <2>1. PICK m \in S : \A k \in S : m <= k
    BY <1>1, LeastNumber, Zenon
  <2>2. m # 0
    <3> DEFINE e == [k \in 0 .. 0 |-> p]
    <3>1. \A k \in 0 .. 0 : k = 0
      OBVIOUS
    <3>2. \A k \in 0 .. 0 : p = (IF k = 0 THEN p ELSE ProcessToken(e[k - 1], ts[k]))
      BY <3>1, Zenon
    <3>3. e = [k \in 0 .. 0 |-> IF k = 0 THEN p ELSE ProcessToken(e[k - 1], ts[k])]
      BY <3>2, Zenon
    <3> HIDE DEF e
    <3>4. \E g : Building(g, p, ts, 0)
      BY <3>3, Zenon DEF Building
    <3> QED
      BY <3>4, <2>1, Zenon
  <2>3. m - 1 \in Nat /\ ~(m <= m - 1) /\ (m - 1) + 1 = m
    BY <2>1, <2>2
  <2>4. \E g : Building(g, p, ts, m - 1)
    BY <2>1, <2>3, Zenon
  <2>5. \E h : Building(h, p, ts, (m - 1) + 1)
    BY <2>3, <2>4, BuildingMore, Zenon
  <2> QED
    BY <2>1, <2>3, <2>5
<1> QED
  BY <1>1

LEMMA AppendedIs ==
    ASSUME NEW p, NEW ts, Len(ts) \in Nat
    PROVE  \E g : Builds(g, p, ts) /\ Appended(p, ts) = g[Len(ts)]
<1> DEFINE g == CHOOSE h : Building(h, p, ts, Len(ts))
<1>1. Building(g, p, ts, Len(ts))
  BY BuildingExists, Zenon
<1>2. Appended(p, ts) = g[Len(ts)]
  BY Zenon DEF Appended, Building
<1> HIDE DEF g
<1>3. Builds(g, p, ts)
  <2> DEFINE h == [k \in 0 .. Len(ts) |-> IF k = 0 THEN p ELSE ProcessToken(g[k - 1], ts[k])]
  <2>1. g = h
    BY <1>1, Zenon DEF Building
  <2>2. h[0] = p /\ \A k \in 1 .. Len(ts) : h[k] = ProcessToken(g[k - 1], ts[k])
    OBVIOUS
  <2> HIDE DEF h
  <2> QED
    BY <2>1, <2>2, Zenon DEF Builds
<1> QED
  BY <1>2, <1>3, Zenon

\* The directories on the way.
Walking(g, d, ts, n) == g = [k \in 0 .. n |-> IF k = 0 THEN d ELSE WalkStep(g[k - 1], ts[k])]
Walks(g, d, ts) == g[0] = d /\ \A k \in 1 .. Len(ts) : g[k] = WalkStep(g[k - 1], ts[k])

LEMMA WalkingMore ==
    ASSUME NEW d, NEW ts, NEW n \in Nat, NEW g, Walking(g, d, ts, n)
    PROVE  \E h : Walking(h, d, ts, n + 1)
<1> DEFINE h == [k \in 0 .. n + 1 |-> IF k = 0 THEN d ELSE WalkStep(g[k - 1], ts[k])]
<1>1. \A k \in 0 .. n : h[k] = g[k]
  BY DEF Walking
<1>2. ASSUME NEW k \in 0 .. n + 1
      PROVE  (IF k = 0 THEN d ELSE WalkStep(g[k - 1], ts[k])) = (IF k = 0 THEN d ELSE WalkStep(h[k - 1], ts[k]))
  <2>1. CASE k # 0
    <3>1. k - 1 \in 0 .. n
      BY <2>1
    <3>2. h[k - 1] = g[k - 1]
      BY <3>1, <1>1
    <3> HIDE DEF h
    <3> QED
      BY <3>2, Zenon
  <2>2. CASE k = 0
    <3> HIDE DEF h
    <3> QED
      BY <2>2, Zenon
  <2> QED
    BY <2>1, <2>2
<1>3. h = [k \in 0 .. n + 1 |-> IF k = 0 THEN d ELSE WalkStep(h[k - 1], ts[k])]
  BY <1>2, Zenon
<1> QED
  BY <1>3, Zenon DEF Walking

LEMMA WalkingExists ==
    ASSUME NEW d, NEW ts, NEW n \in Nat
    PROVE  \E g : Walking(g, d, ts, n)
<1> DEFINE S == {m \in Nat : ~ \E g : Walking(g, d, ts, m)}
<1>1. ASSUME S # {} PROVE FALSE
  <2>1. PICK m \in S : \A k \in S : m <= k
    BY <1>1, LeastNumber, Zenon
  <2>2. m # 0
    <3> DEFINE e == [k \in 0 .. 0 |-> d]
    <3>1. \A k \in 0 .. 0 : k = 0
      OBVIOUS
    <3>2. \A k \in 0 .. 0 : d = (IF k = 0 THEN d ELSE WalkStep(e[k - 1], ts[k]))
      BY <3>1, Zenon
    <3>3. e = [k \in 0 .. 0 |-> IF k = 0 THEN d ELSE WalkStep(e[k - 1], ts[k])]
      BY <3>2, Zenon
    <3> HIDE DEF e
    <3>4. \E g : Walking(g, d, ts, 0)
      BY <3>3, Zenon DEF Walking
    <3> QED
      BY <3>4, <2>1, Zenon
  <2>3. m - 1 \in Nat /\ ~(m <= m - 1) /\ (m - 1) + 1 = m
    BY <2>1, <2>2
  <2>4. \E g : Walking(g, d, ts, m - 1)
    BY <2>1, <2>3, Zenon
  <2>5. \E h : Walking(h, d, ts, (m - 1) + 1)
    BY <2>3, <2>4, WalkingMore, Zenon
  <2> QED
    BY <2>1, <2>3, <2>5
<1> QED
  BY <1>1

LEMMA WalkIs ==
    ASSUME NEW d, NEW ts, Len(ts) \in Nat
    PROVE  \E g : Walks(g, d, ts) /\ WalkFrom(d, ts) = g[Len(ts)]
<1> DEFINE g == CHOOSE h : Walking(h, d, ts, Len(ts))
<1>1. Walking(g, d, ts, Len(ts))
  BY WalkingExists, Zenon
<1>2. WalkFrom(d, ts) = g[Len(ts)]
  BY Zenon DEF WalkFrom, Walking
<1> HIDE DEF g
<1>3. Walks(g, d, ts)
  <2> DEFINE h == [k \in 0 .. Len(ts) |-> IF k = 0 THEN d ELSE WalkStep(g[k - 1], ts[k])]
  <2>1. g = h
    BY <1>1, Zenon DEF Walking
  <2>2. h[0] = d /\ \A k \in 1 .. Len(ts) : h[k] = WalkStep(g[k - 1], ts[k])
    OBVIOUS
  <2> HIDE DEF h
  <2> QED
    BY <2>1, <2>2, Zenon DEF Walks
<1> QED
  BY <1>2, <1>3, Zenon

LEMMA WalkOnce ==
    ASSUME NEW d, NEW ts, Len(ts) \in Nat, NEW g, NEW h, Walks(g, d, ts), Walks(h, d, ts)
    PROVE  \A k \in 0 .. Len(ts) : g[k] = h[k]
<1> DEFINE S == {k \in 0 .. Len(ts) : g[k] # h[k]}
<1>1. ASSUME S # {} PROVE FALSE
  <2>1. S \in SUBSET Nat
    OBVIOUS
  <2>2. PICK m \in S : \A k \in S : m <= k
    BY <1>1, <2>1, LeastNumber, Zenon
  <2>3. g[0] = h[0]
    BY Zenon DEF Walks
  <2>4. m \in 0 .. Len(ts) /\ g[m] # h[m] /\ m # 0
    BY <2>2, <2>3
  <2>5. m \in 1 .. Len(ts) /\ m - 1 \in 0 .. Len(ts) /\ ~(m <= m - 1)
    BY <2>4
  <2>6. g[m - 1] = h[m - 1]
    BY <2>2, <2>5
  <2> QED
    BY <2>4, <2>5, <2>6, Zenon DEF Walks
<1> QED
  BY <1>1

LEMMA WalkNone ==
    ASSUME NEW d
    PROVE  WalkFrom(d, <<>>) = d
<1>1. Len(<<>>) = 0 /\ Len(<<>>) \in Nat
  OBVIOUS
<1>2. PICK g : Walks(g, d, <<>>) /\ WalkFrom(d, <<>>) = g[Len(<<>>)]
  BY <1>1, WalkIs
<1> QED
  BY <1>1, <1>2 DEF Walks

LEMMA WalkConcat ==
    ASSUME NEW A, NEW d, NEW s \in Seq(A), NEW t \in Seq(A)
    PROVE  WalkFrom(d, s \o t) = WalkFrom(WalkFrom(d, s), t)
<1> DEFINE u == s \o t
           m == Len(s)
           n == Len(t)
<1>1. /\ m \in Nat /\ n \in Nat /\ Len(u) = m + n /\ Len(u) \in Nat
      /\ \A k \in 1 .. m : u[k] = s[k]
      /\ \A k \in 1 .. n : u[m + k] = t[k]
  OBVIOUS
<1> HIDE DEF u
<1>2. PICK g : Walks(g, d, u) /\ WalkFrom(d, u) = g[Len(u)]
  BY <1>1, WalkIs
<1>3. g[0] = d /\ \A k \in 1 .. m + n : g[k] = WalkStep(g[k - 1], u[k])
  BY <1>1, <1>2, Zenon DEF Walks
<1>4. WalkFrom(d, s) = g[m]
  <2>1. Walks(g, d, s)
    <3>1. \A k \in 1 .. m : k \in 1 .. m + n
      BY <1>1
    <3> QED
      BY <3>1, <1>1, <1>3, Zenon DEF Walks
  <2>2. PICK f : Walks(f, d, s) /\ WalkFrom(d, s) = f[m]
    BY <1>1, WalkIs
  <2>3. m \in 0 .. m
    BY <1>1
  <2> QED
    BY <2>1, <2>2, <2>3, <1>1, WalkOnce
<1>5. WalkFrom(g[m], t) = g[m + n]
  <2> DEFINE h == [k \in 0 .. n |-> g[m + k]]
  <2>1. h[0] = g[m] /\ h[n] = g[m + n]
    BY <1>1
  <2>2. ASSUME NEW k \in 1 .. n PROVE h[k] = WalkStep(h[k - 1], t[k])
    <3>1. k \in 0 .. n /\ k - 1 \in 0 .. n /\ m + k \in 1 .. m + n /\ (m + k) - 1 = m + (k - 1)
      BY <1>1
    <3>2. h[k] = g[m + k] /\ h[k - 1] = g[m + (k - 1)]
      BY <3>1
    <3> HIDE DEF h
    <3>3. g[m + k] = WalkStep(g[(m + k) - 1], u[m + k])
      BY <3>1, <1>3, Zenon
    <3> QED
      BY <3>1, <3>2, <3>3, <1>1, Zenon
  <2> HIDE DEF h
  <2>3. Walks(h, g[m], t)
    BY <2>1, <2>2, Zenon DEF Walks
  <2>4. PICK f : Walks(f, g[m], t) /\ WalkFrom(g[m], t) = f[n]
    BY <1>1, WalkIs
  <2>5. n \in 0 .. n
    BY <1>1
  <2>6. f[n] = h[n]
    BY <2>3, <2>4, <2>5, <1>1, WalkOnce
  <2> QED
    BY <2>1, <2>4, <2>6
<1> HIDE DEF m, n
<1> QED
  BY <1>1, <1>2, <1>4, <1>5 DEF u

LEMMA WalkMore ==
    ASSUME NEW A, NEW d, NEW s \in Seq(A), NEW x \in A
    PROVE  WalkFrom(d, Append(s, x)) = WalkStep(WalkFrom(d, s), x)
<1> DEFINE t == <<x>>
<1>1. t \in Seq(A) /\ Len(t) = 1 /\ t[1] = x /\ Append(s, x) = s \o t
  OBVIOUS
<1> HIDE DEF t
<1>2. WalkFrom(d, s \o t) = WalkFrom(WalkFrom(d, s), t)
  BY <1>1, WalkConcat
<1>3. Len(t) \in Nat /\ 1 \in 1 .. Len(t) /\ 1 - 1 = 0
  BY <1>1
<1>4. PICK g : Walks(g, WalkFrom(d, s), t) /\ WalkFrom(WalkFrom(d, s), t) = g[Len(t)]
  BY <1>3, WalkIs
<1>5. g[1] = WalkStep(WalkFrom(d, s), x)
  BY <1>1, <1>3, <1>4, Zenon DEF Walks
<1> QED
  BY <1>1, <1>2, <1>4, <1>5

\* Directories that a walk may begin in.
DirSet == Seq(Components \cup {"dir"})

LEMMA WalkType ==
    ASSUME NEW d \in DirSet, NEW ts \in Seq(Components)
    PROVE  WalkFrom(d, ts) \in DirSet
<1>1. Len(ts) \in Nat /\ \A k \in 1 .. Len(ts) : ts[k] \in Components
  OBVIOUS
<1>2. PICK g : Walks(g, d, ts) /\ WalkFrom(d, ts) = g[Len(ts)]
  BY <1>1, WalkIs
<1> DEFINE S == {k \in 0 .. Len(ts) : g[k] \notin DirSet}
<1>3. ASSUME S # {} PROVE FALSE
  <2>1. S \in SUBSET Nat
    OBVIOUS
  <2>2. PICK m \in S : \A k \in S : m <= k
    BY <1>3, <2>1, LeastNumber, Zenon
  <2>3. g[0] \in DirSet
    BY <1>2, Zenon DEF Walks
  <2>4. m \in 1 .. Len(ts) /\ m - 1 \in 0 .. Len(ts) /\ ~(m <= m - 1) /\ g[m] \notin DirSet
    BY <2>2, <2>3
  <2>5. g[m - 1] \in DirSet
    BY <2>2, <2>4
  <2>6. g[m] = WalkStep(g[m - 1], ts[m])
    BY <2>4, <1>2, Zenon DEF Walks
  <2> DEFINE e == g[m - 1]
             x == ts[m]
  <2>7. e \in Seq(Components \cup {"dir"}) /\ x \in Components
    BY <2>4, <2>5, <1>1 DEF DirSet
  <2> HIDE DEF e, x
  <2>8. Append(e, x) \in DirSet
    BY <2>7 DEF DirSet
  <2>9. e # <<>> => Front(e) \in DirSet
    BY <2>7 DEF DirSet, Front
  <2>10. WalkStep(e, x) \in DirSet
    BY <2>7, <2>8, <2>9 DEF WalkStep, DirSet
  <2> QED
    BY <2>4, <2>6, <2>10 DEF e, x
<1>4. Len(ts) \in 0 .. Len(ts)
  BY <1>1
<1> QED
  BY <1>2, <1>3, <1>4

-----------------------------------------------------------------------------

\* A sequence without its last element.
LEMMA LastAppended ==
    ASSUME NEW A, NEW q \in Seq(A), q # <<>>
    PROVE  /\ Front(q) \in Seq(A) /\ Len(Front(q)) = Len(q) - 1
           /\ \A i \in 1 .. Len(q) - 1 : Front(q)[i] = q[i]
           /\ q = Append(Front(q), q[Len(q)]) /\ q[Len(q)] \in A
<1> DEFINE n == Len(q)
           f == Front(q)
           v == Append(f, q[n])
<1>1. n \in Nat /\ n > 0 /\ q \in [1 .. n -> A]
  OBVIOUS
<1>2. f \in Seq(A) /\ Len(f) = n - 1 /\ \A i \in 1 .. n - 1 : f[i] = q[i]
  BY <1>1 DEF Front
<1>3. q[n] \in A
  BY <1>1
<1> HIDE DEF f, n
<1>4. v \in Seq(A) /\ Len(v) = n /\ v[n] = q[n] /\ \A i \in 1 .. n - 1 : v[i] = f[i]
  BY <1>1, <1>2, <1>3
<1> HIDE DEF v
<1>5. v \in [1 .. n -> A]
  BY <1>4
<1>6. \A i \in 1 .. n : v[i] = q[i]
  <2>1. \A i \in 1 .. n : i = n \/ i \in 1 .. n - 1
    BY <1>1
  <2> QED
    BY <2>1, <1>2, <1>4
<1>7. v = q
  BY <1>1, <1>5, <1>6
<1> QED
  BY <1>2, <1>3, <1>7 DEF f, n, v

PathSet == [parts : Seq(Components), absolute : BOOLEAN]
NormalParts(q, a) ==
    \A i \in 1 .. Len(q) : q[i] # "." /\ (q[i] = ".." => ~a /\ \A j \in 1 .. i : q[j] = "..")

\* A relative path leads somewhere from every directory, an absolute one from the root.
FromOK(d, a) == d \in DirSet /\ (a => d = <<>>)

\* One token: the path is normal again, and leads where the token leads.
LEMMA TokenStep ==
    ASSUME NEW p \in PathSet, NormalParts(p.parts, p.absolute), NEW x \in Components
    PROVE  /\ ProcessToken(p, x) \in PathSet
           /\ ProcessToken(p, x).absolute = p.absolute
           /\ NormalParts(ProcessToken(p, x).parts, p.absolute)
           /\ \A d : FromOK(d, p.absolute) =>
                 WalkFrom(d, ProcessToken(p, x).parts) = WalkStep(WalkFrom(d, p.parts), x)
<1> DEFINE q == p.parts
           a == p.absolute
           r == ProcessToken(p, x)
<1>1. q \in Seq(Components) /\ Len(q) \in Nat /\ a \in BOOLEAN /\ p = [parts |-> q, absolute |-> a]
  BY DEF PathSet
<1>2. \A i \in 1 .. Len(q) : q[i] # "." /\ (q[i] = ".." => ~a /\ \A j \in 1 .. i : q[j] = "..")
  BY DEF NormalParts
<1>n. NormalParts(q, a)
  OBVIOUS
<1> DEFINE Goal == /\ r \in PathSet /\ r.absolute = a /\ NormalParts(r.parts, a)
                   /\ \A d : FromOK(d, a) => WalkFrom(d, r.parts) = WalkStep(WalkFrom(d, q), x)
<1> SUFFICES Goal
  OBVIOUS
\* Nothing changes.
<1>3. ASSUME r = p, \A d : FromOK(d, a) => WalkStep(WalkFrom(d, q), x) = WalkFrom(d, q) PROVE Goal
  <2>1. r.parts = q /\ r.absolute = a /\ r \in PathSet
    BY <1>3
  <2> HIDE DEF r, q, a
  <2> QED
    BY <2>1, <1>n, <1>3, Zenon
\* The token is appended.
<1>4. ASSUME r = [p EXCEPT !.parts = Append(@, x)], x # ".", x = ".." => ~a /\ \A j \in 1 .. Len(q) : q[j] = ".."
      PROVE  Goal
  <2> DEFINE v == Append(q, x)
  <2>1. r.parts = v /\ r.absolute = a
    BY <1>1, <1>4
  <2>2. v \in Seq(Components) /\ Len(v) = Len(q) + 1 /\ v[Len(q) + 1] = x /\ \A i \in 1 .. Len(q) : v[i] = q[i]
    BY <1>1
  <2>3. r \in PathSet
    BY <1>1, <1>4, <2>2 DEF PathSet
  <2> HIDE DEF r, q, a
  <2>4. \A d : WalkFrom(d, v) = WalkStep(WalkFrom(d, q), x)
    BY <1>1, WalkMore
  <2> HIDE DEF v
  <2>5. NormalParts(v, a)
    <3> SUFFICES ASSUME NEW i \in 1 .. Len(v) PROVE v[i] # "." /\ (v[i] = ".." => ~a /\ \A j \in 1 .. i : v[j] = "..")
      BY DEF NormalParts
    <3>1. CASE i \in 1 .. Len(q)
      <4>1. \A j \in 1 .. i : j \in 1 .. Len(q)
        BY <3>1, <1>1
      <4> QED
        BY <4>1, <3>1, <2>2, <1>2, Zenon
    <3>2. CASE i = Len(q) + 1
      <4>1. \A j \in 1 .. i : j \in 1 .. Len(q) \/ j = i
        BY <3>2, <1>1
      <4> QED
        BY <4>1, <3>2, <2>2, <1>4, Zenon
    <3>3. i \in 1 .. Len(q) \/ i = Len(q) + 1
      BY <2>2, <1>1
    <3> QED
      BY <3>1, <3>2, <3>3
  <2> QED
    BY <2>1, <2>3, <2>4, <2>5, Zenon
<1>5. CASE x = "."
  <2>1. r = p
    BY <1>5 DEF ProcessToken
  <2>2. \A d : WalkStep(d, x) = d
    BY <1>5 DEF WalkStep
  <2> HIDE DEF r, q, a, Goal
  <2> QED
    BY <2>1, <2>2, <1>3, Zenon
<1>6. CASE x \notin {".", ".."}
  <2>1. r = [p EXCEPT !.parts = Append(@, x)]
    BY <1>6 DEF ProcessToken
  <2>2. x # "." /\ x # ".."
    BY <1>6
  <2> HIDE DEF r, q, a, Goal
  <2> QED
    BY <2>1, <2>2, <1>4, Zenon
<1>7. CASE x = ".."
  <2>1. r = AppendParentDir(p)
    BY <1>7 DEF ProcessToken
  <2>2. CASE q = <<>> /\ a
    <3>1. r = p
      BY <2>1, <2>2 DEF AppendParentDir, GoesUp, KeepsParent
    <3>2. \A d : FromOK(d, a) => WalkFrom(d, q) = <<>>
      BY <2>2, WalkNone DEF FromOK
    <3>3. WalkStep(<<>>, x) = <<>>
      BY <1>7 DEF WalkStep
    <3> HIDE DEF r, q, a, Goal
    <3> QED
      BY <3>1, <3>2, <3>3, <1>3, Zenon
  <2>3. CASE q = <<>> /\ ~a
    <3>1. r = [p EXCEPT !.parts = Append(@, x)]
      BY <2>1, <2>3, <1>7 DEF AppendParentDir, GoesUp, KeepsParent
    <3>2. x # "." /\ \A j \in 1 .. Len(q) : q[j] = ".."
      BY <2>3, <1>7
    <3> HIDE DEF r, q, a, Goal
    <3> QED
      BY <3>1, <3>2, <2>3, <1>4, Zenon
  <2>4. CASE q # <<>> /\ q[Len(q)] = ".."
    <3>0. Last(q) = ".." /\ Len(q) \in 1 .. Len(q)
      BY <2>4, <1>1 DEF Last
    <3>1. r = [p EXCEPT !.parts = Append(@, x)]
      BY <3>0, <2>1, <2>4, <1>7 DEF AppendParentDir, GoesUp, KeepsParent
    <3>2. x # "." /\ ~a /\ \A j \in 1 .. Len(q) : q[j] = ".."
      BY <3>0, <2>4, <1>2, <1>7
    <3> HIDE DEF r, q, a, Goal
    <3> QED
      BY <3>1, <3>2, <1>4, Zenon
  <2>5. CASE q # <<>> /\ q[Len(q)] # ".."
    <3> DEFINE f == Front(q)
               y == q[Len(q)]
    <3>0. Last(q) = y /\ Len(q) \in 1 .. Len(q)
      BY <2>5, <1>1 DEF Last
    <3>1. r = [p EXCEPT !.parts = f]
      BY <3>0, <2>1, <2>5, <1>1 DEF AppendParentDir, GoesUp
    <3>2. /\ f \in Seq(Components) /\ Len(f) = Len(q) - 1 /\ (\A i \in 1 .. Len(q) - 1 : f[i] = q[i])
          /\ q = Append(f, y) /\ y \in Components
      BY <3>0, <2>5, <1>1, LastAppended
    <3>3. y # "." /\ y # ".."
      BY <3>0, <2>5, <1>2
    <3>4. r.parts = f /\ r.absolute = a /\ r \in PathSet
      BY <3>1, <3>2, <1>1 DEF PathSet
    <3> HIDE DEF f, y, r, a
    <3>5. NormalParts(f, a)
      <4> SUFFICES ASSUME NEW i \in 1 .. Len(f) PROVE f[i] # "." /\ (f[i] = ".." => ~a /\ \A j \in 1 .. i : f[j] = "..")
        BY DEF NormalParts
      <4>1. i \in 1 .. Len(q) /\ \A j \in 1 .. i : j \in 1 .. Len(q) - 1
        BY <3>2, <1>1
      <4>2. i \in 1 .. i
        OBVIOUS
      <4> HIDE DEF q
      <4> QED
        BY <4>1, <4>2, <3>2, <1>2, Zenon
    <3> HIDE DEF q
    <3>6. ASSUME NEW d, FromOK(d, a) PROVE WalkFrom(d, f) = WalkStep(WalkFrom(d, q), x)
      <4> DEFINE w == WalkFrom(d, f)
      <4>1. w \in DirSet
        BY <3>2, <3>6, WalkType DEF FromOK
      <4>2. WalkFrom(d, q) = WalkStep(w, y)
        BY <3>2, WalkMore
      <4> HIDE DEF w
      <4>3. WalkStep(w, y) = Append(w, y)
        BY <3>3 DEF WalkStep
      <4>4. Append(w, y) # <<>> /\ Front(Append(w, y)) = w
        BY <4>1, <3>2 DEF DirSet, Front
      <4>5. WalkStep(Append(w, y), x) = w
        BY <4>4, <1>7 DEF WalkStep
      <4> QED
        BY <4>2, <4>3, <4>5 DEF w
    <3> QED
      BY <3>4, <3>5, <3>6, Zenon
  <2> QED
    BY <2>2, <2>3, <2>4, <2>5, <1>1
<1> HIDE DEF Goal
<1> QED
  BY <1>5, <1>6, <1>7

\* Any number of tokens.
LEMMA Built ==
    ASSUME NEW p \in PathSet, NormalParts(p.parts, p.absolute), NEW ts \in Seq(Components)
    PROVE  /\ Appended(p, ts) \in PathSet
           /\ Appended(p, ts).absolute = p.absolute
           /\ NormalParts(Appended(p, ts).parts, p.absolute)
           /\ \A d : FromOK(d, p.absolute) =>
                 WalkFrom(d, Appended(p, ts).parts) = WalkFrom(WalkFrom(d, p.parts), ts)
<1> DEFINE a == p.absolute
<1>1. Len(ts) \in Nat /\ \A k \in 1 .. Len(ts) : ts[k] \in Components
  OBVIOUS
<1>2. PICK g : Builds(g, p, ts) /\ Appended(p, ts) = g[Len(ts)]
  BY <1>1, AppendedIs
<1> DEFINE Leads(k) == \A d, w : FromOK(d, a) /\ Walks(w, WalkFrom(d, p.parts), ts) => WalkFrom(d, g[k].parts) = w[k]
           Holds(k) == g[k] \in PathSet /\ g[k].absolute = a /\ NormalParts(g[k].parts, a) /\ Leads(k)
           S == {k \in 0 .. Len(ts) : ~Holds(k)}
<1>3. Holds(0)
  <2>1. g[0] = p
    BY <1>2, Zenon DEF Builds
  <2>2. \A d, w : Walks(w, WalkFrom(d, p.parts), ts) => w[0] = WalkFrom(d, p.parts)
    BY Zenon DEF Walks
  <2> QED
    BY <2>1, <2>2, Zenon
<1>4. ASSUME NEW k \in 1 .. Len(ts), Holds(k - 1) PROVE Holds(k)
  <2> DEFINE h == g[k - 1]
  <2>1. g[k] = ProcessToken(h, ts[k]) /\ ts[k] \in Components
    BY <1>1, <1>2, Zenon DEF Builds
  <2>2. h \in PathSet /\ h.absolute = a /\ NormalParts(h.parts, h.absolute)
    BY <1>4
  <2> HIDE DEF a, Leads
  <2>3. /\ ProcessToken(h, ts[k]) \in PathSet
        /\ ProcessToken(h, ts[k]).absolute = h.absolute
        /\ NormalParts(ProcessToken(h, ts[k]).parts, h.absolute)
        /\ \A d : FromOK(d, h.absolute) =>
              WalkFrom(d, ProcessToken(h, ts[k]).parts) = WalkStep(WalkFrom(d, h.parts), ts[k])
    BY <2>1, <2>2, TokenStep, Zenon
  <2>4. Leads(k)
    <3> SUFFICES ASSUME NEW d, NEW w, FromOK(d, a), Walks(w, WalkFrom(d, p.parts), ts)
                 PROVE  WalkFrom(d, g[k].parts) = w[k]
      BY DEF Leads
    <3>1. WalkFrom(d, h.parts) = w[k - 1]
      BY <1>4, Zenon DEF Leads
    <3>2. w[k] = WalkStep(w[k - 1], ts[k])
      BY Zenon DEF Walks
    <3> HIDE DEF h
    <3>3. WalkFrom(d, g[k].parts) = WalkStep(WalkFrom(d, h.parts), ts[k])
      BY <2>1, <2>2, <2>3, Zenon
    <3> QED
      BY <3>1, <3>2, <3>3, Zenon
  <2> HIDE DEF h
  <2> QED
    BY <2>1, <2>2, <2>3, <2>4, Zenon
<1> HIDE DEF Holds
<1>5. ASSUME S # {} PROVE FALSE
  <2>1. S \in SUBSET Nat
    OBVIOUS
  <2>2. PICK m \in S : \A k \in S : m <= k
    BY <1>5, <2>1, LeastNumber, Zenon
  <2>3. m \in 0 .. Len(ts) /\ ~Holds(m)
    BY <2>2
  <2>4. m # 0
    BY <2>3, <1>3, Zenon
  <2>5. m \in 1 .. Len(ts) /\ m - 1 \in 0 .. Len(ts) /\ ~(m <= m - 1)
    BY <2>3, <2>4
  <2>6. Holds(m - 1)
    BY <2>2, <2>5, Zenon
  <2> QED
    BY <2>3, <2>5, <2>6, <1>4, Zenon
<1>6. Len(ts) \in 0 .. Len(ts)
  BY <1>1
<1>7. Holds(Len(ts))
  BY <1>5, <1>6, Zenon
<1>8. ASSUME NEW d, FromOK(d, a) PROVE WalkFrom(d, g[Len(ts)].parts) = WalkFrom(WalkFrom(d, p.parts), ts)
  <2>1. PICK w : Walks(w, WalkFrom(d, p.parts), ts) /\ WalkFrom(WalkFrom(d, p.parts), ts) = w[Len(ts)]
    BY <1>1, WalkIs
  <2> QED
    BY <2>1, <1>7, <1>8, Zenon DEF Holds
<1> QED
  BY <1>2, <1>7, <1>8, Zenon DEF Holds

\* The parts of a normal path, taken as tokens, make the path.
LEMMA PartsMakeThePath ==
    ASSUME NEW q \in Seq(Components), NEW a \in BOOLEAN, NormalParts(q, a)
    PROVE  Appended([parts |-> <<>>, absolute |-> a], q) = [parts |-> q, absolute |-> a]
<1> DEFINE n == Len(q)
           P(k) == [parts |-> SubSeq(q, 1, k), absolute |-> a]
<1>1. n \in Nat /\ \A k \in 1 .. n : q[k] \in Components
  OBVIOUS
<1>2. PICK g : /\ Builds(g, [parts |-> <<>>, absolute |-> a], q)
               /\ Appended([parts |-> <<>>, absolute |-> a], q) = g[n]
  BY <1>1, AppendedIs
<1>3. SubSeq(q, 1, 0) = <<>> /\ SubSeq(q, 1, n) = q
  OBVIOUS
<1>4. g[0] = P(0)
  BY <1>2, <1>3, Zenon DEF Builds
<1>5. ASSUME NEW k \in 1 .. n, g[k - 1] = P(k - 1) PROVE g[k] = P(k)
  <2> DEFINE f == SubSeq(q, 1, k - 1)
             x == q[k]
             h == [parts |-> f, absolute |-> a]
  <2>1. /\ f \in Seq(Components) /\ Len(f) = k - 1 /\ \A i \in 1 .. k - 1 : f[i] = q[i]
    BY <1>1
  <2>2. x \in Components /\ x # "." /\ (x = ".." => ~a /\ \A j \in 1 .. k : q[j] = "..")
    BY <1>1 DEF NormalParts
  <2>3. SubSeq(q, 1, k) = Append(f, x)
    <3> DEFINE u == SubSeq(q, 1, k)
               v == Append(f, x)
    <3>0. u \in Seq(Components) /\ Len(u) = k /\ \A i \in 1 .. k : u[i] = q[i]
      BY <1>1
    <3>1. u \in [1 .. k -> Components] /\ \A i \in 1 .. k : u[i] = q[i]
      <4> HIDE DEF u
      <4> QED
        BY <3>0
    <3> HIDE DEF f
    <3>2. v \in Seq(Components) /\ Len(v) = k /\ v[k] = x /\ \A i \in 1 .. k - 1 : v[i] = f[i]
      BY <2>1, <2>2, <1>1
    <3> HIDE DEF u, v
    <3>3. v \in [1 .. k -> Components]
      BY <3>2
    <3>4. \A i \in 1 .. k : v[i] = u[i]
      <4>1. \A i \in 1 .. k : i = k \/ i \in 1 .. k - 1
        BY <1>1
      <4> QED
        BY <4>1, <3>1, <3>2, <2>1
    <3>5. u = v
      BY <3>1, <3>3, <3>4
    <3> QED
      BY <3>5 DEF u, v
  <2>4. g[k] = ProcessToken(h, x)
    BY <1>2, <1>5, Zenon DEF Builds
  <2> HIDE DEF f
  <2>5. [h EXCEPT !.parts = Append(@, x)] = [parts |-> Append(f, x), absolute |-> a]
    <3>1. h \in PathSet /\ h.parts = f /\ h.absolute = a
      BY <2>1 DEF PathSet
    <3> DEFINE v == Append(f, x)
               r == [h EXCEPT !.parts = Append(@, x)]
    <3>2. v \in Seq(Components)
      BY <2>1, <2>2
    <3> HIDE DEF h, v
    <3>3. r = [h EXCEPT !.parts = v]
      BY <3>1, Zenon DEF v
    <3>4. r \in PathSet /\ r.parts = v /\ r.absolute = a
      BY <3>1, <3>2, <3>3 DEF PathSet
    <3> HIDE DEF r
    <3>5. r = [parts |-> v, absolute |-> a]
      BY <3>4 DEF PathSet
    <3> QED
      BY <3>5, Zenon DEF r, v
  <2>6. CASE x # ".."
    <3>1. ProcessToken(h, x) = [h EXCEPT !.parts = Append(@, x)]
      BY <2>2, <2>6 DEF ProcessToken
    <3> QED
      BY <3>1, <2>3, <2>4, <2>5
  <2>7. CASE x = ".."
    <3>1. ProcessToken(h, x) = AppendParentDir(h)
      BY <2>7 DEF ProcessToken
    <3>2. ~GoesUp(h)
      <4>1. ASSUME f # <<>> PROVE Last(f) = ".."
        <5>1. k - 1 \in 1 .. k /\ k - 1 \in 1 .. k - 1
          BY <4>1, <2>1, <1>1
        <5> QED
          BY <5>1, <2>1, <2>2, <2>7 DEF Last
      <4>2. h.parts = f
        OBVIOUS
      <4> HIDE DEF h
      <4> QED
        BY <4>1, <4>2, Zenon DEF GoesUp
    <3>3. KeepsParent(h)
      BY <2>2, <2>7 DEF KeepsParent
    <3>4. AppendParentDir(h) = [h EXCEPT !.parts = Append(@, x)]
      BY <3>2, <3>3, <2>7 DEF AppendParentDir
    <3> QED
      BY <3>1, <3>4, <2>3, <2>4, <2>5
  <2> QED
    BY <2>6, <2>7
<1> DEFINE S == {k \in 0 .. n : g[k] # P(k)}
<1>6. ASSUME S # {} PROVE FALSE
  <2> HIDE DEF P
  <2>1. S \in SUBSET Nat
    OBVIOUS
  <2>2. PICK m \in S : \A k \in S : m <= k
    BY <1>6, <2>1, LeastNumber, Zenon
  <2>3. m \in 0 .. n /\ g[m] # P(m)
    BY <2>2
  <2>4. m # 0
    BY <2>3, <1>4, Zenon
  <2>5. m \in 1 .. n /\ m - 1 \in 0 .. n /\ ~(m <= m - 1)
    BY <2>3, <2>4
  <2>6. g[m - 1] = P(m - 1)
    BY <2>2, <2>5, Zenon
  <2> QED
    BY <2>3, <2>5, <2>6, <1>5, Zenon
<1>7. n \in 0 .. n
  BY <1>1
<1>8. g[n] = P(n)
  BY <1>6, <1>7, Zenon
<1> QED
  BY <1>2, <1>3, <1>8

-----------------------------------------------------------------------------

\* The path is normal and leads where the components lead that it was given, from
\* every directory: ConvertToAbsolute asks for directories of any depth.
Faithful(p, w) ==
    /\ p \in PathSet /\ w \in Seq(Components)
    /\ NormalParts(p.parts, p.absolute)
    /\ \A d : FromOK(d, p.absolute) => WalkFrom(d, p.parts) = WalkFrom(d, w)
FilePathInv == Faithful(path, walked)

LEMMA CreatedIs ==
    ASSUME NEW t \in Texts
    PROVE  /\ t.tokens \in Seq(Components) /\ t.root \in BOOLEAN
           /\ Faithful(Created(t), t.tokens) /\ Created(t).absolute = t.root
<1>1. t.tokens \in Seq(Components) /\ t.root \in BOOLEAN
  BY FilePathAssumption DEF Texts, SeqOf
<1> DEFINE p == [parts |-> <<>>, absolute |-> t.root]
<1>2. p \in PathSet /\ p.absolute = t.root /\ p.parts = <<>>
  BY <1>1 DEF PathSet
<1>3. NormalParts(<<>>, t.root)
  BY DEF NormalParts
<1>4. Created(t) = Appended(p, t.tokens)
  BY Zenon DEF Created
<1> HIDE DEF p
<1>5. \A d : WalkFrom(d, p.parts) = d
  BY <1>2, WalkNone
<1>6. /\ Appended(p, t.tokens) \in PathSet
      /\ Appended(p, t.tokens).absolute = p.absolute
      /\ NormalParts(Appended(p, t.tokens).parts, p.absolute)
      /\ \A d : FromOK(d, p.absolute) =>
            WalkFrom(d, Appended(p, t.tokens).parts) = WalkFrom(WalkFrom(d, p.parts), t.tokens)
  BY <1>1, <1>2, <1>3, Built
<1> QED
  BY <1>1, <1>2, <1>4, <1>5, <1>6, Zenon DEF Faithful

\* Appending.
LEMMA AppendKeeps ==
    ASSUME NEW p, NEW w, Faithful(p, w), NEW ts \in Seq(Components)
    PROVE  Faithful(Appended(p, ts), w \o ts) /\ Appended(p, ts).absolute = p.absolute
<1>1. /\ p \in PathSet /\ w \in Seq(Components) /\ NormalParts(p.parts, p.absolute)
      /\ \A d : FromOK(d, p.absolute) => WalkFrom(d, p.parts) = WalkFrom(d, w)
  BY Zenon DEF Faithful
<1>2. /\ Appended(p, ts) \in PathSet
      /\ Appended(p, ts).absolute = p.absolute
      /\ NormalParts(Appended(p, ts).parts, p.absolute)
      /\ \A d : FromOK(d, p.absolute) =>
            WalkFrom(d, Appended(p, ts).parts) = WalkFrom(WalkFrom(d, p.parts), ts)
  BY <1>1, Built
<1>3. w \o ts \in Seq(Components) /\ \A d : WalkFrom(d, w \o ts) = WalkFrom(WalkFrom(d, w), ts)
  BY <1>1, WalkConcat
<1> QED
  BY <1>1, <1>2, <1>3, Zenon DEF Faithful

LEMMA FilePathStarts == FilePathInit => FilePathInv
BY CreatedIs, Zenon DEF FilePathInit, FilePathInv

LEMMA FilePathSteps == FilePathInv /\ [FilePathNext]_filePathVars => FilePathInv'
<1> SUFFICES ASSUME FilePathInv, [FilePathNext]_filePathVars PROVE FilePathInv'
  OBVIOUS
<1>1. ASSUME NEW t \in Texts, AppendText(t) PROVE FilePathInv'
  <2>1. path' = Appended(path, t.tokens) /\ walked' = walked \o t.tokens /\ t.tokens \in Seq(Components)
    BY <1>1, CreatedIs, Zenon DEF AppendText
  <2>2. Faithful(Appended(path, t.tokens), walked \o t.tokens)
    BY <2>1, AppendKeeps, Zenon DEF FilePathInv
  <2> QED
    BY <2>1, <2>2, Zenon DEF FilePathInv
<1>2. ASSUME NEW t \in Texts, AppendPath(t) PROVE FilePathInv'
  <2> DEFINE ts == Created(t).parts
  <2>1. path' = Appended(path, ts) /\ walked' = walked \o ts
    BY <1>2, Zenon DEF AppendPath
  <2>2. Created(t) \in PathSet
    BY CreatedIs, Zenon DEF Faithful
  <2>3. ts \in Seq(Components)
    BY <2>2 DEF PathSet
  <2> HIDE DEF ts
  <2>4. Faithful(Appended(path, ts), walked \o ts)
    BY <2>3, AppendKeeps, Zenon DEF FilePathInv
  <2> QED
    BY <2>1, <2>4, Zenon DEF FilePathInv
<1>3. ASSUME NEW t \in Texts, ConvertToAbsolute(t) PROVE FilePathInv'
  <2> DEFINE base == Created(t)
             q == path.parts
             new == Appended(base, q)
  <2>1. /\ ~path.absolute /\ t.root /\ walked' = t.tokens \o walked
        /\ path' = [parts |-> new.parts, absolute |-> TRUE]
    BY <1>3, Zenon DEF ConvertToAbsolute, Joined
  <2>2. t.tokens \in Seq(Components) /\ Faithful(base, t.tokens) /\ base.absolute = TRUE
    <3>1. t.tokens \in Seq(Components) /\ t.root \in BOOLEAN /\ Faithful(base, t.tokens) /\ base.absolute = t.root
      BY CreatedIs, Zenon
    <3> HIDE DEF base
    <3> QED
      BY <3>1, <2>1
  <2>3. path \in PathSet /\ walked \in Seq(Components)
    BY Zenon DEF FilePathInv, Faithful
  <2>4. q \in Seq(Components)
    BY <2>3 DEF PathSet
  <2>5. \A d \in DirSet : WalkFrom(d, q) = WalkFrom(d, walked)
    BY <2>1, Zenon DEF FilePathInv, Faithful, FromOK
  <2> HIDE DEF base, q
  <2>6. Faithful(new, t.tokens \o q) /\ new.absolute = TRUE
    BY <2>2, <2>4, AppendKeeps, Zenon
  <2> HIDE DEF new
  <2>7. new \in PathSet /\ NormalParts(new.parts, TRUE) /\ WalkFrom(<<>>, new.parts) = WalkFrom(<<>>, t.tokens \o q)
    <3>1. FromOK(<<>>, TRUE)
      BY DEF FromOK, DirSet
    <3> QED
      BY <3>1, <2>6, Zenon DEF Faithful
  <2>8. WalkFrom(<<>>, t.tokens \o q) = WalkFrom(<<>>, t.tokens \o walked)
    <3>1. <<>> \in DirSet
      BY DEF DirSet
    <3>2. WalkFrom(<<>>, t.tokens) \in DirSet
      BY <3>1, <2>2, WalkType
    <3>3. WalkFrom(<<>>, t.tokens \o q) = WalkFrom(WalkFrom(<<>>, t.tokens), q)
      BY <2>2, <2>4, WalkConcat
    <3>4. WalkFrom(<<>>, t.tokens \o walked) = WalkFrom(WalkFrom(<<>>, t.tokens), walked)
      BY <2>2, <2>3, WalkConcat
    <3> QED
      BY <3>2, <3>3, <3>4, <2>5, Zenon
  <2>9. walked' \in Seq(Components)
    BY <2>1, <2>2, <2>3
  <2>10. path' \in PathSet /\ path'.parts = new.parts /\ path'.absolute = TRUE
    BY <2>1, <2>7 DEF PathSet
  <2>11. \A d : FromOK(d, TRUE) => d = <<>>
    BY DEF FromOK
  <2> QED
    BY <2>1, <2>7, <2>8, <2>9, <2>10, <2>11, Zenon DEF FilePathInv, Faithful
<1>4. CASE RemovePart
  <2> DEFINE q == path.parts
             a == path.absolute
             f == Front(q)
  <2>1. path \in PathSet /\ NormalParts(q, a)
    BY Zenon DEF FilePathInv, Faithful
  <2>2. q # <<>> /\ path' = [path EXCEPT !.parts = f] /\ walked' = f
    BY <1>4 DEF RemovePart
  <2>3. q \in Seq(Components) /\ Len(q) \in Nat
    BY <2>1 DEF PathSet
  <2>4. f \in Seq(Components) /\ Len(f) = Len(q) - 1 /\ \A i \in 1 .. Len(q) - 1 : f[i] = q[i]
    BY <2>2, <2>3, LastAppended
  <2> HIDE DEF f
  <2>5. path' \in PathSet /\ path'.parts = f /\ path'.absolute = a
    BY <2>1, <2>2, <2>4 DEF PathSet
  <2> HIDE DEF q, a
  <2>6. NormalParts(f, a)
    <3> SUFFICES ASSUME NEW i \in 1 .. Len(f) PROVE f[i] # "." /\ (f[i] = ".." => ~a /\ \A j \in 1 .. i : f[j] = "..")
      BY DEF NormalParts
    <3>1. i \in 1 .. Len(q) /\ i \in 1 .. Len(q) - 1 /\ \A j \in 1 .. i : j \in 1 .. Len(q) - 1
      BY <2>3, <2>4
    <3> QED
      BY <3>1, <2>1, <2>4, Zenon DEF NormalParts
  <2> QED
    BY <2>2, <2>4, <2>5, <2>6, Zenon DEF FilePathInv, Faithful
<1>5. CASE UNCHANGED filePathVars
  BY <1>5, Zenon DEF filePathVars, FilePathInv
<1> QED
  BY <1>1, <1>2, <1>3, <1>4, <1>5, Zenon DEF FilePathNext

LEMMA FilePathRight == FilePathInv => PathIsFaithful
<1> SUFFICES ASSUME FilePathInv PROVE PathIsFaithful
  OBVIOUS
<1> DEFINE q == path.parts
           a == path.absolute
<1>1. /\ path \in PathSet /\ walked \in Seq(Components) /\ NormalParts(q, a)
      /\ \A d : FromOK(d, a) => WalkFrom(d, q) = WalkFrom(d, walked)
  BY Zenon DEF FilePathInv, Faithful
<1>2. q \in Seq(Components) /\ a \in BOOLEAN /\ path = [parts |-> q, absolute |-> a]
  BY <1>1 DEF PathSet
<1>3. PathIsNormal
  BY <1>1, Zenon DEF PathIsNormal, NormalParts
<1>4. PathLeadsToTheSame
  <2>0. ASSUME NEW d \in SeqOf({"dir"}, 3) PROVE d \in DirSet
    <3>1. PICK m \in 0 .. 3 : d \in [1 .. m -> {"dir"}]
      BY DEF SeqOf
    <3>2. d \in [1 .. m -> Components \cup {"dir"}] /\ m \in Nat
      BY <3>1
    <3> QED
      BY <3>2 DEF DirSet
  <2>1. SeqOf({"dir"}, 3) \subseteq DirSet /\ <<>> \in DirSet
    BY <2>0 DEF DirSet
  <2>2. ASSUME NEW d \in {<<>>} \cup (IF a THEN {} ELSE SeqOf({"dir"}, 3)) PROVE FromOK(d, a)
    <3>1. CASE a
      BY <3>1, <2>1 DEF FromOK
    <3>2. CASE ~a
      BY <3>2, <2>1 DEF FromOK
    <3> QED
      BY <3>1, <3>2
  <2> QED
    BY <2>2, <1>1 DEF PathLeadsToTheSame
<1>5. TextMakesThePath
  <2>1. CASE q = <<>> /\ ~a
    <3> DEFINE p == [parts |-> <<>>, absolute |-> a]
               t == <<".">>
    <3>1. ToText(path) = [root |-> a, tokens |-> t]
      BY <2>1 DEF ToText
    <3>2. Created(ToText(path)) = Appended(p, t)
      BY <3>1 DEF Created
    <3>3. p = path
      BY <2>1, <1>2
    <3>4. Len(t) \in Nat /\ Len(t) = 1 /\ 1 \in 1 .. Len(t) /\ t[1] = "." /\ 1 - 1 = 0
      OBVIOUS
    <3> HIDE DEF p, t
    <3>5. PICK g : Builds(g, p, t) /\ Appended(p, t) = g[Len(t)]
      BY <3>4, AppendedIs
    <3>6. g[1] = ProcessToken(p, ".")
      BY <3>4, <3>5, Zenon DEF Builds
    <3>7. ProcessToken(p, ".") = p
      BY DEF ProcessToken
    <3> QED
      BY <3>2, <3>3, <3>4, <3>5, <3>6, <3>7 DEF TextMakesThePath
  <2>2. CASE ~(q = <<>> /\ ~a)
    <3>1. ToText(path) = [root |-> a, tokens |-> q]
      BY <2>2 DEF ToText
    <3>2. Created(ToText(path)) = Appended([parts |-> <<>>, absolute |-> a], q)
      BY <3>1 DEF Created
    <3>3. Appended([parts |-> <<>>, absolute |-> a], q) = [parts |-> q, absolute |-> a]
      BY <1>1, <1>2, PartsMakeThePath
    <3> QED
      BY <3>2, <3>3, <1>2 DEF TextMakesThePath
  <2> QED
    BY <2>1, <2>2
<1> QED
  BY <1>3, <1>4, <1>5 DEF PathIsFaithful

\* A FilePath is normal, leads where the components lead that it was given, and is
\* made again from its text, after any number of Append, Remove and
\* ConvertToAbsolute, for all names and texts of every length.
THEOREM PathsCorrect == FilePathSpec => []PathIsFaithful
<1>1. FilePathSpec => []FilePathInv
  BY FilePathStarts, FilePathSteps, PTL DEF FilePathSpec
<1> QED
  BY <1>1, FilePathRight, PTL

-----------------------------------------------------------------------------
(* Simple templates.                                                        *)

\* The words of the model, for a template t.
ChOf(t, i) == IF i <= Len(t) THEN t[i] ELSE "NUL"
EndOf(t, i) == CHOOSE e \in i .. Len(t) + 1 :
                  /\ ~IsDigitDec(ChOf(t, e))
                  /\ \A j \in i .. e - 1 : IsDigitDec(ChOf(t, j))
AreValues(g, t, i, n) == g = [e \in i .. n |-> IF e = i THEN 0 ELSE 10 * g[e - 1] + PatternDigits[t[e - 1]]]
NumberOf(t, i) == (CHOOSE g : AreValues(g, t, i, EndOf(t, i)))[EndOf(t, i)]
AreControls(g, t, n) == g = [i \in 0 .. n |-> i > 0 /\ t[i] = CONTROL_CHAR /\ ~g[i - 1]]
ControlsIn(t) == CHOOSE g : AreControls(g, t, Len(t))
ControlsOf(t) == {i \in 1 .. Len(t) : ControlsIn(t)[i]}
UndersOf(t) == {i \in ControlsOf(t) : ChOf(t, i + 1) = "_"}
NumsOf(t) == {i \in ControlsOf(t) : IsDigitDec(ChOf(t, i + 1))}
IndexOf(t, i) == IF i \in NumsOf(t) THEN NumberOf(t, i + 1) ELSE Cardinality({j \in UndersOf(t) : j < i})
LinesOf(t) == {i + 1 : i \in UndersOf(t)}
DigitsOf(t) == UNION {i + 1 .. EndOf(t, i + 1) - 1 : i \in NumsOf(t)}
DoublesOf(t) == {i \in ControlsOf(t) : ChOf(t, i + 1) = CONTROL_CHAR}
CoveredOf(t) == LinesOf(t) \cup DigitsOf(t) \cup DoublesOf(t)
MeaningOf(t, i) ==
    CASE i \in UndersOf(t) \cup NumsOf(t) -> ValueOfParam(IndexOf(t, i))
      [] i \in CoveredOf(t) -> <<>>
      [] OTHER -> <<t[i]>>

LEMMA PatternWords ==
    /\ \A i : CharAt(i) = ChOf(pattern, i)
    /\ \A i : EndOfDigits(i) = EndOf(pattern, i)
    /\ \A i : UnpackInteger(i) = NumberOf(pattern, i)
    /\ Controls = ControlsOf(pattern) /\ Underscores = UndersOf(pattern) /\ Numbers = NumsOf(pattern)
    /\ \A i : IndexAt(i) = IndexOf(pattern, i)
    /\ \A i : Meaning(i) = MeaningOf(pattern, i)
<1>1. \A i : CharAt(i) = ChOf(pattern, i)
  BY Zenon DEF CharAt, ChOf
<1>2. \A i : EndOfDigits(i) = EndOf(pattern, i)
  BY Zenon DEF CharAt, ChOf, EndOfDigits, EndOf
<1>3. \A i : UnpackInteger(i) = NumberOf(pattern, i)
  BY <1>2, Zenon DEF UnpackInteger, NumberOf, AreValues
<1>4. Controls = ControlsOf(pattern)
  BY Zenon DEF Controls, ControlsOf, ControlsIn, AreControls
<1>5. Underscores = UndersOf(pattern) /\ Numbers = NumsOf(pattern)
  BY <1>1, <1>4, Zenon DEF Underscores, UndersOf, Numbers, NumsOf
<1>6. \A i : IndexAt(i) = IndexOf(pattern, i)
  BY <1>3, <1>5, Zenon DEF IndexAt, IndexOf
<1>7. Covered = CoveredOf(pattern)
  BY <1>1, <1>2, <1>4, <1>5, Zenon DEF Covered, CoveredOf, LinesOf, DigitsOf, DoublesOf
<1>8. \A i : Meaning(i) = MeaningOf(pattern, i)
  BY <1>5, <1>6, <1>7, Zenon DEF Meaning, MeaningOf
<1> QED
  BY <1>1, <1>2, <1>3, <1>4, <1>5, <1>6, <1>8, Zenon

LEMMA ControlsMore ==
    ASSUME NEW t, NEW n \in Nat, NEW g, AreControls(g, t, n)
    PROVE  \E h : AreControls(h, t, n + 1)
<1> DEFINE h == [i \in 0 .. n + 1 |-> i > 0 /\ t[i] = CONTROL_CHAR /\ ~g[i - 1]]
<1>1. \A i \in 0 .. n : h[i] = g[i]
  BY DEF AreControls
<1>2. ASSUME NEW i \in 0 .. n + 1
      PROVE  (i > 0 /\ t[i] = CONTROL_CHAR /\ ~g[i - 1]) = (i > 0 /\ t[i] = CONTROL_CHAR /\ ~h[i - 1])
  <2>1. CASE i > 0
    <3>1. i - 1 \in 0 .. n
      BY <2>1
    <3>2. h[i - 1] = g[i - 1]
      BY <3>1, <1>1
    <3> HIDE DEF h
    <3> QED
      BY <3>2, Zenon
  <2>2. CASE ~(i > 0)
    <3> HIDE DEF h
    <3> QED
      BY <2>2, Zenon
  <2> QED
    BY <2>1, <2>2
<1>3. h = [i \in 0 .. n + 1 |-> i > 0 /\ t[i] = CONTROL_CHAR /\ ~h[i - 1]]
  BY <1>2, Zenon
<1> QED
  BY <1>3, Zenon DEF AreControls

LEMMA ControlsExist ==
    ASSUME NEW t, NEW n \in Nat
    PROVE  \E g : AreControls(g, t, n)
<1> DEFINE S == {m \in Nat : ~ \E g : AreControls(g, t, m)}
<1>1. ASSUME S # {} PROVE FALSE
  <2>1. PICK m \in S : \A k \in S : m <= k
    BY <1>1, LeastNumber, Zenon
  <2>2. m # 0
    <3> DEFINE e == [i \in 0 .. 0 |-> FALSE]
    <3>1. \A i \in 0 .. 0 : ~(i > 0)
      OBVIOUS
    <3>2. \A i \in 0 .. 0 : FALSE = (i > 0 /\ t[i] = CONTROL_CHAR /\ ~e[i - 1])
      BY <3>1, Zenon
    <3>3. e = [i \in 0 .. 0 |-> i > 0 /\ t[i] = CONTROL_CHAR /\ ~e[i - 1]]
      BY <3>2, Zenon
    <3> HIDE DEF e
    <3>4. \E g : AreControls(g, t, 0)
      BY <3>3, Zenon DEF AreControls
    <3> QED
      BY <3>4, <2>1, Zenon
  <2>3. m - 1 \in Nat /\ ~(m <= m - 1) /\ (m - 1) + 1 = m
    BY <2>1, <2>2
  <2>4. \E g : AreControls(g, t, m - 1)
    BY <2>1, <2>3, Zenon
  <2>5. \E h : AreControls(h, t, (m - 1) + 1)
    BY <2>3, <2>4, ControlsMore, Zenon
  <2> QED
    BY <2>1, <2>3, <2>5
<1> QED
  BY <1>1

\* A dollar is a control unless the character before is one.
LEMMA ControlsAre ==
    ASSUME NEW t, Len(t) \in Nat
    PROVE  \A i \in 1 .. Len(t) : i \in ControlsOf(t) <=> t[i] = "$" /\ i - 1 \notin ControlsOf(t)
<1> DEFINE g == ControlsIn(t)
<1>1. AreControls(g, t, Len(t))
  BY ControlsExist, Zenon DEF ControlsIn
<1>2. \A i : i \in ControlsOf(t) <=> i \in 1 .. Len(t) /\ g[i]
  BY Zenon DEF ControlsOf
<1> HIDE DEF g
<1>3. ASSUME NEW i \in 0 .. Len(t) PROVE g[i] <=> (i > 0 /\ t[i] = CONTROL_CHAR /\ ~g[i - 1])
  <2> DEFINE k == [j \in 0 .. Len(t) |-> j > 0 /\ t[j] = CONTROL_CHAR /\ ~g[j - 1]]
  <2>1. k[i] = (i > 0 /\ t[i] = CONTROL_CHAR /\ ~g[i - 1])
    OBVIOUS
  <2>2. g = k
    BY <1>1, Zenon DEF AreControls
  <2> HIDE DEF k
  <2> QED
    BY <2>1, <2>2, Zenon
<1>4. ASSUME NEW i \in 1 .. Len(t) PROVE i \in ControlsOf(t) <=> t[i] = "$" /\ i - 1 \notin ControlsOf(t)
  <2>1. i \in 0 .. Len(t) /\ i > 0 /\ i - 1 \in 0 .. Len(t)
    OBVIOUS
  <2>2. g[i] <=> (t[i] = "$" /\ ~g[i - 1])
    BY <2>1, <1>3, Zenon DEF CONTROL_CHAR
  <2>3. i - 1 \in 1 .. Len(t) \/ i - 1 = 0
    OBVIOUS
  <2>4. ~g[0]
    <3>1. 0 \in 0 .. Len(t) /\ ~(0 > 0)
      OBVIOUS
    <3> QED
      BY <3>1, <1>3, Zenon
  <2>5. 0 \notin 1 .. Len(t)
    OBVIOUS
  <2> QED
    BY <2>2, <2>3, <2>4, <2>5, <1>2, Zenon
<1> QED
  BY <1>4

\* The template is made of characters, none of them zero.
IsPattern(t) == t \in Seq(PatternChars)

LEMMA PatternChar ==
    ASSUME NEW t, IsPattern(t)
    PROVE  /\ Len(t) \in Nat
           /\ \A i \in 1 .. Len(t) : ChOf(t, i) = t[i] /\ t[i] # "NUL" /\ t[i] \in PatternChars
           /\ \A i \in Nat : i > Len(t) => ChOf(t, i) = "NUL"
           /\ ~IsDigitDec("NUL") /\ ~IsDigitDec("$") /\ ~IsDigitDec("_")
<1>1. Len(t) \in Nat /\ \A i \in 1 .. Len(t) : t[i] \in PatternChars
  BY DEF IsPattern
<1>2. ~IsDigitDec("NUL") /\ ~IsDigitDec("$") /\ ~IsDigitDec("_") /\ "NUL" \notin PatternChars
  BY PatternAssumption DEF IsDigitDec, CONTROL_CHAR
<1>3. ASSUME NEW i \in 1 .. Len(t) PROVE ChOf(t, i) = t[i] /\ t[i] # "NUL"
  <2>1. i <= Len(t)
    BY <1>1
  <2>2. t[i] # "NUL"
    BY <1>1, <1>2, Zenon
  <2> QED
    BY <2>1, <2>2, Zenon DEF ChOf
<1>4. \A i \in Nat : i > Len(t) => ChOf(t, i) = "NUL"
  BY <1>1 DEF ChOf
<1> QED
  BY <1>1, <1>2, <1>3, <1>4, Zenon

LEMMA EndIs ==
    ASSUME NEW t, IsPattern(t), NEW i \in 1 .. Len(t) + 1
    PROVE  /\ EndOf(t, i) \in i .. Len(t) + 1
           /\ ~IsDigitDec(ChOf(t, EndOf(t, i)))
           /\ \A j \in i .. EndOf(t, i) - 1 : IsDigitDec(ChOf(t, j))
<1> DEFINE S == {e \in i .. Len(t) + 1 : ~IsDigitDec(ChOf(t, e))}
<1>1. Len(t) \in Nat /\ ~IsDigitDec(ChOf(t, Len(t) + 1))
  <2>1. /\ Len(t) \in Nat /\ (\A k \in Nat : k > Len(t) => ChOf(t, k) = "NUL") /\ ~IsDigitDec("NUL")
    BY PatternChar
  <2>2. Len(t) + 1 \in Nat /\ Len(t) + 1 > Len(t)
    BY <2>1
  <2> QED
    BY <2>1, <2>2, Zenon
<1>2. S # {} /\ S \in SUBSET Nat
  BY <1>1
<1>3. PICK e \in S : \A k \in S : e <= k
  BY <1>2, LeastNumber, Zenon
<1>4. e \in i .. Len(t) + 1 /\ ~IsDigitDec(ChOf(t, e))
  BY <1>3
<1>5. ASSUME NEW j \in i .. e - 1 PROVE IsDigitDec(ChOf(t, j))
  <2>1. j \in i .. Len(t) + 1 /\ ~(e <= j)
    BY <1>1, <1>4
  <2> QED
    BY <2>1, <1>3
<1> QED
  BY <1>4, <1>5, Zenon DEF EndOf

LEMMA ValuesMore ==
    ASSUME NEW t, NEW i \in Nat, NEW n \in Nat, i <= n, NEW g, AreValues(g, t, i, n)
    PROVE  \E h : AreValues(h, t, i, n + 1)
<1> DEFINE h == [e \in i .. n + 1 |-> IF e = i THEN 0 ELSE 10 * g[e - 1] + PatternDigits[t[e - 1]]]
<1>1. \A e \in i .. n : h[e] = g[e]
  BY DEF AreValues
<1>2. ASSUME NEW e \in i .. n + 1
      PROVE  (IF e = i THEN 0 ELSE 10 * g[e - 1] + PatternDigits[t[e - 1]])
             = (IF e = i THEN 0 ELSE 10 * h[e - 1] + PatternDigits[t[e - 1]])
  <2>1. CASE e # i
    <3>1. e - 1 \in i .. n
      BY <2>1
    <3>2. h[e - 1] = g[e - 1]
      BY <3>1, <1>1
    <3> HIDE DEF h
    <3> QED
      BY <3>2, Zenon
  <2>2. CASE e = i
    <3> HIDE DEF h
    <3> QED
      BY <2>2, Zenon
  <2> QED
    BY <2>1, <2>2
<1>3. h = [e \in i .. n + 1 |-> IF e = i THEN 0 ELSE 10 * h[e - 1] + PatternDigits[t[e - 1]]]
  BY <1>2, Zenon
<1> QED
  BY <1>3, Zenon DEF AreValues

LEMMA ValuesExist ==
    ASSUME NEW t, NEW i \in Nat, NEW n \in Nat, i <= n
    PROVE  \E g : AreValues(g, t, i, n)
<1> DEFINE S == {m \in Nat : i <= m /\ ~ \E g : AreValues(g, t, i, m)}
<1>1. ASSUME S # {} PROVE FALSE
  <2>1. PICK m \in S : \A k \in S : m <= k
    BY <1>1, LeastNumber, Zenon
  <2>2. m # i
    <3> DEFINE z == [e \in i .. i |-> 0]
    <3>1. \A e \in i .. i : e = i
      OBVIOUS
    <3>2. \A e \in i .. i : 0 = (IF e = i THEN 0 ELSE 10 * z[e - 1] + PatternDigits[t[e - 1]])
      BY <3>1, Zenon
    <3>3. z = [e \in i .. i |-> IF e = i THEN 0 ELSE 10 * z[e - 1] + PatternDigits[t[e - 1]]]
      BY <3>2, Zenon
    <3> HIDE DEF z
    <3>4. \E g : AreValues(g, t, i, i)
      BY <3>3, Zenon DEF AreValues
    <3> QED
      BY <3>4, <2>1, Zenon
  <2>3. m - 1 \in Nat /\ ~(m <= m - 1) /\ (m - 1) + 1 = m /\ i <= m - 1
    BY <2>1, <2>2
  <2>4. \E g : AreValues(g, t, i, m - 1)
    BY <2>1, <2>3, Zenon
  <2>5. \E h : AreValues(h, t, i, (m - 1) + 1)
    BY <2>3, <2>4, ValuesMore, Zenon
  <2> QED
    BY <2>1, <2>3, <2>5
<1> QED
  BY <1>1

\* What digits are worth is a number.
LEMMA NumberIs ==
    ASSUME NEW t, IsPattern(t), NEW i \in 1 .. Len(t) + 1
    PROVE  NumberOf(t, i) \in Nat
<1> DEFINE n == EndOf(t, i)
           g == CHOOSE h : AreValues(h, t, i, n)
<1>1. Len(t) \in Nat /\ \A k \in 1 .. Len(t) : ChOf(t, k) = t[k]
  BY PatternChar
<1>2. n \in i .. Len(t) + 1 /\ \A j \in i .. n - 1 : IsDigitDec(ChOf(t, j))
  BY EndIs
<1> HIDE DEF n
<1>3. i \in Nat /\ n \in Nat /\ i <= n
  BY <1>1, <1>2
<1>4. AreValues(g, t, i, n)
  BY <1>3, ValuesExist, Zenon
<1> HIDE DEF g
<1>5. g = [e \in i .. n |-> IF e = i THEN 0 ELSE 10 * g[e - 1] + PatternDigits[t[e - 1]]]
  BY <1>4, Zenon DEF AreValues
<1> DEFINE S == {e \in i .. n : g[e] \notin Nat}
<1>6. ASSUME S # {} PROVE FALSE
  <2>1. S \in SUBSET Nat
    BY <1>3
  <2>2. PICK m \in S : \A k \in S : m <= k
    BY <1>6, <2>1, LeastNumber, Zenon
  <2>3. m \in i .. n /\ g[m] \notin Nat
    BY <2>2
  <2>4. g[m] = IF m = i THEN 0 ELSE 10 * g[m - 1] + PatternDigits[t[m - 1]]
    <3> DEFINE k == [e \in i .. n |-> IF e = i THEN 0 ELSE 10 * g[e - 1] + PatternDigits[t[e - 1]]]
    <3>1. k[m] = IF m = i THEN 0 ELSE 10 * g[m - 1] + PatternDigits[t[m - 1]]
      BY <2>3
    <3>2. g = k
      BY <1>5, Zenon
    <3> HIDE DEF k
    <3> QED
      BY <3>1, <3>2, Zenon
  <2>5. m # i
    BY <2>3, <2>4
  <2>6. m - 1 \in i .. n /\ ~(m <= m - 1) /\ m - 1 \in i .. n - 1 /\ m - 1 \in 1 .. Len(t)
    BY <2>3, <2>5, <1>1, <1>2, <1>3
  <2>7. g[m - 1] \in Nat
    BY <2>2, <2>6
  <2>8. t[m - 1] \in DOMAIN PatternDigits
    BY <2>6, <1>1, <1>2, Zenon DEF IsDigitDec
  <2>9. PatternDigits[t[m - 1]] \in Nat
    BY <2>8, PatternAssumption
  <2> QED
    BY <2>3, <2>4, <2>5, <2>7, <2>9
<1>7. n \in i .. n
  BY <1>3
<1>8. g[n] \in Nat
  BY <1>6, <1>7
<1> QED
  BY <1>8, Zenon DEF NumberOf, n, g

-----------------------------------------------------------------------------

\* Where the parser stands: not behind a control, and not among digits.
PatternPlace(t, x) ==
    /\ x \in 1 .. Len(t) + 1 /\ x - 1 \notin ControlsOf(t)
    /\ \A i \in NumsOf(t) : i < x => EndOf(t, i + 1) <= x

LEMMA ControlFacts ==
    ASSUME NEW t, IsPattern(t)
    PROVE  /\ ControlsOf(t) \subseteq 1 .. Len(t)
           /\ UndersOf(t) \subseteq ControlsOf(t) /\ NumsOf(t) \subseteq ControlsOf(t)
           /\ \A i \in NumsOf(t) : i + 1 \in 1 .. Len(t) /\ EndOf(t, i + 1) \in i + 2 .. Len(t) + 1
           /\ UndersOf(t) \cap NumsOf(t) = {}
<1>1. ControlsOf(t) \subseteq 1 .. Len(t)
  BY DEF ControlsOf
<1>2. UndersOf(t) \subseteq ControlsOf(t) /\ NumsOf(t) \subseteq ControlsOf(t)
  BY DEF UndersOf, NumsOf
<1>3. ASSUME NEW i \in NumsOf(t) PROVE i + 1 \in 1 .. Len(t) /\ EndOf(t, i + 1) \in i + 2 .. Len(t) + 1
  <2>1. /\ Len(t) \in Nat /\ ~IsDigitDec("NUL")
        /\ \A k \in Nat : k > Len(t) => ChOf(t, k) = "NUL"
    BY PatternChar
  <2>2. i \in 1 .. Len(t) /\ IsDigitDec(ChOf(t, i + 1))
    BY <1>1, <1>2 DEF NumsOf
  <2>3. i + 1 \in Nat
    BY <2>1, <2>2
  <2>4. ~(i + 1 > Len(t))
    BY <2>1, <2>2, <2>3, Zenon
  <2>5. i + 1 \in 1 .. Len(t) + 1 /\ i + 1 \in 1 .. Len(t)
    BY <2>1, <2>2, <2>4
  <2>6. EndOf(t, i + 1) \in i + 1 .. Len(t) + 1 /\ ~IsDigitDec(ChOf(t, EndOf(t, i + 1)))
    BY <2>5, EndIs
  <2>7. EndOf(t, i + 1) # i + 1
    BY <2>2, <2>6, Zenon
  <2>8. Len(t) \in Nat /\ i \in Nat /\ EndOf(t, i + 1) \in i + 1 .. Len(t) + 1
    BY <2>1, <2>2, <2>6
  <2> DEFINE e == EndOf(t, i + 1)
  <2> HIDE DEF e
  <2>9. e # i + 1 /\ e \in i + 1 .. Len(t) + 1
    BY <2>7, <2>8, Zenon DEF e
  <2>10. e \in i + 2 .. Len(t) + 1
    BY <2>8, <2>9
  <2> QED
    BY <2>5, <2>10, Zenon DEF e
<1>4. UndersOf(t) \cap NumsOf(t) = {}
  <2>1. ~IsDigitDec("_")
    BY PatternChar, Zenon
  <2> QED
    BY <2>1, Zenon DEF UndersOf, NumsOf
<1> QED
  BY <1>1, <1>2, <1>3, <1>4

\* A character that is covered by nothing.
LEMMA NotCovered ==
    ASSUME NEW t, IsPattern(t), NEW y \in 1 .. Len(t),
           y - 1 \notin UndersOf(t), \A i \in NumsOf(t) : i < y => EndOf(t, i + 1) <= y,
           ~(y \in ControlsOf(t) /\ ChOf(t, y + 1) = "$")
    PROVE  y \notin CoveredOf(t)
<1>1. Len(t) \in Nat /\ ControlsOf(t) \subseteq 1 .. Len(t) /\ NumsOf(t) \subseteq 1 .. Len(t)
      /\ UndersOf(t) \subseteq 1 .. Len(t)
  BY ControlFacts, PatternChar
<1>2. y \notin LinesOf(t)
  <2>1. ASSUME NEW i \in UndersOf(t), y = i + 1 PROVE FALSE
    <3>1. y - 1 = i
      BY <2>1, <1>1
    <3> QED
      BY <3>1
  <2> QED
    BY <2>1 DEF LinesOf
<1>3. ASSUME NEW i \in NumsOf(t), y \in i + 1 .. EndOf(t, i + 1) - 1 PROVE FALSE
  <2>1. i \in Nat /\ EndOf(t, i + 1) \in i + 2 .. Len(t) + 1
    BY <1>1, ControlFacts
  <2>2. i < y /\ EndOf(t, i + 1) \in Nat
    BY <2>1, <1>1, <1>3
  <2>3. EndOf(t, i + 1) <= y
    BY <2>2
  <2> QED
    BY <2>1, <2>2, <2>3, <1>3
<1>4. y \notin DigitsOf(t)
  BY <1>3, Zenon DEF DigitsOf
<1>5. y \notin DoublesOf(t)
  BY Zenon DEF DoublesOf, CONTROL_CHAR
<1> QED
  BY <1>2, <1>4, <1>5, Zenon DEF CoveredOf

\* It means itself, or its parameter.
LEMMA PlainMeans ==
    ASSUME NEW t, IsPattern(t), NEW y \in 1 .. Len(t),
           y - 1 \notin UndersOf(t), \A i \in NumsOf(t) : i < y => EndOf(t, i + 1) <= y,
           ~(y \in ControlsOf(t) /\ ChOf(t, y + 1) = "$")
    PROVE  /\ y \notin UndersOf(t) \cup NumsOf(t) => MeaningOf(t, y) = <<t[y]>>
           /\ y \in UndersOf(t) \cup NumsOf(t) => MeaningOf(t, y) = ValueOfParam(IndexOf(t, y))
<1>1. y \notin CoveredOf(t)
  BY NotCovered, Zenon
<1>2. ASSUME y \notin UndersOf(t) \cup NumsOf(t) PROVE MeaningOf(t, y) = <<t[y]>>
  BY <1>1, <1>2, Zenon DEF MeaningOf
<1>3. ASSUME y \in UndersOf(t) \cup NumsOf(t) PROVE MeaningOf(t, y) = ValueOfParam(IndexOf(t, y))
  BY <1>1, <1>3, Zenon DEF MeaningOf
<1> QED
  BY <1>2, <1>3, Zenon

\* What follows a character is another one or the end.
LEMMA NotAtEnd ==
    ASSUME NEW t, IsPattern(t), NEW x \in 1 .. Len(t), ChOf(t, x + 1) # "NUL"
    PROVE  x + 1 \in 1 .. Len(t) /\ ChOf(t, x + 1) = t[x + 1]
<1>1. /\ Len(t) \in Nat /\ (\A k \in Nat : k > Len(t) => ChOf(t, k) = "NUL")
      /\ \A k \in 1 .. Len(t) : ChOf(t, k) = t[k]
  BY PatternChar
<1>2. x + 1 \in Nat
  BY <1>1
<1>3. ~(x + 1 > Len(t))
  BY <1>1, <1>2, Zenon
<1>4. x + 1 \in 1 .. Len(t)
  BY <1>1, <1>2, <1>3
<1> QED
  BY <1>1, <1>4, Zenon

\* At a character that is no dollar.
LEMMA StepText ==
    ASSUME NEW t, IsPattern(t), NEW x \in 1 .. Len(t), PatternPlace(t, x), t[x] # "$"
    PROVE  x \notin ControlsOf(t) /\ MeaningOf(t, x) = <<t[x]>> /\ PatternPlace(t, x + 1)
<1>1. /\ Len(t) \in Nat /\ ControlsOf(t) \subseteq 1 .. Len(t) /\ NumsOf(t) \subseteq ControlsOf(t)
      /\ UndersOf(t) \subseteq ControlsOf(t)
      /\ \A i \in NumsOf(t) : EndOf(t, i + 1) \in i + 2 .. Len(t) + 1
  BY ControlFacts, PatternChar
<1>2. x \notin ControlsOf(t)
  BY ControlsAre, <1>1, Zenon
<1>3. \A i \in NumsOf(t) : i < x => EndOf(t, i + 1) <= x
  BY Zenon DEF PatternPlace
<1>4. x - 1 \notin UndersOf(t) /\ x \notin UndersOf(t) \cup NumsOf(t)
  BY <1>1, <1>2, Zenon DEF PatternPlace
<1>5. MeaningOf(t, x) = <<t[x]>>
  BY <1>2, <1>3, <1>4, PlainMeans, Zenon
<1>6. x + 1 \in 1 .. Len(t) + 1 /\ (x + 1) - 1 = x
  BY <1>1
<1>7. ASSUME NEW i \in NumsOf(t), i < x + 1 PROVE EndOf(t, i + 1) <= x + 1
  <2>1. i # x /\ i \in Nat /\ EndOf(t, i + 1) \in i + 2 .. Len(t) + 1
    BY <1>1, <1>2
  <2>2. i < x
    BY <2>1, <1>7
  <2>3. EndOf(t, i + 1) <= x
    BY <1>3, <2>2
  <2> QED
    BY <2>1, <2>3, <1>1
<1>8. PatternPlace(t, x + 1)
  BY <1>2, <1>6, <1>7, Zenon DEF PatternPlace
<1> QED
  BY <1>2, <1>5, <1>8, Zenon

\* At a dollar.
LEMMA StepDollar ==
    ASSUME NEW t, IsPattern(t), NEW x \in 1 .. Len(t), PatternPlace(t, x), t[x] = "$"
    PROVE  /\ x \in ControlsOf(t) /\ x + 1 \notin ControlsOf(t)
           /\ \A i \in NumsOf(t) : i < x => EndOf(t, i + 1) <= x
           /\ x - 1 \notin ControlsOf(t)
<1>1. Len(t) \in Nat /\ ControlsOf(t) \subseteq 1 .. Len(t)
  BY ControlFacts, PatternChar
<1>2. x - 1 \notin ControlsOf(t) /\ \A i \in NumsOf(t) : i < x => EndOf(t, i + 1) <= x
  BY Zenon DEF PatternPlace
<1>3. x \in ControlsOf(t)
  BY ControlsAre, <1>1, <1>2, Zenon
<1>4. CASE x + 1 \in 1 .. Len(t)
  <2>1. (x + 1) - 1 = x
    BY <1>1
  <2>2. x + 1 \in ControlsOf(t) => (x + 1) - 1 \notin ControlsOf(t)
    BY <1>1, <1>4, ControlsAre, Zenon
  <2>3. x + 1 \notin ControlsOf(t)
    BY <2>1, <2>2, <1>3, Zenon
  <2> QED
    BY <2>3, <1>2, <1>3, Zenon
<1>5. CASE x + 1 \notin 1 .. Len(t)
  BY <1>1, <1>2, <1>3, <1>5, Zenon
<1> QED
  BY <1>4, <1>5

\* The place behind two characters, the first a dollar that stands before no digit.
LEMMA PlaceBehind ==
    ASSUME NEW t, IsPattern(t), NEW x \in 1 .. Len(t), PatternPlace(t, x), t[x] = "$",
           x + 1 \in 1 .. Len(t), x \notin NumsOf(t)
    PROVE  /\ PatternPlace(t, x + 2) /\ x + 1 \notin ControlsOf(t)
           /\ \A i \in NumsOf(t) : i < x + 1 => EndOf(t, i + 1) <= x + 1
<1>1. /\ Len(t) \in Nat /\ NumsOf(t) \subseteq 1 .. Len(t) /\ NumsOf(t) \subseteq ControlsOf(t)
      /\ \A i \in NumsOf(t) : EndOf(t, i + 1) \in i + 2 .. Len(t) + 1
  BY ControlFacts, PatternChar
<1>2. x + 1 \notin ControlsOf(t) /\ \A i \in NumsOf(t) : i < x => EndOf(t, i + 1) <= x
  BY StepDollar, Zenon
<1>3. ASSUME NEW i \in NumsOf(t), i < x + 2 PROVE EndOf(t, i + 1) <= x
  <2>1. i # x /\ i # x + 1 /\ i \in Nat
    BY <1>1, <1>2
  <2>2. i < x
    BY <2>1, <1>3
  <2> QED
    BY <1>2, <2>2
<1>4. x + 2 \in 1 .. Len(t) + 1 /\ (x + 2) - 1 = x + 1
  BY <1>1
<1>5. ASSUME NEW i \in NumsOf(t), i < x + 2 PROVE EndOf(t, i + 1) <= x + 1 /\ EndOf(t, i + 1) <= x + 2
  <2>1. EndOf(t, i + 1) <= x /\ i \in Nat /\ EndOf(t, i + 1) \in i + 2 .. Len(t) + 1
    BY <1>3, <1>5, <1>1
  <2> QED
    BY <2>1, <1>1
<1>6. \A i \in NumsOf(t) : i < x + 1 => i < x + 2
  BY <1>1
<1>7. PatternPlace(t, x + 2)
  BY <1>2, <1>4, <1>5, Zenon DEF PatternPlace
<1> QED
  BY <1>2, <1>5, <1>6, <1>7, Zenon

\* At two dollars.
LEMMA StepDouble ==
    ASSUME NEW t, IsPattern(t), NEW x \in 1 .. Len(t), PatternPlace(t, x), t[x] = "$", ChOf(t, x + 1) = "$"
    PROVE  /\ x + 1 \in 1 .. Len(t) /\ PatternPlace(t, x + 2)
           /\ MeaningOf(t, x) = <<>> /\ MeaningOf(t, x + 1) = <<t[x + 1]>>
           /\ x \notin UndersOf(t) \cup NumsOf(t) /\ x + 1 \notin UndersOf(t) \cup NumsOf(t)
<1>1. /\ Len(t) \in Nat /\ ControlsOf(t) \subseteq 1 .. Len(t) /\ NumsOf(t) \subseteq ControlsOf(t)
      /\ UndersOf(t) \subseteq ControlsOf(t)
  BY ControlFacts, PatternChar
<1>2. ~IsDigitDec("$")
  BY PatternChar, Zenon
<1>3. x + 1 \in 1 .. Len(t)
  <2>1. "$" # "NUL"
    OBVIOUS
  <2> QED
    BY <2>1, NotAtEnd, Zenon
<1>4. x \notin UndersOf(t) /\ x \notin NumsOf(t)
  <2>1. "$" # "_"
    OBVIOUS
  <2> QED
    BY <2>1, <1>2, Zenon DEF UndersOf, NumsOf
<1>5. x \in ControlsOf(t)
  BY StepDollar, Zenon
<1>6. /\ PatternPlace(t, x + 2) /\ x + 1 \notin ControlsOf(t)
      /\ \A i \in NumsOf(t) : i < x + 1 => EndOf(t, i + 1) <= x + 1
  BY <1>3, <1>4, PlaceBehind, Zenon
<1>7. x \in CoveredOf(t)
  BY <1>5, Zenon DEF CoveredOf, DoublesOf, CONTROL_CHAR
<1>8. MeaningOf(t, x) = <<>>
  BY <1>4, <1>7, Zenon DEF MeaningOf
<1>9. (x + 1) - 1 \notin UndersOf(t) /\ x + 1 \notin UndersOf(t) \cup NumsOf(t)
  <2>1. (x + 1) - 1 = x
    BY <1>1
  <2> QED
    BY <2>1, <1>1, <1>4, <1>6, Zenon
<1>10. MeaningOf(t, x + 1) = <<t[x + 1]>>
  BY <1>3, <1>6, <1>9, PlainMeans, Zenon
<1> QED
  BY <1>3, <1>4, <1>6, <1>8, <1>9, <1>10, Zenon

\* At a dollar and an underscore.
LEMMA StepUnder ==
    ASSUME NEW t, IsPattern(t), NEW x \in 1 .. Len(t), PatternPlace(t, x), t[x] = "$", ChOf(t, x + 1) = "_"
    PROVE  /\ x + 1 \in 1 .. Len(t) /\ PatternPlace(t, x + 2)
           /\ MeaningOf(t, x) = ValueOfParam(IndexOf(t, x)) /\ MeaningOf(t, x + 1) = <<>>
           /\ x \in UndersOf(t) /\ x \notin NumsOf(t) /\ x + 1 \notin ControlsOf(t)
<1>1. /\ Len(t) \in Nat /\ ControlsOf(t) \subseteq 1 .. Len(t) /\ NumsOf(t) \subseteq ControlsOf(t)
      /\ UndersOf(t) \subseteq ControlsOf(t)
  BY ControlFacts, PatternChar
<1>2. ~IsDigitDec("_")
  BY PatternChar, Zenon
<1>3. x + 1 \in 1 .. Len(t)
  <2>1. "_" # "NUL"
    OBVIOUS
  <2> QED
    BY <2>1, NotAtEnd, Zenon
<1>4. x \in UndersOf(t) /\ x \notin NumsOf(t)
  <2>1. x \in ControlsOf(t)
    BY StepDollar, Zenon
  <2> QED
    BY <2>1, <1>2, Zenon DEF UndersOf, NumsOf
<1>5. PatternPlace(t, x + 2) /\ x + 1 \notin ControlsOf(t)
  BY <1>3, <1>4, PlaceBehind, Zenon
<1>6. x + 1 \in CoveredOf(t)
  BY <1>4, Zenon DEF CoveredOf, LinesOf
<1>7. MeaningOf(t, x + 1) = <<>>
  <2>1. x + 1 \notin UndersOf(t) \cup NumsOf(t)
    BY <1>1, <1>5, Zenon
  <2> QED
    BY <2>1, <1>6, Zenon DEF MeaningOf
<1>8. MeaningOf(t, x) = ValueOfParam(IndexOf(t, x))
  <2>1. x \in UndersOf(t) \cup NumsOf(t)
    BY <1>4, Zenon
  <2>2. x - 1 \notin UndersOf(t) /\ \A i \in NumsOf(t) : i < x => EndOf(t, i + 1) <= x
    BY <1>1, StepDollar, Zenon
  <2>3. "_" # "$"
    OBVIOUS
  <2> QED
    BY <2>1, <2>2, <2>3, PlainMeans, Zenon
<1> QED
  BY <1>3, <1>4, <1>5, <1>7, <1>8, Zenon

\* At a dollar and digits.
LEMMA StepNumber ==
    ASSUME NEW t, IsPattern(t), NEW x \in 1 .. Len(t), PatternPlace(t, x), t[x] = "$", IsDigitDec(ChOf(t, x + 1))
    PROVE  /\ x + 1 \in 1 .. Len(t) /\ EndOf(t, x + 1) \in x + 2 .. Len(t) + 1
           /\ PatternPlace(t, EndOf(t, x + 1))
           /\ MeaningOf(t, x) = ValueOfParam(IndexOf(t, x))
           /\ \A y \in x + 1 .. EndOf(t, x + 1) - 1 : MeaningOf(t, y) = <<>> /\ y \notin ControlsOf(t)
           /\ x \in NumsOf(t) /\ x \notin UndersOf(t)
<1> DEFINE e == EndOf(t, x + 1)
<1>1. /\ Len(t) \in Nat /\ ControlsOf(t) \subseteq 1 .. Len(t) /\ NumsOf(t) \subseteq ControlsOf(t)
      /\ UndersOf(t) \subseteq ControlsOf(t) /\ NumsOf(t) \subseteq 1 .. Len(t)
  BY ControlFacts, PatternChar
<1>2. x \in ControlsOf(t) /\ x - 1 \notin ControlsOf(t) /\ \A i \in NumsOf(t) : i < x => EndOf(t, i + 1) <= x
  BY StepDollar, Zenon
<1>3. x \in NumsOf(t) /\ x \notin UndersOf(t)
  <2>1. x \in NumsOf(t)
    BY <1>2, Zenon DEF NumsOf
  <2>2. UndersOf(t) \cap NumsOf(t) = {}
    BY ControlFacts, Zenon
  <2> QED
    BY <2>1, <2>2, Zenon
<1>4. x + 1 \in 1 .. Len(t) /\ e \in x + 2 .. Len(t) + 1
  BY <1>3, ControlFacts, Zenon
<1>5. x + 1 \in 1 .. Len(t) + 1
  BY <1>4, <1>1
<1>6. \A y \in x + 1 .. e - 1 : IsDigitDec(ChOf(t, y))
  BY <1>5, EndIs, Zenon
<1> HIDE DEF e
<1>7. ASSUME NEW y \in x + 1 .. e - 1 PROVE y \notin ControlsOf(t)
  <2>1. y \in 1 .. Len(t)
    BY <1>1, <1>4
  <2>2. IsDigitDec(t[y])
    <3>1. ChOf(t, y) = t[y]
      BY <2>1, PatternChar, Zenon
    <3> QED
      BY <3>1, <1>6, Zenon
  <2>3. ~IsDigitDec("$")
    BY PatternChar, Zenon
  <2> QED
    BY <2>1, <2>2, <2>3, <1>1, ControlsAre, Zenon
<1>8. ASSUME NEW y \in x + 1 .. e - 1 PROVE MeaningOf(t, y) = <<>>
  <2>1. y \notin UndersOf(t) \cup NumsOf(t)
    BY <1>1, <1>7, Zenon
  <2>2. y \in CoveredOf(t)
    BY <1>3, Zenon DEF e, CoveredOf, DigitsOf
  <2> QED
    BY <2>1, <2>2, Zenon DEF MeaningOf
<1>9. MeaningOf(t, x) = ValueOfParam(IndexOf(t, x))
  <2>1. x \in UndersOf(t) \cup NumsOf(t)
    BY <1>3, Zenon
  <2>2. x - 1 \notin UndersOf(t)
    BY <1>1, <1>2, Zenon
  <2>3. ChOf(t, x + 1) # "$"
    <3>1. ~IsDigitDec("$")
      BY PatternChar, Zenon
    <3> QED
      BY <3>1, Zenon
  <2> QED
    BY <2>1, <2>2, <2>3, <1>2, PlainMeans, Zenon
<1>10. PatternPlace(t, e)
  <2>1. e \in 1 .. Len(t) + 1 /\ e - 1 \in x + 1 .. e - 1
    BY <1>1, <1>4
  <2>2. e - 1 \notin ControlsOf(t)
    BY <2>1, <1>7, Zenon
  <2>3. ASSUME NEW i \in NumsOf(t), i < e PROVE EndOf(t, i + 1) <= e
    <3>1. i \in Nat /\ EndOf(t, i + 1) \in Nat /\ EndOf(t, x + 1) \in Nat
      <4>1. \A k \in NumsOf(t) : EndOf(t, k + 1) \in k + 2 .. Len(t) + 1
        BY ControlFacts, Zenon
      <4>2. EndOf(t, i + 1) \in i + 2 .. Len(t) + 1 /\ EndOf(t, x + 1) \in x + 2 .. Len(t) + 1
        BY <4>1, <1>3, Zenon
      <4> QED
        BY <4>2, <1>1
    <3>2. i \notin x + 1 .. e - 1
      BY <1>7, <1>1
    <3>3. i < x \/ i = x
      BY <3>1, <3>2, <2>3, <1>4, <1>1
    <3>4. CASE i = x
      BY <3>4, <3>1 DEF e
    <3>5. CASE i < x
      <4>1. EndOf(t, i + 1) <= x
        BY <1>2, <3>5, Zenon
      <4> QED
        BY <4>1, <3>1, <1>1, <1>4
    <3> QED
      BY <3>3, <3>4, <3>5
  <2> QED
    BY <2>1, <2>2, <2>3, Zenon DEF PatternPlace
<1> QED
  BY <1>3, <1>4, <1>7, <1>8, <1>9, <1>10, Zenon DEF e

LEMMA BackAgain ==
    ASSUME NEW n \in Nat, NEW x \in 1 .. n
    PROVE  (x + 1) - 1 = x
OBVIOUS

LEMMA PairSums ==
    ASSUME NEW n \in Nat, NEW x \in 1 .. n, x + 1 \in 1 .. n
    PROVE  /\ x + 2 \in x + 1 .. n + 1 /\ x + 2 \in Nat /\ x < x + 2 /\ x + 2 \in 1 .. x + 2
           /\ \A y \in x + 1 .. (x + 2) - 1 : y = x + 1
OBVIOUS

LEMMA PlaceSums ==
    ASSUME NEW n \in Nat, NEW x \in 1 .. n, NEW b \in 1 .. x
    PROVE  /\ x \in Nat /\ x + 2 \in Nat /\ x <= x + 2 /\ (x + 1) + 1 = x + 2
           /\ b \in 1 .. x + 1 /\ b \in 1 .. x + 2
           /\ \A y \in x .. (x + 2) - 1 : y = x \/ y = x + 1
OBVIOUS

\* At a dollar that stands for itself, and at what follows.
LEMMA StepOther ==
    ASSUME NEW t, IsPattern(t), NEW x \in 1 .. Len(t), PatternPlace(t, x), t[x] = "$",
           ChOf(t, x + 1) # "NUL", ChOf(t, x + 1) \notin DOMAIN PatternDigits \cup {"$", "_"}
    PROVE  /\ x + 1 \in 1 .. Len(t) /\ PatternPlace(t, x + 2)
           /\ MeaningOf(t, x) = <<t[x]>> /\ MeaningOf(t, x + 1) = <<t[x + 1]>>
           /\ x \notin UndersOf(t) \cup NumsOf(t) /\ x + 1 \notin UndersOf(t) \cup NumsOf(t)
<1>1. /\ Len(t) \in Nat /\ ControlsOf(t) \subseteq 1 .. Len(t) /\ NumsOf(t) \subseteq ControlsOf(t)
      /\ UndersOf(t) \subseteq ControlsOf(t)
  BY ControlFacts, PatternChar
<1>2. x + 1 \in 1 .. Len(t)
  BY NotAtEnd, Zenon
<1>3. x - 1 \notin ControlsOf(t) /\ \A i \in NumsOf(t) : i < x => EndOf(t, i + 1) <= x
  BY StepDollar, Zenon
<1>4. x \notin UndersOf(t) /\ x \notin NumsOf(t)
  BY Zenon DEF UndersOf, NumsOf, IsDigitDec
<1>5. /\ PatternPlace(t, x + 2) /\ x + 1 \notin ControlsOf(t)
      /\ \A i \in NumsOf(t) : i < x + 1 => EndOf(t, i + 1) <= x + 1
  BY <1>2, <1>4, PlaceBehind, Zenon
<1>6. ChOf(t, x + 1) # "$"
  BY Zenon
<1>7. MeaningOf(t, x) = <<t[x]>>
  <2>1. x - 1 \notin UndersOf(t) /\ x \notin UndersOf(t) \cup NumsOf(t)
    BY <1>1, <1>3, <1>4, Zenon
  <2> QED
    BY <2>1, <1>3, <1>6, PlainMeans, Zenon
<1>8. MeaningOf(t, x + 1) = <<t[x + 1]>> /\ x + 1 \notin UndersOf(t) \cup NumsOf(t)
  <2>1. (x + 1) - 1 = x
    BY <1>1, BackAgain, Zenon
  <2>2. (x + 1) - 1 \notin UndersOf(t) /\ x + 1 \notin UndersOf(t) \cup NumsOf(t)
    BY <2>1, <1>1, <1>4, <1>5, Zenon
  <2> QED
    BY <2>2, <1>2, <1>5, PlainMeans, Zenon
<1> QED
  BY <1>2, <1>4, <1>5, <1>7, <1>8, Zenon

-----------------------------------------------------------------------------

\* What may be written: characters of templates, and values.
Glyphs == PatternChars \cup {ValueChars[i] : i \in 1 .. Len(ValueChars)}

LEMMA ValueIs ==
    ASSUME NEW i \in Nat
    PROVE  ValueOfParam(i) \in Seq(Glyphs)
<1>1. Len(ValueChars) \in Nat
  BY PatternAssumption, Zenon
<1>2. CASE i < Len(ValueChars)
  <2>1. i + 1 \in 1 .. Len(ValueChars)
    BY <1>1, <1>2
  <2>2. ValueChars[i + 1] \in Glyphs
    BY <2>1, Zenon DEF Glyphs
  <2>3. <<ValueChars[i + 1]>> \in Seq(Glyphs)
    BY <2>2
  <2> QED
    BY <2>3, <1>2, Zenon DEF ValueOfParam
<1>3. CASE ~(i < Len(ValueChars))
  <2>1. <<>> \in Seq(Glyphs)
    OBVIOUS
  <2> QED
    BY <2>1, <1>3, Zenon DEF ValueOfParam
<1> QED
  BY <1>2, <1>3

\* What the template means up to each of its characters.
AreMeant(g, t, n) == g = [k \in 0 .. n |-> IF k = 0 THEN <<>> ELSE g[k - 1] \o MeaningOf(t, k)]
MeantIn(t) == CHOOSE g : AreMeant(g, t, Len(t))

LEMMA MeantMore ==
    ASSUME NEW t, NEW n \in Nat, NEW g, AreMeant(g, t, n)
    PROVE  \E h : AreMeant(h, t, n + 1)
<1> DEFINE h == [k \in 0 .. n + 1 |-> IF k = 0 THEN <<>> ELSE g[k - 1] \o MeaningOf(t, k)]
<1>1. ASSUME NEW k \in 0 .. n PROVE h[k] = g[k]
  <2> DEFINE w == [j \in 0 .. n |-> IF j = 0 THEN <<>> ELSE g[j - 1] \o MeaningOf(t, j)]
  <2>1. k \in 0 .. n + 1
    OBVIOUS
  <2>2. w[k] = h[k]
    BY <2>1, Zenon
  <2>3. g = w
    BY Zenon DEF AreMeant
  <2> HIDE DEF w, h
  <2> QED
    BY <2>2, <2>3, Zenon
<1>2. ASSUME NEW k \in 0 .. n + 1
      PROVE  (IF k = 0 THEN <<>> ELSE g[k - 1] \o MeaningOf(t, k))
             = (IF k = 0 THEN <<>> ELSE h[k - 1] \o MeaningOf(t, k))
  <2>1. CASE k # 0
    <3>1. k - 1 \in 0 .. n
      BY <2>1
    <3>2. h[k - 1] = g[k - 1]
      BY <3>1, <1>1
    <3> HIDE DEF h
    <3> QED
      BY <3>2, Zenon
  <2>2. CASE k = 0
    <3> HIDE DEF h
    <3> QED
      BY <2>2, Zenon
  <2> QED
    BY <2>1, <2>2
<1>3. h = [k \in 0 .. n + 1 |-> IF k = 0 THEN <<>> ELSE h[k - 1] \o MeaningOf(t, k)]
  BY <1>2, Zenon
<1> QED
  BY <1>3, Zenon DEF AreMeant

LEMMA MeantExist ==
    ASSUME NEW t, NEW n \in Nat
    PROVE  \E g : AreMeant(g, t, n)
<1> DEFINE S == {m \in Nat : ~ \E g : AreMeant(g, t, m)}
<1>1. ASSUME S # {} PROVE FALSE
  <2>1. PICK m \in S : \A k \in S : m <= k
    BY <1>1, LeastNumber, Zenon
  <2>2. m # 0
    <3> DEFINE e == [k \in 0 .. 0 |-> <<>>]
    <3>1. \A k \in 0 .. 0 : k = 0
      OBVIOUS
    <3>2. \A k \in 0 .. 0 : <<>> = (IF k = 0 THEN <<>> ELSE e[k - 1] \o MeaningOf(t, k))
      BY <3>1, Zenon
    <3>3. e = [k \in 0 .. 0 |-> IF k = 0 THEN <<>> ELSE e[k - 1] \o MeaningOf(t, k)]
      BY <3>2, Zenon
    <3> HIDE DEF e
    <3>4. \E g : AreMeant(g, t, 0)
      BY <3>3, Zenon DEF AreMeant
    <3> QED
      BY <3>4, <2>1, Zenon
  <2>3. m - 1 \in Nat /\ ~(m <= m - 1) /\ (m - 1) + 1 = m
    BY <2>1, <2>2
  <2>4. \E g : AreMeant(g, t, m - 1)
    BY <2>1, <2>3, Zenon
  <2>5. \E h : AreMeant(h, t, (m - 1) + 1)
    BY <2>3, <2>4, MeantMore, Zenon
  <2> QED
    BY <2>1, <2>3, <2>5
<1> QED
  BY <1>1

LEMMA MeantIs ==
    ASSUME NEW t, Len(t) \in Nat
    PROVE  /\ MeantIn(t)[0] = <<>>
           /\ \A k \in 1 .. Len(t) : MeantIn(t)[k] = MeantIn(t)[k - 1] \o MeaningOf(t, k)
<1> DEFINE g == MeantIn(t)
           h == [k \in 0 .. Len(t) |-> IF k = 0 THEN <<>> ELSE g[k - 1] \o MeaningOf(t, k)]
<1>1. AreMeant(g, t, Len(t))
  BY MeantExist, Zenon DEF MeantIn
<1>2. g = h
  BY <1>1, Zenon DEF AreMeant
<1> HIDE DEF g
<1>3. 0 \in 0 .. Len(t) /\ \A k \in 1 .. Len(t) : k \in 0 .. Len(t) /\ k # 0
  OBVIOUS
<1>4. h[0] = <<>>
  BY <1>3, Zenon
<1>5. \A k \in 1 .. Len(t) : h[k] = g[k - 1] \o MeaningOf(t, k)
  BY <1>3, Zenon
<1> HIDE DEF h
<1> QED
  BY <1>2, <1>4, <1>5, Zenon DEF g

\* Characters that mean nothing.
LEMMA MeantSame ==
    ASSUME NEW t, Len(t) \in Nat, NEW x \in 0 .. Len(t), NEW z \in x .. Len(t),
           MeantIn(t)[x] \in Seq(Glyphs), \A y \in x + 1 .. z : MeaningOf(t, y) = <<>>
    PROVE  MeantIn(t)[z] = MeantIn(t)[x]
<1> DEFINE g == MeantIn(t)
           S == {k \in x .. z : g[k] # g[x]}
<1>1. ASSUME S # {} PROVE FALSE
  <2>1. S \in SUBSET Nat
    OBVIOUS
  <2>2. PICK m \in S : \A k \in S : m <= k
    BY <1>1, <2>1, LeastNumber, Zenon
  <2>3. m \in x .. z /\ g[m] # g[x]
    BY <2>2
  <2>4. m # x
    BY <2>3
  <2>5. m - 1 \in x .. z /\ ~(m <= m - 1) /\ m \in x + 1 .. z /\ m \in 1 .. Len(t)
    BY <2>3, <2>4
  <2>6. g[m - 1] = g[x]
    BY <2>2, <2>5
  <2>7. g[m] = g[m - 1] \o <<>>
    BY <2>5, MeantIs, Zenon
  <2> HIDE DEF g
  <2>8. g[x] \o <<>> = g[x]
    BY ConcatEmptySeq, Zenon DEF g
  <2> QED
    BY <2>3, <2>6, <2>7, <2>8, Zenon
<1>2. z \in x .. z
  OBVIOUS
<1> QED
  BY <1>1, <1>2

\* Put together by the library's operator it is the same.
LEMMA MeantFlat ==
    ASSUME NEW t, Len(t) \in Nat, Len(t) > 0 => MeaningOf(t, 1) \in Seq(Glyphs)
    PROVE  FlattenSeq([i \in 1 .. Len(t) |-> MeaningOf(t, i)]) = MeantIn(t)[Len(t)]
<1> DEFINE s == [i \in 1 .. Len(t) |-> MeaningOf(t, i)]
           g == MeantIn(t)
           AreFlat(f) == f = [i \in 1 .. Len(s) |-> IF i = 1 THEN s[i] ELSE f[i - 1] \o s[i]]
<1>1. Len(s) = Len(t) /\ \A i \in 1 .. Len(t) : s[i] = MeaningOf(t, i)
  OBVIOUS
<1>2. g[0] = <<>> /\ \A k \in 1 .. Len(t) : g[k] = g[k - 1] \o MeaningOf(t, k)
  BY MeantIs, Zenon
<1>3. CASE Len(t) = 0
  <2>1. s = <<>>
    BY <1>3
  <2> HIDE DEF s
  <2>2. FlattenSeq(s) = s
    BY <1>1, <1>3, Zenon DEF FlattenSeq
  <2> QED
    BY <2>1, <2>2, <1>2, <1>3, Zenon DEF s
<1>4. CASE Len(t) # 0
  <2> HIDE DEF s, g
  <2>1. ASSUME NEW i \in 1 .. Len(t) PROVE g[i] = IF i = 1 THEN s[i] ELSE g[i - 1] \o s[i]
    <3>1. CASE i = 1
      <4>1. Len(t) > 0 /\ 1 - 1 = 0
        BY <1>4
      <4>2. g[1] = <<>> \o MeaningOf(t, 1)
        BY <1>2, <3>1, <4>1
      <4>3. <<>> \o MeaningOf(t, 1) = MeaningOf(t, 1)
        BY <4>1, ConcatEmptySeq, Zenon
      <4> QED
        BY <4>2, <4>3, <3>1, <1>1
    <3>2. CASE i # 1
      BY <1>1, <1>2, <3>2, Zenon
    <3> QED
      BY <3>1, <3>2
  <2> DEFINE h == [i \in 1 .. Len(t) |-> g[i]]
  <2>2. \A i \in 1 .. Len(t) : h[i] = g[i]
    OBVIOUS
  <2>3. ASSUME NEW i \in 1 .. Len(t) PROVE g[i] = IF i = 1 THEN s[i] ELSE h[i - 1] \o s[i]
    <3>1. CASE i # 1
      <4>1. i - 1 \in 1 .. Len(t)
        BY <3>1
      <4>2. h[i - 1] = g[i - 1]
        BY <4>1, <2>2, Zenon
      <4> HIDE DEF h
      <4> QED
        BY <4>2, <2>1, <3>1, Zenon
    <3>2. CASE i = 1
      <4> HIDE DEF h
      <4> QED
        BY <2>1, <3>2, Zenon
    <3> QED
      BY <3>1, <3>2
  <2>4. h = [i \in 1 .. Len(t) |-> IF i = 1 THEN s[i] ELSE h[i - 1] \o s[i]]
    BY <2>3, Zenon
  <2>5. AreFlat(h)
    BY <2>4, <1>1, Zenon
  <2> DEFINE f == CHOOSE k : AreFlat(k)
  <2>6. AreFlat(f)
    BY <2>5, Zenon
  <2> HIDE DEF h, f
  <2>7. \A i \in 1 .. Len(t) : f[i] = IF i = 1 THEN s[i] ELSE f[i - 1] \o s[i]
    <3> DEFINE k == [i \in 1 .. Len(s) |-> IF i = 1 THEN s[i] ELSE f[i - 1] \o s[i]]
    <3>1. \A i \in 1 .. Len(t) : k[i] = IF i = 1 THEN s[i] ELSE f[i - 1] \o s[i]
      BY <1>1, Zenon
    <3>2. f = k
      BY <2>6, Zenon
    <3> HIDE DEF k
    <3> QED
      BY <3>1, <3>2, Zenon
  <2> DEFINE S == {i \in 1 .. Len(t) : f[i] # g[i]}
  <2>8. ASSUME S # {} PROVE FALSE
    <3>1. S \in SUBSET Nat
      OBVIOUS
    <3>2. PICK m \in S : \A k \in S : m <= k
      BY <2>8, <3>1, LeastNumber, Zenon
    <3>3. m \in 1 .. Len(t) /\ f[m] # g[m]
      BY <3>2
    <3>4. m # 1
      BY <3>3, <2>1, <2>7, Zenon
    <3>5. m - 1 \in 1 .. Len(t) /\ ~(m <= m - 1)
      BY <3>3, <3>4
    <3>6. f[m - 1] = g[m - 1]
      BY <3>2, <3>5
    <3> QED
      BY <3>3, <3>4, <3>6, <2>1, <2>7, Zenon
  <2>9. Len(t) \in 1 .. Len(t)
    BY <1>4
  <2>10. f[Len(t)] = g[Len(t)]
    BY <2>8, <2>9
  <2>11. FlattenSeq(s) = f[Len(s)]
    BY <1>1, <1>4, Zenon DEF FlattenSeq, f
  <2> QED
    BY <2>10, <2>11, <1>1, Zenon DEF s, g
<1> QED
  BY <1>3, <1>4

-----------------------------------------------------------------------------

\* What an item writes, and what items write one after the other.
ItemText(z) == IF z.param = -1 THEN z.text ELSE ValueOfParam(z.param)
ItemSet == {Text(s) : s \in Seq(PatternChars)} \cup {Parameter(i) : i \in Nat}
OutsOK(o, it) == o[0] = <<>> /\ \A k \in 1 .. Len(it) : o[k] = o[k - 1] \o ItemText(it[k])
Says(it, m) == m \in Seq(Glyphs) /\ \E o : OutsOK(o, it) /\ o[Len(it)] = m

LEMMA ItemTexts ==
    /\ \A s \in Seq(PatternChars) : ItemText(Text(s)) = s /\ Text(s) \in ItemSet
    /\ \A i \in Nat : ItemText(Parameter(i)) = ValueOfParam(i) /\ Parameter(i) \in ItemSet
<1>1. \A s : ItemText(Text(s)) = s
  BY DEF ItemText, Text
<1>2. ASSUME NEW i \in Nat PROVE ItemText(Parameter(i)) = ValueOfParam(i)
  <2>1. Parameter(i).param = i
    BY DEF Parameter
  <2>2. i # -1
    OBVIOUS
  <2> QED
    BY <2>1, <2>2, Zenon DEF ItemText
<1> QED
  BY <1>1, <1>2, Zenon DEF ItemSet

LEMMA SaysNothing == Says(<<>>, <<>>)
<1> DEFINE o == [k \in 0 .. 0 |-> <<>>]
<1>1. o[0] = <<>> /\ Len(<<>>) = 0 /\ <<>> \in Seq(Glyphs) /\ \A k : k \notin 1 .. 0
  OBVIOUS
<1> HIDE DEF o
<1> QED
  BY <1>1, Zenon DEF Says, OutsOK

\* One more item.
LEMMA SaysMore ==
    ASSUME NEW it \in Seq(ItemSet), NEW z \in ItemSet, NEW m, Says(it, m), ItemText(z) \in Seq(Glyphs)
    PROVE  Append(it, z) \in Seq(ItemSet) /\ Says(Append(it, z), m \o ItemText(z))
<1> DEFINE a == Append(it, z)
           n == Len(it)
<1>1. /\ a \in Seq(ItemSet) /\ Len(a) = n + 1 /\ n \in Nat
      /\ (\A k \in 1 .. n : a[k] = it[k]) /\ a[n + 1] = z
  <2>1. /\ Append(it, z) \in Seq(ItemSet) /\ Len(Append(it, z)) = Len(it) + 1
        /\ (\A k \in 1 .. Len(it) : Append(it, z)[k] = it[k]) /\ Append(it, z)[Len(it) + 1] = z
    BY AppendProperties
  <2>2. Len(it) \in Nat
    OBVIOUS
  <2> QED
    BY <2>1, <2>2, Zenon
<1>2. m \in Seq(Glyphs)
  BY Zenon DEF Says
<1>3. m \o ItemText(z) \in Seq(Glyphs)
  BY <1>2, ConcatProperties, Zenon
<1>4. PICK o : OutsOK(o, it) /\ o[n] = m
  BY Zenon DEF Says
<1> HIDE DEF a
<1>5. o[0] = <<>> /\ \A k \in 1 .. n : o[k] = o[k - 1] \o ItemText(it[k])
  BY <1>4, Zenon DEF OutsOK
<1> HIDE DEF n
<1> DEFINE q == [k \in 0 .. n + 1 |-> IF k = n + 1 THEN m \o ItemText(z) ELSE o[k]]
<1>6. q[n + 1] = m \o ItemText(z)
  <2>1. n + 1 \in 0 .. n + 1
    BY <1>1
  <2> QED
    BY <2>1, Zenon
<1>7. ASSUME NEW k \in 0 .. n PROVE q[k] = o[k]
  <2>1. k \in 0 .. n + 1 /\ k # n + 1
    BY <1>1
  <2> QED
    BY <2>1, Zenon
<1> HIDE DEF q
<1>8. ASSUME NEW k \in 1 .. n + 1 PROVE q[k] = q[k - 1] \o ItemText(a[k])
  <2>1. CASE k = n + 1
    <3>1. k - 1 = n /\ n \in 0 .. n
      BY <1>1, <2>1
    <3>2. q[n] = m
      BY <3>1, <1>4, <1>7, Zenon
    <3> QED
      BY <3>1, <3>2, <2>1, <1>1, <1>6, Zenon
  <2>2. CASE k # n + 1
    <3>1. k \in 1 .. n /\ k \in 0 .. n /\ k - 1 \in 0 .. n
      BY <1>1, <2>2
    <3> QED
      BY <3>1, <1>1, <1>5, <1>7, Zenon
  <2> QED
    BY <2>1, <2>2
<1>9. q[0] = <<>>
  <2>1. 0 \in 0 .. n
    BY <1>1
  <2> QED
    BY <2>1, <1>5, <1>7, Zenon
<1>10. OutsOK(q, a)
  BY <1>1, <1>8, <1>9, Zenon DEF OutsOK
<1>11. Says(a, m \o ItemText(z))
  BY <1>1, <1>3, <1>6, <1>10, Zenon DEF Says
<1> QED
  BY <1>1, <1>11, Zenon DEF a

\* A part of the template is a text.
LEMMA PartIs ==
    ASSUME NEW t, IsPattern(t), NEW b \in Nat, NEW p \in 1 .. Len(t) + 1, 1 <= b
    PROVE  SubSeq(t, b, p - 1) \in Seq(PatternChars) /\ SubSeq(t, b, p - 1) \in Seq(Glyphs)
<1>1. Len(t) \in Nat /\ \A i \in 1 .. Len(t) : t[i] \in PatternChars
  BY PatternChar
<1>2. b \in Int /\ p - 1 \in Int
  BY <1>1
<1>3. \A i \in b .. p - 1 : t[i] \in PatternChars
  BY <1>1
<1>4. SubSeq(t, b, p - 1) \in Seq(PatternChars)
  BY <1>2, <1>3, SubSeqProperties, Zenon
<1>5. PatternChars \subseteq Glyphs
  BY Zenon DEF Glyphs
<1> QED
  BY <1>4, <1>5, SeqMonotonic, Zenon

\* OnText writes what stands between two places.
WithTextOf(t, it, b, p) == IF b < p THEN Append(it, Text(SubSeq(t, b, p - 1))) ELSE it

LEMMA SaysText ==
    ASSUME NEW t, IsPattern(t), NEW b \in Nat, NEW p \in 1 .. Len(t) + 1, 1 <= b,
           NEW it \in Seq(ItemSet), NEW m, Says(it, m)
    PROVE  /\ WithTextOf(t, it, b, p) \in Seq(ItemSet)
           /\ Says(WithTextOf(t, it, b, p), m \o SubSeq(t, b, p - 1))
<1> DEFINE s == SubSeq(t, b, p - 1)
<1>1. s \in Seq(PatternChars) /\ s \in Seq(Glyphs)
  BY PartIs, Zenon
<1>2. CASE b < p
  <2>1. WithTextOf(t, it, b, p) = Append(it, Text(s))
    BY <1>2, Zenon DEF WithTextOf
  <2> HIDE DEF s
  <2>2. ItemText(Text(s)) = s /\ Text(s) \in ItemSet
    BY <1>1, ItemTexts, Zenon
  <2>3. Append(it, Text(s)) \in Seq(ItemSet) /\ Says(Append(it, Text(s)), m \o ItemText(Text(s)))
    BY <2>2, <1>1, SaysMore, Zenon
  <2> QED
    BY <2>1, <2>2, <2>3, Zenon DEF s
<1>3. CASE ~(b < p)
  <2>1. WithTextOf(t, it, b, p) = it
    BY <1>3, Zenon DEF WithTextOf
  <2>2. b \in Int /\ p - 1 \in Int /\ p - 1 < b
    <3>1. Len(t) \in Nat
      BY PatternChar, Zenon
    <3> QED
      BY <3>1, <1>3
  <2>3. s = <<>>
    BY <2>2, SubSeqEmpty, Zenon
  <2>4. m \in Seq(Glyphs)
    BY Zenon DEF Says
  <2> HIDE DEF s
  <2>5. m \o <<>> = m
    BY <2>4, ConcatEmptySeq, Zenon
  <2> QED
    BY <2>1, <2>3, <2>5, Zenon DEF s
<1> QED
  BY <1>2, <1>3

-----------------------------------------------------------------------------

\* CreateParameter, and the indexes that have a parameter.
WithParameterOf(ps, i) ==
    [k \in 1 .. (IF i < Len(ps) THEN Len(ps) ELSE i + 1) |->
       k = i + 1 \/ (k <= Len(ps) /\ ps[k])]
TrueAt(ps) == {k \in 1 .. Len(ps) : ps[k]}

LEMMA ParameterMore ==
    ASSUME NEW ps, Len(ps) \in Nat, NEW i \in Nat, Len(ps) > 0 => Len(ps) \in TrueAt(ps)
    PROVE  /\ Len(WithParameterOf(ps, i)) \in Nat
           /\ TrueAt(WithParameterOf(ps, i)) = TrueAt(ps) \cup {i + 1}
           /\ Len(WithParameterOf(ps, i)) \in TrueAt(WithParameterOf(ps, i))
<1> DEFINE n == IF i < Len(ps) THEN Len(ps) ELSE i + 1
           w == WithParameterOf(ps, i)
<1>1. n \in Nat /\ i + 1 \in 1 .. n /\ (\A k \in 1 .. Len(ps) : k \in 1 .. n) /\ (n = i + 1 \/ (n = Len(ps) /\ n > 0))
  OBVIOUS
<1>2. w = [k \in 1 .. n |-> k = i + 1 \/ (k <= Len(ps) /\ ps[k])]
  BY Zenon DEF WithParameterOf
<1>3. \A k \in 1 .. n : k <= Len(ps) <=> k \in 1 .. Len(ps)
  OBVIOUS
<1> HIDE DEF n
<1>4. Len(w) = n
  <2> DEFINE P(k) == k = i + 1 \/ (k <= Len(ps) /\ ps[k])
  <2>1. w = [k \in 1 .. n |-> P(k)]
    BY <1>2, Zenon
  <2> HIDE DEF P, w
  <2> QED
    BY <2>1, <1>1
<1>5. \A k \in 1 .. n : w[k] <=> (k = i + 1 \/ k \in TrueAt(ps))
  BY <1>2, <1>3, Zenon DEF TrueAt
<1> HIDE DEF w
<1>6. \A k : k \in TrueAt(w) <=> k \in 1 .. n /\ w[k]
  BY <1>4, Zenon DEF TrueAt
<1>7. \A k : k \in TrueAt(ps) => k \in 1 .. n
  BY <1>1, Zenon DEF TrueAt
<1>8. TrueAt(w) = TrueAt(ps) \cup {i + 1}
  BY <1>1, <1>5, <1>6, <1>7, Zenon
<1>9. n \in TrueAt(w)
  BY <1>1, <1>8, Zenon
<1> QED
  BY <1>1, <1>4, <1>8, <1>9, Zenon DEF w

-----------------------------------------------------------------------------

\* The items and the text not yet in one of them write what the template means so far.
SaidUpTo(t, x, b, it) == \E m : Says(it, m) /\ m \o SubSeq(t, b, x - 1) = MeantIn(t)[x - 1]

LEMMA JoinedOnce ==
    ASSUME NEW p \in Seq(Glyphs), NEW q \in Seq(Glyphs), NEW r \in Seq(Glyphs)
    PROVE  (p \o q) \o r = p \o (q \o r)
BY ConcatAssociative

LEMMA SaidText ==
    ASSUME NEW t, IsPattern(t), NEW x \in 1 .. Len(t), NEW b \in 1 .. x, NEW it,
           MeaningOf(t, x) = <<t[x]>>, SaidUpTo(t, x, b, it)
    PROVE  SaidUpTo(t, x + 1, b, it)
<1>1. Len(t) \in Nat /\ t[x] \in PatternChars
  BY PatternChar
<1>2. x \in b .. Len(t) /\ b \in 1 .. Len(t) /\ (x + 1) - 1 = x /\ b \in Nat /\ 1 <= b /\ x \in 1 .. Len(t) + 1
  BY <1>1
<1>3. PICK m : Says(it, m) /\ m \o SubSeq(t, b, x - 1) = MeantIn(t)[x - 1]
  BY Zenon DEF SaidUpTo
<1>4. m \in Seq(Glyphs) /\ SubSeq(t, b, x - 1) \in Seq(Glyphs)
  BY <1>2, <1>3, PartIs, Zenon DEF Says
<1>5. <<t[x]>> \in Seq(Glyphs)
  <2>1. t[x] \in Glyphs
    BY <1>1, Zenon DEF Glyphs
  <2> QED
    BY <2>1
<1>6. SubSeq(t, b, x) = SubSeq(t, b, x - 1) \o <<t[x]>>
  BY <1>2, SubSeqRecursiveSecond, Zenon DEF IsPattern
<1>7. (m \o SubSeq(t, b, x - 1)) \o <<t[x]>> = m \o (SubSeq(t, b, x - 1) \o <<t[x]>>)
  <2> DEFINE p == SubSeq(t, b, x - 1)
             c == <<t[x]>>
  <2>1. p \in Seq(Glyphs) /\ c \in Seq(Glyphs)
    BY <1>4, <1>5, Zenon
  <2> HIDE DEF p, c
  <2>2. (m \o p) \o c = m \o (p \o c)
    BY <1>4, <2>1, JoinedOnce, Zenon
  <2> QED
    BY <2>2, Zenon DEF p, c
<1>8. MeantIn(t)[x] = MeantIn(t)[x - 1] \o <<t[x]>>
  BY <1>1, MeantIs, Zenon
<1>9. m \o SubSeq(t, b, x) = MeantIn(t)[x]
  BY <1>3, <1>6, <1>7, <1>8, Zenon
<1> QED
  BY <1>2, <1>3, <1>9, Zenon DEF SaidUpTo

LEMMA SaidFlushed ==
    ASSUME NEW t, IsPattern(t), NEW x \in 1 .. Len(t) + 1, NEW b \in 1 .. x, NEW it \in Seq(ItemSet),
           SaidUpTo(t, x, b, it)
    PROVE  WithTextOf(t, it, b, x) \in Seq(ItemSet) /\ Says(WithTextOf(t, it, b, x), MeantIn(t)[x - 1])
<1>1. Len(t) \in Nat
  BY PatternChar, Zenon
<1>2. b \in Nat /\ 1 <= b
  BY <1>1
<1>3. PICK m : Says(it, m) /\ m \o SubSeq(t, b, x - 1) = MeantIn(t)[x - 1]
  BY Zenon DEF SaidUpTo
<1>4. /\ WithTextOf(t, it, b, x) \in Seq(ItemSet)
      /\ Says(WithTextOf(t, it, b, x), m \o SubSeq(t, b, x - 1))
  BY <1>2, <1>3, SaysText, Zenon
<1> QED
  BY <1>3, <1>4, Zenon

LEMMA SaidFresh ==
    ASSUME NEW t, NEW x \in Nat, NEW it, Says(it, MeantIn(t)[x - 1])
    PROVE  SaidUpTo(t, x, x, it)
<1>1. x \in Int /\ x - 1 \in Int /\ x - 1 < x
  OBVIOUS
<1>2. SubSeq(t, x, x - 1) = <<>>
  BY <1>1, SubSeqEmpty, Zenon
<1>3. MeantIn(t)[x - 1] \in Seq(Glyphs)
  BY Zenon DEF Says
<1>4. MeantIn(t)[x - 1] \o <<>> = MeantIn(t)[x - 1]
  BY <1>3, ConcatEmptySeq, Zenon
<1> QED
  BY <1>2, <1>4, Zenon DEF SaidUpTo

\* The parameters in front of a place.
ParamsBefore(t, x) == {i \in UndersOf(t) \cup NumsOf(t) : i < x}
CountBefore(t, x) == Cardinality({j \in UndersOf(t) : j < x})
ParamsOK(t, x, ps) ==
    /\ Len(ps) \in Nat /\ TrueAt(ps) = {IndexOf(t, i) + 1 : i \in ParamsBefore(t, x)}
    /\ Len(ps) > 0 => Len(ps) \in TrueAt(ps)

\* No parameter between two places.
LEMMA BeforeSame ==
    ASSUME NEW t, IsPattern(t), NEW x \in Nat, NEW z \in Nat, x <= z,
           \A y \in x .. z - 1 : y \notin UndersOf(t) \cup NumsOf(t)
    PROVE  ParamsBefore(t, z) = ParamsBefore(t, x) /\ CountBefore(t, z) = CountBefore(t, x)
<1>1. Len(t) \in Nat /\ UndersOf(t) \subseteq 1 .. Len(t) /\ NumsOf(t) \subseteq 1 .. Len(t)
  BY ControlFacts, PatternChar
<1>2. ASSUME NEW i \in UndersOf(t) \cup NumsOf(t) PROVE i < z <=> i < x
  <2>1. i \in Nat
    BY <1>1
  <2>2. i \notin x .. z - 1
    BY Zenon
  <2> QED
    BY <2>1, <2>2
<1>3. ParamsBefore(t, z) = ParamsBefore(t, x)
  BY <1>2, Zenon DEF ParamsBefore
<1>4. {j \in UndersOf(t) : j < z} = {j \in UndersOf(t) : j < x}
  BY <1>2, Zenon
<1> QED
  BY <1>3, <1>4, Zenon DEF CountBefore

\* A parameter at the first of them.
LEMMA BeforeMore ==
    ASSUME NEW t, IsPattern(t), NEW x \in UndersOf(t) \cup NumsOf(t), NEW z \in Nat, x < z,
           \A y \in x + 1 .. z - 1 : y \notin UndersOf(t) \cup NumsOf(t)
    PROVE  /\ ParamsBefore(t, z) = ParamsBefore(t, x) \cup {x}
           /\ CountBefore(t, x) \in Nat
           /\ x \in UndersOf(t) => CountBefore(t, z) = CountBefore(t, x) + 1
           /\ x \notin UndersOf(t) => CountBefore(t, z) = CountBefore(t, x)
<1>1. Len(t) \in Nat /\ UndersOf(t) \subseteq 1 .. Len(t) /\ NumsOf(t) \subseteq 1 .. Len(t)
  BY ControlFacts, PatternChar
<1>2. x \in Nat
  BY <1>1
<1>3. ASSUME NEW i \in UndersOf(t) \cup NumsOf(t) PROVE i < z <=> (i < x \/ i = x)
  <2>1. i \in Nat
    BY <1>1
  <2>2. i \notin x + 1 .. z - 1
    BY Zenon
  <2> QED
    BY <2>1, <2>2, <1>2
<1>4. ParamsBefore(t, z) = ParamsBefore(t, x) \cup {x}
  BY <1>3, Zenon DEF ParamsBefore
<1> DEFINE A == {j \in UndersOf(t) : j < x}
           B == {j \in UndersOf(t) : j < z}
<1>5. IsFiniteSet(A)
  <2>1. IsFiniteSet(1 .. Len(t))
    BY <1>1, FS_Interval
  <2>2. A \subseteq 1 .. Len(t)
    BY <1>1
  <2> QED
    BY <2>1, <2>2, FS_Subset, Zenon
<1>6. Cardinality(A) \in Nat
  BY <1>5, FS_CardinalityType, Zenon
<1>7. x \notin A
  BY <1>2
<1>8. ASSUME x \in UndersOf(t) PROVE Cardinality(B) = Cardinality(A) + 1
  <2>1. B = A \cup {x}
    BY <1>3, <1>8, Zenon
  <2> HIDE DEF A, B
  <2> QED
    BY <2>1, <1>5, <1>7, FS_AddElement
<1>9. ASSUME x \notin UndersOf(t) PROVE B = A
  BY <1>3, <1>9, Zenon
<1> QED
  BY <1>4, <1>6, <1>8, <1>9, Zenon DEF CountBefore

LEMMA ParamsMore ==
    ASSUME NEW t, NEW x, NEW z, NEW ps, ParamsOK(t, x, ps), IndexOf(t, x) \in Nat,
           ParamsBefore(t, z) = ParamsBefore(t, x) \cup {x}
    PROVE  ParamsOK(t, z, WithParameterOf(ps, IndexOf(t, x)))
<1> DEFINE w == WithParameterOf(ps, IndexOf(t, x))
<1>1. Len(ps) \in Nat /\ (Len(ps) > 0 => Len(ps) \in TrueAt(ps))
      /\ TrueAt(ps) = {IndexOf(t, i) + 1 : i \in ParamsBefore(t, x)}
  BY Zenon DEF ParamsOK
<1>2. /\ Len(w) \in Nat
      /\ TrueAt(w) = TrueAt(ps) \cup {IndexOf(t, x) + 1}
      /\ Len(w) \in TrueAt(w)
  BY <1>1, ParameterMore, Zenon
<1> HIDE DEF w
<1>3. TrueAt(w) = {IndexOf(t, i) + 1 : i \in ParamsBefore(t, z)}
  BY <1>1, <1>2, Zenon
<1> QED
  BY <1>2, <1>3, Zenon DEF ParamsOK, w

LEMMA IndexIs ==
    ASSUME NEW t, IsPattern(t), NEW x \in UndersOf(t) \cup NumsOf(t)
    PROVE  IndexOf(t, x) \in Nat
<1>1. Len(t) \in Nat /\ UndersOf(t) \subseteq 1 .. Len(t) /\ NumsOf(t) \subseteq 1 .. Len(t)
  BY ControlFacts, PatternChar
<1>2. CASE x \in NumsOf(t)
  <2>1. x + 1 \in 1 .. Len(t) + 1
    BY <1>1, <1>2
  <2>2. NumberOf(t, x + 1) \in Nat
    BY <2>1, NumberIs, Zenon
  <2> QED
    BY <2>2, <1>2, Zenon DEF IndexOf
<1>3. CASE x \notin NumsOf(t)
  <2>1. x \in Nat /\ x + 1 \in Nat /\ x < x + 1 /\ \A y : y \notin x + 1 .. (x + 1) - 1
    BY <1>1
  <2>2. CountBefore(t, x) \in Nat
    BY <2>1, BeforeMore, Zenon
  <2> QED
    BY <2>2, <1>3, Zenon DEF IndexOf, CountBefore
<1> QED
  BY <1>2, <1>3

\* A parameter, and what stands for it.
LEMMA SaidParameter ==
    ASSUME NEW t, IsPattern(t), NEW x \in 1 .. Len(t), NEW it \in Seq(ItemSet), NEW i \in Nat,
           Says(it, MeantIn(t)[x - 1]), MeaningOf(t, x) = ValueOfParam(i),
           NEW z \in x + 1 .. Len(t) + 1, \A y \in x + 1 .. z - 1 : MeaningOf(t, y) = <<>>
    PROVE  /\ Append(it, Parameter(i)) \in Seq(ItemSet)
           /\ SaidUpTo(t, z, z, Append(it, Parameter(i)))
<1>1. Len(t) \in Nat
  BY PatternChar, Zenon
<1>2. ItemText(Parameter(i)) = ValueOfParam(i) /\ Parameter(i) \in ItemSet /\ ValueOfParam(i) \in Seq(Glyphs)
  BY ItemTexts, ValueIs, Zenon
<1>3. /\ Append(it, Parameter(i)) \in Seq(ItemSet)
      /\ Says(Append(it, Parameter(i)), MeantIn(t)[x - 1] \o ItemText(Parameter(i)))
  BY <1>2, SaysMore, Zenon
<1>4. MeantIn(t)[x] = MeantIn(t)[x - 1] \o ValueOfParam(i)
  BY <1>1, MeantIs, Zenon
<1>5. Says(Append(it, Parameter(i)), MeantIn(t)[x])
  BY <1>2, <1>3, <1>4, Zenon
<1>6. MeantIn(t)[x] \in Seq(Glyphs)
  BY <1>5, Zenon DEF Says
<1>7. x \in 0 .. Len(t) /\ z - 1 \in x .. Len(t) /\ z \in Nat
  BY <1>1
<1>8. MeantIn(t)[z - 1] = MeantIn(t)[x]
  BY <1>1, <1>6, <1>7, MeantSame, Zenon
<1>9. Says(Append(it, Parameter(i)), MeantIn(t)[z - 1])
  BY <1>5, <1>8, Zenon
<1> QED
  BY <1>3, <1>7, <1>9, SaidFresh, Zenon

-----------------------------------------------------------------------------

\* The parser at a place of the template.
PatternOK(t, x, b, np, it, ps) ==
    /\ PatternPlace(t, x) /\ b \in 1 .. x /\ np = CountBefore(t, x)
    /\ it \in Seq(ItemSet) /\ SaidUpTo(t, x, b, it) /\ ParamsOK(t, x, ps)

LEMMA AtCharacter ==
    ASSUME NEW t, IsPattern(t), NEW x, PatternPlace(t, x)
    PROVE  /\ ChOf(t, x) # "NUL" => x \in 1 .. Len(t) /\ ChOf(t, x) = t[x]
           /\ ChOf(t, x) = "NUL" => x = Len(t) + 1
           /\ x \in 1 .. Len(t) + 1 /\ Len(t) \in Nat
<1>1. /\ Len(t) \in Nat /\ (\A k \in Nat : k > Len(t) => ChOf(t, k) = "NUL")
      /\ \A k \in 1 .. Len(t) : ChOf(t, k) = t[k] /\ t[k] # "NUL"
  BY PatternChar, Zenon
<1>2. x \in 1 .. Len(t) + 1
  BY Zenon DEF PatternPlace
<1>3. x \in 1 .. Len(t) \/ (x = Len(t) + 1 /\ x \in Nat /\ x > Len(t) /\ x \notin 1 .. Len(t))
  BY <1>1, <1>2
<1> QED
  BY <1>1, <1>2, <1>3, Zenon

LEMMA PatText ==
    ASSUME NEW t, NEW x, NEW b, NEW np, NEW it, NEW ps,
           IsPattern(t), PatternOK(t, x, b, np, it, ps), ChOf(t, x) # "NUL", ChOf(t, x) # "$"
    PROVE  PatternOK(t, x + 1, b, np, it, ps)
<1>1. /\ PatternPlace(t, x) /\ b \in 1 .. x /\ np = CountBefore(t, x)
      /\ it \in Seq(ItemSet) /\ SaidUpTo(t, x, b, it) /\ ParamsOK(t, x, ps)
  BY Zenon DEF PatternOK
<1>2. x \in 1 .. Len(t) /\ t[x] # "$" /\ Len(t) \in Nat
  BY <1>1, AtCharacter, Zenon
<1>3. x \notin ControlsOf(t) /\ MeaningOf(t, x) = <<t[x]>> /\ PatternPlace(t, x + 1)
  BY <1>1, <1>2, StepText, Zenon
<1>4. SaidUpTo(t, x + 1, b, it)
  BY <1>1, <1>2, <1>3, SaidText, Zenon
<1>5. x \in Nat /\ x + 1 \in Nat /\ x <= x + 1 /\ (\A y \in x .. (x + 1) - 1 : y = x)
  BY <1>2
<1>6. x \notin UndersOf(t) \cup NumsOf(t)
  <2>1. UndersOf(t) \subseteq ControlsOf(t) /\ NumsOf(t) \subseteq ControlsOf(t)
    BY ControlFacts, Zenon
  <2> QED
    BY <2>1, <1>3, Zenon
<1>7. ParamsBefore(t, x + 1) = ParamsBefore(t, x) /\ CountBefore(t, x + 1) = CountBefore(t, x)
  <2>1. \A y \in x .. (x + 1) - 1 : y \notin UndersOf(t) \cup NumsOf(t)
    BY <1>5, <1>6, Zenon
  <2> QED
    BY <1>5, <2>1, BeforeSame, Zenon
<1>8. b \in 1 .. x + 1
  BY <1>1, <1>2
<1>9. ParamsOK(t, x + 1, ps)
  BY <1>1, <1>7, Zenon DEF ParamsOK
<1> QED
  BY <1>1, <1>3, <1>4, <1>7, <1>8, <1>9, Zenon DEF PatternOK

LEMMA PatDouble ==
    ASSUME NEW t, NEW x, NEW b, NEW np, NEW it, NEW ps,
           IsPattern(t), PatternOK(t, x, b, np, it, ps), ChOf(t, x) = "$", ChOf(t, x + 1) = "$"
    PROVE  PatternOK(t, x + 2, x + 1, np, WithTextOf(t, it, b, x), ps)
<1> DEFINE w == WithTextOf(t, it, b, x)
<1>0. "$" # "NUL"
  OBVIOUS
<1>1. /\ PatternPlace(t, x) /\ b \in 1 .. x /\ np = CountBefore(t, x)
      /\ it \in Seq(ItemSet) /\ SaidUpTo(t, x, b, it) /\ ParamsOK(t, x, ps)
  BY Zenon DEF PatternOK
<1>2. x \in 1 .. Len(t) /\ x \in 1 .. Len(t) + 1 /\ t[x] = "$" /\ Len(t) \in Nat
  BY <1>0, <1>1, AtCharacter, Zenon
<1>3. /\ x + 1 \in 1 .. Len(t) /\ PatternPlace(t, x + 2)
      /\ MeaningOf(t, x) = <<>> /\ MeaningOf(t, x + 1) = <<t[x + 1]>>
      /\ x \notin UndersOf(t) \cup NumsOf(t) /\ x + 1 \notin UndersOf(t) \cup NumsOf(t)
  BY <1>1, <1>2, StepDouble, Zenon
<1>4. w \in Seq(ItemSet) /\ Says(w, MeantIn(t)[x - 1])
  BY <1>1, <1>2, SaidFlushed, Zenon
<1>5. MeantIn(t)[x] = MeantIn(t)[x - 1]
  <2>1. MeantIn(t)[x - 1] \in Seq(Glyphs)
    BY <1>4, Zenon DEF Says
  <2>2. MeantIn(t)[x] = MeantIn(t)[x - 1] \o <<>>
    BY <1>2, <1>3, MeantIs, Zenon
  <2> QED
    BY <2>1, <2>2, ConcatEmptySeq, Zenon
<1>6. x + 1 \in Nat /\ x \in Nat /\ (x + 1) - 1 = x /\ x + 1 \in 1 .. x + 1 /\ (x + 1) + 1 = x + 2 /\ x + 2 \in Nat
      /\ x + 1 \in 1 .. x + 2 /\ x <= x + 2 /\ \A y \in x .. (x + 2) - 1 : y = x \/ y = x + 1
  BY <1>2
<1>7. SaidUpTo(t, x + 1, x + 1, w)
  BY <1>4, <1>5, <1>6, SaidFresh, Zenon
<1>8. SaidUpTo(t, (x + 1) + 1, x + 1, w)
  BY <1>3, <1>6, <1>7, SaidText, Zenon
<1>9. ParamsBefore(t, x + 2) = ParamsBefore(t, x) /\ CountBefore(t, x + 2) = CountBefore(t, x)
  <2>1. \A y \in x .. (x + 2) - 1 : y \notin UndersOf(t) \cup NumsOf(t)
    BY <1>3, <1>6, Zenon
  <2> QED
    BY <1>6, <2>1, BeforeSame, Zenon
<1>10. ParamsOK(t, x + 2, ps)
  BY <1>1, <1>9, Zenon DEF ParamsOK
<1> QED
  BY <1>1, <1>3, <1>4, <1>6, <1>8, <1>9, <1>10, Zenon DEF PatternOK

LEMMA PatUnder ==
    ASSUME NEW t, NEW x, NEW b, NEW np, NEW it, NEW ps,
           IsPattern(t), PatternOK(t, x, b, np, it, ps), ChOf(t, x) = "$", ChOf(t, x + 1) = "_"
    PROVE  PatternOK(t, x + 2, x + 2, np + 1, Append(WithTextOf(t, it, b, x), Parameter(np)),
                     WithParameterOf(ps, np))
<1> DEFINE w == WithTextOf(t, it, b, x)
<1>0. "$" # "NUL"
  OBVIOUS
<1>1. /\ PatternPlace(t, x) /\ b \in 1 .. x /\ np = CountBefore(t, x)
      /\ it \in Seq(ItemSet) /\ SaidUpTo(t, x, b, it) /\ ParamsOK(t, x, ps)
  BY Zenon DEF PatternOK
<1>2. x \in 1 .. Len(t) /\ x \in 1 .. Len(t) + 1 /\ t[x] = "$" /\ Len(t) \in Nat
  BY <1>0, <1>1, AtCharacter, Zenon
<1>3. /\ x + 1 \in 1 .. Len(t) /\ PatternPlace(t, x + 2)
      /\ MeaningOf(t, x) = ValueOfParam(IndexOf(t, x)) /\ MeaningOf(t, x + 1) = <<>>
      /\ x \in UndersOf(t) /\ x \notin NumsOf(t) /\ x + 1 \notin ControlsOf(t)
  BY <1>1, <1>2, StepUnder, Zenon
<1>4. w \in Seq(ItemSet) /\ Says(w, MeantIn(t)[x - 1])
  BY <1>1, <1>2, SaidFlushed, Zenon
<1>5. IndexOf(t, x) = np /\ x \in UndersOf(t) \cup NumsOf(t)
  BY <1>1, <1>3, Zenon DEF IndexOf, CountBefore
<1>6. np \in Nat
  BY <1>5, IndexIs, Zenon
<1>7. /\ x + 2 \in x + 1 .. Len(t) + 1 /\ x + 2 \in Nat /\ x < x + 2 /\ x + 2 \in 1 .. x + 2
      /\ \A y \in x + 1 .. (x + 2) - 1 : y = x + 1
  <2>1. Len(t) \in Nat /\ x \in 1 .. Len(t) /\ x + 1 \in 1 .. Len(t)
    BY <1>2, <1>3, Zenon
  <2> QED
    BY <2>1, PairSums, Zenon
<1>8. Append(w, Parameter(np)) \in Seq(ItemSet) /\ SaidUpTo(t, x + 2, x + 2, Append(w, Parameter(np)))
  <2>1. \A y \in x + 1 .. (x + 2) - 1 : MeaningOf(t, y) = <<>>
    BY <1>3, <1>7, Zenon
  <2>2. MeaningOf(t, x) = ValueOfParam(np)
    BY <1>3, <1>5, Zenon
  <2> HIDE DEF w
  <2> QED
    BY <2>1, <2>2, <1>2, <1>4, <1>6, <1>7, SaidParameter, Zenon
<1>9. ParamsBefore(t, x + 2) = ParamsBefore(t, x) \cup {x} /\ CountBefore(t, x + 2) = np + 1
  <2>1. UndersOf(t) \subseteq ControlsOf(t) /\ NumsOf(t) \subseteq ControlsOf(t)
    BY ControlFacts, Zenon
  <2>2. \A y \in x + 1 .. (x + 2) - 1 : y \notin UndersOf(t) \cup NumsOf(t)
    BY <2>1, <1>3, <1>7, Zenon
  <2>3. /\ ParamsBefore(t, x + 2) = ParamsBefore(t, x) \cup {x}
        /\ x \in UndersOf(t) => CountBefore(t, x + 2) = CountBefore(t, x) + 1
    BY <2>2, <1>5, <1>7, BeforeMore, Zenon
  <2> QED
    BY <2>3, <1>1, <1>3, Zenon
<1>10. ParamsOK(t, x + 2, WithParameterOf(ps, np))
  BY <1>1, <1>5, <1>6, <1>9, ParamsMore, Zenon
<1> QED
  BY <1>3, <1>7, <1>8, <1>9, <1>10, Zenon DEF PatternOK

LEMMA PatNumber ==
    ASSUME NEW t, NEW x, NEW b, NEW np, NEW it, NEW ps,
           IsPattern(t), PatternOK(t, x, b, np, it, ps), ChOf(t, x) = "$", IsDigitDec(ChOf(t, x + 1))
    PROVE  PatternOK(t, EndOf(t, x + 1), EndOf(t, x + 1), np,
                     Append(WithTextOf(t, it, b, x), Parameter(NumberOf(t, x + 1))),
                     WithParameterOf(ps, NumberOf(t, x + 1)))
<1> DEFINE w == WithTextOf(t, it, b, x)
           e == EndOf(t, x + 1)
           i == NumberOf(t, x + 1)
<1>0. "$" # "NUL"
  OBVIOUS
<1>1. /\ PatternPlace(t, x) /\ b \in 1 .. x /\ np = CountBefore(t, x)
      /\ it \in Seq(ItemSet) /\ SaidUpTo(t, x, b, it) /\ ParamsOK(t, x, ps)
  BY Zenon DEF PatternOK
<1>2. x \in 1 .. Len(t) /\ x \in 1 .. Len(t) + 1 /\ t[x] = "$" /\ Len(t) \in Nat
  BY <1>0, <1>1, AtCharacter, Zenon
<1>3. /\ x + 1 \in 1 .. Len(t) /\ e \in x + 2 .. Len(t) + 1
      /\ PatternPlace(t, e)
      /\ MeaningOf(t, x) = ValueOfParam(IndexOf(t, x))
      /\ \A y \in x + 1 .. e - 1 : MeaningOf(t, y) = <<>> /\ y \notin ControlsOf(t)
      /\ x \in NumsOf(t) /\ x \notin UndersOf(t)
  BY <1>1, <1>2, StepNumber, Zenon
<1>4. w \in Seq(ItemSet) /\ Says(w, MeantIn(t)[x - 1])
  BY <1>1, <1>2, SaidFlushed, Zenon
<1>5. IndexOf(t, x) = i /\ x \in UndersOf(t) \cup NumsOf(t)
  BY <1>3, Zenon DEF IndexOf
<1>6. i \in Nat
  BY <1>5, IndexIs, Zenon
<1> HIDE DEF e, i, w
<1>7. e \in x + 1 .. Len(t) + 1 /\ e \in Nat /\ x < e /\ e \in 1 .. e
  <2>1. Len(t) \in Nat /\ x \in 1 .. Len(t) /\ e \in x + 2 .. Len(t) + 1
    BY <1>2, <1>3, Zenon
  <2> QED
    BY <2>1
<1>8. Append(w, Parameter(i)) \in Seq(ItemSet) /\ SaidUpTo(t, e, e, Append(w, Parameter(i)))
  <2>1. MeaningOf(t, x) = ValueOfParam(i)
    BY <1>3, <1>5, Zenon
  <2> QED
    BY <2>1, <1>2, <1>3, <1>4, <1>6, <1>7, SaidParameter, Zenon
<1>9. ParamsBefore(t, e) = ParamsBefore(t, x) \cup {x} /\ CountBefore(t, e) = np
  <2>1. UndersOf(t) \subseteq ControlsOf(t) /\ NumsOf(t) \subseteq ControlsOf(t)
    BY ControlFacts, Zenon
  <2>2. \A y \in x + 1 .. e - 1 : y \notin UndersOf(t) \cup NumsOf(t)
    BY <2>1, <1>3, Zenon
  <2> QED
    BY <2>2, <1>1, <1>3, <1>5, <1>7, BeforeMore, Zenon
<1>10. ParamsOK(t, e, WithParameterOf(ps, i))
  BY <1>1, <1>5, <1>6, <1>9, ParamsMore, Zenon
<1>11. PatternOK(t, e, e, np, Append(w, Parameter(i)), WithParameterOf(ps, i))
  BY <1>3, <1>7, <1>8, <1>9, <1>10, Zenon DEF PatternOK
<1> QED
  BY <1>11, Zenon DEF e, i, w

LEMMA PatOther ==
    ASSUME NEW t, NEW x, NEW b, NEW np, NEW it, NEW ps,
           IsPattern(t), PatternOK(t, x, b, np, it, ps), ChOf(t, x) = "$",
           ChOf(t, x + 1) # "NUL", ChOf(t, x + 1) \notin DOMAIN PatternDigits \cup {"$", "_"}
    PROVE  PatternOK(t, x + 2, b, np, it, ps)
<1>0. "$" # "NUL"
  BY Zenon
<1>1. /\ PatternPlace(t, x) /\ b \in 1 .. x /\ np = CountBefore(t, x)
      /\ it \in Seq(ItemSet) /\ SaidUpTo(t, x, b, it) /\ ParamsOK(t, x, ps)
  BY Zenon DEF PatternOK
<1>2. x \in 1 .. Len(t) /\ x \in 1 .. Len(t) + 1 /\ t[x] = "$" /\ Len(t) \in Nat
  BY <1>0, <1>1, AtCharacter, Zenon
<1>3. /\ x + 1 \in 1 .. Len(t) /\ PatternPlace(t, x + 2)
      /\ MeaningOf(t, x) = <<t[x]>> /\ MeaningOf(t, x + 1) = <<t[x + 1]>>
      /\ x \notin UndersOf(t) \cup NumsOf(t) /\ x + 1 \notin UndersOf(t) \cup NumsOf(t)
  BY <1>1, <1>2, StepOther, Zenon
<1>4. /\ x \in Nat /\ x + 2 \in Nat /\ x <= x + 2 /\ (x + 1) + 1 = x + 2 /\ b \in 1 .. x + 1 /\ b \in 1 .. x + 2
      /\ \A y \in x .. (x + 2) - 1 : y = x \/ y = x + 1
  BY <1>1, <1>2, PlaceSums, Zenon
<1>5. SaidUpTo(t, x + 1, b, it)
  BY <1>1, <1>2, <1>3, SaidText, Zenon
<1>6. SaidUpTo(t, (x + 1) + 1, b, it)
  BY <1>3, <1>4, <1>5, SaidText, Zenon
<1>7. ParamsBefore(t, x + 2) = ParamsBefore(t, x) /\ CountBefore(t, x + 2) = CountBefore(t, x)
  <2>1. \A y \in x .. (x + 2) - 1 : y \notin UndersOf(t) \cup NumsOf(t)
    BY <1>3, <1>4, Zenon
  <2> QED
    BY <1>4, <2>1, BeforeSame, Zenon
<1>8. ParamsOK(t, x + 2, ps)
  BY <1>1, <1>7, Zenon DEF ParamsOK
<1> QED
  BY <1>1, <1>3, <1>4, <1>6, <1>7, <1>8, Zenon DEF PatternOK

\* While the items are written.
WritingOK(t, it, n, out) ==
    \E o : OutsOK(o, it) /\ o[Len(it)] = MeantIn(t)[Len(t)] /\ n \in 0 .. Len(it) /\ out = o[n]

LEMMA PatEnd ==
    ASSUME NEW t, NEW x, NEW b, NEW np, NEW it, NEW ps,
           IsPattern(t), PatternOK(t, x, b, np, it, ps), ChOf(t, x) = "NUL"
    PROVE  /\ WithTextOf(t, it, b, x) \in Seq(ItemSet)
           /\ WritingOK(t, WithTextOf(t, it, b, x), 0, <<>>) /\ ParamsOK(t, Len(t) + 1, ps)
<1> DEFINE w == WithTextOf(t, it, b, x)
<1>1. /\ PatternPlace(t, x) /\ b \in 1 .. x
      /\ it \in Seq(ItemSet) /\ SaidUpTo(t, x, b, it) /\ ParamsOK(t, x, ps)
  BY Zenon DEF PatternOK
<1>2. x = Len(t) + 1 /\ x \in 1 .. Len(t) + 1 /\ Len(t) \in Nat
  BY <1>1, AtCharacter, Zenon
<1>3. w \in Seq(ItemSet) /\ Says(w, MeantIn(t)[x - 1])
  BY <1>1, <1>2, SaidFlushed, Zenon
<1>4. x - 1 = Len(t)
  BY <1>2
<1> HIDE DEF w
<1>5. PICK o : OutsOK(o, w) /\ o[Len(w)] = MeantIn(t)[Len(t)]
  BY <1>3, <1>4, Zenon DEF Says
<1>6. 0 \in 0 .. Len(w)
  BY <1>3
<1>7. o[0] = <<>>
  BY <1>5, Zenon DEF OutsOK
<1>8. WritingOK(t, w, 0, <<>>)
  BY <1>5, <1>6, <1>7, Zenon DEF WritingOK
<1> QED
  BY <1>1, <1>2, <1>3, <1>8, Zenon DEF w

LEMMA PatOverrun ==
    ASSUME NEW t, NEW x, IsPattern(t), PatternPlace(t, x), ChOf(t, x) = "$", ChOf(t, x + 1) = "NUL"
    PROVE  Len(t) \in ControlsOf(t)
<1>0. "$" # "NUL"
  OBVIOUS
<1>1. x \in 1 .. Len(t) /\ t[x] = "$" /\ Len(t) \in Nat
  BY <1>0, AtCharacter, Zenon
<1>2. x \in ControlsOf(t)
  BY <1>1, StepDollar, Zenon
<1>3. x + 1 \notin 1 .. Len(t)
  BY PatternChar, Zenon
<1>4. x = Len(t)
  BY <1>1, <1>3
<1> QED
  BY <1>2, <1>4, Zenon

\* The first character means something that can be written.
LEMMA FirstMeaning ==
    ASSUME NEW t, IsPattern(t), Len(t) > 0
    PROVE  MeaningOf(t, 1) \in Seq(Glyphs)
<1>1. /\ Len(t) \in Nat /\ ControlsOf(t) \subseteq 1 .. Len(t) /\ NumsOf(t) \subseteq 1 .. Len(t)
      /\ UndersOf(t) \subseteq 1 .. Len(t)
  BY ControlFacts, PatternChar
<1>2. 1 \in 1 .. Len(t) /\ 1 - 1 \notin 1 .. Len(t) /\ (\A i \in 1 .. Len(t) : ~(i < 1)) /\ 1 \in 1 .. Len(t) + 1
  BY <1>1
<1>3. 1 - 1 \notin UndersOf(t) /\ 1 - 1 \notin ControlsOf(t) /\ \A i \in NumsOf(t) : i < 1 => EndOf(t, i + 1) <= 1
  BY <1>1, <1>2, Zenon
<1>4. t[1] \in Glyphs
  BY <1>2, PatternChar, Zenon DEF Glyphs
<1>5. <<t[1]>> \in Seq(Glyphs) /\ <<>> \in Seq(Glyphs)
  BY <1>4
<1>6. CASE 1 \in ControlsOf(t) /\ ChOf(t, 1 + 1) = "$"
  <2>1. PatternPlace(t, 1)
    BY <1>2, <1>3, Zenon DEF PatternPlace
  <2>2. t[1] = "$"
    BY <1>1, <1>2, <1>6, ControlsAre, Zenon
  <2>3. MeaningOf(t, 1) = <<>>
    BY <1>2, <1>6, <2>1, <2>2, StepDouble, Zenon
  <2> QED
    BY <2>3, <1>5, Zenon
<1>7. CASE ~(1 \in ControlsOf(t) /\ ChOf(t, 1 + 1) = "$")
  <2>1. /\ 1 \notin UndersOf(t) \cup NumsOf(t) => MeaningOf(t, 1) = <<t[1]>>
        /\ 1 \in UndersOf(t) \cup NumsOf(t) => MeaningOf(t, 1) = ValueOfParam(IndexOf(t, 1))
    BY <1>2, <1>3, <1>7, PlainMeans, Zenon
  <2> QED
    BY <2>1, <1>5, IndexIs, ValueIs, Zenon
<1> QED
  BY <1>6, <1>7

\* The parser and the writer.
PatternAll(t, x, b, np, it, ps, n, out, pc) ==
    /\ IsPattern(t)
    /\ pc = "parse" => PatternOK(t, x, b, np, it, ps) /\ n = 0 /\ out = <<>>
    /\ pc = "overrun" => Len(t) \in ControlsOf(t)
    /\ pc = "write" => it \in Seq(ItemSet) /\ WritingOK(t, it, n, out)
    /\ pc \in {"write", "written"} => ParamsOK(t, Len(t) + 1, ps)
    /\ pc = "written" => out = MeantIn(t)[Len(t)]

PatternInv == PatternAll(pattern, ptr, textBegin, nextParam, items, params, itemAt, output, patternPc)

LEMMA PatternStarts == PatternInit => PatternInv
<1> SUFFICES ASSUME PatternInit PROVE PatternInv
  OBVIOUS
<1> DEFINE t == pattern
<1>1. IsPattern(t)
  <2>1. PICK m \in 0 .. MaxPattern : t \in [1 .. m -> PatternChars]
    BY Zenon DEF PatternInit, BoundedSeq, SeqOf
  <2>2. MaxPattern \in Nat
    BY PatternAssumption, Zenon
  <2>3. m \in Nat
    BY <2>2
  <2>4. t \in Seq(PatternChars)
    BY <2>1, <2>3
  <2> QED
    BY <2>4, Zenon DEF IsPattern
<1>2. ptr = 1 /\ textBegin = 1 /\ nextParam = 0 /\ items = <<>> /\ params = <<>>
      /\ itemAt = 0 /\ output = <<>> /\ patternPc = "parse"
  BY Zenon DEF PatternInit
<1> HIDE DEF t
<1>3. /\ Len(t) \in Nat /\ ControlsOf(t) \subseteq 1 .. Len(t) /\ NumsOf(t) \subseteq 1 .. Len(t)
      /\ UndersOf(t) \subseteq 1 .. Len(t)
  BY <1>1, ControlFacts, PatternChar
<1>4. /\ 1 \in 1 .. Len(t) + 1 /\ 1 - 1 \notin 1 .. Len(t) /\ (\A i \in 1 .. Len(t) : ~(i < 1)) /\ 1 \in 1 .. 1
      /\ 1 - 1 = 0 /\ 1 \in Nat
  BY <1>3
<1>5. PatternPlace(t, 1)
  BY <1>3, <1>4, Zenon DEF PatternPlace
<1>6. CountBefore(t, 1) = 0
  <2>1. {j \in UndersOf(t) : j < 1} = {}
    BY <1>3, <1>4, Zenon
  <2>2. Cardinality({}) = 0
    BY FS_EmptySet, Zenon
  <2> QED
    BY <2>1, <2>2, Zenon DEF CountBefore
<1>7. SaidUpTo(t, 1, 1, <<>>)
  <2>1. MeantIn(t)[0] = <<>>
    BY <1>3, MeantIs, Zenon
  <2> QED
    BY <2>1, <1>4, SaysNothing, SaidFresh, Zenon
<1>8. ParamsOK(t, 1, <<>>)
  <2>1. ParamsBefore(t, 1) = {}
    BY <1>3, <1>4, Zenon DEF ParamsBefore
  <2>2. Len(<<>>) = 0 /\ Len(<<>>) \in Nat /\ ~(Len(<<>>) > 0) /\ \A k : k \notin 1 .. Len(<<>>)
    OBVIOUS
  <2>3. TrueAt(<<>>) = {}
    BY <2>2, Zenon DEF TrueAt
  <2> QED
    BY <2>1, <2>2, <2>3, Zenon DEF ParamsOK
<1>9. <<>> \in Seq(ItemSet)
  OBVIOUS
<1>10. PatternOK(t, 1, 1, 0, <<>>, <<>>)
  BY <1>4, <1>5, <1>6, <1>7, <1>8, <1>9, Zenon DEF PatternOK
<1>11. "parse" # "overrun" /\ "parse" # "write" /\ "parse" # "written"
  OBVIOUS
<1>12. PatternAll(t, 1, 1, 0, <<>>, <<>>, 0, <<>>, "parse")
  BY <1>1, <1>10, <1>11, Zenon DEF PatternAll
<1> QED
  BY <1>2, <1>12, Zenon DEF PatternInv, t

LEMMA PatternSteps == PatternInv /\ [PatternNext]_patternVars => PatternInv'
<1> SUFFICES ASSUME PatternInv, [PatternNext]_patternVars PROVE PatternInv'
  OBVIOUS
<1> DEFINE t == pattern
           x == ptr
           w == WithTextOf(t, items, textBegin, x)
<1>1. /\ IsPattern(t)
      /\ patternPc = "parse" => PatternOK(t, x, textBegin, nextParam, items, params) /\ itemAt = 0 /\ output = <<>>
      /\ patternPc = "overrun" => Len(t) \in ControlsOf(t)
      /\ patternPc = "write" => items \in Seq(ItemSet) /\ WritingOK(t, items, itemAt, output)
      /\ patternPc \in {"write", "written"} => ParamsOK(t, Len(t) + 1, params)
      /\ patternPc = "written" => output = MeantIn(t)[Len(t)]
  BY Zenon DEF PatternInv, PatternAll
<1>2. /\ \A i : CharAt(i) = ChOf(t, i)
      /\ \A i : EndOfDigits(i) = EndOf(t, i)
      /\ \A i : UnpackInteger(i) = NumberOf(t, i)
  BY PatternWords, Zenon
<1>3. WithText(x) = w /\ \A i : WithParameter(i) = WithParameterOf(params, i)
  BY Zenon DEF WithText, WithTextOf, WithParameter, WithParameterOf
<1>4. /\ "parse" # "overrun" /\ "parse" # "write" /\ "parse" # "written" /\ "overrun" # "write"
      /\ "overrun" # "written" /\ "write" # "written"
  OBVIOUS
<1> DEFINE Goal == PatternInv'
<1> SUFFICES Goal
  OBVIOUS
<1>5. ASSUME Parsing, patternPc' = "parse", PatternOK(t, ptr', textBegin', nextParam', items', params') PROVE Goal
  <2>1. t' = t /\ itemAt' = itemAt /\ output' = output /\ patternPc = "parse"
    BY <1>5, Zenon DEF Parsing
  <2>2. PatternAll(t, ptr', textBegin', nextParam', items', params', itemAt', output', patternPc')
    BY <1>1, <1>4, <1>5, <2>1, Zenon DEF PatternAll
  <2> QED
    BY <2>1, <2>2, Zenon DEF PatternInv
<1>6. CASE SkipText
  <2>1. /\ Parsing /\ patternPc = "parse" /\ CharAt(x) # "NUL" /\ CharAt(x) # "$" /\ ptr' = x + 1 /\ textBegin' = textBegin
        /\ nextParam' = nextParam /\ items' = items /\ params' = params /\ patternPc' = patternPc
    BY <1>6, Zenon DEF SkipText, Parsing, AtText, CONTROL_CHAR
  <2>2. PatternOK(t, x + 1, textBegin, nextParam, items, params)
    BY <2>1, <1>1, <1>2, PatText, Zenon
  <2> HIDE DEF Goal
  <2> QED
    BY <2>1, <2>2, <1>5, Zenon
<1>7. CASE ControlChar
  <2>1. /\ Parsing /\ patternPc = "parse" /\ CharAt(x) = "$" /\ CharAt(x + 1) = "$" /\ ptr' = x + 2 /\ textBegin' = x + 1
        /\ nextParam' = nextParam /\ items' = w /\ params' = params /\ patternPc' = patternPc
    BY <1>7, <1>3, Zenon DEF ControlChar, Parsing, AtControl, CONTROL_CHAR
  <2>2. PatternOK(t, x + 2, x + 1, nextParam, w, params)
    BY <2>1, <1>1, <1>2, PatDouble, Zenon
  <2> HIDE DEF Goal, w
  <2> QED
    BY <2>1, <2>2, <1>5, Zenon
<1>8. CASE NextParameter
  <2>1. /\ Parsing /\ patternPc = "parse" /\ CharAt(x) = "$" /\ CharAt(x + 1) = "_" /\ ptr' = x + 2 /\ textBegin' = x + 2
        /\ nextParam' = nextParam + 1 /\ items' = Append(w, Parameter(nextParam))
        /\ params' = WithParameterOf(params, nextParam) /\ patternPc' = patternPc
    BY <1>8, <1>3, Zenon DEF NextParameter, OnParameter, Parsing, AtControl, CONTROL_CHAR
  <2>2. PatternOK(t, x + 2, x + 2, nextParam + 1, Append(w, Parameter(nextParam)), WithParameterOf(params, nextParam))
    BY <2>1, <1>1, <1>2, PatUnder, Zenon
  <2> HIDE DEF Goal, w
  <2> QED
    BY <2>1, <2>2, <1>5, Zenon
<1>9. CASE NumberedParameter
  <2> DEFINE i == NumberOf(t, x + 1)
             e == EndOf(t, x + 1)
  <2>1. /\ Parsing /\ patternPc = "parse" /\ CharAt(x) = "$" /\ IsDigitDec(CharAt(x + 1)) /\ ptr' = e /\ textBegin' = e
        /\ nextParam' = nextParam /\ items' = Append(w, Parameter(i))
        /\ params' = WithParameterOf(params, i) /\ patternPc' = patternPc
    BY <1>9, <1>2, <1>3, Zenon DEF NumberedParameter, OnParameter, Parsing, AtControl, CONTROL_CHAR
  <2>2. PatternOK(t, e, e, nextParam, Append(w, Parameter(i)), WithParameterOf(params, i))
    BY <2>1, <1>1, <1>2, PatNumber, Zenon
  <2> HIDE DEF Goal, w, i, e
  <2> QED
    BY <2>1, <2>2, <1>5, Zenon
<1>10. CASE OtherControl
  <2>1. /\ Parsing /\ patternPc = "parse" /\ t' = t /\ itemAt' = itemAt /\ output' = output
        /\ ChOf(t, x) = "$" /\ ChOf(t, x + 1) \notin DOMAIN PatternDigits \cup {"$", "_"}
        /\ textBegin' = textBegin /\ nextParam' = nextParam /\ items' = items /\ params' = params
    BY <1>10, <1>2, Zenon DEF OtherControl, Parsing, AtControl, CONTROL_CHAR
  <2>2. IF ChOf(t, x + 1) = "NUL" THEN patternPc' = "overrun" /\ ptr' = ptr ELSE ptr' = x + 2 /\ patternPc' = patternPc
    BY <1>10, <1>2, Zenon DEF OtherControl
  <2>3. CASE ChOf(t, x + 1) = "NUL"
    <3>1. PatternPlace(t, x)
      BY <1>1, <2>1, Zenon DEF PatternOK
    <3>2. Len(t) \in ControlsOf(t)
      BY <3>1, <1>1, <2>1, <2>3, PatOverrun, Zenon
    <3>3. patternPc' = "overrun"
      BY <2>2, <2>3, Zenon
    <3>4. PatternAll(t, ptr', textBegin', nextParam', items', params', itemAt', output', patternPc')
      BY <1>1, <1>4, <3>2, <3>3, Zenon DEF PatternAll
    <3> QED
      BY <2>1, <3>4, Zenon DEF PatternInv
  <2>4. CASE ChOf(t, x + 1) # "NUL"
    <3>1. PatternOK(t, x + 2, textBegin, nextParam, items, params)
      BY <2>1, <2>4, <1>1, PatOther, Zenon
    <3>2. ptr' = x + 2 /\ patternPc' = patternPc
      BY <2>2, <2>4, Zenon
    <3> HIDE DEF Goal
    <3> QED
      BY <2>1, <3>1, <3>2, <1>5, Zenon
  <2> QED
    BY <2>3, <2>4, Zenon
<1>11. CASE EndOfPattern
  <2>1. /\ patternPc = "parse" /\ t' = t /\ itemAt' = itemAt /\ output' = output /\ ChOf(t, x) = "NUL"
        /\ items' = w /\ params' = params /\ patternPc' = "write"
    BY <1>11, <1>2, <1>3, Zenon DEF EndOfPattern, Parsing
  <2>2. w \in Seq(ItemSet) /\ WritingOK(t, w, 0, <<>>) /\ ParamsOK(t, Len(t) + 1, params)
    BY <2>1, <1>1, PatEnd, Zenon
  <2> HIDE DEF w
  <2>3. PatternAll(t, ptr', textBegin', nextParam', items', params', itemAt', output', patternPc')
    BY <2>1, <2>2, <1>1, <1>4, Zenon DEF PatternAll
  <2> QED
    BY <2>1, <2>3, Zenon DEF PatternInv
<1>12. CASE VisitItem
  <2> DEFINE z == items[itemAt + 1]
  <2>1. /\ patternPc = "write" /\ itemAt < Len(items) /\ t' = t /\ items' = items /\ params' = params
        /\ patternPc' = patternPc /\ itemAt' = itemAt + 1 /\ output' = output \o ItemText(z)
    BY <1>12, Zenon DEF VisitItem, ItemText
  <2>2. PICK o : OutsOK(o, items) /\ o[Len(items)] = MeantIn(t)[Len(t)] /\ itemAt \in 0 .. Len(items) /\ output = o[itemAt]
    BY <1>1, <2>1, Zenon DEF WritingOK
  <2>3. Len(items) \in Nat
    BY <1>1, <2>1
  <2>4. itemAt + 1 \in 0 .. Len(items) /\ itemAt + 1 \in 1 .. Len(items) /\ (itemAt + 1) - 1 = itemAt
    BY <2>1, <2>2, <2>3
  <2>5. o[itemAt + 1] = output \o ItemText(z)
    BY <2>2, <2>4, Zenon DEF OutsOK
  <2>6. WritingOK(t, items, itemAt', output')
    BY <2>1, <2>2, <2>4, <2>5, Zenon DEF WritingOK
  <2>7. PatternAll(t, ptr', textBegin', nextParam', items', params', itemAt', output', patternPc')
    BY <2>1, <2>6, <1>1, <1>4, Zenon DEF PatternAll
  <2> QED
    BY <2>1, <2>7, Zenon DEF PatternInv
<1>13. CASE Visited
  <2>1. /\ patternPc = "write" /\ itemAt = Len(items) /\ t' = t /\ params' = params
        /\ patternPc' = "written" /\ output' = output
    BY <1>13, Zenon DEF Visited
  <2>2. output = MeantIn(t)[Len(t)]
    BY <1>1, <2>1, Zenon DEF WritingOK
  <2>3. PatternAll(t, ptr', textBegin', nextParam', items', params', itemAt', output', patternPc')
    BY <2>1, <2>2, <1>1, <1>4, Zenon DEF PatternAll
  <2> QED
    BY <2>1, <2>3, Zenon DEF PatternInv
<1>14. CASE UNCHANGED patternVars
  <2>1. /\ pattern' = pattern /\ ptr' = ptr /\ textBegin' = textBegin /\ nextParam' = nextParam /\ items' = items
        /\ params' = params /\ itemAt' = itemAt /\ output' = output /\ patternPc' = patternPc
    BY <1>14 DEF patternVars
  <2> QED
    BY <2>1, Zenon DEF PatternInv
<1> HIDE DEF Goal
<1> QED
  BY <1>6, <1>7, <1>8, <1>9, <1>10, <1>11, <1>12, <1>13, <1>14, Zenon DEF PatternNext

LEMMA PatternMeans == PatternInv => TemplateIsAsWritten
<1> SUFFICES ASSUME PatternInv PROVE TemplateIsAsWritten
  OBVIOUS
<1> DEFINE t == pattern
<1>1. /\ IsPattern(t)
      /\ patternPc = "overrun" => Len(t) \in ControlsOf(t)
      /\ patternPc \in {"write", "written"} => ParamsOK(t, Len(t) + 1, params)
      /\ patternPc = "written" => output = MeantIn(t)[Len(t)]
  BY Zenon DEF PatternInv, PatternAll
<1>2. /\ Controls = ControlsOf(t) /\ Underscores = UndersOf(t) /\ Numbers = NumsOf(t)
      /\ (\A i : IndexAt(i) = IndexOf(t, i)) /\ \A i : Meaning(i) = MeaningOf(t, i)
  BY PatternWords, Zenon
<1>3. Len(t) \in Nat
  BY <1>1, PatternChar, Zenon
<1>4. FlattenSeq([i \in 1 .. Len(t) |-> MeaningOf(t, i)]) = MeantIn(t)[Len(t)]
  BY <1>1, <1>3, FirstMeaning, MeantFlat, Zenon
<1>5. [i \in 1 .. Len(t) |-> Meaning(i)] = [i \in 1 .. Len(t) |-> MeaningOf(t, i)]
  BY <1>2, Zenon
<1>6. WrittenIsMeant
  BY <1>1, <1>2, <1>4, <1>5, Zenon DEF WrittenIsMeant
<1>7. ParametersAreThose
  <2> SUFFICES ASSUME patternPc \in {"write", "written"}
               PROVE  /\ {k \in 1 .. Len(params) : params[k]}
                           = {i + 1 : i \in {IndexAt(j) : j \in Underscores \cup Numbers}}
                      /\ Len(params) > 0 => params[Len(params)]
    BY Zenon DEF ParametersAreThose
  <2>1. /\ Len(params) \in Nat /\ TrueAt(params) = {IndexOf(t, i) + 1 : i \in ParamsBefore(t, Len(t) + 1)}
        /\ Len(params) > 0 => Len(params) \in TrueAt(params)
    BY <1>1, Zenon DEF ParamsOK
  <2>2. ParamsBefore(t, Len(t) + 1) = UndersOf(t) \cup NumsOf(t)
    <3>1. UndersOf(t) \subseteq 1 .. Len(t) /\ NumsOf(t) \subseteq 1 .. Len(t)
      BY <1>1, ControlFacts
    <3>2. \A i \in 1 .. Len(t) : i < Len(t) + 1
      BY <1>3
    <3> QED
      BY <3>1, <3>2, Zenon DEF ParamsBefore
  <2>3. {IndexOf(t, i) + 1 : i \in UndersOf(t) \cup NumsOf(t)}
          = {i + 1 : i \in {IndexAt(j) : j \in Underscores \cup Numbers}}
    BY <1>2, Zenon
  <2> QED
    BY <2>1, <2>2, <2>3, Zenon DEF TrueAt
<1> QED
  BY <1>6, <1>7, Zenon DEF TemplateIsAsWritten

\* What simple_template/ writes for a template is what each of its characters means,
\* whatever the template and the values; each index used has its parameter and no
\* other has; and the parser leaves the string only behind a dollar at its end.
THEOREM TemplatesCorrect == PatternSpec => []TemplateIsAsWritten
<1>1. PatternInit => PatternInv
  BY PatternStarts
<1>2. PatternInv /\ [PatternNext]_patternVars => PatternInv'
  BY PatternSteps
<1>3. PatternInv => TemplateIsAsWritten
  BY PatternMeans
<1> QED
  BY <1>1, <1>2, <1>3, PTL DEF PatternSpec
=============================================================================
