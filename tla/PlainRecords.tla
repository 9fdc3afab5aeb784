---------------------------- MODULE PlainRecords ----------------------------
(***************************************************************************)
(* Plain records (plain/): RecordPrototype, which lays out fields, and      *)
(* RecordArray with Sort and BinarySearch.                                  *)
(*                                                                         *)
(* A record is a number, its key.  The array keeps its records in blocks;   *)
(* a block that was not created yet is a block of zeros, which is what it   *)
(* is created with at its first use.  Sort is taken step by step: QuickSort *)
(* permutes an index, ArrangeByIndex follows its cycles.                    *)
(***************************************************************************)
EXTENDS Integers, Sequences, FiniteSets, SequencesExt, Functions

CONSTANTS
    FieldTypes,     \* fields: records of size and alignment
    MaxFields,      \* bound: fields of a prototype
    ChunkCapacity,  \* chunkCapacity_
    RecordKeys,     \* the records
    MaxRecords,     \* bound: size of the array
    MaxRecordCalls  \* bound: calls that change the array

ASSUME RecordsAssumption ==
    /\ {ChunkCapacity, MaxRecords} \subseteq Nat \ {0}
    /\ {MaxFields, MaxRecordCalls} \subseteq Nat
    /\ RecordKeys \subseteq Nat \ {0}
    /\ FieldTypes \subseteq [size : Nat, alignment : Nat \ {0}]
    \* Alignments are powers of two: the smaller divides the greater.
    /\ \A s, t \in FieldTypes : s.alignment <= t.alignment => t.alignment % s.alignment = 0

VARIABLES
    fields,         \* fields_: offset, size and alignment of each
    protoSize,      \* size_ of the prototype
    protoAlignment, \* alignment_
    recSize,        \* size_ of the array
    chunks,         \* chunks_
    index,          \* the index that is sorted
    range,          \* low, high, i, j and the key of x in QuickSort
    calls,          \* the ranges of the calls still to be made
    cycle,          \* i, to, from and temp of ArrangeByIndex
    recPc,          \* "idle", "i", "j", "swap", "next", "arrange", "cycle"
    assigned,       \* history: what each item must hold, -1 if nothing is said
    highest,        \* history: the greatest size since the array was empty
    recCalls        \* history: number of calls

protoVars == <<fields, protoSize, protoAlignment>>
sortVars == <<index, range, calls, cycle, recPc>>
recVars == <<recSize, chunks, sortVars, assigned, highest, recCalls>>

NoRange == [low |-> 0, high |-> 0, i |-> 0, j |-> 0, x |-> 0]
NoCycle == [i |-> 0, to |-> 0, from |-> 0, temp |-> 0]

RecordsInit ==
    /\ fields = <<>> /\ protoSize = 0 /\ protoAlignment = 1
    /\ recSize = 0 /\ chunks = <<>>
    /\ index = <<>> /\ range = NoRange /\ calls = <<>> /\ cycle = NoCycle
    /\ recPc = "idle"
    /\ assigned = [i \in 0 .. MaxRecords - 1 |-> -1] /\ highest = 0 /\ recCalls = 0

-----------------------------------------------------------------------------
(* RecordPrototype.                                                         *)

AlignedSize == ((protoSize - 1) \div protoAlignment + 1) * protoAlignment

\* A field at an offset that is not divisible is reported and does not count.
AlignmentWith(type) ==
    IF protoSize % type.alignment = 0 /\ protoAlignment < type.alignment
    THEN type.alignment ELSE protoAlignment

AddField(type) ==
    /\ Len(fields) < MaxFields
    /\ fields' = Append(fields, [offset |-> protoSize, size |-> type.size,
                                 alignment |-> type.alignment])
    /\ protoAlignment' = AlignmentWith(type)
    /\ protoSize' = protoSize + type.size

PrototypeNext == \E type \in FieldTypes : AddField(type) /\ UNCHANGED recVars

-----------------------------------------------------------------------------
(* RecordArray.                                                             *)

Block == [k \in 0 .. ChunkCapacity - 1 |-> 0]

\* ItemData
Item(i) == chunks[i \div ChunkCapacity + 1][i % ChunkCapacity]
WithItem(i, key) == [chunks EXCEPT ![i \div ChunkCapacity + 1][i % ChunkCapacity] = key]
RecordIndexes == 0 .. recSize - 1

RecordCall == recPc = "idle" /\ recCalls < MaxRecordCalls /\ recCalls' = recCalls + 1

\* Mutant: the number of blocks is rounded down.
ChunksForDown(n) == n \div ChunkCapacity

ChunksFor(n) == (n - 1) \div ChunkCapacity + 1

\* Resize: blocks that are kept keep all their records, those beyond the new size
\* too, and PushBack, which is Resize(Size() + 1), brings them back.
ChunksAfterResize(n) ==
    IF n = 0 THEN <<>>
    ELSE [c \in 1 .. ChunksFor(n) |-> IF c <= Len(chunks) THEN chunks[c] ELSE Block]

Resize(n) ==
    /\ RecordCall
    /\ n # recSize
    /\ chunks' = ChunksAfterResize(n)
    /\ recSize' = n
    /\ assigned' = [i \in DOMAIN assigned |->
                      IF i < recSize THEN assigned[i] ELSE IF i < highest THEN -1 ELSE 0]
    /\ highest' = IF n = 0 THEN 0 ELSE IF n > highest THEN n ELSE highest
    /\ UNCHANGED sortVars

AssignRecord(i, key) ==
    /\ RecordCall
    /\ chunks' = WithItem(i, key)
    /\ assigned' = [assigned EXCEPT ![i] = key]
    /\ UNCHANGED <<recSize, highest, sortVars>>

\* Read from a stream, block by block: one that ends too early, between two
\* records, fills the blocks before its end and any part of the last.
ReadItems(keys) ==
    LET n == Len(keys)
        whole == n - (n % ChunkCapacity)
    IN  /\ RecordCall
        /\ \E m \in (IF n >= recSize THEN {recSize} ELSE whole .. n) :
              /\ chunks' = [c \in 1 .. Len(chunks) |->
                              [k \in DOMAIN chunks[c] |->
                                 LET i == (c - 1) * ChunkCapacity + k
                                 IN  IF i < m THEN keys[i + 1] ELSE chunks[c][k]]]
              /\ assigned' = [i \in DOMAIN assigned |->
                                IF i < m THEN keys[i + 1] ELSE assigned[i]]
        /\ UNCHANGED <<recSize, highest, sortVars>>

-----------------------------------------------------------------------------
(* Sort: BuildIndex with QuickSort, and ArrangeByIndex.                     *)

ArrayStays == UNCHANGED <<recSize, chunks, assigned, highest, recCalls>>

KeyAt(i) == Item(index[i])

NewRange(low, high, ix) ==
    [low |-> low, high |-> high, i |-> low, j |-> high, x |-> Item(ix[(low + high) \div 2])]

StartSort ==
    /\ RecordCall
    /\ index' = [i \in RecordIndexes |-> i]
    /\ IF recSize <= 1
       THEN recPc' = "arrange" /\ UNCHANGED range
       ELSE recPc' = "i" /\ range' = NewRange(0, recSize - 1, index')
    /\ calls' = <<>> /\ cycle' = NoCycle
    /\ UNCHANGED <<recSize, chunks, assigned, highest>>

ScanUp ==
    /\ recPc = "i"
    /\ IF KeyAt(range.i) < range.x
       THEN range' = [range EXCEPT !.i = @ + 1] /\ UNCHANGED recPc
       ELSE recPc' = "j" /\ UNCHANGED range
    /\ ArrayStays /\ UNCHANGED <<index, calls, cycle>>

ScanFromAbove ==
    /\ recPc = "j"
    /\ IF range.x < KeyAt(range.j)
       THEN range' = [range EXCEPT !.j = @ - 1] /\ UNCHANGED recPc
       ELSE recPc' = "swap" /\ UNCHANGED range
    /\ ArrayStays /\ UNCHANGED <<index, calls, cycle>>

\* i and j move on after a swap and when they meet.
MovesOn == range.i <= range.j

SwapPair ==
    /\ recPc = "swap"
    /\ index' = IF range.i < range.j
                THEN [index EXCEPT ![range.i] = index[range.j], ![range.j] = index[range.i]]
                ELSE index
    /\ range' = IF MovesOn THEN [range EXCEPT !.i = @ + 1, !.j = @ - 1] ELSE range
    /\ recPc' = IF range'.i <= range'.j THEN "i" ELSE "next"
    /\ ArrayStays /\ UNCHANGED <<calls, cycle>>

\* The two recursive calls, the lower range first, and the return from a call.
CallIfLonger(low, high) == IF low < high THEN <<[low |-> low, high |-> high]>> ELSE <<>>
Pending == CallIfLonger(range.low, range.j) \o CallIfLonger(range.i, range.high) \o calls

NextRange ==
    /\ recPc = "next"
    /\ IF Pending = <<>>
       THEN recPc' = "arrange" /\ UNCHANGED <<range, calls>>
       ELSE /\ recPc' = "i"
            /\ range' = NewRange(Head(Pending).low, Head(Pending).high, index)
            /\ calls' = Tail(Pending)
    /\ ArrayStays /\ UNCHANGED <<index, cycle>>

ArrangeItem ==
    /\ recPc = "arrange" /\ cycle.i < recSize
    /\ IF index[cycle.i] \in {cycle.i, -1}
       THEN cycle' = [cycle EXCEPT !.i = @ + 1] /\ UNCHANGED recPc
       ELSE /\ cycle' = [i |-> cycle.i, to |-> cycle.i, from |-> index[cycle.i], temp |-> Item(cycle.i)]
            /\ recPc' = "cycle"
    /\ ArrayStays /\ UNCHANGED <<index, range, calls>>

\* One round of the do loop; the last one puts temp in its place.
FollowCycle ==
    /\ recPc = "cycle"
    /\ LET next == index[cycle.from]
           moved == WithItem(cycle.to, Item(cycle.from))
       IN  IF next = cycle.i
           THEN /\ chunks' = [moved EXCEPT ![cycle.from \div ChunkCapacity + 1]
                                            [cycle.from % ChunkCapacity] = cycle.temp]
                /\ index' = [index EXCEPT ![cycle.to] = -1, ![cycle.from] = -1]
                /\ cycle' = [cycle EXCEPT !.i = @ + 1]
                /\ recPc' = "arrange"
           ELSE /\ chunks' = moved
                /\ index' = [index EXCEPT ![cycle.to] = -1]
                /\ cycle' = [cycle EXCEPT !.to = cycle.from, !.from = next]
                /\ UNCHANGED recPc
    /\ UNCHANGED <<recSize, assigned, highest, recCalls, range, calls>>

SortEnds ==
    /\ recPc = "arrange" /\ cycle.i >= recSize
    /\ recPc' = "sorted"
    /\ UNCHANGED <<recSize, chunks, assigned, highest, recCalls, index, range, calls, cycle>>

\* The array in its new order is what later calls find.
SortReturns ==
    /\ recPc = "sorted"
    /\ recPc' = "idle"
    /\ assigned' = [i \in DOMAIN assigned |-> IF i \in RecordIndexes THEN Item(i) ELSE assigned[i]]
    /\ index' = <<>> /\ range' = NoRange /\ calls' = <<>> /\ cycle' = NoCycle
    /\ UNCHANGED <<recSize, chunks, highest, recCalls>>

ArrayNext ==
    /\ \/ \E n \in 0 .. MaxRecords : Resize(n)
       \/ \E i \in RecordIndexes, key \in RecordKeys : AssignRecord(i, key)
       \/ \E keys \in BoundedSeq(RecordKeys, recSize) : ReadItems(keys)
       \/ StartSort \/ ScanUp \/ ScanFromAbove \/ SwapPair \/ NextRange
       \/ ArrangeItem \/ FollowCycle \/ SortEnds \/ SortReturns
    /\ UNCHANGED protoVars

recordsVars == <<protoVars, recVars>>
RecordsNext == PrototypeNext \/ ArrayNext
RecordsSpec == RecordsInit /\ [][RecordsNext]_recordsVars

-----------------------------------------------------------------------------
(* BinarySearch.                                                            *)

\* Is there a record with this key, by comparing with the middle of [left, right)?
Spans == [left : 0 .. recSize, right : 0 .. recSize]
BinarySearchFor(key) ==
    LET search[span \in Spans] ==
            IF span.left >= span.right THEN FALSE
            ELSE LET middle == (span.left + span.right) \div 2
                 IN  IF key < Item(middle) THEN search[[span EXCEPT !.right = middle]]
                     ELSE IF key > Item(middle) THEN search[[span EXCEPT !.left = middle + 1]]
                     ELSE TRUE
    IN  search[[left |-> 0, right |-> recSize]]

-----------------------------------------------------------------------------
(* Properties.                                                              *)

\* Fields follow one another without gaps, and in an array of records of
\* AlignedSize bytes each field that was placed at a multiple of its alignment is
\* at such an address in every record.
FieldsAreAligned ==
    /\ \A k \in 1 .. Len(fields) :
          fields[k].offset + fields[k].size
             = IF k < Len(fields) THEN fields[k + 1].offset ELSE protoSize
    /\ AlignedSize \in protoSize .. protoSize + protoAlignment - 1
    /\ \A k \in 1 .. Len(fields), item \in 0 .. 2 :
          fields[k].offset % fields[k].alignment = 0
             => (item * AlignedSize + fields[k].offset) % fields[k].alignment = 0

\* Every record has a place in a block, and holds what was last assigned or read
\* through any sequence of calls that resize the array.  A record that is new is
\* zero, unless the array was that long before: then it may hold what was there.
RecordsAreKept ==
    /\ recSize <= Len(chunks) * ChunkCapacity
    /\ recPc = "idle" => \A i \in RecordIndexes : assigned[i] \in {-1, Item(i)}

\* Neither QuickSort nor ArrangeByIndex reads outside of the array, and no
\* recursive call is as long as the call that makes it.
SortStaysInside ==
    /\ recPc \in {"i", "j"} => {range.i, range.j} \subseteq RecordIndexes
    /\ recPc = "next" => range.j < range.high /\ range.i > range.low
    /\ recPc = "cycle" => {cycle.to, cycle.from} \subseteq RecordIndexes

\* How often a key occurs among the records, before and after: assigned has the
\* contents from before as far as they are known.
CountNow(key) == Cardinality({i \in RecordIndexes : Item(i) = key})
CountThen(key) == Cardinality({i \in RecordIndexes : assigned[i] = key})

\* Sort leaves the records in order, none lost and none doubled, and then
\* BinarySearch finds exactly the keys that are there.
SortIsRight ==
    recPc = "sorted" =>
        /\ \A i \in 1 .. recSize - 1 : Item(i - 1) <= Item(i)
        /\ (\A i \in RecordIndexes : assigned[i] # -1) =>
              \A key \in RecordKeys \cup {0} : CountNow(key) = CountThen(key)
        /\ \A key \in RecordKeys \cup {0} :
              BinarySearchFor(key) = (\E i \in RecordIndexes : Item(i) = key)

\* Records are laid out in alignment, kept by an array, sorted and found.
RecordsAreRight == FieldsAreAligned /\ RecordsAreKept /\ SortStaysInside /\ SortIsRight
=============================================================================
