-------------------------------- MODULE Heap --------------------------------
(***************************************************************************)
(* XTL::Heap and XTL::LimitedHeap (utils/Heap.hpp), wrappers over the heap  *)
(* functions of the standard library, which are taken at their contract:    *)
(* given what they require they leave some arrangement of the items that is *)
(* a heap, and otherwise any arrangement.                                   *)
(***************************************************************************)
EXTENDS Integers, Sequences, FiniteSets, Functions

CONSTANTS
    HeapValues,     \* the values pushed, ordered as integers
    HeapCapacities, \* the capacities of limited heaps
    MaxHeapSize     \* bound: pushes into one heap

ASSUME HeapAssumption ==
    /\ HeapValues \subseteq Int
    /\ HeapCapacities \subseteq Nat \ {0}
    /\ MaxHeapSize \in Nat

VARIABLES
    heap,       \* a Heap: [items, heapified]
    limited,    \* a LimitedHeap: [capacity, items]; its heap_ is always heapified
    pushed,     \* history: what was pushed into it, in order
    popped      \* history: it was popped

heapVars == <<heap, limited, pushed, popped>>

HeapInit ==
    /\ heap = [items |-> << >>, heapified |-> TRUE]
    /\ \E capacity \in HeapCapacities : limited = [capacity |-> capacity, items |-> << >>]
    /\ pushed = << >>
    /\ popped = FALSE

\* The order std::push_heap and the others keep: no item above its parent.
IsHeapOrdered(s) == \A i \in 2 .. Len(s) : s[i] <= s[i \div 2]

Arrangements(s) ==
    {[i \in DOMAIN s |-> s[f[i]]] : f \in Bijection(DOMAIN s, DOMAIN s)}

\* std::make_heap.
MakeHeap(s) == {t \in Arrangements(s) : IsHeapOrdered(t)}

\* std::push_heap: all but the last item are a heap already.
PushHeap(s) ==
    IF IsHeapOrdered(SubSeq(s, 1, Len(s) - 1)) THEN MakeHeap(s) ELSE Arrangements(s)

\* std::pop_heap and pop_back: the front item goes, the rest is a heap.
PopHeap(s) ==
    IF IsHeapOrdered(s) THEN MakeHeap(Tail(s)) ELSE Arrangements(Tail(s))

\* Mutant: PushBack leaves heapified_ as it was.
HeapifiedKept == heap.heapified

HeapifiedAfterPushBack == FALSE

\* Heap::PushBack.
PushBack(v) ==
    /\ Len(heap.items) < MaxHeapSize
    /\ heap' = [items |-> Append(heap.items, v), heapified |-> HeapifiedAfterPushBack]
    /\ UNCHANGED <<limited, pushed, popped>>

\* Heap::Push keeps the order only when there is one.
Push(v) ==
    /\ Len(heap.items) < MaxHeapSize
    /\ \E t \in IF heap.heapified THEN PushHeap(Append(heap.items, v))
                ELSE {Append(heap.items, v)} :
          heap' = [heap EXCEPT !.items = t]
    /\ UNCHANGED <<limited, pushed, popped>>

\* Heapify, also called by Top.
Heapify ==
    /\ ~heap.heapified
    /\ \E t \in MakeHeap(heap.items) : heap' = [items |-> t, heapified |-> TRUE]
    /\ UNCHANGED <<limited, pushed, popped>>

\* Heap::Pop of a heap that is not empty.
Pop ==
    /\ heap.items # << >>
    /\ \E s \in IF heap.heapified THEN {heap.items} ELSE MakeHeap(heap.items) :
          \E t \in PopHeap(s) : heap' = [items |-> t, heapified |-> TRUE]
    /\ UNCHANGED <<limited, pushed, popped>>

\* The comparison of LimitedHeap::Push with Top().
ReplacesTop(v) == v < limited.items[1]

\* LimitedHeap::Push; the capacity is not zero, or Top() would read the front of
\* an empty vector.
LimitedPush(v) ==
    /\ Len(pushed) < MaxHeapSize
    /\ \E t \in
          IF Len(limited.items) < limited.capacity
          THEN PushHeap(Append(limited.items, v))
          ELSE IF ReplacesTop(v)
          THEN UNION {PushHeap(Append(u, v)) : u \in PopHeap(limited.items)}
          ELSE {limited.items} :
          limited' = [limited EXCEPT !.items = t]
    /\ pushed' = Append(pushed, v)
    /\ UNCHANGED <<heap, popped>>

\* LimitedHeap::Pop.
LimitedPop ==
    /\ limited.items # << >>
    /\ \E t \in PopHeap(limited.items) : limited' = [limited EXCEPT !.items = t]
    /\ popped' = TRUE
    /\ UNCHANGED <<heap, pushed>>

PlainHeapNext ==
    \/ \E v \in HeapValues : PushBack(v) \/ Push(v)
    \/ Heapify \/ Pop

LimitedHeapNext ==
    \/ \E v \in HeapValues : LimitedPush(v)
    \/ LimitedPop

\* The two heaps are unrelated objects.
HeapSpec == HeapInit /\ [][PlainHeapNext \/ LimitedHeapNext]_heapVars

-----------------------------------------------------------------------------
\* Whenever heapified_ says so the items are a heap, after any mixture of Push,
\* PushBack, Pop and Heapify: Top() is then the front, the greatest item.
HeapifiedIsHeap ==
    /\ heap.heapified => IsHeapOrdered(heap.items)
    /\ IsHeapOrdered(limited.items)

\* How many items are at most v.
CountUpTo(s, v) == Cardinality({i \in DOMAIN s : s[i] <= v})

\* A limited heap that was only pushed into holds the smallest of all the values
\* it was given, as many as its capacity, duplicates included.
KeepsTheSmallest ==
    ~popped =>
        \A v \in HeapValues :
            CountUpTo(limited.items, v) =
                IF CountUpTo(pushed, v) < limited.capacity
                THEN CountUpTo(pushed, v) ELSE limited.capacity

\* The lazy flag of Heap never promises an order that is not there, and the limited
\* heap on top of it keeps the smallest values it was given.
HeapsAreOrdered == HeapifiedIsHeap /\ KeepsTheSmallest
=============================================================================
