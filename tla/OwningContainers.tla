-------------------------- MODULE OwningContainers --------------------------
(***************************************************************************)
(* XTL::AutoPtrVector (and AutoPtrStack, which is one) and XTL::AutoPtrMap   *)
(* (utils/): containers of raw pointers that own what they point to.  They   *)
(* take objects from std::auto_ptrs of the program and give them back; every *)
(* operation must delete, keep or hand over each object it touches.         *)
(***************************************************************************)
EXTENDS Integers, Sequences, FiniteSets, Functions

CONSTANTS
    OwnedObjects,   \* the objects the program creates
    OwnedKeys,      \* the keys of the map
    MaxVectorSize   \* bound: the size of the vector

NullPtr == "null"      \* a null pointer in a container
NoItem == "absent"     \* no entry for a key

ASSUME OwningAssumption ==
    /\ NullPtr \notin OwnedObjects
    /\ NoItem \notin OwnedObjects
    /\ MaxVectorSize \in Nat

VARIABLES
    living,     \* the objects that exist
    inHand,     \* those in auto_ptrs of the program
    vector,     \* AutoPtrVector::items_
    owned       \* AutoPtrMap::map_

ownVars == <<living, inHand, vector, owned>>

OwningInit ==
    /\ living = {}
    /\ inHand = {}
    /\ vector = << >>
    /\ owned = [k \in OwnedKeys |-> NoItem]

\* delete of a pointer; deleting a null pointer does nothing.
DeleteAll(pointers) == living' = living \ pointers

\* The objects among some pointers.
Objects(pointers) == pointers \cap OwnedObjects

\* The program: a new object in an auto_ptr, and one that goes out of scope.
NewObject(o) ==
    /\ o \notin living
    /\ living' = living \cup {o}
    /\ inHand' = inHand \cup {o}
    /\ UNCHANGED <<vector, owned>>

DropObject(o) ==
    /\ o \in inHand
    /\ DeleteAll({o})
    /\ inHand' = inHand \ {o}
    /\ UNCHANGED <<vector, owned>>

-----------------------------------------------------------------------------
(* AutoPtrVector.                                                           *)

VectorPushBack(o) ==
    /\ o \in inHand
    /\ Len(vector) < MaxVectorSize
    /\ vector' = Append(vector, o)
    /\ inHand' = inHand \ {o}
    /\ UNCHANGED <<living, owned>>

VectorPopBack ==
    /\ vector # << >>
    /\ inHand' = inHand \cup Objects({vector[Len(vector)]})
    /\ vector' = SubSeq(vector, 1, Len(vector) - 1)
    /\ UNCHANGED <<living, owned>>

\* Filled up to n items with null pointers.
Padded(n) == [i \in 1 .. n |-> IF i <= Len(vector) THEN vector[i] ELSE NullPtr]

\* What Set deletes.
Replaced(index) == IF index <= Len(vector) THEN {vector[index]} ELSE {}

\* Set, which grows the vector when the index is beyond it.
VectorSet(index, o) ==
    /\ o \in inHand
    /\ inHand' = inHand \ {o}
    /\ DeleteAll(Replaced(index))
    /\ vector' = [Padded(IF index > Len(vector) THEN index ELSE Len(vector)) EXCEPT ![index] = o]
    /\ UNCHANGED owned

VectorErase(index) ==
    /\ index \in DOMAIN vector
    /\ DeleteAll({vector[index]})
    /\ vector' = SubSeq(vector, 1, index - 1) \o SubSeq(vector, index + 1, Len(vector))
    /\ UNCHANGED <<inHand, owned>>

\* Resize deletes what is cut off, or appends null pointers.
VectorResize(n) ==
    /\ n # Len(vector)
    /\ DeleteAll({vector[i] : i \in {j \in DOMAIN vector : j > n}})
    /\ vector' = Padded(n)
    /\ UNCHANGED <<inHand, owned>>

\* Clear, and the destructor.
VectorClear ==
    /\ DeleteAll({vector[i] : i \in DOMAIN vector})
    /\ vector' = << >>
    /\ UNCHANGED <<inHand, owned>>

\* Sort permutes the pointers.
VectorSort ==
    /\ \E f \in Bijection(DOMAIN vector, DOMAIN vector) :
          vector' = [i \in DOMAIN vector |-> vector[f[i]]]
    /\ UNCHANGED <<living, inHand, owned>>

-----------------------------------------------------------------------------
(* AutoPtrMap.                                                              *)

MapSet(k, o) ==
    /\ o \in inHand
    /\ inHand' = inHand \ {o}
    /\ DeleteAll({owned[k]})
    /\ owned' = [owned EXCEPT ![k] = o]
    /\ UNCHANGED vector

\* FindOrCreate: the creator is only called for a key that is not there.
MapFindOrCreate(k, o) ==
    /\ owned[k] = NoItem
    /\ o \notin living
    /\ living' = living \cup {o}
    /\ owned' = [owned EXCEPT ![k] = o]
    /\ UNCHANGED <<inHand, vector>>

\* Erase by key or by iterator.
MapErase(k) ==
    /\ owned[k] # NoItem
    /\ DeleteAll({owned[k]})
    /\ owned' = [owned EXCEPT ![k] = NoItem]
    /\ UNCHANGED <<inHand, vector>>

\* ReleaseValue leaves a null pointer.
AfterRelease(k) == [owned EXCEPT ![k] = NullPtr]

\* iterator::ReleaseValue.
MapReleaseValue(k) ==
    /\ owned[k] # NoItem
    /\ inHand' = inHand \cup Objects({owned[k]})
    /\ owned' = AfterRelease(k)
    /\ UNCHANGED <<living, vector>>

\* Clear, and the destructor.
MapClear ==
    /\ DeleteAll({owned[k] : k \in OwnedKeys})
    /\ owned' = [k \in OwnedKeys |-> NoItem]
    /\ UNCHANGED <<inHand, vector>>

OwningNext ==
    \/ \E o \in OwnedObjects :
          \/ NewObject(o) \/ DropObject(o) \/ VectorPushBack(o)
          \/ \E index \in 1 .. MaxVectorSize : VectorSet(index, o)
          \/ \E k \in OwnedKeys : MapSet(k, o) \/ MapFindOrCreate(k, o)
    \/ VectorPopBack \/ VectorClear \/ VectorSort \/ MapClear
    \/ \E index \in 1 .. MaxVectorSize : VectorErase(index)
    \/ \E n \in 0 .. MaxVectorSize : VectorResize(n)
    \/ \E k \in OwnedKeys : MapErase(k) \/ MapReleaseValue(k)

OwningSpec == OwningInit /\ [][OwningNext]_ownVars

-----------------------------------------------------------------------------
\* Type invariant.
OwningTypeOK ==
    /\ living \subseteq OwnedObjects
    /\ inHand \subseteq OwnedObjects
    /\ vector \in Seq(OwnedObjects \cup {NullPtr})
    /\ Len(vector) <= MaxVectorSize
    /\ owned \in [OwnedKeys -> OwnedObjects \cup {NullPtr, NoItem}]

\* Where an object is held.
Holders(o) ==
    {<<"vector", i>> : i \in {j \in DOMAIN vector : vector[j] = o}}
    \cup {<<"map", k>> : k \in {l \in OwnedKeys : owned[l] = o}}
    \cup (IF o \in inHand THEN {<<"hand", 0>>} ELSE {})

\* Every object that exists has exactly one owner, and nothing holds a deleted
\* one: through any sequence of calls that move objects between the program, a
\* vector and a map, none is leaked and none is deleted twice.
OneOwnerEach ==
    \A o \in OwnedObjects :
        Cardinality(Holders(o)) = IF o \in living THEN 1 ELSE 0

\* A vector, a map and a program that exchange objects own each of them once, and
\* no container is longer than what was put or padded into it.
OwnershipIsSingle == OwningTypeOK /\ OneOwnerEach
=============================================================================
