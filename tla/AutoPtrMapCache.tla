--------------------------- MODULE AutoPtrMapCache ---------------------------
(***************************************************************************)
(* XTL::AutoPtrMapCache (utils/AutoPtrMapCache.hpp): a map of owned objects  *)
(* and a list of its keys, the most recently used one first.  operator[]    *)
(* hands out an AutoPtrRef, a reference into the map's entry, through which *)
(* the user sets the value: it is good as long as the entry is there.       *)
(***************************************************************************)
EXTENDS Integers, Sequences, FiniteSets

CONSTANTS
    CacheKeys,
    CacheObjects,       \* the objects the user creates
    CacheCapacities     \* the capacities caches are built with

NoObject == "null"     \* a null pointer
NoEntry == "absent"    \* no entry for the key

ASSUME CacheAssumption ==
    /\ CacheCapacities \subseteq Nat
    /\ NoObject \notin CacheObjects
    /\ NoEntry \notin CacheObjects

VARIABLES
    cache,      \* [capacity, map, list]: the three members
    alive,      \* the objects that exist
    used,       \* history: the keys looked up since the last Clear
    since       \* history: per key, the other keys looked up since it was

cacheVars == <<cache, alive, used, since>>

CacheInit ==
    /\ \E capacity \in CacheCapacities :
           cache = [capacity |-> capacity, map |-> [k \in CacheKeys |-> NoEntry], list |-> << >>]
    /\ alive = {}
    /\ used = {}
    /\ since = [k \in CacheKeys |-> {}]

\* The keys of map_, and Size().
Present(map) == {k \in CacheKeys : map[k] # NoEntry}
CacheSize == Cardinality(Present(cache.map))

\* The objects map_ owns.
Owned(map) == {map[k] : k \in Present(map)} \ {NoObject}

\* The entry's listItr, and list_.erase of it.
ListItr(list, key) == CHOOSE i \in DOMAIN list : list[i] = key
Without(list, key) ==
    SubSeq(list, 1, ListItr(list, key) - 1) \o SubSeq(list, ListItr(list, key) + 1, Len(list))

\* What DiscardLeastRecentlyUsed deletes.
Discarded(key) == {cache.map[key]}

\* The entry moves to the front of the list.
MovedToFront(key) == <<key>> \o Without(cache.list, key)

\* operator[] of a key that is there.
LookupHit(key) ==
    /\ cache.map[key] # NoEntry
    /\ cache' = [cache EXCEPT !.list = MovedToFront(key)]
    /\ UNCHANGED alive

\* A full cache; a capacity of zero bounds nothing.
IsFull == CacheSize > 0 /\ CacheSize = cache.capacity

\* Mutant: the front of the list is discarded.
LeastRecentlyUsedFront == cache.list[1]

LeastRecentlyUsed == cache.list[Len(cache.list)]

\* operator[] of a new key, after DiscardLeastRecentlyUsed when it is full; the
\* new entry has a null value.
LookupMiss(key) ==
    /\ cache.map[key] = NoEntry
    /\ IF IsFull
       THEN LET old == LeastRecentlyUsed
            IN  /\ cache' = [cache EXCEPT !.map = [@ EXCEPT ![old] = NoEntry, ![key] = NoObject],
                                          !.list = <<key>> \o Without(@, old)]
                /\ alive' = alive \ Discarded(old)
       ELSE /\ cache' = [cache EXCEPT !.map = [@ EXCEPT ![key] = NoObject], !.list = <<key>> \o @]
            /\ UNCHANGED alive

\* operator[].
Lookup(key) ==
    /\ LookupHit(key) \/ LookupMiss(key)
    /\ used' = used \cup {key}
    /\ since' = [k \in CacheKeys |-> IF k = key THEN {} ELSE since[k] \cup {key}]

\* AutoPtrRef::operator= through a reference whose entry is still there: the
\* old object is deleted.
Assign(key, object) ==
    /\ cache.map[key] # NoEntry
    /\ object \notin alive
    /\ alive' = (alive \ {cache.map[key]}) \cup {object}
    /\ cache' = [cache EXCEPT !.map[key] = object]
    /\ UNCHANGED <<used, since>>

\* AutoPtrRef::operator=(0).
AssignNull(key) ==
    /\ cache.map[key] \notin {NoEntry, NoObject}
    /\ alive' = alive \ {cache.map[key]}
    /\ cache' = [cache EXCEPT !.map[key] = NoObject]
    /\ UNCHANGED <<used, since>>

\* AutoPtrRef::SetIfNull: the creator is only called for a null value.
SetIfNull(key, object) ==
    /\ cache.map[key] = NoObject
    /\ object \notin alive
    /\ alive' = alive \cup {object}
    /\ cache' = [cache EXCEPT !.map[key] = object]
    /\ UNCHANGED <<used, since>>

\* Clear, and the destructor.
CacheClear ==
    /\ alive' = alive \ Owned(cache.map)
    /\ cache' = [cache EXCEPT !.map = [k \in CacheKeys |-> NoEntry], !.list = << >>]
    /\ used' = {}
    /\ since' = [k \in CacheKeys |-> {}]

CacheNext ==
    \/ \E key \in CacheKeys : Lookup(key)
    \/ \E key \in CacheKeys, object \in CacheObjects : Assign(key, object) \/ SetIfNull(key, object)
    \/ \E key \in CacheKeys : AssignNull(key)
    \/ CacheClear

CacheSpec == CacheInit /\ [][CacheNext]_cacheVars

-----------------------------------------------------------------------------
\* The class comment's promise: the cache holds exactly the keys that are among
\* the capacity most recently used ones.  So a reference that operator[]
\* returned is good until capacity other keys have been looked up, and dangling
\* from then on.  A capacity of zero evicts nothing.
HoldsTheRecentlyUsed ==
    \A k \in CacheKeys :
        cache.map[k] # NoEntry <=>
            /\ k \in used
            /\ cache.capacity = 0 \/ Cardinality(since[k]) < cache.capacity

\* The list names every key of the map once, so that the iterators kept in each
\* of the two lead to the other.
ListMatchesMap ==
    /\ Len(cache.list) = CacheSize
    /\ {cache.list[i] : i \in DOMAIN cache.list} = Present(cache.map)

\* Every object that exists is owned by exactly one entry: none is leaked by
\* eviction or assignment, and none that an entry still names was deleted.
EachObjectHasOneEntry ==
    /\ alive = Owned(cache.map)
    /\ \A j, k \in CacheKeys :
           cache.map[j] = cache.map[k] /\ cache.map[j] \in CacheObjects => j = k

\* The cache holds the most recently used keys and no others, its list and its map
\* point to each other, and it owns each of its objects once.
CacheIsRecent == HoldsTheRecentlyUsed /\ ListMatchesMap /\ EachObjectHasOneEntry
=============================================================================
