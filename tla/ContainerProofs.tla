--------------------------- MODULE ContainerProofs ---------------------------
(***************************************************************************)
(* Proofs about the containers of the library, for every capacity and any   *)
(* set of keys, pointers and objects: the cache holds exactly the most      *)
(* recently used keys, the counter of an object counts its pointers, and    *)
(* each object of a shared pointer, vector or map is deleted once; heaps    *)
(* are ordered when their flag says so, and keep the smallest values; and   *)
(* plain records are aligned, kept, sorted and found, for every capacity of *)
(* a block.                                                                 *)
(***************************************************************************)
EXTENDS AutoPtrMapCache, Ownership, Heap, PlainRecords, SequenceTheorems, FiniteSetTheorems,
        NaturalsInduction, WellFoundedInduction, TLAPS

-----------------------------------------------------------------------------
(* Sequences.                                                               *)

\* A sequence names each of its items once.
IsInjectiveSeq(s) == \A i, j \in 1 .. Len(s) : s[i] = s[j] => i = j

\* The items before position n.
Before(s, n) == {s[j] : j \in 1 .. (n - 1)}

\* An item put before the others.
LEMMA PutInFront ==
    ASSUME NEW S, NEW s \in Seq(S), NEW e \in S
    PROVE  /\ <<e>> \o s \in Seq(S)
           /\ Len(<<e>> \o s) = Len(s) + 1
           /\ (<<e>> \o s)[1] = e
           /\ \A j \in 1 .. Len(s) : (<<e>> \o s)[j + 1] = s[j]
<1>1. <<e>> \in Seq(S) /\ Len(<<e>>) = 1 /\ <<e>>[1] = e
  OBVIOUS
<1> DEFINE one == <<e>>
<1> HIDE DEF one
<1>2. one \in Seq(S) /\ Len(one) = 1 /\ one[1] = e
  BY <1>1 DEF one
<1>3. Len(s) \in Nat
  BY LenProperties
<1>4. /\ one \o s \in Seq(S)
      /\ Len(one \o s) = Len(s) + 1
      /\ \A i \in 1 .. Len(one) + Len(s) :
             (one \o s)[i] = IF i <= Len(one) THEN one[i] ELSE s[i - Len(one)]
  BY <1>2, <1>3, ConcatProperties, SMTT(30)
<1> QED
  BY <1>2, <1>3, <1>4 DEF one

\* The first i items.
LEMMA FirstItems ==
    ASSUME NEW S, NEW s \in Seq(S), NEW i \in 0 .. Len(s)
    PROVE  /\ SubSeq(s, 1, i) \in Seq(S) /\ Len(SubSeq(s, 1, i)) = i
           /\ \A j \in 1 .. i : SubSeq(s, 1, i)[j] = s[j]
<1>1. Len(s) \in Nat /\ \A j \in 1 .. Len(s) : s[j] \in S
  BY LenProperties, ElementOfSeq
<1> QED
  BY <1>1, SubSeqProperties

\* The item at position i erased.
Erased(s, i) == SubSeq(s, 1, i - 1) \o SubSeq(s, i + 1, Len(s))

IsErased(S, s, i, r) ==
    /\ r \in Seq(S)
    /\ Len(r) = Len(s) - 1
    /\ \A j \in 1 .. (Len(s) - 1) : r[j] = IF j < i THEN s[j] ELSE s[j + 1]

\* Erasing element i leaves the others, in order.
LEMMA EraseAt ==
    ASSUME NEW S, NEW s \in Seq(S), NEW i \in 1 .. Len(s)
    PROVE  IsErased(S, s, i, Erased(s, i))
<1> DEFINE a == SubSeq(s, 1, i - 1)
           b == SubSeq(s, i + 1, Len(s))
<1>1. Len(s) \in Nat /\ \A j \in 1 .. Len(s) : s[j] \in S
  BY LenProperties, ElementOfSeq
<1>2. /\ a \in Seq(S) /\ Len(a) = i - 1
      /\ \A j \in 1 .. (i - 1) : a[j] = s[j]
  BY <1>1, SubSeqProperties
<1>3. /\ b \in Seq(S) /\ Len(b) = Len(s) - i
      /\ \A j \in 1 .. (Len(s) - i) : b[j] = s[i + j]
  BY <1>1, SubSeqProperties
<1> DEFINE c == a \o b
<1>4. Erased(s, i) = c
  BY DEF Erased
<1> HIDE DEF a, b
<1>5. /\ a \o b \in Seq(S) /\ Len(a \o b) = Len(a) + Len(b)
      /\ \A j \in 1 .. Len(a) + Len(b) :
             (a \o b)[j] = IF j <= Len(a) THEN a[j] ELSE b[j - Len(a)]
  BY <1>2, <1>3, ConcatProperties
<1>6. Len(a) + Len(b) = Len(s) - 1
  BY <1>1, <1>2, <1>3
<1>7. /\ c \in Seq(S) /\ Len(c) = Len(s) - 1
      /\ \A j \in 1 .. (Len(s) - 1) : c[j] = IF j <= i - 1 THEN a[j] ELSE b[j - (i - 1)]
  BY <1>2, <1>5, <1>6
<1> HIDE DEF c
<1>8. ASSUME NEW j \in 1 .. (Len(s) - 1)
      PROVE  c[j] = IF j < i THEN s[j] ELSE s[j + 1]
  <2>1. CASE j < i
    BY <1>1, <1>2, <1>7, <2>1
  <2>2. CASE ~(j < i)
    <3>1. c[j] = b[j - (i - 1)] /\ j - (i - 1) \in 1 .. (Len(s) - i)
      BY <1>1, <1>7, <2>2
    <3>2. b[j - (i - 1)] = s[i + (j - (i - 1))] /\ i + (j - (i - 1)) = j + 1
      BY <1>1, <1>3, <3>1
    <3> QED
      BY <2>2, <3>1, <3>2
  <2> QED
    BY <2>1, <2>2
<1> QED
  BY <1>4, <1>7, <1>8 DEF IsErased

\* The first n items of a sequence without repetitions are n.
LEMMA CountBefore ==
    ASSUME NEW S, NEW s \in Seq(S), IsInjectiveSeq(s), NEW n \in 1 .. (Len(s) + 1)
    PROVE  IsFiniteSet(Before(s, n)) /\ Cardinality(Before(s, n)) = n - 1
<1> DEFINE m == n - 1
           f == [j \in 1 .. m |-> s[j]]
<1>1. Len(s) \in Nat /\ m \in Nat /\ m <= Len(s)
  BY LenProperties
<1>2. f \in Bijection(1 .. m, Before(s, n))
  BY <1>1 DEF Bijection, Injection, Surjection, IsInjective, Before, IsInjectiveSeq
<1>3. ExistsBijection(1 .. m, Before(s, n))
  BY <1>2 DEF ExistsBijection
<1> HIDE DEF m
<1>4. Cardinality(Before(s, n)) = m
  BY <1>1, <1>3, FS_CountingElements
<1>5. IsFiniteSet(Before(s, n))
  BY <1>1, <1>3, FS_NatBijection
<1> QED
  BY <1>4, <1>5 DEF m

\* t is s with e put in front and, when there is one, the item at position i erased.
IsPutInFront(s, t, e, i) ==
    /\ Len(t) \in Nat /\ Len(s) \in Nat /\ i \in 1 .. Len(t)
    /\ Len(t) = Len(s) \/ (Len(t) = Len(s) + 1 /\ i = Len(t))
    /\ t[1] = e
    /\ \A j \in 2 .. i : t[j] = s[j - 1]
    /\ \A j \in (i + 1) .. Len(t) : t[j] = s[j]

\* Putting in front and erasing, as operator[] and DiscardLeastRecentlyUsed do it.
LEMMA PutAndErase ==
    ASSUME NEW S, NEW s \in Seq(S), NEW e \in S, NEW i \in 1 .. Len(s), NEW r,
           r = SubSeq(s, 1, i - 1) \o SubSeq(s, i + 1, Len(s))
    PROVE  <<e>> \o r \in Seq(S) /\ IsPutInFront(s, <<e>> \o r, e, i)
<1> DEFINE q == SubSeq(s, 1, i - 1) \o SubSeq(s, i + 1, Len(s))
           t == <<e>> \o q
<1>1. Len(s) \in Nat
  BY LenProperties
<1>2. /\ q \in Seq(S) /\ Len(q) = Len(s) - 1
      /\ \A j \in 1 .. (Len(s) - 1) : q[j] = IF j < i THEN s[j] ELSE s[j + 1]
  <2>1. IsErased(S, s, i, Erased(s, i))
    BY EraseAt, Zenon
  <2> QED
    BY <2>1, Zenon DEF IsErased, Erased
<1>3. r = q
  OBVIOUS
<1> HIDE DEF q
<1>4. /\ t \in Seq(S) /\ Len(t) = Len(q) + 1 /\ t[1] = e
      /\ \A j \in 1 .. Len(q) : t[j + 1] = q[j]
  BY <1>2, PutInFront
<1> HIDE DEF t
<1>5. Len(t) = Len(s) /\ \A j \in 2 .. Len(s) : t[j] = q[j - 1]
  <2>1. Len(t) = Len(s)
    BY <1>1, <1>2, <1>4
  <2>2. ASSUME NEW j \in 2 .. Len(s)
        PROVE  t[j] = q[j - 1]
    <3>1. j - 1 \in 1 .. Len(q) /\ (j - 1) + 1 = j
      BY <1>1, <1>2
    <3> QED
      BY <1>4, <3>1
  <2> QED
    BY <2>1, <2>2
<1>6. ASSUME NEW j \in 2 .. Len(s)
      PROVE  t[j] = IF j <= i THEN s[j - 1] ELSE s[j]
  <2>1. j - 1 \in 1 .. (Len(s) - 1) /\ (j - 1) + 1 = j /\ (j - 1 < i <=> j <= i)
    BY <1>1
  <2> QED
    BY <1>2, <1>5, <2>1
<1>7. IsPutInFront(s, t, e, i)
  BY <1>1, <1>4, <1>5, <1>6 DEF IsPutInFront
<1> QED
  BY <1>3, <1>4, <1>7 DEF t

\* Putting in front without erasing.
LEMMA PutOnly ==
    ASSUME NEW S, NEW s \in Seq(S), NEW e \in S
    PROVE  <<e>> \o s \in Seq(S) /\ IsPutInFront(s, <<e>> \o s, e, Len(s) + 1)
<1> DEFINE t == <<e>> \o s
<1>1. Len(s) \in Nat
  BY LenProperties
<1>2. /\ t \in Seq(S) /\ Len(t) = Len(s) + 1 /\ t[1] = e
      /\ \A j \in 1 .. Len(s) : t[j + 1] = s[j]
  BY PutInFront
<1> HIDE DEF t
<1>3. ASSUME NEW j \in 2 .. (Len(s) + 1)
      PROVE  t[j] = s[j - 1]
  <2>1. j - 1 \in 1 .. Len(s) /\ (j - 1) + 1 = j
    BY <1>1
  <2> QED
    BY <1>2, <2>1
<1>4. IsPutInFront(s, t, e, Len(s) + 1)
  BY <1>1, <1>2, <1>3 DEF IsPutInFront
<1> QED
  BY <1>2, <1>4 DEF t

\* e is at position i of s, if it is in s.
IsOnlyAt(s, e, i) == \A j \in 1 .. Len(s) : s[j] = e => j = i

\* t has e and the items of s but the one at position i.
HasItemsOf(t, s, e, i) ==
    \A k : (\E j \in 1 .. Len(t) : t[j] = k) <=> k = e \/ \E j \in 1 .. Len(s) : j # i /\ s[j] = k

\* What the result names, that it names nothing twice, and what comes before
\* each of its items.
LEMMA PutInFrontItems ==
    ASSUME NEW s, NEW t, NEW e, NEW i, IsPutInFront(s, t, e, i), IsInjectiveSeq(s), IsOnlyAt(s, e, i)
    PROVE  IsInjectiveSeq(t) /\ HasItemsOf(t, s, e, i)
<1>0. \A j \in 1 .. Len(s) : s[j] = e => j = i
  BY DEF IsOnlyAt
<1>1. ASSUME NEW j \in 2 .. Len(t)
      PROVE  \E l \in 1 .. Len(s) : l # i /\ t[j] = s[l] /\ l = IF j <= i THEN j - 1 ELSE j
  BY DEF IsPutInFront
<1>2. ASSUME NEW l \in 1 .. Len(s), l # i
      PROVE  \E j \in 2 .. Len(t) : t[j] = s[l]
  <2>1. CASE l < i
    <3>1. l + 1 \in 2 .. i /\ l + 1 \in 2 .. Len(t) /\ (l + 1) - 1 = l
      BY <2>1 DEF IsPutInFront
    <3>2. t[l + 1] = s[l]
      BY <3>1 DEF IsPutInFront
    <3> QED
      BY <3>1, <3>2
  <2>2. CASE l > i
    BY <1>2, <2>2 DEF IsPutInFront
  <2> QED
    BY <1>2, <2>1, <2>2 DEF IsPutInFront
<1>3. 1 \in 1 .. Len(t) /\ t[1] = e /\ Len(t) \in Nat
  BY DEF IsPutInFront
<1>4. ASSUME NEW j \in 1 .. Len(t), NEW l \in 1 .. Len(t), t[j] = t[l]
      PROVE  j = l
  <2>1. ASSUME NEW m \in 2 .. Len(t)
        PROVE  t[m] # e
    BY <1>0, <1>1, <2>1, Zenon
  <2>2. CASE j = 1 \/ l = 1
    BY <1>3, <1>4, <2>1, <2>2
  <2>3. CASE j # 1 /\ l # 1
    <3>1. j \in 2 .. Len(t) /\ l \in 2 .. Len(t)
      BY <1>3, <2>3
    <3>2. PICK a \in 1 .. Len(s) : a # i /\ t[j] = s[a] /\ a = IF j <= i THEN j - 1 ELSE j
      BY <1>1, <3>1
    <3>3. PICK b \in 1 .. Len(s) : b # i /\ t[l] = s[b] /\ b = IF l <= i THEN l - 1 ELSE l
      BY <1>1, <3>1
    <3>4. a = b
      BY <1>4, <3>2, <3>3 DEF IsInjectiveSeq
    <3>5. i \in Int
      BY DEF IsPutInFront
    <3> QED
      BY <3>1, <3>2, <3>3, <3>4, <3>5
  <2> QED
    BY <2>2, <2>3
<1>5. ASSUME NEW k
      PROVE  (\E j \in 1 .. Len(t) : t[j] = k) <=>
                 k = e \/ \E j \in 1 .. Len(s) : j # i /\ s[j] = k
  <2>1. ASSUME NEW j \in 1 .. Len(t), t[j] = k, j # 1
        PROVE  \E l \in 1 .. Len(s) : l # i /\ s[l] = k
    BY <1>1, <1>3, <2>1
  <2>2. ASSUME NEW l \in 1 .. Len(s), l # i, s[l] = k
        PROVE  \E j \in 1 .. Len(t) : t[j] = k
    BY <1>2, <1>3, <2>2
  <2> QED
    BY <1>3, <2>1, <2>2
<1>6. HasItemsOf(t, s, e, i)
  BY <1>5, Zenon DEF HasItemsOf
<1> QED
  BY <1>4, <1>6 DEF IsInjectiveSeq

\* The items before an item of the result: e, and those before it in s.
LEMMA PutInFrontBefore ==
    ASSUME NEW s, NEW t, NEW e, NEW i, IsPutInFront(s, t, e, i),
           NEW j \in 2 .. Len(t)
    PROVE  /\ j <= i => Before(t, j) = Before(s, j - 1) \cup {e}
           /\ j > i /\ s[i] = e => Before(t, j) = Before(s, j) \cup {e}
<1>1. CASE j <= i
  <2>1. ASSUME NEW m \in 1 .. (j - 1)
        PROVE  t[m] \in Before(s, j - 1) \cup {e}
    <3>1. CASE m = 1
      BY <3>1 DEF IsPutInFront
    <3>2. CASE m # 1
      <4>1. t[m] = s[m - 1] /\ m - 1 \in 1 .. ((j - 1) - 1)
        BY <1>1, <3>2 DEF IsPutInFront
      <4> QED
        BY <4>1 DEF Before
    <3> QED
      BY <3>1, <3>2
  <2>2. ASSUME NEW m \in 1 .. ((j - 1) - 1)
        PROVE  s[m] \in Before(t, j)
    <3>1. m + 1 \in 2 .. i /\ m + 1 \in 1 .. (j - 1) /\ (m + 1) - 1 = m
      BY <1>1 DEF IsPutInFront
    <3>2. t[m + 1] = s[m]
      BY <3>1 DEF IsPutInFront
    <3> QED
      BY <3>1, <3>2 DEF Before
  <2>3. e \in Before(t, j)
    <3>1. 1 \in 1 .. (j - 1) /\ t[1] = e
      BY <1>1 DEF IsPutInFront
    <3> QED
      BY <3>1, Zenon DEF Before
  <2>4. Before(t, j) = Before(s, j - 1) \cup {e}
    BY <2>1, <2>2, <2>3 DEF Before
  <2> QED
    BY <1>1, <2>4 DEF IsPutInFront
<1>2. CASE j > i /\ s[i] = e
  <2>1. ASSUME NEW m \in 1 .. (j - 1)
        PROVE  t[m] \in Before(s, j) \cup {e}
    <3>1. m = 1 \/ m \in 2 .. i \/ m \in (i + 1) .. Len(t)
      BY <1>2 DEF IsPutInFront
    <3>2. CASE m = 1
      BY <3>2 DEF IsPutInFront
    <3>3. CASE m \in 2 .. i
      <4>1. t[m] = s[m - 1] /\ m - 1 \in 1 .. (j - 1)
        BY <3>3 DEF IsPutInFront
      <4> QED
        BY <4>1 DEF Before
    <3>4. CASE m \in (i + 1) .. Len(t)
      <4>1. t[m] = s[m]
        BY <3>4 DEF IsPutInFront
      <4> QED
        BY <4>1 DEF Before
    <3> QED
      BY <3>1, <3>2, <3>3, <3>4
  <2>2. ASSUME NEW m \in 1 .. (j - 1)
        PROVE  s[m] \in Before(t, j)
    <3>1. i \in Nat /\ Len(t) \in Nat /\ j <= Len(t)
      BY DEF IsPutInFront
    <3>2. CASE m < i
      <4>1. m + 1 \in 2 .. i /\ m + 1 \in 1 .. (j - 1) /\ (m + 1) - 1 = m
        BY <1>2, <3>1, <3>2
      <4>2. t[m + 1] = s[m]
        BY <4>1 DEF IsPutInFront
      <4> QED
        BY <4>1, <4>2 DEF Before
    <3>3. CASE m = i
      <4>1. s[m] = t[1] /\ 1 \in 1 .. (j - 1)
        BY <1>2, <3>3 DEF IsPutInFront
      <4> QED
        BY <4>1 DEF Before
    <3>4. CASE m > i
      <4>1. t[m] = s[m]
        BY <3>1, <3>4 DEF IsPutInFront
      <4> QED
        BY <4>1 DEF Before
    <3> QED
      BY <3>1, <3>2, <3>3, <3>4
  <2>3. e \in Before(t, j)
    BY <1>2 DEF IsPutInFront, Before
  <2>4. Before(t, j) = Before(s, j) \cup {e}
    BY <2>1, <2>2, <2>3 DEF Before
  <2> QED
    BY <1>2, <2>4 DEF IsPutInFront
<1> QED
  BY <1>1, <1>2

-----------------------------------------------------------------------------
(* AutoPtrMapCache.                                                         *)

Entries == CacheObjects \cup {NoObject, NoEntry}
EntryMaps == [CacheKeys -> Entries]
KeyLists == Seq(CacheKeys)
CacheRecords == [capacity : Nat, map : EntryMaps, list : KeyLists]

CacheTypes ==
    /\ cache \in CacheRecords
    /\ used \subseteq CacheKeys
    /\ since \in [CacheKeys -> SUBSET CacheKeys]
    /\ \A k \in CacheKeys : IsFiniteSet(since[k])

\* The list names the keys of the map, each once.
ListInv(map, list) ==
    /\ IsInjectiveSeq(list)
    /\ \A k \in CacheKeys : map[k] # NoEntry <=> \E i \in 1 .. Len(list) : list[i] = k

\* The keys looked up since a key that is there are those before it in the list.
SinceInv(list, others) == \A i \in 1 .. Len(list) : others[list[i]] = Before(list, i)

\* A key that was evicted has had capacity other keys looked up since.
EvictedInv(capacity, map, keys, others) ==
    /\ \A k \in CacheKeys : map[k] # NoEntry => k \in keys
    /\ \A k \in keys : map[k] = NoEntry => capacity # 0 /\ Cardinality(others[k]) >= capacity

CapacityInv(capacity, list) == capacity # 0 => Len(list) <= capacity

CacheInv ==
    /\ CacheTypes
    /\ ListInv(cache.map, cache.list)
    /\ SinceInv(cache.list, since)
    /\ EvictedInv(cache.capacity, cache.map, used, since)
    /\ CapacityInv(cache.capacity, cache.list)
    /\ EachObjectHasOneEntry

-----------------------------------------------------------------------------
\* What the constants are.
LEMMA CacheConstants ==
    /\ NoObject \notin CacheObjects /\ NoEntry \notin CacheObjects /\ NoObject # NoEntry
    /\ CacheCapacities \subseteq Nat
BY CacheAssumption DEF NoObject, NoEntry

\* A new cache is empty.
LEMMA InitCacheInv ==
    ASSUME CacheInit
    PROVE  CacheInv
<1> DEFINE nothing == [k \in CacheKeys |-> NoEntry]
<1>1. PICK capacity \in CacheCapacities :
          cache = [capacity |-> capacity, map |-> nothing, list |-> << >>]
  BY DEF CacheInit
<1>2. nothing \in EntryMaps /\ \A k \in CacheKeys : nothing[k] = NoEntry
  BY DEF EntryMaps, Entries
<1>3. << >> \in KeyLists /\ Len(<< >>) = 0
  BY DEF KeyLists
<1>4. since \in [CacheKeys -> SUBSET CacheKeys] /\ \A k \in CacheKeys : since[k] = {}
  BY DEF CacheInit
<1>5. used = {} /\ alive = {}
  BY DEF CacheInit
<1> HIDE DEF nothing
<1>6. /\ cache \in CacheRecords
      /\ cache.map = nothing /\ cache.list = << >> /\ cache.capacity \in Nat
  BY <1>1, <1>2, <1>3, CacheConstants DEF CacheRecords
<1>7. CacheTypes
  BY <1>4, <1>5, <1>6, FS_EmptySet DEF CacheTypes
<1>8. ListInv(cache.map, cache.list) /\ SinceInv(cache.list, since)
  BY <1>2, <1>3, <1>6 DEF ListInv, SinceInv, IsInjectiveSeq
<1>9. EvictedInv(cache.capacity, cache.map, used, since)
  BY <1>2, <1>5, <1>6 DEF EvictedInv
<1>10. CapacityInv(cache.capacity, cache.list)
  BY <1>3, <1>6 DEF CapacityInv
<1>11. Owned(cache.map) = {}
  BY <1>2, <1>6 DEF Owned, Present
<1>12. EachObjectHasOneEntry
  BY <1>2, <1>5, <1>6, <1>11, CacheConstants DEF EachObjectHasOneEntry
<1> QED
  BY <1>7, <1>8, <1>9, <1>10, <1>12 DEF CacheInv

\* The list and the history of lookups stay in step when key is put in front of
\* the list, whether it was in it (at i), or what was at i is discarded, or
\* nothing is erased.
LEMMA LookupKeepsOrder ==
    ASSUME NEW s, NEW t, NEW key \in CacheKeys, NEW i, NEW others, NEW later,
           IsPutInFront(s, t, key, i), IsInjectiveSeq(s),
           \A j \in 1 .. Len(s) : s[j] \in CacheKeys,
           \A j \in 1 .. Len(s) : s[j] = key => j = i,
           s[i] = key \/ i = Len(t),
           SinceInv(s, others),
           later = [k \in CacheKeys |-> IF k = key THEN {} ELSE others[k] \cup {key}]
    PROVE  SinceInv(t, later)
<1>1. /\ Len(t) \in Nat /\ Len(s) \in Nat /\ i \in 1 .. Len(t) /\ t[1] = key
      /\ Len(t) = Len(s) \/ (Len(t) = Len(s) + 1 /\ i = Len(t))
  BY DEF IsPutInFront
<1>2. later[key] = {} /\ \A k \in CacheKeys : k # key => later[k] = others[k] \cup {key}
  OBVIOUS
<1>3. later[t[1]] = Before(t, 1)
  BY <1>1, <1>2 DEF Before
<1>4. ASSUME NEW j \in 2 .. Len(t)
      PROVE  later[t[j]] = Before(t, j)
  <2>1. CASE j <= i
    <3>1. t[j] = s[j - 1] /\ j - 1 \in 1 .. Len(s) /\ j - 1 # i
      BY <1>1, <2>1 DEF IsPutInFront
    <3>2. t[j] \in CacheKeys /\ t[j] # key /\ others[t[j]] = Before(s, j - 1)
      BY <3>1 DEF SinceInv
    <3>3. Before(t, j) = Before(s, j - 1) \cup {key}
      BY <2>1, PutInFrontBefore
    <3> QED
      BY <1>2, <3>2, <3>3
  <2>2. CASE j > i
    <3>1. t[j] = s[j] /\ j \in 1 .. Len(s) /\ j # i /\ i # Len(t)
      BY <1>1, <2>2 DEF IsPutInFront
    <3>2. t[j] \in CacheKeys /\ t[j] # key /\ others[t[j]] = Before(s, j)
      BY <3>1 DEF SinceInv
    <3>3. Before(t, j) = Before(s, j) \cup {key}
      BY <2>2, <3>1, PutInFrontBefore
    <3> QED
      BY <1>2, <3>2, <3>3
  <2> QED
    BY <1>1, <2>1, <2>2
<1> QED
  BY <1>1, <1>3, <1>4 DEF SinceInv

\* What a lookup of key records of the other keys: it only adds key to them.
LEMMA LookupHistory ==
    ASSUME CacheTypes, NEW key \in CacheKeys, Lookup(key)
    PROVE  /\ used' = used \cup {key} /\ used' \subseteq CacheKeys
           /\ since' \in [CacheKeys -> SUBSET CacheKeys]
           /\ since' = [k \in CacheKeys |-> IF k = key THEN {} ELSE since[k] \cup {key}]
           /\ \A k \in CacheKeys : IsFiniteSet(since'[k])
           /\ \A k \in CacheKeys :
                  k # key => Cardinality(since'[k]) >= Cardinality(since[k])
           /\ \A k \in CacheKeys :
                  /\ Cardinality(since[k]) \in Nat
                  /\ Cardinality(since'[k]) \in Nat
<1>1. /\ used' = used \cup {key} /\ used' \subseteq CacheKeys
      /\ since' = [k \in CacheKeys |-> IF k = key THEN {} ELSE since[k] \cup {key}]
  BY DEF Lookup, CacheTypes
<1>2. \A k \in CacheKeys : since[k] \subseteq CacheKeys /\ IsFiniteSet(since[k])
  BY DEF CacheTypes
<1>3. since' \in [CacheKeys -> SUBSET CacheKeys]
  BY <1>1, <1>2
<1>4. since'[key] = {} /\ \A k \in CacheKeys : k # key => since'[k] = since[k] \cup {key}
  BY <1>1
<1>5. ASSUME NEW k \in CacheKeys
      PROVE  IsFiniteSet(since'[k])
  <2>1. CASE k = key
    BY <1>4, <2>1, FS_EmptySet
  <2>2. CASE k # key
    <3>1. IsFiniteSet(since[k] \cup {key})
      BY <1>2, FS_AddElement
    <3> QED
      BY <1>4, <2>2, <3>1
  <2> QED
    BY <2>1, <2>2
<1>6. ASSUME NEW k \in CacheKeys, k # key
      PROVE  Cardinality(since'[k]) >= Cardinality(since[k])
  <2>1. since[k] \subseteq since'[k]
    BY <1>4, <1>6
  <2> QED
    BY <1>5, <2>1, FS_Subset, FS_CardinalityType
<1>7. ASSUME NEW k \in CacheKeys
      PROVE  Cardinality(since[k]) \in Nat /\ Cardinality(since'[k]) \in Nat
  BY <1>2, <1>5, FS_CardinalityType
<1> QED
  BY <1>1, <1>3, <1>5, <1>6, <1>7

\* The iterator that an entry keeps is at its key.
LEMMA ListItrOf ==
    ASSUME NEW s \in KeyLists, NEW key, \E i \in 1 .. Len(s) : s[i] = key
    PROVE  ListItr(s, key) \in 1 .. Len(s) /\ s[ListItr(s, key)] = key
<1>1. DOMAIN s = 1 .. Len(s)
  BY LenProperties DEF KeyLists
<1> QED
  BY <1>1 DEF ListItr

\* Size() is the length of the list.
LEMMA SizeIsLength ==
    ASSUME CacheInv
    PROVE  /\ Present(cache.map) = {cache.list[i] : i \in 1 .. Len(cache.list)}
           /\ Len(cache.list) \in Nat /\ CacheSize = Len(cache.list)
           /\ \A i \in 1 .. Len(cache.list) :
                  cache.list[i] \in CacheKeys /\ cache.map[cache.list[i]] # NoEntry
<1> DEFINE s == cache.list
           n == Len(s)
<1>1. s \in KeyLists
  BY DEF CacheInv, CacheTypes, CacheRecords
<1>2. n \in Nat /\ \A i \in 1 .. n : s[i] \in CacheKeys
  BY <1>1, LenProperties, ElementOfSeq DEF KeyLists
<1>3. IsInjectiveSeq(s) /\ \A k \in CacheKeys : cache.map[k] # NoEntry <=> \E i \in 1 .. n : s[i] = k
  BY DEF CacheInv, ListInv
<1> HIDE DEF s
<1>4. Present(cache.map) = {s[i] : i \in 1 .. n}
  BY <1>2, <1>3 DEF Present
<1>5. n + 1 \in 1 .. (Len(s) + 1) /\ (n + 1) - 1 = n
  BY <1>2
<1>6. Cardinality(Before(s, n + 1)) = n
  BY <1>1, <1>3, <1>5, CountBefore DEF KeyLists
<1>7. Before(s, n + 1) = {s[i] : i \in 1 .. n}
  BY <1>5 DEF Before
<1>8. CacheSize = n
  BY <1>4, <1>6, <1>7 DEF CacheSize
<1>9. \A i \in 1 .. n : cache.map[s[i]] # NoEntry
  BY <1>2, <1>3
<1> QED
  BY <1>2, <1>4, <1>8, <1>9 DEF s

\* operator[] of a key that is there moves it to the front.
LEMMA HitKeepsCache ==
    ASSUME CacheInv, NEW key \in CacheKeys, Lookup(key), LookupHit(key)
    PROVE  CacheInv'
<1> DEFINE p == ListItr(cache.list, key)
           t == MovedToFront(key)
<1>1. CacheTypes /\ cache \in CacheRecords /\ cache.list \in KeyLists
  BY DEF CacheInv, CacheTypes, CacheRecords
<1>2. cache.map[key] # NoEntry /\ cache' = [cache EXCEPT !.list = t] /\ alive' = alive
  BY DEF LookupHit
<1>3. /\ IsInjectiveSeq(cache.list)
      /\ \A k \in CacheKeys :
             cache.map[k] # NoEntry <=> \E i \in 1 .. Len(cache.list) : cache.list[i] = k
  BY DEF CacheInv, ListInv
<1>4. p \in 1 .. Len(cache.list) /\ cache.list[p] = key
  BY <1>1, <1>2, <1>3, ListItrOf
<1>5. t \in KeyLists /\ IsPutInFront(cache.list, t, key, p)
  <2> DEFINE r == Without(cache.list, key)
  <2>1. r = SubSeq(cache.list, 1, p - 1) \o SubSeq(cache.list, p + 1, Len(cache.list))
    BY DEF Without
  <2>2. t = <<key>> \o r
    BY DEF MovedToFront
  <2>3. <<key>> \o r \in Seq(CacheKeys) /\ IsPutInFront(cache.list, <<key>> \o r, key, p)
    <3> HIDE DEF r, p
    <3> QED
      BY <1>1, <1>4, <2>1, PutAndErase DEF KeyLists
  <2> HIDE DEF r, p, t
  <2> QED
    BY <2>2, <2>3 DEF KeyLists
<1>6. \A i \in 1 .. Len(cache.list) : cache.list[i] = key => i = p
  BY <1>3, <1>4 DEF IsInjectiveSeq
<1> HIDE DEF p, t
<1>7. /\ cache' \in CacheRecords /\ cache'.list = t
      /\ cache'.map = cache.map /\ cache'.capacity = cache.capacity
  BY <1>1, <1>2, <1>5 DEF CacheRecords
<1>8. CacheTypes'
  BY <1>1, <1>7, LookupHistory DEF CacheTypes
<1>9. ListInv(cache.map, t)
  <2>1. /\ IsInjectiveSeq(t)
        /\ \A k : (\E j \in 1 .. Len(t) : t[j] = k) <=>
               k = key \/ \E j \in 1 .. Len(cache.list) : j # p /\ cache.list[j] = k
    <3>1. IsPutInFront(cache.list, t, key, p) /\ IsInjectiveSeq(cache.list)
      BY <1>3, <1>5
    <3>2. IsOnlyAt(cache.list, key, p)
      BY <1>6, Zenon DEF IsOnlyAt
    <3>3. IsInjectiveSeq(t) /\ HasItemsOf(t, cache.list, key, p)
      BY <3>1, <3>2, PutInFrontItems, Zenon
    <3> QED
      BY <3>3, Zenon DEF HasItemsOf
  <2>2. ASSUME NEW k \in CacheKeys
        PROVE  cache.map[k] # NoEntry <=> \E j \in 1 .. Len(t) : t[j] = k
    BY <1>2, <1>3, <1>4, <2>1
  <2> QED
    BY <2>1, <2>2 DEF ListInv
<1>10. SinceInv(t, since')
  <2>1. since' = [k \in CacheKeys |-> IF k = key THEN {} ELSE since[k] \cup {key}]
    BY <1>1, LookupHistory
  <2>2. \A j \in 1 .. Len(cache.list) : cache.list[j] \in CacheKeys
    BY <1>1, ElementOfSeq DEF KeyLists
  <2>3. SinceInv(cache.list, since)
    BY DEF CacheInv
  <2> QED
    BY <1>3, <1>4, <1>5, <1>6, <2>1, <2>2, <2>3, LookupKeepsOrder
<1>11. EvictedInv(cache.capacity, cache.map, used', since')
  <2>1. EvictedInv(cache.capacity, cache.map, used, since)
    BY DEF CacheInv
  <2>2. used \subseteq CacheKeys /\ cache.capacity \in Nat
    BY <1>1 DEF CacheTypes, CacheRecords
  <2>3. ASSUME NEW k \in used', cache.map[k] = NoEntry
        PROVE  cache.capacity # 0 /\ Cardinality(since'[k]) >= cache.capacity
    <3>1. k # key /\ k \in used /\ k \in CacheKeys
      BY <1>1, <1>2, <2>2, <2>3, LookupHistory
    <3>2. cache.capacity # 0 /\ Cardinality(since[k]) >= cache.capacity
      BY <2>1, <2>3, <3>1 DEF EvictedInv
    <3>3. /\ Cardinality(since'[k]) >= Cardinality(since[k])
          /\ Cardinality(since[k]) \in Nat /\ Cardinality(since'[k]) \in Nat
      BY <1>1, <3>1, LookupHistory
    <3> QED
      BY <2>2, <3>2, <3>3
  <2>4. \A k \in CacheKeys : cache.map[k] # NoEntry => k \in used'
    BY <1>1, <2>1, LookupHistory DEF EvictedInv
  <2> QED
    BY <2>3, <2>4 DEF EvictedInv
<1>12. CapacityInv(cache.capacity, t)
  <2>1. Len(t) = Len(cache.list)
    BY <1>4, <1>5 DEF IsPutInFront
  <2> QED
    BY <2>1 DEF CacheInv, CapacityInv
<1>13. EachObjectHasOneEntry'
  BY <1>2, <1>7 DEF CacheInv, EachObjectHasOneEntry, Owned, Present
<1> QED
  BY <1>7, <1>8, <1>9, <1>10, <1>11, <1>12, <1>13 DEF CacheInv

\* operator[] of a new key when the cache is not full.
LEMMA MissKeepsCache ==
    ASSUME CacheInv, NEW key \in CacheKeys, Lookup(key), LookupMiss(key), ~IsFull
    PROVE  CacheInv'
<1> DEFINE n == Len(cache.list)
           t == <<key>> \o cache.list
           map == [cache.map EXCEPT ![key] = NoObject]
<1>1. CacheTypes /\ cache \in CacheRecords /\ cache.list \in KeyLists /\ cache.map \in EntryMaps
  BY DEF CacheInv, CacheTypes, CacheRecords
<1>2. /\ cache.map[key] = NoEntry /\ alive' = alive
      /\ cache' = [cache EXCEPT !.map = map, !.list = t]
  BY DEF LookupMiss
<1>3. /\ IsInjectiveSeq(cache.list)
      /\ \A k \in CacheKeys : cache.map[k] # NoEntry <=> \E i \in 1 .. n : cache.list[i] = k
  BY DEF CacheInv, ListInv
<1>4. t \in KeyLists /\ IsPutInFront(cache.list, t, key, n + 1)
  BY <1>1, PutOnly DEF KeyLists
<1>5. n \in Nat /\ CacheSize = n /\ \A i \in 1 .. n : cache.list[i] \in CacheKeys
  BY SizeIsLength
<1>6. \A i \in 1 .. n : cache.list[i] # key
  BY <1>2, <1>3
<1>7. map \in EntryMaps /\ map[key] = NoObject /\ \A k \in CacheKeys : k # key => map[k] = cache.map[k]
  BY <1>1 DEF EntryMaps, Entries
<1>8. Len(t) = n + 1
  BY <1>4, <1>5 DEF IsPutInFront
<1> HIDE DEF n, t, map
<1>9. /\ cache' \in CacheRecords /\ cache'.list = t
      /\ cache'.map = map /\ cache'.capacity = cache.capacity
  BY <1>1, <1>2, <1>4, <1>7 DEF CacheRecords
<1>10. CacheTypes'
  BY <1>1, <1>9, LookupHistory DEF CacheTypes
<1>11. ListInv(map, t)
  <2>1. IsOnlyAt(cache.list, key, n + 1)
    BY <1>6 DEF n, IsOnlyAt
  <2>2. /\ IsInjectiveSeq(t)
        /\ \A k : (\E j \in 1 .. Len(t) : t[j] = k) <=>
               k = key \/ \E j \in 1 .. Len(cache.list) : j # n + 1 /\ cache.list[j] = k
    <3>1. IsPutInFront(cache.list, t, key, n + 1) /\ IsInjectiveSeq(cache.list)
      BY <1>3, <1>4
    <3>2. IsInjectiveSeq(t) /\ HasItemsOf(t, cache.list, key, n + 1)
      BY <2>1, <3>1, PutInFrontItems, Zenon
    <3> QED
      BY <3>2, Zenon DEF HasItemsOf
  <2>3. \A j \in 1 .. Len(cache.list) : j # n + 1
    BY <1>5 DEF n
  <2>4. ASSUME NEW k \in CacheKeys
        PROVE  map[k] # NoEntry <=> \E j \in 1 .. Len(t) : t[j] = k
    <3>1. CASE k = key
      BY <1>7, <2>2, <3>1, CacheConstants
    <3>2. CASE k # key
      BY <1>3, <1>7, <2>2, <2>3, <3>2 DEF n
    <3> QED
      BY <3>1, <3>2
  <2> QED
    BY <2>2, <2>4 DEF ListInv
<1>12. SinceInv(t, since')
  <2>1. since' = [k \in CacheKeys |-> IF k = key THEN {} ELSE since[k] \cup {key}]
    BY <1>1, LookupHistory
  <2>2. /\ \A i \in 1 .. Len(cache.list) : cache.list[i] = key => i = n + 1
        /\ \A i \in 1 .. Len(cache.list) : cache.list[i] \in CacheKeys
    BY <1>5, <1>6 DEF n
  <2>3. SinceInv(cache.list, since)
    BY DEF CacheInv
  <2> QED
    BY <1>3, <1>4, <1>8, <2>1, <2>2, <2>3, LookupKeepsOrder
<1>13. EvictedInv(cache.capacity, map, used', since')
  <2>1. EvictedInv(cache.capacity, cache.map, used, since)
    BY DEF CacheInv
  <2>2. used \subseteq CacheKeys /\ cache.capacity \in Nat
    BY <1>1 DEF CacheTypes, CacheRecords
  <2>3. ASSUME NEW k \in used', map[k] = NoEntry
        PROVE  cache.capacity # 0 /\ Cardinality(since'[k]) >= cache.capacity
    <3>1. k # key /\ k \in used /\ k \in CacheKeys
      BY <1>1, <1>7, <2>2, <2>3, LookupHistory, CacheConstants
    <3>2. cache.capacity # 0 /\ Cardinality(since[k]) >= cache.capacity
      BY <1>7, <2>1, <2>3, <3>1 DEF EvictedInv
    <3>3. /\ Cardinality(since'[k]) >= Cardinality(since[k])
          /\ Cardinality(since[k]) \in Nat /\ Cardinality(since'[k]) \in Nat
      BY <1>1, <3>1, LookupHistory
    <3> QED
      BY <2>2, <3>2, <3>3
  <2>4. \A k \in CacheKeys : map[k] # NoEntry => k \in used'
    BY <1>1, <1>7, <2>1, LookupHistory DEF EvictedInv
  <2> QED
    BY <2>3, <2>4 DEF EvictedInv
<1>14. CapacityInv(cache.capacity, t)
  <2>1. ~(n > 0 /\ n = cache.capacity) /\ cache.capacity \in Nat
    BY <1>1, <1>5 DEF IsFull, CacheRecords
  <2>2. cache.capacity # 0 => n <= cache.capacity
    BY DEF CacheInv, CapacityInv, n
  <2> QED
    BY <1>5, <1>8, <2>1, <2>2 DEF CapacityInv
<1>15. EachObjectHasOneEntry'
  <2>1. EachObjectHasOneEntry
    BY DEF CacheInv
  <2>2. \A k \in CacheKeys : map[k] # cache.map[k] => map[k] = NoObject /\ cache.map[k] = NoEntry
    BY <1>2, <1>7
  <2>3. Owned(map) = Owned(cache.map)
    BY <2>2, CacheConstants DEF Owned, Present
  <2> QED
    BY <1>2, <1>9, <2>1, <2>2, <2>3, CacheConstants DEF EachObjectHasOneEntry
<1> QED
  BY <1>9, <1>10, <1>11, <1>12, <1>13, <1>14, <1>15 DEF CacheInv

\* operator[] of a new key when the cache is full: the last key of the list is
\* discarded, and it is one that capacity other keys were looked up since.
LEMMA EvictionKeepsCache ==
    ASSUME CacheInv, NEW key \in CacheKeys, Lookup(key), LookupMiss(key), IsFull
    PROVE  CacheInv'
<1> DEFINE n == Len(cache.list)
           old == LeastRecentlyUsed
           t == <<key>> \o Without(cache.list, old)
           map == [cache.map EXCEPT ![old] = NoEntry, ![key] = NoObject]
<1>1. CacheTypes /\ cache \in CacheRecords /\ cache.list \in KeyLists /\ cache.map \in EntryMaps
  BY DEF CacheInv, CacheTypes, CacheRecords
<1>2. /\ cache.map[key] = NoEntry /\ alive' = alive \ {cache.map[old]}
      /\ cache' = [cache EXCEPT !.map = map, !.list = t]
  BY DEF LookupMiss, Discarded
<1>3. /\ IsInjectiveSeq(cache.list)
      /\ \A k \in CacheKeys : cache.map[k] # NoEntry <=> \E i \in 1 .. n : cache.list[i] = k
  BY DEF CacheInv, ListInv
<1>4. /\ n \in Nat /\ CacheSize = n /\ n > 0 /\ n = cache.capacity /\ n \in 1 .. n
      /\ \A i \in 1 .. n : cache.list[i] \in CacheKeys
  BY SizeIsLength DEF IsFull
<1>5. old = cache.list[n] /\ old \in CacheKeys
  BY <1>4 DEF LeastRecentlyUsed
<1>6. cache.map[old] # NoEntry /\ old # key
  BY <1>2, <1>3, <1>4, <1>5
<1>7. ListItr(cache.list, old) = n
  <2>1. ListItr(cache.list, old) \in 1 .. n /\ cache.list[ListItr(cache.list, old)] = old
    BY <1>1, <1>4, <1>5, ListItrOf
  <2> QED
    BY <1>3, <1>4, <1>5, <2>1 DEF IsInjectiveSeq
<1>8. t \in KeyLists /\ IsPutInFront(cache.list, t, key, n)
  <2> DEFINE r == Without(cache.list, old)
  <2>1. r = SubSeq(cache.list, 1, n - 1) \o SubSeq(cache.list, n + 1, Len(cache.list))
    BY <1>7 DEF Without
  <2>2. t = <<key>> \o r
    OBVIOUS
  <2> HIDE DEF r, t, old
  <2>3. <<key>> \o r \in Seq(CacheKeys) /\ IsPutInFront(cache.list, <<key>> \o r, key, n)
    BY <1>1, <1>4, <2>1, PutAndErase DEF KeyLists
  <2> QED
    BY <2>2, <2>3 DEF KeyLists
<1>9. \A i \in 1 .. n : cache.list[i] # key
  BY <1>2, <1>3
<1> HIDE DEF old
<1>10. /\ map \in EntryMaps /\ map[key] = NoObject /\ map[old] = NoEntry
       /\ \A k \in CacheKeys : k \notin {key, old} => map[k] = cache.map[k]
  BY <1>1, <1>5, <1>6 DEF EntryMaps, Entries
<1>11. Len(t) = n
  BY <1>4, <1>8 DEF IsPutInFront
<1> HIDE DEF n, t, map
<1>12. /\ cache' \in CacheRecords /\ cache'.list = t
       /\ cache'.map = map /\ cache'.capacity = cache.capacity
  BY <1>1, <1>2, <1>8, <1>10 DEF CacheRecords
<1>13. CacheTypes'
  BY <1>1, <1>12, LookupHistory DEF CacheTypes
<1>14. ListInv(map, t)
  <2>1. IsOnlyAt(cache.list, key, n)
    BY <1>9 DEF n, IsOnlyAt
  <2>2. /\ IsInjectiveSeq(t)
        /\ \A k : (\E j \in 1 .. Len(t) : t[j] = k) <=>
               k = key \/ \E j \in 1 .. n : j # n /\ cache.list[j] = k
    <3>1. IsPutInFront(cache.list, t, key, n) /\ IsInjectiveSeq(cache.list)
      BY <1>3, <1>8
    <3>2. IsInjectiveSeq(t) /\ HasItemsOf(t, cache.list, key, n)
      BY <2>1, <3>1, PutInFrontItems, Zenon
    <3> QED
      BY <3>2, Zenon DEF HasItemsOf, n
  <2>3. \A j \in 1 .. n : j # n => cache.list[j] # old
    BY <1>3, <1>4, <1>5 DEF IsInjectiveSeq, n
  <2>4. ASSUME NEW k \in CacheKeys
        PROVE  map[k] # NoEntry <=> \E j \in 1 .. Len(t) : t[j] = k
    <3>1. CASE k = key
      BY <1>10, <2>2, <3>1, CacheConstants
    <3>2. CASE k = old
      BY <1>6, <1>10, <2>2, <2>3, <3>2
    <3>3. CASE k \notin {key, old}
      BY <1>3, <1>5, <1>10, <2>2, <3>3
    <3> QED
      BY <3>1, <3>2, <3>3
  <2> QED
    BY <2>2, <2>4 DEF ListInv
<1>15. SinceInv(cache.list, since)
  BY DEF CacheInv
<1>16. since' = [k \in CacheKeys |-> IF k = key THEN {} ELSE since[k] \cup {key}]
  BY <1>1, LookupHistory
<1>17. SinceInv(t, since')
  <2>1. /\ \A i \in 1 .. Len(cache.list) : cache.list[i] = key => i = n
        /\ \A i \in 1 .. Len(cache.list) : cache.list[i] \in CacheKeys
    BY <1>4, <1>9 DEF n
  <2> QED
    BY <1>3, <1>8, <1>11, <1>15, <1>16, <2>1, LookupKeepsOrder
<1>18. Cardinality(since'[old]) = cache.capacity
  <2>1. since'[old] = Before(cache.list, n) \cup {key}
    BY <1>4, <1>5, <1>6, <1>15, <1>16 DEF SinceInv, n
  <2>2. IsFiniteSet(Before(cache.list, n)) /\ Cardinality(Before(cache.list, n)) = n - 1
    <3>1. n \in 1 .. (Len(cache.list) + 1)
      BY <1>4 DEF n
    <3> QED
      BY <1>1, <1>3, <3>1, CountBefore DEF KeyLists
  <2>3. key \notin Before(cache.list, n)
    BY <1>4, <1>9 DEF Before
  <2>4. Cardinality(Before(cache.list, n) \cup {key}) = (n - 1) + 1
    BY <2>2, <2>3, FS_AddElement
  <2> QED
    BY <1>4, <2>1, <2>4
<1>19. EvictedInv(cache.capacity, map, used', since')
  <2>1. EvictedInv(cache.capacity, cache.map, used, since)
    BY DEF CacheInv
  <2>2. used \subseteq CacheKeys /\ cache.capacity \in Nat /\ cache.capacity # 0
    BY <1>1, <1>4 DEF CacheTypes
  <2>3. ASSUME NEW k \in used', map[k] = NoEntry, k # old
        PROVE  Cardinality(since'[k]) >= cache.capacity
    <3>1. k # key /\ k \in used /\ k \in CacheKeys
      BY <1>1, <1>10, <2>2, <2>3, LookupHistory, CacheConstants
    <3>2. Cardinality(since[k]) >= cache.capacity
      BY <1>10, <2>1, <2>3, <3>1 DEF EvictedInv
    <3>3. /\ Cardinality(since'[k]) >= Cardinality(since[k])
          /\ Cardinality(since[k]) \in Nat /\ Cardinality(since'[k]) \in Nat
      BY <1>1, <3>1, LookupHistory
    <3> QED
      BY <2>2, <3>2, <3>3
  <2>4. Cardinality(since'[old]) >= cache.capacity
    BY <1>18, <2>2
  <2>5. \A k \in CacheKeys : map[k] # NoEntry => k \in used'
    BY <1>1, <1>10, <2>1, LookupHistory DEF EvictedInv
  <2> QED
    BY <2>2, <2>3, <2>4, <2>5 DEF EvictedInv
<1>20. CapacityInv(cache.capacity, t)
  BY <1>4, <1>11 DEF CapacityInv
<1>21. EachObjectHasOneEntry'
  <2>1. EachObjectHasOneEntry
    BY DEF CacheInv
  <2>2. ASSUME NEW k \in CacheKeys, map[k] \notin {NoEntry, NoObject}
        PROVE  k \notin {key, old} /\ map[k] = cache.map[k]
    BY <1>10, <2>2
  <2>3. \A k \in CacheKeys : cache.map[k] \in Entries
    BY <1>1 DEF EntryMaps
  <2>4. Owned(map) = Owned(cache.map) \ {cache.map[old]}
    <3>1. ASSUME NEW o \in Owned(map)
          PROVE  o \in Owned(cache.map) \ {cache.map[old]}
      <4>1. PICK k \in CacheKeys : o = map[k] /\ o # NoEntry /\ o # NoObject
        BY DEF Owned, Present
      <4>2. k \notin {key, old} /\ o = cache.map[k]
        BY <2>2, <4>1
      <4>3. o \in CacheObjects /\ o \in Owned(cache.map)
        BY <2>3, <4>1, <4>2 DEF Owned, Present, Entries
      <4> QED
        BY <1>5, <2>1, <4>2, <4>3 DEF EachObjectHasOneEntry
    <3>2. ASSUME NEW o \in Owned(cache.map) \ {cache.map[old]}
          PROVE  o \in Owned(map)
      <4>1. PICK k \in CacheKeys : o = cache.map[k] /\ o # NoEntry /\ o # NoObject
        BY DEF Owned, Present
      <4>2. k \notin {key, old}
        BY <1>2, <4>1
      <4> QED
        BY <1>10, <4>1, <4>2 DEF Owned, Present
    <3> QED
      BY <3>1, <3>2
  <2>5. ASSUME NEW j \in CacheKeys, NEW k \in CacheKeys, map[j] = map[k], map[j] \in CacheObjects
        PROVE  j = k
    BY <2>1, <2>2, <2>5, CacheConstants DEF EachObjectHasOneEntry
  <2> QED
    BY <1>2, <1>12, <2>1, <2>4, <2>5 DEF EachObjectHasOneEntry
<1> QED
  BY <1>12, <1>13, <1>14, <1>17, <1>19, <1>20, <1>21 DEF CacheInv

\* Setting the value of an entry leaves the order of use alone; only the objects
\* change.
LEMMA ValueKeepsCache ==
    ASSUME CacheInv, NEW key \in CacheKeys, NEW value \in CacheObjects \cup {NoObject},
           cache.map[key] # NoEntry,
           cache' = [cache EXCEPT !.map[key] = value],
           used' = used, since' = since,
           value \notin alive,
           alive' = (alive \ {cache.map[key]}) \cup ({value} \ {NoObject})
    PROVE  CacheInv'
<1> DEFINE map == [cache.map EXCEPT ![key] = value]
<1>1. CacheTypes /\ cache \in CacheRecords /\ cache.map \in EntryMaps /\ cache.list \in KeyLists
  BY DEF CacheInv, CacheTypes, CacheRecords
<1>2. map \in EntryMaps /\ map[key] = value /\ \A k \in CacheKeys : k # key => map[k] = cache.map[k]
  BY <1>1 DEF EntryMaps, Entries
<1>3. cache' = [cache EXCEPT !.map = map]
  BY <1>1 DEF CacheRecords
<1> HIDE DEF map
<1>4. /\ cache' \in CacheRecords /\ cache'.map = map
      /\ cache'.list = cache.list /\ cache'.capacity = cache.capacity
  BY <1>1, <1>2, <1>3 DEF CacheRecords
<1>5. \A k \in CacheKeys : map[k] = NoEntry <=> cache.map[k] = NoEntry
  BY <1>2, CacheConstants
<1>6. CacheTypes'
  BY <1>1, <1>4 DEF CacheTypes
<1>7. ListInv(map, cache.list)
  BY <1>5 DEF CacheInv, ListInv
<1>8. EvictedInv(cache.capacity, map, used, since)
  <2>1. used \subseteq CacheKeys
    BY <1>1 DEF CacheTypes
  <2> QED
    BY <1>5, <2>1 DEF CacheInv, EvictedInv
<1>9. EachObjectHasOneEntry'
  <2>1. alive = Owned(cache.map) /\ EachObjectHasOneEntry
    BY DEF CacheInv, EachObjectHasOneEntry
  <2>2. \A k \in CacheKeys : cache.map[k] \in Entries
    BY <1>1 DEF EntryMaps
  <2>3. \A k \in CacheKeys : cache.map[k] \in CacheObjects => cache.map[k] \in alive
    BY <2>1, CacheConstants DEF Owned, Present
  <2>4. ASSUME NEW o \in Owned(map)
        PROVE  o \in alive'
    <3>1. PICK k \in CacheKeys : o = map[k] /\ o # NoEntry /\ o # NoObject
      BY DEF Owned, Present
    <3>2. CASE k = key
      BY <1>2, <3>1, <3>2
    <3>3. CASE k # key
      <4>1. o = cache.map[k] /\ o \in CacheObjects
        BY <1>2, <2>2, <3>1, <3>3 DEF Entries
      <4>2. o # cache.map[key] /\ o \in alive
        BY <2>1, <2>3, <3>3, <4>1 DEF EachObjectHasOneEntry
      <4> QED
        BY <4>2
    <3> QED
      BY <3>2, <3>3
  <2>5. ASSUME NEW o \in alive'
        PROVE  o \in Owned(map)
    <3>1. CASE o = value /\ value # NoObject
      BY <1>2, <3>1, CacheConstants DEF Owned, Present
    <3>2. CASE o \in alive /\ o # cache.map[key]
      <4>1. PICK k \in CacheKeys : o = cache.map[k] /\ o # NoEntry /\ o # NoObject
        BY <2>1, <3>2 DEF Owned, Present
      <4> QED
        BY <1>2, <3>2, <4>1 DEF Owned, Present
    <3> QED
      BY <2>5, <3>1, <3>2
  <2>6. alive' = Owned(map)
    BY <2>4, <2>5
  <2>7. ASSUME NEW j \in CacheKeys, NEW k \in CacheKeys, map[j] = map[k], map[j] \in CacheObjects
        PROVE  j = k
    BY <1>2, <2>1, <2>3, <2>7 DEF EachObjectHasOneEntry
  <2> QED
    BY <1>4, <2>6, <2>7 DEF EachObjectHasOneEntry
<1> QED
  BY <1>4, <1>6, <1>7, <1>8, <1>9 DEF CacheInv

\* Clear forgets the keys and deletes every object.
LEMMA ClearKeepsCache ==
    ASSUME CacheInv, CacheClear
    PROVE  CacheInv'
<1> DEFINE nothing == [k \in CacheKeys |-> NoEntry]
<1>1. cache \in CacheRecords /\ cache' = [cache EXCEPT !.map = nothing, !.list = << >>]
  BY DEF CacheInv, CacheTypes, CacheClear
<1>2. nothing \in EntryMaps /\ \A k \in CacheKeys : nothing[k] = NoEntry
  BY DEF EntryMaps, Entries
<1>3. << >> \in KeyLists /\ Len(<< >>) = 0
  BY DEF KeyLists
<1>4. since' \in [CacheKeys -> SUBSET CacheKeys] /\ \A k \in CacheKeys : since'[k] = {}
  BY DEF CacheClear
<1>5. used' = {} /\ alive' = {}
  BY DEF CacheClear, CacheInv, EachObjectHasOneEntry
<1> HIDE DEF nothing
<1>6. /\ cache' \in CacheRecords /\ cache'.map = nothing
      /\ cache'.list = << >> /\ cache'.capacity \in Nat
  BY <1>1, <1>2, <1>3 DEF CacheRecords
<1>7. CacheTypes'
  BY <1>4, <1>5, <1>6, FS_EmptySet DEF CacheTypes
<1>8. ListInv(cache'.map, cache'.list) /\ SinceInv(cache'.list, since')
  BY <1>2, <1>3, <1>6 DEF ListInv, SinceInv, IsInjectiveSeq
<1>9. EvictedInv(cache'.capacity, cache'.map, used', since')
  BY <1>2, <1>5, <1>6 DEF EvictedInv
<1>10. CapacityInv(cache'.capacity, cache'.list)
  BY <1>3, <1>6 DEF CapacityInv
<1>11. Owned(cache'.map) = {}
  BY <1>2, <1>6 DEF Owned, Present
<1>12. EachObjectHasOneEntry'
  BY <1>2, <1>5, <1>6, <1>11, CacheConstants DEF EachObjectHasOneEntry
<1> QED
  BY <1>7, <1>8, <1>9, <1>10, <1>12 DEF CacheInv

\* Every operation of the cache preserves the invariant.
LEMMA NextCacheInv ==
    ASSUME CacheInv, [CacheNext]_cacheVars
    PROVE  CacheInv'
<1>1. ASSUME NEW key \in CacheKeys, Lookup(key)
      PROVE  CacheInv'
  <2>1. CASE LookupHit(key)
    BY <1>1, <2>1, HitKeepsCache
  <2>2. CASE LookupMiss(key) /\ ~IsFull
    BY <1>1, <2>2, MissKeepsCache
  <2>3. CASE LookupMiss(key) /\ IsFull
    BY <1>1, <2>3, EvictionKeepsCache
  <2> QED
    BY <1>1, <2>1, <2>2, <2>3 DEF Lookup
<1>2. NoObject \notin alive
  BY DEF CacheInv, EachObjectHasOneEntry, Owned
<1>3. ASSUME NEW key \in CacheKeys, NEW object \in CacheObjects, Assign(key, object)
      PROVE  CacheInv'
  <2>1. alive' = (alive \ {cache.map[key]}) \cup ({object} \ {NoObject})
    BY <1>3, CacheConstants DEF Assign
  <2> QED
    BY <1>3, <2>1, ValueKeepsCache DEF Assign
<1>4. ASSUME NEW key \in CacheKeys, NEW object \in CacheObjects, SetIfNull(key, object)
      PROVE  CacheInv'
  <2>1. alive' = (alive \ {cache.map[key]}) \cup ({object} \ {NoObject}) /\ cache.map[key] # NoEntry
    BY <1>2, <1>4, CacheConstants DEF SetIfNull
  <2> QED
    BY <1>4, <2>1, ValueKeepsCache DEF SetIfNull
<1>5. ASSUME NEW key \in CacheKeys, AssignNull(key)
      PROVE  CacheInv'
  <2>1. alive' = (alive \ {cache.map[key]}) \cup ({NoObject} \ {NoObject}) /\ cache.map[key] # NoEntry
    BY <1>5 DEF AssignNull
  <2> QED
    BY <1>2, <1>5, <2>1, ValueKeepsCache DEF AssignNull
<1>6. CASE CacheClear
  BY <1>6, ClearKeepsCache
<1>7. CASE UNCHANGED cacheVars
  <2>1. cache' = cache /\ alive' = alive /\ used' = used /\ since' = since
    BY <1>7 DEF cacheVars
  <2>2. CacheTypes'
    BY <2>1 DEF CacheInv, CacheTypes
  <2>3. EachObjectHasOneEntry'
    BY <2>1 DEF CacheInv, EachObjectHasOneEntry, Owned, Present
  <2> QED
    BY <2>1, <2>2, <2>3 DEF CacheInv
<1> QED
  BY <1>1, <1>3, <1>4, <1>5, <1>6, <1>7 DEF CacheNext

\* The invariant says that the cache is what its class comment promises.
LEMMA CacheInvIsRecent ==
    ASSUME CacheInv
    PROVE  CacheIsRecent
<1>1. /\ Present(cache.map) = {cache.list[i] : i \in 1 .. Len(cache.list)}
      /\ Len(cache.list) \in Nat /\ CacheSize = Len(cache.list)
  BY SizeIsLength
<1>2. cache.list \in KeyLists /\ cache.capacity \in Nat
  BY DEF CacheInv, CacheTypes, CacheRecords
<1>3. DOMAIN cache.list = 1 .. Len(cache.list)
  BY <1>2, LenProperties DEF KeyLists
<1>4. ListMatchesMap
  BY <1>1, <1>3 DEF ListMatchesMap
<1>5. ASSUME NEW k \in CacheKeys, cache.map[k] # NoEntry
      PROVE  /\ k \in used
             /\ cache.capacity = 0 \/ Cardinality(since[k]) < cache.capacity
  <2>1. k \in used
    BY <1>5 DEF CacheInv, EvictedInv
  <2>2. PICK i \in 1 .. Len(cache.list) : cache.list[i] = k
    BY <1>5 DEF CacheInv, ListInv
  <2>3. since[k] = Before(cache.list, i)
    BY <2>2 DEF CacheInv, SinceInv
  <2>4. IsInjectiveSeq(cache.list) /\ i \in 1 .. (Len(cache.list) + 1)
    BY <1>1 DEF CacheInv, ListInv
  <2>5. Cardinality(Before(cache.list, i)) = i - 1
    BY <1>2, <2>4, CountBefore DEF KeyLists
  <2>6. cache.capacity # 0 => Len(cache.list) <= cache.capacity
    BY DEF CacheInv, CapacityInv
  <2> QED
    BY <1>1, <1>2, <2>1, <2>3, <2>5, <2>6
<1>6. ASSUME NEW k \in CacheKeys, k \in used, cache.map[k] = NoEntry
      PROVE  ~(cache.capacity = 0 \/ Cardinality(since[k]) < cache.capacity)
  <2>1. Cardinality(since[k]) \in Nat
    BY FS_CardinalityType DEF CacheInv, CacheTypes
  <2>2. cache.capacity # 0 /\ Cardinality(since[k]) >= cache.capacity
    BY <1>6 DEF CacheInv, EvictedInv
  <2> QED
    BY <1>2, <2>1, <2>2
<1>7. HoldsTheRecentlyUsed
  BY <1>5, <1>6 DEF HoldsTheRecentlyUsed
<1> QED
  BY <1>4, <1>7 DEF CacheIsRecent, CacheInv

\* For every capacity, any set of keys and any sequence of lookups, assignments and
\* Clears: the cache holds exactly the keys that fewer than capacity other keys
\* have been looked up since, its list and its map name the same keys, and each of
\* its objects is owned by one entry.
THEOREM CacheCorrect == CacheSpec => []CacheIsRecent
<1>1. CacheInit => CacheInv
  BY InitCacheInv
<1>2. CacheInv /\ [CacheNext]_cacheVars => CacheInv'
  BY NextCacheInv
<1>3. CacheInv => CacheIsRecent
  BY CacheInvIsRecent
<1> QED
  BY <1>1, <1>2, <1>3, PTL DEF CacheSpec

-----------------------------------------------------------------------------
(* SharedPtr.                                                               *)

Targets == SharedObjects \cup {NoTarget}

\* The counter of one object.
CountOf(o) ==
    /\ IsFiniteSet(Referrers(o))
    /\ refCount[o] = Cardinality(Referrers(o)) + (IF release = o THEN 1 ELSE 0)
    /\ o \in exists <=> refCount[o] > 0

CountInv == \A o \in SharedObjects : CountOf(o)

\* The operator= that waits for a cascade: its own pointer is null, and what it
\* will read is what it saw when it began, as long as it is there.
AssignInv ==
    assign # NoAssign =>
        /\ assign.pointer \in Pointers
        /\ pointer[assign.pointer] = NoTarget
        /\ assign.target \in Targets
        /\ assign.holder = NoTarget =>
               assign.target = NoTarget \/ \E q \in Pointers : pointer[q] = assign.target
        /\ assign.holder \in exists => member[assign.holder] = assign.target
        /\ assign.kept /\ assign.holder # NoTarget =>
               assign.holder \in ReachedFrom(Pointers \ {assign.pointer})

SharedInv == SharedTypeOK /\ CountInv /\ AssignInv

\* The effects of a step on the counter of one object.
LEMMA CountSame ==
    ASSUME NEW o, CountOf(o), Referrers(o)' = Referrers(o), refCount'[o] = refCount[o],
           release' = o <=> release = o, o \in exists' <=> o \in exists
    PROVE  CountOf(o)'
BY DEF CountOf

\* A pointer more.
LEMMA CountAdded ==
    ASSUME NEW o, NEW x, CountOf(o), x \notin Referrers(o),
           Referrers(o)' = Referrers(o) \cup {x}, refCount'[o] = refCount[o] + 1,
           release' = o <=> release = o, o \in exists'
    PROVE  CountOf(o)'
<1>1. IsFiniteSet(Referrers(o)) /\ Cardinality(Referrers(o)) \in Nat
  BY FS_CardinalityType DEF CountOf
<1>2. /\ IsFiniteSet(Referrers(o) \cup {x})
      /\ Cardinality(Referrers(o) \cup {x}) = Cardinality(Referrers(o)) + 1
  BY <1>1, FS_AddElement
<1> DEFINE c == Cardinality(Referrers(o))
           d == Cardinality(Referrers(o)')
<1>3. c \in Nat /\ d = c + 1 /\ IsFiniteSet(Referrers(o)')
  BY <1>1, <1>2
<1>4. refCount[o] = c + (IF release = o THEN 1 ELSE 0)
  BY DEF CountOf
<1> HIDE DEF c, d
<1>5. refCount'[o] = d + (IF release' = o THEN 1 ELSE 0) /\ refCount'[o] > 0
  BY <1>3, <1>4
<1> QED
  BY <1>3, <1>5 DEF CountOf, d

\* A pointer is given up, and its release begins.
LEMMA CountReleased ==
    ASSUME NEW o, NEW x, CountOf(o), x \in Referrers(o),
           Referrers(o)' = Referrers(o) \ {x}, refCount'[o] = refCount[o],
           release # o, release' = o, o \in exists' <=> o \in exists
    PROVE  CountOf(o)'
<1>1. IsFiniteSet(Referrers(o)) /\ Cardinality(Referrers(o)) \in Nat
  BY FS_CardinalityType DEF CountOf
<1>2. /\ IsFiniteSet(Referrers(o) \ {x})
      /\ Cardinality(Referrers(o) \ {x}) = Cardinality(Referrers(o)) - 1
  BY <1>1, FS_RemoveElement
<1> QED
  BY <1>1, <1>2 DEF CountOf

\* Nothing else refers to an object that is let go of for the last time.
LEMMA LastReference ==
    ASSUME NEW o, CountOf(o), release = o, refCount[o] = 1
    PROVE  Referrers(o) = {}
<1>1. IsFiniteSet(Referrers(o)) /\ Cardinality(Referrers(o)) \in Nat
  BY FS_CardinalityType DEF CountOf
<1>2. Cardinality(Referrers(o)) = 0
  BY <1>1 DEF CountOf
<1> QED
  BY <1>1, <1>2, FS_EmptySet

\* What is referred to exists.
LEMMA ReferredExists ==
    ASSUME NEW o, CountOf(o), Referrers(o) # {}
    PROVE  o \in exists
<1>1. IsFiniteSet(Referrers(o)) /\ Cardinality(Referrers(o)) \in Nat
  BY FS_CardinalityType DEF CountOf
<1>2. Cardinality(Referrers(o)) # 0
  BY <1>1, FS_EmptySet
<1>3. refCount[o] > 0
  BY <1>1, <1>2 DEF CountOf
<1> QED
  BY <1>3 DEF CountOf

\* Pointers and members of existing objects point to existing objects.
LEMMA TargetsExist ==
    ASSUME SharedInv
    PROVE  /\ \A p \in Pointers : pointer[p] # NoTarget => pointer[p] \in exists
           /\ \A h \in exists : member[h] # NoTarget => member[h] \in exists
           /\ release # NoTarget => release \in exists
           /\ exists \subseteq SharedObjects
           /\ \A o \in SharedObjects : refCount[o] \in Nat /\ CountOf(o)
           /\ \A o \in SharedObjects : o \notin exists => refCount[o] = 0 /\ Referrers(o) = {}
<1>1. SharedTypeOK /\ \A o \in SharedObjects : CountOf(o)
  BY DEF SharedInv, CountInv
<1>2. ASSUME NEW p \in Pointers, pointer[p] # NoTarget
      PROVE  pointer[p] \in exists
  <2>1. pointer[p] \in SharedObjects
    BY <1>1, <1>2 DEF SharedTypeOK
  <2>2. <<"pointer", p>> \in Referrers(pointer[p])
    BY DEF Referrers
  <2> QED
    BY <1>1, <2>1, <2>2, ReferredExists
<1>3. ASSUME NEW h \in exists, member[h] # NoTarget
      PROVE  member[h] \in exists
  <2>1. member[h] \in SharedObjects
    BY <1>1, <1>3 DEF SharedTypeOK
  <2>2. <<"member", h>> \in Referrers(member[h])
    BY DEF Referrers
  <2> QED
    BY <1>1, <2>1, <2>2, ReferredExists
<1>4. \A o \in SharedObjects : refCount[o] \in Nat
  BY <1>1 DEF SharedTypeOK
<1>5. ASSUME NEW o \in SharedObjects
      PROVE  Cardinality(Referrers(o)) \in Nat
  BY <1>1, FS_CardinalityType DEF CountOf
<1>6. release # NoTarget => release \in exists
  <2> SUFFICES ASSUME release # NoTarget
               PROVE  release \in exists
    OBVIOUS
  <2>1. release \in SharedObjects
    BY <1>1 DEF SharedTypeOK
  <2>2. refCount[release] = Cardinality(Referrers(release)) + 1
    BY <1>1, <2>1 DEF CountOf
  <2>3. refCount[release] > 0
    BY <1>5, <2>1, <2>2
  <2> QED
    BY <1>1, <2>1, <2>3 DEF CountOf
<1>7. ASSUME NEW o \in SharedObjects, o \notin exists
      PROVE  refCount[o] = 0 /\ Referrers(o) = {}
  BY <1>1, <1>4, <1>7, ReferredExists DEF CountOf
<1> QED
  BY <1>1, <1>2, <1>3, <1>4, <1>6, <1>7 DEF SharedTypeOK

\* A variable is made to point to t.
PointerMoved(p, t, o) ==
    /\ pointer[p] # o /\ t = o =>
           /\ <<"pointer", p>> \notin Referrers(o)
           /\ Referrers(o)' = Referrers(o) \cup {<<"pointer", p>>}
    /\ pointer[p] = o /\ t # o =>
           /\ <<"pointer", p>> \in Referrers(o)
           /\ Referrers(o)' = Referrers(o) \ {<<"pointer", p>>}
    /\ pointer[p] # o /\ t # o => Referrers(o)' = Referrers(o)

\* Who refers to an object, after a variable is made to point to t.
LEMMA PointerMoves ==
    ASSUME SharedTypeOK, NEW p \in Pointers, NEW t, pointer' = [pointer EXCEPT ![p] = t],
           NEW o \in SharedObjects,
           \A g : (g \in exists' /\ member'[g] = o) <=> (g \in exists /\ member[g] = o)
    PROVE  PointerMoved(p, t, o)
<1> DEFINE ps == {<<"pointer", r>> : r \in {q \in Pointers : pointer[q] = o}}
           qs == {<<"pointer", r>> : r \in {q \in Pointers : pointer'[q] = o}}
           ms == {<<"member", h>> : h \in {g \in exists : member[g] = o}}
           x == <<"pointer", p>>
<1>1. Referrers(o) = ps \cup ms
  BY DEF Referrers
<1>2. Referrers(o)' = qs \cup ms
  <2>1. {g \in exists' : member'[g] = o} = {g \in exists : member[g] = o}
    OBVIOUS
  <2> QED
    BY <2>1 DEF Referrers
<1>3. pointer'[p] = t /\ \A q \in Pointers : q # p => pointer'[q] = pointer[q]
  BY DEF SharedTypeOK
<1>4. x \notin ms
  OBVIOUS
<1>5. /\ x \in ps <=> pointer[p] = o
      /\ x \in qs <=> t = o
      /\ ps \ {x} = qs \ {x}
  BY <1>3
<1> HIDE DEF ps, qs, ms, x
<1>6. CASE pointer[p] # o /\ t = o
  <2>1. x \notin ps \cup ms /\ qs \cup ms = (ps \cup ms) \cup {x}
    BY <1>4, <1>5, <1>6
  <2> QED
    BY <1>1, <1>2, <1>6, <2>1 DEF x, PointerMoved
<1>7. CASE pointer[p] = o /\ t # o
  <2>1. x \in ps \cup ms /\ qs \cup ms = (ps \cup ms) \ {x}
    BY <1>4, <1>5, <1>7
  <2> QED
    BY <1>1, <1>2, <1>7, <2>1 DEF x, PointerMoved
<1>8. CASE pointer[p] # o /\ t # o
  <2>1. qs \cup ms = ps \cup ms
    BY <1>4, <1>5, <1>8
  <2> QED
    BY <1>1, <1>2, <1>8, <2>1 DEF PointerMoved
<1> QED
  BY <1>6, <1>7, <1>8 DEF x, PointerMoved

\* The member of an existing object is made to point to t.
LEMMA MemberMoves ==
    ASSUME SharedTypeOK, NEW h \in exists, NEW t, member' = [member EXCEPT ![h] = t],
           pointer' = pointer, exists' = exists \/ (exists' = exists \ {h} /\ t = NoTarget),
           NEW o \in SharedObjects
    PROVE  /\ member[h] # o /\ t = o =>
                  /\ <<"member", h>> \notin Referrers(o)
                  /\ Referrers(o)' = Referrers(o) \cup {<<"member", h>>}
           /\ member[h] = o /\ t # o =>
                  /\ <<"member", h>> \in Referrers(o)
                  /\ Referrers(o)' = Referrers(o) \ {<<"member", h>>}
           /\ member[h] # o /\ t # o => Referrers(o)' = Referrers(o)
<1> DEFINE ps == {<<"pointer", r>> : r \in {q \in Pointers : pointer[q] = o}}
           ms == {<<"member", r>> : r \in {g \in exists : member[g] = o}}
           ns == {<<"member", r>> : r \in {g \in exists' : member'[g] = o}}
           x == <<"member", h>>
<1>1. Referrers(o) = ps \cup ms
  BY DEF Referrers
<1>2. Referrers(o)' = ps \cup ns
  BY DEF Referrers
<1>3. member'[h] = t /\ \A g \in SharedObjects : g # h => member'[g] = member[g]
  BY DEF SharedTypeOK
<1>4. exists \subseteq SharedObjects /\ o # NoTarget
  BY SharedAssumption DEF SharedTypeOK
<1>5. x \notin ps
  OBVIOUS
<1>6. /\ x \in ms <=> member[h] = o
      /\ x \in ns <=> t = o
      /\ ms \ {x} = ns \ {x}
  BY <1>3, <1>4
<1> HIDE DEF ps, ns, ms, x
<1>7. CASE member[h] # o /\ t = o
  <2>1. x \notin ps \cup ms /\ ps \cup ns = (ps \cup ms) \cup {x}
    BY <1>5, <1>6, <1>7
  <2> QED
    BY <1>1, <1>2, <1>7, <2>1 DEF x
<1>8. CASE member[h] = o /\ t # o
  <2>1. x \in ps \cup ms /\ ps \cup ns = (ps \cup ms) \ {x}
    BY <1>5, <1>6, <1>8
  <2> QED
    BY <1>1, <1>2, <1>8, <2>1 DEF x
<1>9. CASE member[h] # o /\ t # o
  <2>1. ps \cup ns = ps \cup ms
    BY <1>5, <1>6, <1>9
  <2> QED
    BY <1>1, <1>2, <1>9, <2>1
<1> QED
  BY <1>7, <1>8, <1>9 DEF x

\* Create and Reset(new T): the new object has one pointer, and the old one, if
\* there was one, is being released.
LEMMA CreateKeepsShared ==
    ASSUME SharedInv, NEW p \in Pointers, NEW o \in SharedObjects,
           Create(p, o) \/ ResetPointer(p, o)
    PROVE  SharedInv'
<1>1. /\ o \notin exists /\ exists' = exists \cup {o} /\ Quiet
      /\ refCount' = [refCount EXCEPT ![o] = 1] /\ member' = [member EXCEPT ![o] = NoTarget]
      /\ pointer' = [pointer EXCEPT ![p] = o] /\ release' = pointer[p]
      /\ assign' = assign /\ damaged' = damaged
  BY DEF Create, ResetPointer, Quiet
<1>2. SharedTypeOK /\ NoTarget \notin SharedObjects /\ release = NoTarget /\ assign = NoAssign
  BY <1>1, SharedAssumption DEF SharedInv, Quiet
<1>3. SharedTypeOK'
  BY <1>1, <1>2 DEF SharedTypeOK
<1>4. ASSUME NEW x \in SharedObjects
      PROVE  CountOf(x)'
  <2>1. \A g : (g \in exists' /\ member'[g] = x) <=> (g \in exists /\ member[g] = x)
    BY <1>1, <1>2 DEF SharedTypeOK
  <2>2. CountOf(x) /\ refCount[x] \in Nat /\ pointer[p] # o
    BY <1>1, <1>2, TargetsExist
  <2>0. PointerMoved(p, o, x)
    BY <1>1, <1>2, <2>1, PointerMoves, Zenon
  <2>3. pointer[p] = x /\ o # x =>
              /\ <<"pointer", p>> \in Referrers(x)
              /\ Referrers(x)' = Referrers(x) \ {<<"pointer", p>>}
    BY <2>0 DEF PointerMoved
  <2>4. CASE x = o
    <3>1. refCount[x] = 0 /\ refCount'[x] = 1
      BY <1>1, <1>2, <2>4, TargetsExist DEF SharedTypeOK
    <3>2. /\ <<"pointer", p>> \notin Referrers(x)
          /\ Referrers(x)' = Referrers(x) \cup {<<"pointer", p>>}
      BY <2>0, <2>2, <2>4 DEF PointerMoved
    <3>3. release' # x /\ release # x /\ x \in exists' /\ refCount'[x] = refCount[x] + 1
      BY <1>1, <1>2, <2>2, <2>4, <3>1
    <3> QED
      BY <2>2, <3>2, <3>3, CountAdded
  <2>5. CASE x # o /\ x = pointer[p]
    <3>1. /\ <<"pointer", p>> \in Referrers(x)
          /\ Referrers(x)' = Referrers(x) \ {<<"pointer", p>>}
      BY <2>5, <2>3
    <3>2. /\ refCount'[x] = refCount[x] /\ release # x /\ release' = x
          /\ x \in exists' <=> x \in exists
      BY <1>1, <1>2, <2>5 DEF SharedTypeOK
    <3>3. CountOf(x)
      BY <2>2
    <3> QED
      BY <3>1, <3>2, <3>3, CountReleased, Zenon
  <2>6. CASE x # o /\ x # pointer[p]
    <3>1. Referrers(x)' = Referrers(x)
      BY <2>0, <2>6 DEF PointerMoved
    <3>2. /\ refCount'[x] = refCount[x] /\ release # x /\ release' # x
          /\ x \in exists' <=> x \in exists
      BY <1>1, <1>2, <2>6 DEF SharedTypeOK
    <3> QED
      BY <2>2, <3>1, <3>2, CountSame
  <2> QED
    BY <2>4, <2>5, <2>6
<1> QED
  BY <1>1, <1>2, <1>3, <1>4 DEF SharedInv, CountInv, AssignInv

\* AddRef.
LEMMA AddRefCounts ==
    ASSUME SharedTypeOK, NEW t \in Targets
    PROVE  /\ AddRef(t) \in [SharedObjects -> Nat]
           /\ t # NoTarget => AddRef(t)[t] = refCount[t] + 1
           /\ \A o \in SharedObjects : o # t => AddRef(t)[o] = refCount[o]
BY SharedAssumption DEF AddRef, SharedTypeOK, Targets

\* A variable that is null becomes one more pointer to an existing object.
LEMMA PointerAdded ==
    ASSUME SharedInv, NEW p \in Pointers, NEW t \in Targets, pointer[p] = NoTarget,
           t # NoTarget => t \in exists, release = NoTarget,
           pointer' = [pointer EXCEPT ![p] = t], refCount' = AddRef(t),
           UNCHANGED <<member, exists, release>>
    PROVE  CountInv'
<1>1. SharedTypeOK /\ NoTarget \notin SharedObjects
  BY SharedAssumption DEF SharedInv
<1>2. ASSUME NEW x \in SharedObjects
      PROVE  CountOf(x)'
  <2>1. CountOf(x)
    BY DEF SharedInv, CountInv
  <2>2. CASE x = t
    <3>1. /\ <<"pointer", p>> \notin Referrers(x)
          /\ Referrers(x)' = Referrers(x) \cup {<<"pointer", p>>}
      BY <1>1, <2>2, PointerMoves DEF PointerMoved
    <3>2. refCount'[x] = refCount[x] + 1 /\ x \in exists'
      BY <1>1, <2>2, AddRefCounts
    <3> QED
      BY <2>1, <3>1, <3>2, CountAdded
  <2>3. CASE x # t
    <3>1. Referrers(x)' = Referrers(x)
      BY <1>1, <2>3, PointerMoves DEF PointerMoved
    <3>2. refCount'[x] = refCount[x]
      BY <1>1, <2>3, AddRefCounts
    <3> QED
      BY <2>1, <3>1, <3>2, CountSame
  <2> QED
    BY <2>2, <2>3
<1> QED
  BY <1>2 DEF CountInv

\* A variable becomes null, and the release of what it pointed to begins.
LEMMA PointerReleased ==
    ASSUME SharedInv, NEW p \in Pointers, release = NoTarget, release' = pointer[p],
           pointer' = [pointer EXCEPT ![p] = NoTarget],
           UNCHANGED <<member, exists, refCount>>
    PROVE  CountInv'
<1>1. SharedTypeOK /\ NoTarget \notin SharedObjects
  BY SharedAssumption DEF SharedInv
<1>2. ASSUME NEW x \in SharedObjects
      PROVE  CountOf(x)'
  <2>1. CountOf(x) /\ NoTarget # x
    BY <1>1 DEF SharedInv, CountInv
  <2>2. \A g : (g \in exists' /\ member'[g] = x) <=> (g \in exists /\ member[g] = x)
    OBVIOUS
  <2>3. /\ pointer[p] = x /\ NoTarget # x =>
               /\ <<"pointer", p>> \in Referrers(x)
               /\ Referrers(x)' = Referrers(x) \ {<<"pointer", p>>}
        /\ pointer[p] # x /\ NoTarget # x => Referrers(x)' = Referrers(x)
    BY <1>1, <2>2, PointerMoves DEF PointerMoved
  <2>4. CASE pointer[p] = x
    BY <1>1, <2>1, <2>3, <2>4, CountReleased
  <2>5. CASE pointer[p] # x
    BY <1>1, <2>1, <2>3, <2>5, CountSame
  <2> QED
    BY <2>4, <2>5
<1> QED
  BY <1>2 DEF CountInv

\* SetMember and Release of a member.
LEMMA MemberKeepsShared ==
    ASSUME SharedInv, NEW p \in Pointers, ReleaseMember(p) \/ \E q \in Pointers : SetMember(p, q)
    PROVE  SharedInv'
<1> DEFINE h == pointer[p]
<1>1. /\ SharedTypeOK /\ NoTarget \notin SharedObjects
      /\ release = NoTarget /\ assign = NoAssign /\ assign' = assign
      /\ UNCHANGED <<pointer, exists, damaged>> /\ h # NoTarget
  BY SharedAssumption DEF SharedInv, ReleaseMember, SetMember, Quiet
<1>2. h \in exists /\ h \in SharedObjects
  BY <1>1, TargetsExist
<1> HIDE DEF h
<1>3. CASE ReleaseMember(p)
  <2>1. /\ release' = member[h] /\ member' = [member EXCEPT ![h] = NoTarget]
        /\ refCount' = refCount
    BY <1>3 DEF ReleaseMember, h
  <2>2. SharedTypeOK'
    BY <1>1, <1>2, <2>1 DEF SharedTypeOK
  <2>3. ASSUME NEW x \in SharedObjects
        PROVE  CountOf(x)'
    <3>1. CountOf(x) /\ NoTarget # x
      BY <1>1 DEF SharedInv, CountInv
    <3>2. /\ member[h] = x /\ NoTarget # x =>
                 /\ <<"member", h>> \in Referrers(x)
                 /\ Referrers(x)' = Referrers(x) \ {<<"member", h>>}
          /\ member[h] # x /\ NoTarget # x => Referrers(x)' = Referrers(x)
      BY <1>1, <1>2, <2>1, MemberMoves
    <3>3. CASE member[h] = x
      BY <1>1, <2>1, <3>1, <3>2, <3>3, CountReleased
    <3>4. CASE member[h] # x
      BY <1>1, <2>1, <3>1, <3>2, <3>4, CountSame
    <3> QED
      BY <3>3, <3>4
  <2> QED
    BY <1>1, <2>2, <2>3 DEF SharedInv, CountInv, AssignInv
<1>4. ASSUME NEW q \in Pointers, SetMember(p, q)
      PROVE  SharedInv'
  <2> DEFINE t == pointer[q]
  <2>1. /\ member[h] = NoTarget /\ member' = [member EXCEPT ![h] = t] /\ t # NoTarget
        /\ refCount' = AddRef(t) /\ release' = release
    BY <1>4 DEF SetMember, h
  <2>2. t \in exists /\ t \in SharedObjects /\ t \in Targets
    BY <2>1, TargetsExist DEF Targets
  <2> HIDE DEF t
  <2>3. SharedTypeOK'
    BY <1>1, <1>2, <2>1, <2>2, AddRefCounts DEF SharedTypeOK
  <2>4. ASSUME NEW x \in SharedObjects
        PROVE  CountOf(x)'
    <3>1. CountOf(x) /\ member[h] # x
      BY <1>1, <2>1 DEF SharedInv, CountInv
    <3>2. /\ member[h] # x /\ t = x =>
                 /\ <<"member", h>> \notin Referrers(x)
                 /\ Referrers(x)' = Referrers(x) \cup {<<"member", h>>}
          /\ member[h] # x /\ t # x => Referrers(x)' = Referrers(x)
      BY <1>1, <1>2, <2>1, MemberMoves
    <3>3. CASE t = x
      <4>1. refCount'[x] = refCount[x] + 1 /\ x \in exists'
        BY <1>1, <2>1, <2>2, <3>3, AddRefCounts
      <4> QED
        BY <1>1, <2>1, <3>1, <3>2, <3>3, <4>1, CountAdded
    <3>4. CASE t # x
      <4>1. refCount'[x] = refCount[x]
        BY <1>1, <2>1, <2>2, <3>4, AddRefCounts
      <4> QED
        BY <1>1, <2>1, <3>1, <3>2, <3>4, <4>1, CountSame
    <3> QED
      BY <3>3, <3>4
  <2> QED
    BY <1>1, <2>3, <2>4 DEF SharedInv, CountInv, AssignInv
<1> QED
  BY <1>3, <1>4

\* What is reached from the variables exists.
LEMMA ReachedExist ==
    ASSUME SharedInv, NEW variables \in SUBSET Pointers
    PROVE  ReachedFrom(variables) \subseteq exists
<1>1. exists \in SUBSET SharedObjects
  BY TargetsExist
<1>2. ({pointer[q] : q \in variables} \cup {member[x] : x \in exists}) \ {NoTarget} \subseteq exists
  BY TargetsExist
<1> QED
  BY <1>1, <1>2 DEF ReachedFrom

\* A delete leaves everything reached from the variables: it is reached as before.
LEMMA DeleteKeepsReached ==
    ASSUME SharedInv, NEW o \in SharedObjects, Referrers(o) = {},
           pointer' = pointer, member' = [member EXCEPT ![o] = NoTarget],
           NEW variables \in SUBSET Pointers, NEW h \in ReachedFrom(variables)
    PROVE  h \in ReachedFrom(variables)'
<1>1. SharedTypeOK
  BY DEF SharedInv
<1>2. h \in SharedObjects
  BY DEF ReachedFrom
<1>3. ASSUME NEW S \in SUBSET SharedObjects,
             ({pointer[q] : q \in variables} \cup {member'[x] : x \in S}) \ {NoTarget} \subseteq S
      PROVE  h \in S
  <2> DEFINE T == S \cap (exists \ {o})
  <2>1. \A q \in Pointers : pointer[q] # NoTarget => pointer[q] \in exists /\ pointer[q] # o
    BY TargetsExist DEF Referrers
  <2>2. \A x \in exists : member[x] # NoTarget => member[x] \in exists /\ member[x] # o
    BY TargetsExist DEF Referrers
  <2>3. ASSUME NEW q \in variables, pointer[q] # NoTarget
        PROVE  pointer[q] \in T
    BY <1>3, <2>1, <2>3
  <2>4. ASSUME NEW x \in T, member[x] # NoTarget
        PROVE  member[x] \in T
    <3>1. member'[x] = member[x]
      BY <1>1 DEF SharedTypeOK
    <3> QED
      BY <1>3, <2>2, <2>4, <3>1
  <2>5. T \in SUBSET SharedObjects
    OBVIOUS
  <2> HIDE DEF T
  <2>6. ({pointer[q] : q \in variables} \cup {member[x] : x \in T}) \ {NoTarget} \subseteq T
    BY <2>3, <2>4
  <2>7. h \in T
    BY <2>5, <2>6 DEF ReachedFrom
  <2> QED
    BY <2>7 DEF T
<1> QED
  BY <1>2, <1>3 DEF ReachedFrom

\* One Release of a cascade.
LEMMA ReleaseStepKeepsShared ==
    ASSUME SharedInv, ReleaseStep
    PROVE  SharedInv'
<1> DEFINE o == release
<1>1. /\ SharedTypeOK /\ NoTarget \notin SharedObjects /\ o # NoTarget
      /\ UNCHANGED <<pointer, assign, damaged>>
  BY SharedAssumption DEF SharedInv, ReleaseStep
<1>2. o \in exists /\ o \in SharedObjects /\ exists \subseteq SharedObjects
  BY <1>1, TargetsExist
<1>3. CountOf(o) /\ refCount[o] \in Nat /\ refCount[o] > 0
  BY <1>2, TargetsExist DEF CountOf
<1>4. CASE IsLast(o)
  <2>1. /\ exists' = exists \ {o} /\ refCount' = [refCount EXCEPT ![o] = 0]
        /\ release' = member[o] /\ member' = [member EXCEPT ![o] = NoTarget]
    BY <1>4 DEF ReleaseStep
  <2>2. refCount[o] = 1 /\ Referrers(o) = {}
    BY <1>3, <1>4, LastReference DEF IsLast
  <2>3. member[o] # o
    BY <1>2, <2>2 DEF Referrers
  <2>4. release = o
    OBVIOUS
  <2> HIDE DEF o
  <2>5. SharedTypeOK'
    BY <1>1, <1>2, <2>1 DEF SharedTypeOK
  <2>6. ASSUME NEW x \in SharedObjects
        PROVE  CountOf(x)'
    <3>1. CountOf(x) /\ NoTarget # x
      BY <1>1 DEF SharedInv, CountInv
    <3>2. /\ member[o] = x /\ NoTarget # x =>
                 /\ <<"member", o>> \in Referrers(x)
                 /\ Referrers(x)' = Referrers(x) \ {<<"member", o>>}
          /\ member[o] # x /\ NoTarget # x => Referrers(x)' = Referrers(x)
      BY <1>1, <1>2, <2>1, MemberMoves
    <3>3. CASE x = o
      <4>1. Referrers(x)' = {} /\ refCount'[x] = 0 /\ release' # x /\ x \notin exists'
        BY <1>1, <2>1, <2>2, <2>3, <3>1, <3>2, <3>3 DEF SharedTypeOK
      <4>2. IsFiniteSet({}) /\ Cardinality({}) = 0
        BY FS_EmptySet
      <4> QED
        BY <4>1, <4>2 DEF CountOf
    <3>4. CASE x # o /\ member[o] = x
      <4>1. refCount'[x] = refCount[x] /\ (x \in exists' <=> x \in exists)
        BY <1>1, <2>1, <3>4 DEF SharedTypeOK
      <4> QED
        BY <2>1, <2>4, <3>1, <3>2, <3>4, <4>1, CountReleased
    <3>5. CASE x # o /\ member[o] # x
      <4>1. refCount'[x] = refCount[x] /\ (x \in exists' <=> x \in exists)
        BY <1>1, <2>1, <3>5 DEF SharedTypeOK
      <4> QED
        BY <2>1, <2>4, <3>1, <3>2, <3>5, <4>1, CountSame
    <3> QED
      BY <3>3, <3>4, <3>5
  <2>7. AssignInv'
    <3> SUFFICES ASSUME assign # NoAssign
                 PROVE  AssignInv'
      BY <1>1 DEF AssignInv
    <3>1. /\ assign.pointer \in Pointers
          /\ pointer[assign.pointer] = NoTarget
          /\ assign.target \in Targets
          /\ assign.holder = NoTarget =>
                 assign.target = NoTarget \/ \E q \in Pointers : pointer[q] = assign.target
          /\ assign.holder \in exists => member[assign.holder] = assign.target
          /\ assign.kept /\ assign.holder # NoTarget =>
                 assign.holder \in ReachedFrom(Pointers \ {assign.pointer})
      BY DEF SharedInv, AssignInv
    <3>2. assign.holder \in exists' => member'[assign.holder] = assign.target
      BY <1>1, <1>2, <2>1, <3>1 DEF SharedTypeOK
    <3> DEFINE variables == Pointers \ {assign.pointer}
    <3>3. variables \in SUBSET Pointers /\ variables' = variables
      BY <1>1
    <3> HIDE DEF variables
    <3>4. ASSUME assign.holder \in ReachedFrom(variables)
          PROVE  assign.holder \in ReachedFrom(variables)'
      BY <1>1, <1>2, <2>1, <2>2, <3>3, <3>4, DeleteKeepsReached
    <3>5. assign.kept /\ assign.holder # NoTarget =>
              assign.holder \in ReachedFrom(Pointers \ {assign.pointer})'
      BY <1>1, <3>1, <3>4 DEF variables
    <3> QED
      BY <1>1, <3>1, <3>2, <3>5 DEF AssignInv
  <2> QED
    BY <2>5, <2>6, <2>7 DEF SharedInv, CountInv
<1>5. CASE ~IsLast(o)
  <2>1. /\ refCount' = [refCount EXCEPT ![o] = @ - 1] /\ release' = NoTarget
        /\ UNCHANGED <<exists, member>>
    BY <1>5 DEF ReleaseStep
  <2>2. refCount[o] # 1 /\ refCount[o] - 1 \in Nat /\ refCount[o] - 1 > 0 /\ release = o
    BY <1>3, <1>5 DEF IsLast
  <2> HIDE DEF o
  <2>3. SharedTypeOK'
    BY <1>1, <1>2, <2>1, <2>2 DEF SharedTypeOK
  <2>4. ASSUME NEW x \in SharedObjects
        PROVE  CountOf(x)'
    <3>1. CountOf(x) /\ Referrers(x)' = Referrers(x) /\ release' # x
      BY <1>1, <2>1 DEF SharedInv, CountInv, Referrers
    <3>2. CASE x = o
      <4>1. refCount'[x] = refCount[x] - 1 /\ refCount'[x] > 0 /\ x \in exists'
        BY <1>1, <1>2, <2>1, <2>2, <3>2 DEF SharedTypeOK
      <4>2. IsFiniteSet(Referrers(x)) /\ Cardinality(Referrers(x)) \in Nat
        BY <3>1, FS_CardinalityType DEF CountOf
      <4>3. refCount[x] = Cardinality(Referrers(x)) + 1
        BY <2>2, <3>1, <3>2 DEF CountOf
      <4>4. refCount'[x] = Cardinality(Referrers(x)) + 0
        BY <4>1, <4>2, <4>3
      <4> QED
        BY <3>1, <4>1, <4>2, <4>4 DEF CountOf
    <3>3. CASE x # o
      <4>1. refCount'[x] = refCount[x]
        BY <1>1, <2>1, <3>3 DEF SharedTypeOK
      <4> QED
        BY <2>1, <2>2, <3>1, <3>3, <4>1, CountSame
    <3> QED
      BY <3>2, <3>3
  <2>5. AssignInv'
    BY <1>1, <2>1 DEF SharedInv, AssignInv, ReachedFrom
  <2> QED
    BY <2>3, <2>4, <2>5 DEF SharedInv, CountInv
<1> QED
  BY <1>4, <1>5

\* The start of operator=.  From an object's member it can only be called while
\* the object is reached, and its own pointer no longer counts.
LEMMA AssignBeginsKeepsShared ==
    ASSUME SharedInv, NEW p \in Pointers,
           \/ \E q \in Pointers : AssignPointer(p, q)
           \/ \E h \in SharedObjects : AssignMember(p, h)
    PROVE  SharedInv'
<1>1. SharedTypeOK /\ NoTarget \notin SharedObjects
  BY SharedAssumption DEF SharedInv
<1>2. PICK h \in Targets, target \in Targets :
          /\ AssignBegins(p, h, target)
          /\ h = NoTarget => \E q \in Pointers : q # p /\ pointer[q] = target
          /\ h # NoTarget => member[h] = target
  <2>1. ASSUME NEW q \in Pointers, AssignPointer(p, q)
        PROVE  pointer[q] \in Targets /\ q # p /\ AssignBegins(p, NoTarget, pointer[q])
    BY <1>1, <2>1 DEF AssignPointer, SharedTypeOK, Targets
  <2>2. ASSUME NEW h \in SharedObjects, AssignMember(p, h)
        PROVE  member[h] \in Targets /\ h \in Targets /\ h # NoTarget /\ AssignBegins(p, h, member[h])
    BY <1>1, <2>2 DEF AssignMember, SharedTypeOK, Targets
  <2>3. NoTarget \in Targets
    BY DEF Targets
  <2> QED
    BY <2>1, <2>2, <2>3
<1>3. /\ release = NoTarget /\ release' = pointer[p] /\ pointer' = [pointer EXCEPT ![p] = NoTarget]
      /\ assign' = [pointer |-> p, holder |-> h, target |-> target,
                    kept |-> h = NoTarget \/ h \in ReachedFrom(Pointers \ {p})]
      /\ UNCHANGED <<member, refCount, exists, damaged>>
  BY <1>2 DEF AssignBegins, Quiet
<1>4. SharedTypeOK'
  BY <1>1, <1>3 DEF SharedTypeOK
<1>5. CountInv'
  BY <1>3, PointerReleased
<1>6. pointer'[p] = NoTarget /\ \A q \in Pointers : q # p => pointer'[q] = pointer[q]
  BY <1>1, <1>3 DEF SharedTypeOK
<1>7. ReachedFrom(Pointers \ {p})' = ReachedFrom(Pointers \ {p})
  <2>1. {pointer'[q] : q \in Pointers \ {p}} = {pointer[q] : q \in Pointers \ {p}}
    BY <1>6
  <2> QED
    BY <1>3, <2>1 DEF ReachedFrom
<1>8. /\ assign'.pointer = p /\ assign'.holder = h /\ assign'.target = target
      /\ assign'.kept => h = NoTarget \/ h \in ReachedFrom(Pointers \ {p})
  BY <1>3
<1>9. h = NoTarget => \E q \in Pointers : pointer'[q] = target
  BY <1>2, <1>6
<1>10. h \in exists' => member'[h] = target
  BY <1>1, <1>2, <1>3 DEF SharedTypeOK
<1>11. AssignInv'
  BY <1>2, <1>6, <1>7, <1>8, <1>9, <1>10 DEF AssignInv
<1> QED
  BY <1>4, <1>5, <1>11 DEF SharedInv

\* The end of operator=.
LEMMA AssignEndsKeepsShared ==
    ASSUME SharedInv, AssignEnds
    PROVE  SharedInv'
<1> DEFINE p == assign.pointer
           t == assign.target
<1>1. /\ SharedTypeOK /\ NoTarget \notin SharedObjects /\ release = NoTarget
      /\ UNCHANGED <<member, exists, release>> /\ assign' = NoAssign
  BY SharedAssumption DEF SharedInv, AssignEnds
<1>2. /\ p \in Pointers /\ pointer[p] = NoTarget /\ t \in Targets
      /\ assign.holder = NoTarget => t = NoTarget \/ \E q \in Pointers : pointer[q] = t
      /\ assign.holder \in exists => member[assign.holder] = t
  BY DEF SharedInv, AssignInv, AssignEnds
<1>3. AssignInv'
  BY <1>1 DEF AssignInv
<1>4. CASE assign.holder # NoTarget /\ assign.holder \notin exists
  <2>1. damaged' = TRUE /\ UNCHANGED <<pointer, refCount>>
    BY <1>4 DEF AssignEnds
  <2>2. SharedTypeOK'
    BY <1>1, <2>1 DEF SharedTypeOK
  <2>3. ASSUME NEW x \in SharedObjects
        PROVE  CountOf(x)'
    BY <1>1, <2>1 DEF SharedInv, CountInv, CountOf, Referrers
  <2> QED
    BY <1>3, <2>2, <2>3 DEF SharedInv, CountInv
<1>5. CASE assign.holder = NoTarget \/ assign.holder \in exists
  <2>1. /\ pointer' = [pointer EXCEPT ![p] = t] /\ refCount' = AddRef(t)
        /\ damaged' = damaged
    BY <1>5 DEF AssignEnds
  <2>2. t # NoTarget => t \in exists
    BY <1>2, <1>5, TargetsExist
  <2> HIDE DEF p, t
  <2>3. CountInv'
    BY <1>1, <1>2, <2>1, <2>2, PointerAdded
  <2>4. SharedTypeOK'
    BY <1>1, <1>2, <2>1, AddRefCounts DEF SharedTypeOK, Targets
  <2> QED
    BY <1>3, <2>3, <2>4 DEF SharedInv
<1> QED
  BY <1>4, <1>5

\* The copy constructor, and Release of a variable.
LEMMA CopyKeepsShared ==
    ASSUME SharedInv, NEW p \in Pointers,
           ReleasePointer(p) \/ \E q \in Pointers : Copy(p, q)
    PROVE  SharedInv'
<1>1. SharedTypeOK /\ release = NoTarget /\ assign = NoAssign /\ assign' = assign
  BY DEF SharedInv, ReleasePointer, Copy, Quiet
<1>2. AssignInv'
  BY <1>1 DEF AssignInv
<1>3. CASE ReleasePointer(p)
  <2>1. CountInv'
    BY <1>1, <1>3, PointerReleased DEF ReleasePointer
  <2>2. SharedTypeOK'
    BY <1>1, <1>3 DEF SharedTypeOK, ReleasePointer
  <2> QED
    BY <1>2, <2>1, <2>2 DEF SharedInv
<1>4. ASSUME NEW q \in Pointers, Copy(p, q)
      PROVE  SharedInv'
  <2> DEFINE t == pointer[q]
  <2>1. /\ pointer[p] = NoTarget /\ t # NoTarget /\ pointer' = [pointer EXCEPT ![p] = t]
        /\ refCount' = AddRef(t) /\ UNCHANGED <<member, exists, release, damaged>>
    BY <1>4 DEF Copy
  <2>2. t \in exists /\ t \in Targets
    BY <1>1, <2>1, TargetsExist DEF SharedTypeOK, Targets
  <2> HIDE DEF t
  <2>3. CountInv'
    BY <1>1, <2>1, <2>2, PointerAdded
  <2>4. SharedTypeOK'
    BY <1>1, <2>1, <2>2, AddRefCounts DEF SharedTypeOK, Targets
  <2> QED
    BY <1>2, <2>3, <2>4 DEF SharedInv
<1> QED
  BY <1>3, <1>4

\* At the start there is no object.
LEMMA InitSharedInv ==
    ASSUME SharedInit
    PROVE  SharedInv
<1>1. SharedTypeOK
  BY DEF SharedInit, SharedTypeOK
<1>2. ASSUME NEW o \in SharedObjects
      PROVE  CountOf(o)
  <2>1. Referrers(o) = {} /\ refCount[o] = 0 /\ release # o /\ o \notin exists
    BY SharedAssumption DEF SharedInit, Referrers
  <2>2. IsFiniteSet({}) /\ Cardinality({}) = 0
    BY FS_EmptySet
  <2> QED
    BY <2>1, <2>2 DEF CountOf
<1> QED
  BY <1>1, <1>2 DEF SharedInv, CountInv, AssignInv, SharedInit

\* Every step preserves the invariant.
LEMMA NextSharedInv ==
    ASSUME SharedInv, [SharedNext]_sharedVars
    PROVE  SharedInv'
<1>1. ASSUME NEW p \in Pointers, NEW o \in SharedObjects, Create(p, o) \/ ResetPointer(p, o)
      PROVE  SharedInv'
  BY <1>1, CreateKeepsShared
<1>2. ASSUME NEW p \in Pointers, NEW q \in Pointers,
             Copy(p, q) \/ AssignPointer(p, q) \/ SetMember(p, q)
      PROVE  SharedInv'
  BY <1>2, CopyKeepsShared, AssignBeginsKeepsShared, MemberKeepsShared
<1>3. ASSUME NEW p \in Pointers, ReleasePointer(p) \/ ReleaseMember(p)
      PROVE  SharedInv'
  BY <1>3, CopyKeepsShared, MemberKeepsShared
<1>4. ASSUME NEW p \in Pointers, NEW h \in SharedObjects, AssignMember(p, h)
      PROVE  SharedInv'
  BY <1>4, AssignBeginsKeepsShared
<1>5. CASE ReleaseStep \/ AssignEnds
  BY <1>5, ReleaseStepKeepsShared, AssignEndsKeepsShared
<1>6. CASE UNCHANGED sharedVars
  <2>1. /\ pointer' = pointer /\ member' = member /\ refCount' = refCount /\ exists' = exists
        /\ release' = release /\ assign' = assign /\ damaged' = damaged
    BY <1>6 DEF sharedVars
  <2>2. SharedTypeOK'
    BY <2>1 DEF SharedInv, SharedTypeOK
  <2>3. ASSUME NEW o \in SharedObjects
        PROVE  CountOf(o)'
    BY <2>1 DEF SharedInv, CountInv, CountOf, Referrers
  <2>4. AssignInv'
    BY <2>1 DEF SharedInv, AssignInv, ReachedFrom
  <2> QED
    BY <2>2, <2>3, <2>4 DEF SharedInv, CountInv
<1> QED
  BY <1>1, <1>2, <1>3, <1>4, <1>5, <1>6 DEF SharedNext

\* The invariant gives what the runs check.
LEMMA SharedInvCounts ==
    ASSUME SharedInv
    PROVE  ReferencesAreCounted
<1>1. SharedTypeOK /\ CountIsReferrers
  BY DEF SharedInv, CountInv, CountOf, CountIsReferrers
<1>2. AssignmentIsSafe
  <2> SUFFICES ASSUME assign # NoAssign, assign.kept, assign.holder # NoTarget
               PROVE  assign.holder \in exists
    BY DEF AssignmentIsSafe
  <2>1. assign.holder \in ReachedFrom(Pointers \ {assign.pointer})
    BY DEF SharedInv, AssignInv
  <2>2. ReachedFrom(Pointers \ {assign.pointer}) \subseteq exists
    BY ReachedExist
  <2> QED
    BY <2>1, <2>2
<1> QED
  BY <1>1, <1>2 DEF ReferencesAreCounted

\* For any pointers and objects, however they point to each other: each object
\* lives exactly as long as something points to it, in every state of a cascade of
\* deletes, and operator= reads only members that are still there unless its own
\* pointer kept them.
THEOREM SharedCorrect == SharedSpec => []ReferencesAreCounted
<1>1. SharedInit => SharedInv
  BY InitSharedInv
<1>2. SharedInv /\ [SharedNext]_sharedVars => SharedInv'
  BY NextSharedInv
<1>3. SharedInv => ReferencesAreCounted
  BY SharedInvCounts
<1> QED
  BY <1>1, <1>2, <1>3, PTL DEF SharedSpec

-----------------------------------------------------------------------------
(* AutoPtrVector, AutoPtrStack and AutoPtrMap.                              *)

VectorItems == OwnedObjects \cup {NullPtr}
MapItems == OwnedObjects \cup {NullPtr, NoItem}

InVector(o) == \E i \in 1 .. Len(vector) : vector[i] = o
InMap(o) == \E k \in OwnedKeys : owned[k] = o

\* What exists is held in one of the three places, and at one place in it.
OwnerInv ==
    /\ \A o \in OwnedObjects : o \in living <=> o \in inHand \/ InVector(o) \/ InMap(o)
    /\ \A o \in OwnedObjects : ~(o \in inHand /\ InVector(o))
    /\ \A o \in OwnedObjects : ~(o \in inHand /\ InMap(o))
    /\ \A o \in OwnedObjects : ~(InVector(o) /\ InMap(o))
    /\ \A i, j \in 1 .. Len(vector) : vector[i] = vector[j] /\ vector[i] \in OwnedObjects => i = j
    /\ \A k, l \in OwnedKeys : owned[k] = owned[l] /\ owned[k] \in OwnedObjects => k = l

OwningInv == OwningTypeOK /\ OwnerInv

\* The constants and the vector.
LEMMA OwningTypes ==
    ASSUME OwningTypeOK
    PROVE  /\ NullPtr \notin OwnedObjects /\ NoItem \notin OwnedObjects /\ MaxVectorSize \in Nat
           /\ Len(vector) \in Nat /\ DOMAIN vector = 1 .. Len(vector)
           /\ Len(vector) <= MaxVectorSize
           /\ vector \in Seq(VectorItems)
           /\ \A i \in 1 .. Len(vector) : vector[i] \in OwnedObjects \/ vector[i] = NullPtr
           /\ owned \in [OwnedKeys -> MapItems]
           /\ living \subseteq OwnedObjects /\ inHand \subseteq OwnedObjects
<1>1. vector \in Seq(VectorItems)
  BY DEF OwningTypeOK, VectorItems
<1>2. Len(vector) \in Nat /\ DOMAIN vector = 1 .. Len(vector)
  BY <1>1, LenProperties
<1>3. \A i \in 1 .. Len(vector) : vector[i] \in VectorItems
  BY <1>1, ElementOfSeq
<1> QED
  BY <1>1, <1>2, <1>3, OwningAssumption DEF OwningTypeOK, VectorItems, MapItems

\* The program's own steps, and those that exchange an object with the map.
LEMMA MapStepsKeepOwners ==
    ASSUME OwningInv, vector' = vector,
           \/ \E o \in OwnedObjects : NewObject(o) \/ DropObject(o)
           \/ \E o \in OwnedObjects, k \in OwnedKeys : MapSet(k, o) \/ MapFindOrCreate(k, o)
           \/ \E k \in OwnedKeys : MapErase(k) \/ MapReleaseValue(k)
           \/ MapClear
    PROVE  OwningInv'
<1>1. /\ OwningTypeOK /\ NullPtr \notin OwnedObjects /\ NoItem \notin OwnedObjects
      /\ owned \in [OwnedKeys -> MapItems]
      /\ living \subseteq OwnedObjects /\ inHand \subseteq OwnedObjects
  BY OwningTypes DEF OwningInv
<1>2. \A o : InVector(o)' <=> InVector(o)
  BY DEF InVector
<1>3. OwnerInv
  BY DEF OwningInv
<1>4. ASSUME NEW o \in OwnedObjects, NewObject(o)
      PROVE  OwningInv'
  <2>1. OwningTypeOK'
    BY <1>1, <1>4 DEF NewObject, OwningTypeOK
  <2>2. owned' = owned /\ \A x : InMap(x)' <=> InMap(x)
    BY <1>4 DEF NewObject, InMap
  <2>3. OwnerInv'
    BY <1>2, <1>3, <1>4, <2>2 DEF NewObject, OwnerInv
  <2> QED
    BY <2>1, <2>3 DEF OwningInv
<1>5. ASSUME NEW o \in OwnedObjects, DropObject(o)
      PROVE  OwningInv'
  <2>1. OwningTypeOK'
    BY <1>1, <1>5 DEF DropObject, DeleteAll, OwningTypeOK
  <2>2. owned' = owned /\ \A x : InMap(x)' <=> InMap(x)
    BY <1>5 DEF DropObject, InMap
  <2>3. OwnerInv'
    BY <1>2, <1>3, <1>5, <2>2 DEF DropObject, DeleteAll, OwnerInv
  <2> QED
    BY <2>1, <2>3 DEF OwningInv
<1>6. ASSUME NEW k \in OwnedKeys, NEW v \in MapItems, owned' = [owned EXCEPT ![k] = v]
      PROVE  /\ owned' \in [OwnedKeys -> MapItems] /\ owned'[k] = v
             /\ \A l \in OwnedKeys : l # k => owned'[l] = owned[l]
             /\ \A x : InMap(x)' <=> x = v \/ \E l \in OwnedKeys : l # k /\ owned[l] = x
  <2>1. /\ owned' \in [OwnedKeys -> MapItems] /\ owned'[k] = v
        /\ \A l \in OwnedKeys : l # k => owned'[l] = owned[l]
    BY <1>1, <1>6
  <2>2. ASSUME NEW x
        PROVE  InMap(x)' <=> x = v \/ \E l \in OwnedKeys : l # k /\ owned[l] = x
    BY <2>1 DEF InMap
  <2> QED
    BY <2>1, <2>2
<1>7. ASSUME NEW o \in OwnedObjects, NEW k \in OwnedKeys, MapSet(k, o) \/ MapFindOrCreate(k, o)
      PROVE  OwningInv'
  <2>1. o \in MapItems /\ owned' = [owned EXCEPT ![k] = o]
    BY <1>7 DEF MapSet, MapFindOrCreate, MapItems
  <2>2. /\ owned' \in [OwnedKeys -> MapItems] /\ owned'[k] = o
        /\ \A l \in OwnedKeys : l # k => owned'[l] = owned[l]
        /\ \A x : InMap(x)' <=> x = o \/ \E l \in OwnedKeys : l # k /\ owned[l] = x
    BY <1>6, <2>1
  <2>3. OwningTypeOK'
    BY <1>1, <1>7, <2>2 DEF MapSet, MapFindOrCreate, DeleteAll, OwningTypeOK, MapItems
  <2>4. ~InVector(o) /\ ~InMap(o) /\ (o \in living <=> o \in inHand)
    BY <1>3, <1>7 DEF MapSet, MapFindOrCreate, OwnerInv
  <2>5. /\ living' = (living \ {owned[k]}) \cup {o} /\ inHand' = inHand \ {o}
    BY <1>1, <1>7, <2>4 DEF MapSet, MapFindOrCreate, DeleteAll, InMap
  <2>6. \A x \in OwnedObjects : x # o =>
            (InMap(x)' <=> InMap(x) /\ x # owned[k])
    BY <1>3, <2>2 DEF OwnerInv, InMap
  <2>7. OwnerInv'
    <3>1. \A x \in OwnedObjects : x = owned[k] => InMap(x)
      BY DEF InMap
    <3>2. InMap(o)'
      BY <2>2
    <3>3. \A j, l \in OwnedKeys : owned'[j] = owned'[l] /\ owned'[j] \in OwnedObjects => j = l
      BY <1>3, <2>2, <2>4 DEF OwnerInv, InMap
    <3>4. \A x \in OwnedObjects : x \in living' <=> x \in inHand' \/ InVector(x)' \/ InMap(x)'
      BY <1>2, <1>3, <2>5, <2>6, <3>1, <3>2 DEF OwnerInv
    <3>5. \A x \in OwnedObjects : /\ ~(x \in inHand' /\ InVector(x)') /\ ~(x \in inHand' /\ InMap(x)')
                                  /\ ~(InVector(x)' /\ InMap(x)')
      BY <1>2, <1>3, <2>4, <2>5, <2>6 DEF OwnerInv
    <3> QED
      BY <1>3, <3>3, <3>4, <3>5 DEF OwnerInv
  <2> QED
    BY <2>3, <2>7 DEF OwningInv
<1>8. ASSUME NEW k \in OwnedKeys, MapErase(k) \/ MapReleaseValue(k)
      PROVE  OwningInv'
  <2>1. PICK v \in {NullPtr, NoItem} : owned' = [owned EXCEPT ![k] = v]
    BY <1>8 DEF MapErase, MapReleaseValue, AfterRelease
  <2>2. v \in MapItems /\ v \notin OwnedObjects
    BY <1>1 DEF MapItems
  <2>3. /\ owned' \in [OwnedKeys -> MapItems] /\ owned'[k] = v
        /\ \A l \in OwnedKeys : l # k => owned'[l] = owned[l]
        /\ \A x : InMap(x)' <=> x = v \/ \E l \in OwnedKeys : l # k /\ owned[l] = x
    <3>1. owned' = [owned EXCEPT ![k] = v]
      BY <2>1
    <3>2. /\ owned' \in [OwnedKeys -> MapItems] /\ owned'[k] = v
          /\ \A l \in OwnedKeys : l # k => owned'[l] = owned[l]
      BY <1>1, <2>2, <3>1
    <3>3. ASSUME NEW x
          PROVE  InMap(x)' <=> x = v \/ \E l \in OwnedKeys : l # k /\ owned[l] = x
      BY <3>2 DEF InMap
    <3> QED
      BY <3>2, <3>3
  <2>4. \A x \in OwnedObjects : InMap(x)' <=> InMap(x) /\ x # owned[k]
    BY <1>3, <2>2, <2>3 DEF OwnerInv, InMap
  <2>5. \A x \in OwnedObjects : x = owned[k] => InMap(x)
    BY DEF InMap
  <2>6. \/ living' = living \ {owned[k]} /\ inHand' = inHand
        \/ living' = living /\ inHand' = inHand \cup ({owned[k]} \cap OwnedObjects)
    BY <1>8 DEF MapErase, MapReleaseValue, DeleteAll, Objects
  <2>7. OwningTypeOK'
    BY <1>1, <2>3, <2>6 DEF OwningTypeOK, MapItems
  <2>8. OwnerInv'
    <3>1. \A j, l \in OwnedKeys : owned'[j] = owned'[l] /\ owned'[j] \in OwnedObjects => j = l
      BY <1>3, <2>2, <2>3 DEF OwnerInv
    <3>2. \A x \in OwnedObjects : x \in living' <=> x \in inHand' \/ InVector(x)' \/ InMap(x)'
      BY <1>2, <1>3, <2>4, <2>5, <2>6 DEF OwnerInv
    <3>3. \A x \in OwnedObjects : /\ ~(x \in inHand' /\ InVector(x)') /\ ~(x \in inHand' /\ InMap(x)')
                                  /\ ~(InVector(x)' /\ InMap(x)')
      BY <1>2, <1>3, <2>4, <2>5, <2>6 DEF OwnerInv
    <3> QED
      BY <1>3, <3>1, <3>2, <3>3 DEF OwnerInv
  <2> QED
    BY <2>7, <2>8 DEF OwningInv
<1>9. CASE MapClear
  <2>1. /\ living' = living \ {owned[k] : k \in OwnedKeys} /\ inHand' = inHand
        /\ owned' = [k \in OwnedKeys |-> NoItem]
    BY <1>9 DEF MapClear, DeleteAll
  <2>2. OwningTypeOK'
    BY <1>1, <2>1 DEF OwningTypeOK
  <2>3. \A x \in OwnedObjects : ~InMap(x)'
    BY <1>1, <2>1 DEF InMap
  <2>4. \A x : InMap(x) <=> x \in {owned[k] : k \in OwnedKeys}
    BY DEF InMap
  <2>5. \A k \in OwnedKeys : owned'[k] \notin OwnedObjects
    BY <1>1, <2>1
  <2>6. \A x \in OwnedObjects : x \in living' <=> x \in inHand' \/ InVector(x)' \/ InMap(x)'
    BY <1>2, <1>3, <2>1, <2>3, <2>4 DEF OwnerInv
  <2>7. OwnerInv'
    BY <1>2, <1>3, <2>1, <2>3, <2>5, <2>6 DEF OwnerInv
  <2> QED
    BY <2>2, <2>7 DEF OwningInv
<1> QED
  BY <1>4, <1>5, <1>7, <1>8, <1>9

\* The objects "gone" leave the vector, deleted or handed to the program, and the
\* objects "come" enter it from the program's hands.
LEMMA VectorStepKeepsOwners ==
    ASSUME OwningInv, owned' = owned, NEW gone, NEW come, come \subseteq inHand,
           vector' \in Seq(VectorItems), Len(vector') <= MaxVectorSize,
           \A x \in OwnedObjects : InVector(x)' <=> (InVector(x) /\ x \notin gone) \/ x \in come,
           \A x \in OwnedObjects : x \in gone => InVector(x),
           \A i, j \in 1 .. Len(vector') :
               vector'[i] = vector'[j] /\ vector'[i] \in OwnedObjects => i = j,
           \/ living' = living \ gone /\ inHand' = inHand \ come
           \/ living' = living /\ inHand' = (inHand \ come) \cup (gone \cap OwnedObjects)
    PROVE  OwningInv'
<1>1. /\ OwningTypeOK /\ OwnerInv
      /\ living \subseteq OwnedObjects /\ inHand \subseteq OwnedObjects
  BY OwningTypes DEF OwningInv
<1>2. \A x : InMap(x)' <=> InMap(x)
  BY DEF InMap
<1>3. OwningTypeOK'
  BY <1>1 DEF OwningTypeOK, VectorItems
<1>4. \A x \in OwnedObjects : x \in come => ~InVector(x) /\ ~InMap(x) /\ x \in living
  BY <1>1 DEF OwnerInv
<1>5. \A x \in OwnedObjects : x \in living' <=> x \in inHand' \/ InVector(x)' \/ InMap(x)'
  BY <1>1, <1>2, <1>4 DEF OwnerInv
<1>6. \A x \in OwnedObjects : ~(x \in inHand' /\ InVector(x)')
  BY <1>1, <1>4 DEF OwnerInv
<1>7. \A x \in OwnedObjects : ~(x \in inHand' /\ InMap(x)')
  BY <1>1, <1>2, <1>4 DEF OwnerInv
<1>8. \A x \in OwnedObjects : ~(InVector(x)' /\ InMap(x)')
  BY <1>1, <1>2, <1>4 DEF OwnerInv
<1>9. \A k, l \in OwnedKeys : owned'[k] = owned'[l] /\ owned'[k] \in OwnedObjects => k = l
  BY <1>1 DEF OwnerInv
<1> QED
  BY <1>3, <1>5, <1>6, <1>7, <1>8, <1>9 DEF OwningInv, OwnerInv

\* PushBack takes an object from the program.
LEMMA PushBackKeepsOwners ==
    ASSUME OwningInv, NEW o \in OwnedObjects, VectorPushBack(o)
    PROVE  OwningInv'
<1> DEFINE n == Len(vector)
<1>1. /\ NullPtr \notin OwnedObjects /\ n \in Nat /\ vector \in Seq(VectorItems)
      /\ MaxVectorSize \in Nat /\ inHand \subseteq OwnedObjects
  BY OwningTypes DEF OwningInv
<1>2. /\ o \in inHand /\ n < MaxVectorSize /\ vector' = Append(vector, o)
      /\ inHand' = inHand \ {o} /\ living' = living /\ owned' = owned
  BY DEF VectorPushBack
<1>3. o \in VectorItems
  BY DEF VectorItems
<1>4. /\ vector' \in Seq(VectorItems) /\ Len(vector') = n + 1
      /\ \A i \in 1 .. n : vector'[i] = vector[i]
      /\ vector'[n + 1] = o
  BY <1>1, <1>2, <1>3, AppendProperties
<1>5. ~InVector(o)
  BY <1>2 DEF OwningInv, OwnerInv
<1>6. ASSUME NEW i \in 1 .. Len(vector'), NEW j \in 1 .. Len(vector'),
             vector'[i] = vector'[j], vector'[i] \in OwnedObjects
      PROVE  i = j
  <2>1. \A l \in 1 .. n : vector[l] # o
    BY <1>5 DEF InVector
  <2>2. CASE i \in 1 .. n /\ j \in 1 .. n
    BY <1>4, <1>6, <2>2 DEF OwningInv, OwnerInv
  <2> HIDE DEF n
  <2> QED
    BY <1>1, <1>4, <1>6, <2>1, <2>2
<1>7. \A x : InVector(x)' <=> InVector(x) \/ x = o
  <2> DEFINE v == vector'
  <2>1. Len(v) = n + 1 /\ (\A i \in 1 .. n : v[i] = vector[i]) /\ v[n + 1] = o
    BY <1>4
  <2> HIDE DEF v
  <2>2. \A x : (\E i \in 1 .. Len(v) : v[i] = x) <=> (\E i \in 1 .. n : vector[i] = x) \/ x = o
    BY <1>1, <2>1
  <2> QED
    BY <2>2 DEF InVector, v
<1> DEFINE gone == {}
           come == {o}
<1>8. come \subseteq inHand /\ living' = living \ gone /\ inHand' = inHand \ come
  BY <1>2
<1>9. \A x \in OwnedObjects : InVector(x)' <=> (InVector(x) /\ x \notin gone) \/ x \in come
  BY <1>7
<1>10. Len(vector') <= MaxVectorSize /\ \A x \in OwnedObjects : x \in gone => InVector(x)
  BY <1>1, <1>2, <1>4
<1> HIDE DEF gone, come
<1> QED
  BY <1>2, <1>4, <1>6, <1>8, <1>9, <1>10, VectorStepKeepsOwners

\* PopBack gives the last item to the program.
LEMMA PopBackKeepsOwners ==
    ASSUME OwningInv, VectorPopBack
    PROVE  OwningInv'
<1> DEFINE n == Len(vector)
           gone == {vector[n]}
<1>1. /\ NullPtr \notin OwnedObjects /\ n \in Nat /\ vector \in Seq(VectorItems)
      /\ MaxVectorSize \in Nat /\ n <= MaxVectorSize
  BY OwningTypes DEF OwningInv
<1>2. /\ vector # << >> /\ vector' = SubSeq(vector, 1, n - 1)
      /\ inHand' = inHand \cup (gone \cap OwnedObjects) /\ living' = living /\ owned' = owned
  BY DEF VectorPopBack, Objects
<1>3. n > 0 /\ n \in 1 .. n
  BY <1>1, <1>2, EmptySeq
<1>4. \A i \in 1 .. n : vector[i] \in VectorItems
  BY <1>1, ElementOfSeq
<1>5. /\ vector' \in Seq(VectorItems) /\ Len(vector') = n - 1
      /\ \A i \in 1 .. (n - 1) : vector'[i] = vector[i]
  <2> DEFINE q == SubSeq(vector, 1, n - 1)
  <2>1. n - 1 \in 0 .. Len(vector)
    BY <1>1, <1>3
  <2>2. /\ q \in Seq(VectorItems) /\ Len(q) = n - 1
        /\ \A i \in 1 .. (n - 1) : q[i] = vector[i]
    BY <1>1, <2>1, FirstItems
  <2>3. vector' = q
    BY <1>2
  <2> HIDE DEF q
  <2> QED
    BY <2>2, <2>3
<1>6. \A i, j \in 1 .. n : vector[i] = vector[j] /\ vector[i] \in OwnedObjects => i = j
  BY DEF OwningInv, OwnerInv
<1>7. ASSUME NEW i \in 1 .. Len(vector'), NEW j \in 1 .. Len(vector'),
             vector'[i] = vector'[j], vector'[i] \in OwnedObjects
      PROVE  i = j
  BY <1>1, <1>5, <1>6, <1>7
<1>8. \A x \in OwnedObjects : InVector(x)' <=> InVector(x) /\ x \notin gone
  <2> DEFINE v == vector'
  <2>1. Len(v) = n - 1 /\ \A i \in 1 .. (n - 1) : v[i] = vector[i]
    BY <1>5
  <2> HIDE DEF v
  <2>2. ASSUME NEW x \in OwnedObjects
        PROVE  (\E i \in 1 .. Len(v) : v[i] = x) <=> (\E i \in 1 .. n : vector[i] = x) /\ x # vector[n]
    <3>1. ASSUME NEW i \in 1 .. Len(v), v[i] = x
          PROVE  i \in 1 .. n /\ vector[i] = x /\ i # n
      BY <1>1, <2>1, <3>1
    <3>2. ASSUME NEW i \in 1 .. n, vector[i] = x, x # vector[n]
          PROVE  i \in 1 .. Len(v) /\ v[i] = x
      BY <1>1, <2>1, <3>2
    <3>3. \A i \in 1 .. n : vector[i] = x /\ x = vector[n] => i = n
      BY <1>3, <1>6
    <3> QED
      BY <3>1, <3>2, <3>3
  <2> QED
    BY <2>2 DEF InVector, v
<1> DEFINE come == {}
<1>9. /\ come \subseteq inHand /\ inHand' = (inHand \ come) \cup (gone \cap OwnedObjects)
      /\ \A x \in OwnedObjects : InVector(x)' <=> (InVector(x) /\ x \notin gone) \/ x \in come
  BY <1>2, <1>8
<1>10. Len(vector') <= MaxVectorSize /\ \A x \in OwnedObjects : x \in gone => InVector(x)
  BY <1>1, <1>3, <1>5 DEF InVector
<1> HIDE DEF gone, come
<1> QED
  BY <1>2, <1>5, <1>7, <1>9, <1>10, VectorStepKeepsOwners

\* Erase deletes one item and closes the gap.
LEMMA EraseKeepsOwners ==
    ASSUME OwningInv, NEW slot \in 1 .. MaxVectorSize, VectorErase(slot)
    PROVE  OwningInv'
<1> DEFINE n == Len(vector)
           gone == {vector[slot]}
<1>1. /\ NullPtr \notin OwnedObjects /\ n \in Nat /\ vector \in Seq(VectorItems)
      /\ MaxVectorSize \in Nat /\ n <= MaxVectorSize /\ DOMAIN vector = 1 .. n
  BY OwningTypes DEF OwningInv
<1>2. /\ slot \in 1 .. n
      /\ vector' = SubSeq(vector, 1, slot - 1) \o SubSeq(vector, slot + 1, Len(vector))
      /\ living' = living \ gone /\ inHand' = inHand /\ owned' = owned
  BY <1>1 DEF VectorErase, DeleteAll
<1>3. /\ vector' \in Seq(VectorItems) /\ Len(vector') = n - 1
      /\ \A j \in 1 .. (n - 1) : vector'[j] = IF j < slot THEN vector[j] ELSE vector[j + 1]
  <2> DEFINE q == Erased(vector, slot)
  <2>1. vector' = q
    BY <1>2 DEF Erased
  <2>3. /\ q \in Seq(VectorItems) /\ Len(q) = n - 1
        /\ \A j \in 1 .. (n - 1) : q[j] = IF j < slot THEN vector[j] ELSE vector[j + 1]
    <3>1. vector \in Seq(VectorItems) /\ slot \in 1 .. Len(vector)
      BY <1>1, <1>2
    <3>2. IsErased(VectorItems, vector, slot, q)
      BY <3>1, EraseAt, Zenon
    <3> QED
      BY <3>2, <1>2 DEF IsErased
  <2> QED
    BY <2>1, <2>3
<1>4. \A i, j \in 1 .. n : vector[i] = vector[j] /\ vector[i] \in OwnedObjects => i = j
  BY DEF OwningInv, OwnerInv
<1>5. \A x \in OwnedObjects : x \in gone => InVector(x)
  BY <1>2 DEF InVector
<1> DEFINE v == vector'
<1>6. /\ Len(v) = n - 1
      /\ \A j \in 1 .. (n - 1) : v[j] = IF j < slot THEN vector[j] ELSE vector[j + 1]
  BY <1>3
<1>7. n \in Nat /\ slot \in 1 .. n
  BY <1>1, <1>2
<1> HIDE DEF v, n
<1>8. \A i \in 1 .. Len(v) : \E l \in 1 .. n :
          l # slot /\ v[i] = vector[l] /\ l = IF i < slot THEN i ELSE i + 1
  <2> TAKE i \in 1 .. Len(v)
  <2>1. CASE i < slot
    <3>1. i \in 1 .. n /\ i # slot /\ v[i] = vector[i]
      BY <1>6, <1>7, <2>1
    <3> QED
      BY <2>1, <3>1
  <2>2. CASE ~(i < slot)
    <3>1. i + 1 \in 1 .. n /\ i + 1 # slot /\ v[i] = vector[i + 1]
      BY <1>6, <1>7, <2>2
    <3> QED
      BY <2>2, <3>1
  <2> QED
    BY <2>1, <2>2
<1>9. \A l \in 1 .. n : l # slot => \E i \in 1 .. Len(v) : v[i] = vector[l]
  <2> TAKE l \in 1 .. n
  <2>1. CASE l < slot
    <3>1. l \in 1 .. (n - 1) /\ v[l] = vector[l]
      BY <1>6, <1>7, <2>1
    <3> QED
      BY <1>6, <3>1
  <2>2. CASE l > slot
    <3>1. l - 1 \in 1 .. (n - 1) /\ ~(l - 1 < slot) /\ (l - 1) + 1 = l
      BY <1>7, <2>2
    <3>2. v[l - 1] = vector[l]
      BY <1>6, <3>1
    <3> QED
      BY <1>6, <3>1, <3>2
  <2> QED
    BY <1>7, <2>1, <2>2
<1>10. \A i, j \in 1 .. Len(v) : v[i] = v[j] /\ v[i] \in OwnedObjects => i = j
  <2> TAKE i, j \in 1 .. Len(v)
  <2>1. PICK a \in 1 .. n : a # slot /\ v[i] = vector[a] /\ a = IF i < slot THEN i ELSE i + 1
    BY <1>8
  <2>2. PICK b \in 1 .. n : b # slot /\ v[j] = vector[b] /\ b = IF j < slot THEN j ELSE j + 1
    BY <1>8
  <2> HAVE v[i] = v[j] /\ v[i] \in OwnedObjects
  <2>3. a = b
    BY <1>4, <2>1, <2>2
  <2> QED
    BY <1>6, <1>7, <2>1, <2>2, <2>3
<1>11. \A x \in OwnedObjects :
          (\E i \in 1 .. Len(v) : v[i] = x) <=> (\E i \in 1 .. n : vector[i] = x) /\ x # vector[slot]
  <2> TAKE x \in OwnedObjects
  <2>1. \A l \in 1 .. n : vector[l] = x /\ x = vector[slot] => l = slot
    BY <1>4, <1>7
  <2>2. ASSUME NEW i \in 1 .. Len(v), v[i] = x
        PROVE  \E l \in 1 .. n : vector[l] = x /\ l # slot
    BY <1>8, <2>2
  <2>3. ASSUME NEW l \in 1 .. n, vector[l] = x, x # vector[slot]
        PROVE  \E i \in 1 .. Len(v) : v[i] = x
    BY <1>9, <2>3
  <2> QED
    BY <2>1, <2>2, <2>3
<1> DEFINE come == {}
<1>12. /\ come \subseteq inHand /\ inHand' = inHand \ come
       /\ \A x \in OwnedObjects : InVector(x)' <=> (InVector(x) /\ x \notin gone) \/ x \in come
  BY <1>2, <1>11 DEF InVector, v, n
<1>13. Len(vector') <= MaxVectorSize
  BY <1>1, <1>3 DEF n
<1> HIDE DEF gone, come
<1> QED
  BY <1>2, <1>3, <1>5, <1>10, <1>12, <1>13, VectorStepKeepsOwners DEF v

\* A vector filled up with null pointers, or cut off.
LEMMA PaddedItems ==
    ASSUME OwningTypeOK, NEW m \in Nat
    PROVE  /\ Padded(m) \in Seq(VectorItems) /\ Len(Padded(m)) = m
           /\ \A i \in 1 .. m : Padded(m)[i] = IF i <= Len(vector) THEN vector[i] ELSE NullPtr
<1>1. Len(vector) \in Nat /\ \A i \in 1 .. Len(vector) : vector[i] \in VectorItems
  BY OwningTypes DEF VectorItems
<1>2. NullPtr \in VectorItems
  BY DEF VectorItems
<1>3. Padded(m) \in [1 .. m -> VectorItems]
  BY <1>1, <1>2 DEF Padded
<1>4. Padded(m) \in Seq(VectorItems) /\ Len(Padded(m)) = m
  BY <1>3
<1> QED
  BY <1>4 DEF Padded

\* Set deletes the item it replaces, if there is one.
LEMMA SetKeepsOwners ==
    ASSUME OwningInv, NEW slot \in 1 .. MaxVectorSize, NEW o \in OwnedObjects,
           VectorSet(slot, o)
    PROVE  OwningInv'
<1> DEFINE n == Len(vector)
           m == IF slot > n THEN slot ELSE n
           gone == Replaced(slot)
           come == {o}
           v == [Padded(m) EXCEPT ![slot] = o]
<1>1. /\ OwningTypeOK /\ NullPtr \notin OwnedObjects /\ n \in Nat
      /\ MaxVectorSize \in Nat /\ n <= MaxVectorSize
  BY OwningTypes DEF OwningInv
<1>2. /\ o \in inHand /\ inHand' = inHand \ come /\ living' = living \ gone
      /\ vector' = v /\ owned' = owned
  BY DEF VectorSet, DeleteAll
<1>3. m \in Nat /\ slot \in 1 .. m /\ n <= m /\ m <= MaxVectorSize
  BY <1>1
<1>4. gone = IF slot <= n THEN {vector[slot]} ELSE {}
  BY DEF Replaced
<1> HIDE DEF n, m, gone
<1>5. /\ Padded(m) \in Seq(VectorItems) /\ Len(Padded(m)) = m
      /\ \A i \in 1 .. m : Padded(m)[i] = IF i <= n THEN vector[i] ELSE NullPtr
  BY <1>1, <1>3, PaddedItems DEF n
<1>6. /\ v \in Seq(VectorItems) /\ Len(v) = m /\ v[slot] = o
      /\ \A i \in 1 .. m : i # slot => v[i] = IF i <= n THEN vector[i] ELSE NullPtr
  <2>1. o \in VectorItems
    BY DEF VectorItems
  <2> DEFINE w == Padded(m)
  <2>2. w \in Seq(VectorItems) /\ Len(w) = m /\ slot \in 1 .. Len(w)
    BY <1>3, <1>5
  <2> HIDE DEF w
  <2>3. /\ [w EXCEPT ![slot] = o] \in Seq(VectorItems) /\ Len([w EXCEPT ![slot] = o]) = m
        /\ [w EXCEPT ![slot] = o][slot] = o
        /\ \A i \in 1 .. m : i # slot => [w EXCEPT ![slot] = o][i] = w[i]
    BY <2>1, <2>2, ExceptSeq
  <2> QED
    BY <1>5, <2>3 DEF w
<1> HIDE DEF v
<1>7. ~InVector(o)
  BY <1>2 DEF OwningInv, OwnerInv
<1>8. \A i, j \in 1 .. n : vector[i] = vector[j] /\ vector[i] \in OwnedObjects => i = j
  BY DEF OwningInv, OwnerInv, n
<1>9. \A l \in 1 .. n : vector[l] # o
  BY <1>7 DEF InVector, n
<1>10. \A i \in 1 .. m : v[i] \in OwnedObjects /\ i # slot => i \in 1 .. n /\ v[i] = vector[i] /\ v[i] # o
  BY <1>1, <1>3, <1>6, <1>9
<1>11. \A i, j \in 1 .. Len(v) : v[i] = v[j] /\ v[i] \in OwnedObjects => i = j
  BY <1>6, <1>8, <1>10
<1>12. ASSUME NEW x \in OwnedObjects
       PROVE  (\E i \in 1 .. Len(v) : v[i] = x) <=>
                  ((\E i \in 1 .. n : vector[i] = x) /\ x \notin gone) \/ x = o
  <2>1. ASSUME NEW i \in 1 .. m, v[i] = x, i # slot
        PROVE  i \in 1 .. n /\ vector[i] = x /\ x \notin gone
    <3>1. i \in 1 .. n /\ vector[i] = x
      BY <1>10, <2>1
    <3>2. slot <= n => slot \in 1 .. n /\ vector[slot] # x
      BY <1>1, <1>3, <1>8, <2>1, <3>1
    <3> QED
      BY <1>4, <3>1, <3>2
  <2>2. ASSUME NEW i \in 1 .. n, vector[i] = x, x \notin gone
        PROVE  i \in 1 .. m /\ v[i] = x
    <3>1. i # slot
      BY <1>1, <1>4, <2>2
    <3> QED
      BY <1>1, <1>3, <1>6, <2>2, <3>1
  <2> QED
    BY <1>3, <1>6, <2>1, <2>2
<1>13. \A x \in OwnedObjects : InVector(x)' <=> (InVector(x) /\ x \notin gone) \/ x \in come
  BY <1>2, <1>12 DEF InVector, n
<1>14. \A x \in OwnedObjects : x \in gone => InVector(x)
  BY <1>1, <1>4 DEF InVector, n
<1>15. /\ come \subseteq inHand /\ vector' \in Seq(VectorItems) /\ Len(vector') <= MaxVectorSize
       /\ \A i, j \in 1 .. Len(vector') :
              vector'[i] = vector'[j] /\ vector'[i] \in OwnedObjects => i = j
  BY <1>2, <1>3, <1>6, <1>11
<1> HIDE DEF come
<1> QED
  BY <1>2, <1>13, <1>14, <1>15, VectorStepKeepsOwners

\* Resize deletes what it cuts off.
LEMMA ResizeKeepsOwners ==
    ASSUME OwningInv, NEW m \in 0 .. MaxVectorSize, VectorResize(m)
    PROVE  OwningInv'
<1> DEFINE n == Len(vector)
           gone == {vector[i] : i \in {j \in DOMAIN vector : j > m}}
           come == {}
           v == Padded(m)
<1>1. /\ OwningTypeOK /\ NullPtr \notin OwnedObjects /\ n \in Nat
      /\ MaxVectorSize \in Nat /\ DOMAIN vector = 1 .. n
  BY OwningTypes DEF OwningInv
<1>2. inHand' = inHand /\ living' = living \ gone /\ vector' = v /\ owned' = owned
  BY DEF VectorResize, DeleteAll
<1>3. m \in Nat /\ m <= MaxVectorSize
  BY <1>1
<1>4. /\ v \in Seq(VectorItems) /\ Len(v) = m
      /\ \A i \in 1 .. m : v[i] = IF i <= n THEN vector[i] ELSE NullPtr
  BY <1>1, <1>3, PaddedItems
<1>5. gone = {vector[i] : i \in {j \in 1 .. n : j > m}}
  BY <1>1
<1> HIDE DEF n, v, gone
<1>6. \A i, j \in 1 .. n : vector[i] = vector[j] /\ vector[i] \in OwnedObjects => i = j
  BY DEF OwningInv, OwnerInv, n
<1>7. \A i \in 1 .. m : v[i] \in OwnedObjects => i \in 1 .. n /\ v[i] = vector[i]
  BY <1>1, <1>3, <1>4
<1>8. \A i, j \in 1 .. Len(v) : v[i] = v[j] /\ v[i] \in OwnedObjects => i = j
  BY <1>4, <1>6, <1>7
<1>9. ASSUME NEW x \in OwnedObjects
      PROVE  (\E i \in 1 .. Len(v) : v[i] = x) <=> (\E i \in 1 .. n : vector[i] = x) /\ x \notin gone
  <2>1. ASSUME NEW i \in 1 .. m, v[i] = x
        PROVE  i \in 1 .. n /\ vector[i] = x /\ x \notin gone
    <3>1. i \in 1 .. n /\ vector[i] = x
      BY <1>7, <2>1
    <3>2. \A j \in 1 .. n : vector[j] = x => j = i
      BY <1>6, <3>1
    <3> QED
      BY <1>3, <1>5, <3>1, <3>2
  <2>2. ASSUME NEW i \in 1 .. n, vector[i] = x, x \notin gone
        PROVE  i \in 1 .. m /\ v[i] = x
    <3>1. ~(i > m)
      BY <1>5, <2>2
    <3>2. i \in 1 .. m /\ i <= n
      BY <1>1, <1>3, <3>1
    <3> QED
      BY <1>4, <2>2, <3>2
  <2> QED
    BY <1>4, <2>1, <2>2
<1>10. \A x \in OwnedObjects : InVector(x)' <=> (InVector(x) /\ x \notin gone) \/ x \in come
  BY <1>2, <1>9 DEF InVector, n
<1>11. \A x \in OwnedObjects : x \in gone => InVector(x)
  BY <1>5 DEF InVector, n
<1>12. /\ come \subseteq inHand /\ inHand' = inHand \ come
       /\ vector' \in Seq(VectorItems) /\ Len(vector') <= MaxVectorSize
       /\ \A i, j \in 1 .. Len(vector') :
              vector'[i] = vector'[j] /\ vector'[i] \in OwnedObjects => i = j
  BY <1>2, <1>3, <1>4, <1>8
<1> HIDE DEF come
<1> QED
  BY <1>2, <1>10, <1>11, <1>12, VectorStepKeepsOwners

\* Clear deletes every item.
LEMMA ClearKeepsOwners ==
    ASSUME OwningInv, VectorClear
    PROVE  OwningInv'
<1> DEFINE gone == {vector[i] : i \in DOMAIN vector}
           come == {}
<1>1. /\ MaxVectorSize \in Nat /\ DOMAIN vector = 1 .. Len(vector)
  BY OwningTypes DEF OwningInv
<1>2. inHand' = inHand /\ living' = living \ gone /\ vector' = << >> /\ owned' = owned
  BY DEF VectorClear, DeleteAll
<1>3. vector' \in Seq(VectorItems) /\ Len(vector') = 0
  BY <1>2
<1>4. \A x : InVector(x) <=> x \in gone
  BY <1>1 DEF InVector
<1>5. \A x : ~InVector(x)'
  BY <1>3 DEF InVector
<1> HIDE DEF gone
<1>6. /\ come \subseteq inHand /\ inHand' = inHand \ come
      /\ \A x \in OwnedObjects : InVector(x)' <=> (InVector(x) /\ x \notin gone) \/ x \in come
      /\ \A x \in OwnedObjects : x \in gone => InVector(x)
  BY <1>2, <1>4, <1>5
<1>7. /\ Len(vector') <= MaxVectorSize
      /\ \A i, j \in 1 .. Len(vector') :
              vector'[i] = vector'[j] /\ vector'[i] \in OwnedObjects => i = j
  BY <1>1, <1>3
<1> HIDE DEF come
<1> QED
  BY <1>2, <1>3, <1>6, <1>7, VectorStepKeepsOwners

\* Sort only exchanges the items.
LEMMA SortKeepsOwners ==
    ASSUME OwningInv, VectorSort
    PROVE  OwningInv'
<1> DEFINE n == Len(vector)
           gone == {}
           come == {}
<1>1. /\ n \in Nat /\ n <= MaxVectorSize /\ DOMAIN vector = 1 .. n
      /\ \A i \in 1 .. n : vector[i] \in VectorItems
  BY OwningTypes DEF OwningInv, VectorItems
<1>2. PICK f \in Bijection(1 .. n, 1 .. n) : vector' = [i \in 1 .. n |-> vector[f[i]]]
  BY <1>1 DEF VectorSort
<1> DEFINE v == [i \in 1 .. n |-> vector[f[i]]]
<1>3. inHand' = inHand /\ living' = living /\ owned' = owned /\ vector' = v
  BY <1>2 DEF VectorSort
<1>4. /\ \A i \in 1 .. n : f[i] \in 1 .. n
      /\ \A i, j \in 1 .. n : f[i] = f[j] => i = j
      /\ \A l \in 1 .. n : \E i \in 1 .. n : f[i] = l
  BY DEF Bijection, Injection, Surjection, IsInjective
<1>5. v \in [1 .. n -> VectorItems] /\ \A i \in 1 .. n : v[i] = vector[f[i]]
  BY <1>1, <1>4
<1>6. v \in Seq(VectorItems) /\ Len(v) = n
  BY <1>1, <1>5
<1>7. \A i, j \in 1 .. n : vector[i] = vector[j] /\ vector[i] \in OwnedObjects => i = j
  BY DEF OwningInv, OwnerInv
<1> HIDE DEF v
<1>8. \A i, j \in 1 .. Len(v) : v[i] = v[j] /\ v[i] \in OwnedObjects => i = j
  <2> TAKE i, j \in 1 .. Len(v)
  <2>1. i \in 1 .. n /\ j \in 1 .. n /\ f[i] \in 1 .. n /\ f[j] \in 1 .. n
    BY <1>4, <1>6
  <2>2. v[i] = vector[f[i]] /\ v[j] = vector[f[j]]
    BY <1>5, <2>1
  <2> HAVE v[i] = v[j] /\ v[i] \in OwnedObjects
  <2>3. f[i] = f[j]
    BY <1>7, <2>1, <2>2
  <2> QED
    BY <1>4, <2>1, <2>3
<1>9. \A x : (\E i \in 1 .. Len(v) : v[i] = x) <=> (\E i \in 1 .. n : vector[i] = x)
  <2> TAKE x
  <2>1. ASSUME NEW i \in 1 .. Len(v), v[i] = x
        PROVE  \E l \in 1 .. n : vector[l] = x
    <3>1. i \in 1 .. n /\ f[i] \in 1 .. n
      BY <1>4, <1>6
    <3>2. vector[f[i]] = x
      BY <1>5, <2>1, <3>1
    <3> QED
      BY <3>1, <3>2
  <2>2. ASSUME NEW l \in 1 .. n, vector[l] = x
        PROVE  \E i \in 1 .. Len(v) : v[i] = x
    <3>1. PICK i \in 1 .. n : f[i] = l
      BY <1>4
    <3>2. v[i] = x
      BY <1>5, <2>2, <3>1
    <3> QED
      BY <1>6, <3>1, <3>2
  <2> QED
    BY <2>1, <2>2
<1>10. /\ come \subseteq inHand /\ inHand' = inHand \ come /\ living' = living \ gone
       /\ \A x \in OwnedObjects : InVector(x)' <=> (InVector(x) /\ x \notin gone) \/ x \in come
       /\ \A x \in OwnedObjects : x \in gone => InVector(x)
  BY <1>3, <1>9 DEF InVector
<1>11. /\ vector' \in Seq(VectorItems) /\ Len(vector') <= MaxVectorSize
       /\ \A i, j \in 1 .. Len(vector') :
              vector'[i] = vector'[j] /\ vector'[i] \in OwnedObjects => i = j
  BY <1>1, <1>3, <1>6, <1>8
<1> HIDE DEF gone, come
<1> QED
  BY <1>3, <1>10, <1>11, VectorStepKeepsOwners

\* At the start nothing exists.
LEMMA InitOwningInv ==
    ASSUME OwningInit
    PROVE  OwningInv
<1>1. /\ NullPtr \notin OwnedObjects /\ NoItem \notin OwnedObjects /\ MaxVectorSize \in Nat
  BY OwningAssumption
<1>2. /\ living = {} /\ inHand = {} /\ vector = << >> /\ owned = [k \in OwnedKeys |-> NoItem]
      /\ Len(vector) = 0
  BY DEF OwningInit
<1>3. OwningTypeOK
  BY <1>1, <1>2 DEF OwningTypeOK
<1>4. OwnerInv
  BY <1>1, <1>2 DEF OwnerInv, InVector, InMap
<1> QED
  BY <1>3, <1>4 DEF OwningInv

\* Every operation of the containers preserves the invariant.
LEMMA NextOwningInv ==
    ASSUME OwningInv, [OwningNext]_ownVars
    PROVE  OwningInv'
<1>1. ASSUME NEW o \in OwnedObjects, NewObject(o) \/ DropObject(o)
      PROVE  OwningInv'
  BY <1>1, MapStepsKeepOwners DEF NewObject, DropObject
<1>2. ASSUME NEW o \in OwnedObjects, VectorPushBack(o)
      PROVE  OwningInv'
  BY <1>2, PushBackKeepsOwners
<1>3. ASSUME NEW o \in OwnedObjects, NEW slot \in 1 .. MaxVectorSize, VectorSet(slot, o)
      PROVE  OwningInv'
  BY <1>3, SetKeepsOwners
<1>4. ASSUME NEW o \in OwnedObjects, NEW k \in OwnedKeys, MapSet(k, o) \/ MapFindOrCreate(k, o)
      PROVE  OwningInv'
  <2>1. vector' = vector
    BY <1>4 DEF MapSet, MapFindOrCreate
  <2> QED
    BY <1>4, <2>1, MapStepsKeepOwners
<1>5. CASE VectorPopBack \/ VectorClear \/ VectorSort
  BY <1>5, PopBackKeepsOwners, ClearKeepsOwners, SortKeepsOwners
<1>6. CASE MapClear
  BY <1>6, MapStepsKeepOwners DEF MapClear
<1>7. ASSUME NEW slot \in 1 .. MaxVectorSize, VectorErase(slot)
      PROVE  OwningInv'
  BY <1>7, EraseKeepsOwners
<1>8. ASSUME NEW n \in 0 .. MaxVectorSize, VectorResize(n)
      PROVE  OwningInv'
  BY <1>8, ResizeKeepsOwners
<1>9. ASSUME NEW k \in OwnedKeys, MapErase(k) \/ MapReleaseValue(k)
      PROVE  OwningInv'
  <2>1. vector' = vector
    BY <1>9 DEF MapErase, MapReleaseValue
  <2> QED
    BY <1>9, <2>1, MapStepsKeepOwners
<1>10. CASE UNCHANGED ownVars
  <2>1. living' = living /\ inHand' = inHand /\ vector' = vector /\ owned' = owned
    BY <1>10 DEF ownVars
  <2> QED
    BY <2>1 DEF OwningInv, OwningTypeOK, OwnerInv, InVector, InMap
<1> QED
  BY <1>1, <1>2, <1>3, <1>4, <1>5, <1>6, <1>7, <1>8, <1>9, <1>10 DEF OwningNext

\* An object that is held at one place has one holder, and one that does not exist
\* has none.
LEMMA OwningInvIsSingle ==
    ASSUME OwningInv
    PROVE  OwnershipIsSingle
<1>1. OwningTypeOK /\ OwnerInv /\ DOMAIN vector = 1 .. Len(vector)
  BY OwningTypes DEF OwningInv
<1>2. ASSUME NEW o \in OwnedObjects
      PROVE  Cardinality(Holders(o)) = IF o \in living THEN 1 ELSE 0
  <2> DEFINE vs == {<<"vector", i>> : i \in {j \in DOMAIN vector : vector[j] = o}}
             ms == {<<"map", k>> : k \in {l \in OwnedKeys : owned[l] = o}}
             hs == IF o \in inHand THEN {<<"hand", 0>>} ELSE {}
  <2>1. Holders(o) = vs \cup ms \cup hs
    BY DEF Holders
  <2>2. vs = {} <=> ~InVector(o)
    BY <1>1 DEF InVector
  <2>3. ms = {} <=> ~InMap(o)
    BY DEF InMap
  <2>4. InVector(o) => \E i : vs = {<<"vector", i>>}
    <3> SUFFICES ASSUME InVector(o)
                 PROVE  \E i : vs = {<<"vector", i>>}
      OBVIOUS
    <3>1. PICK i \in 1 .. Len(vector) : vector[i] = o
      BY DEF InVector
    <3>2. \A j \in 1 .. Len(vector) : vector[j] = o => j = i
      BY <1>1, <3>1 DEF OwnerInv
    <3>3. {j \in DOMAIN vector : vector[j] = o} = {i}
      BY <1>1, <3>1, <3>2
    <3>4. vs = {<<"vector", i>>}
      BY <3>3
    <3> QED
      BY <3>4
  <2>5. InMap(o) => \E k : ms = {<<"map", k>>}
    <3> SUFFICES ASSUME InMap(o)
                 PROVE  \E k : ms = {<<"map", k>>}
      OBVIOUS
    <3>1. PICK k \in OwnedKeys : owned[k] = o
      BY DEF InMap
    <3>2. \A l \in OwnedKeys : owned[l] = o => l = k
      BY <1>1, <3>1 DEF OwnerInv
    <3>3. {l \in OwnedKeys : owned[l] = o} = {k}
      BY <3>1, <3>2
    <3>4. ms = {<<"map", k>>}
      BY <3>3
    <3> QED
      BY <3>4
  <2>6. hs = IF o \in inHand THEN {<<"hand", 0>>} ELSE {}
    OBVIOUS
  <2> HIDE DEF vs, ms, hs
  <2>7. CASE o \in living
    <3>1. \E x : vs \cup ms \cup hs = {x}
      <4>1. CASE o \in inHand
        <5>1. vs \cup ms \cup hs = {<<"hand", 0>>}
          BY <1>1, <2>2, <2>3, <2>6, <4>1 DEF OwnerInv
        <5> QED
          BY <5>1
      <4>2. CASE InVector(o)
        <5>1. vs \cup ms \cup hs = vs
          BY <1>1, <2>3, <2>6, <4>2 DEF OwnerInv
        <5> QED
          BY <2>4, <4>2, <5>1
      <4>3. CASE InMap(o)
        <5>1. vs \cup ms \cup hs = ms
          BY <1>1, <2>2, <2>6, <4>3 DEF OwnerInv
        <5> QED
          BY <2>5, <4>3, <5>1
      <4> QED
        BY <1>1, <2>7, <4>1, <4>2, <4>3 DEF OwnerInv
    <3> QED
      BY <2>1, <2>7, <3>1, FS_Singleton
  <2>8. CASE o \notin living
    <3>1. vs \cup ms \cup hs = {}
      BY <1>1, <2>2, <2>3, <2>6, <2>8 DEF OwnerInv
    <3> QED
      BY <2>1, <2>8, <3>1, FS_EmptySet
  <2> QED
    BY <2>7, <2>8
<1> QED
  BY <1>1, <1>2 DEF OwnershipIsSingle, OneOwnerEach

\* For any objects, keys and size of the vector, and any sequence of operations of a
\* program that uses a vector, a map and shared pointers: an object exists as long
\* as it has an owner, and is deleted once.
THEOREM OwnershipCorrect == OwnershipSpec => []ObjectsAreDeletedOnce
<1> DEFINE IInv == SharedInv /\ OwningInv
<1>1. OwnershipInit => IInv
  BY InitSharedInv, InitOwningInv DEF OwnershipInit
<1>2. IInv /\ [OwnershipNext]_ownershipVars => IInv'
  <2>1. [OwnershipNext]_ownershipVars => [SharedNext]_sharedVars /\ [OwningNext]_ownVars
    BY DEF OwnershipNext, ownershipVars
  <2> QED
    BY <2>1, NextSharedInv, NextOwningInv
<1>3. IInv => ObjectsAreDeletedOnce
  BY SharedInvCounts, OwningInvIsSingle DEF ObjectsAreDeletedOnce
<1> QED
  BY <1>1, <1>2, <1>3, PTL DEF OwnershipSpec

-----------------------------------------------------------------------------
(***************************************************************************)
(* Heap.  The heap functions only rearrange what they are given, so what    *)
(* matters of a sequence of items is how many are at most v.                *)
(***************************************************************************)

\* A heap's items and flag, and the limited heap's with what it was given.
HeapTypes ==
    /\ heap \in [items : Seq(HeapValues), heapified : BOOLEAN]
    /\ limited \in [capacity : HeapCapacities, items : Seq(HeapValues)]
    /\ pushed \in Seq(HeapValues)
    /\ popped \in BOOLEAN

\* The inductive invariant: types, the limit, and the property itself.
HeapInv ==
    /\ HeapTypes
    /\ Len(limited.items) <= limited.capacity
    /\ HeapsAreOrdered

\* A set of numbers that is not empty has a least one.
LEMMA LeastNumber ==
    ASSUME NEW T \in SUBSET Nat, T # {}
    PROVE  \E x \in T : \A y \in T : x <= y
<1>1. PICK x \in T : \A y \in T : ~ (<<y, x>> \in OpToRel(<, Nat))
  BY NatLessThanWellFounded, WFMin, Zenon
<1>2. \A y \in T : ~ (y < x)
  BY <1>1 DEF OpToRel
<1> QED
  BY <1>2

\* Top(): the front of a heap is its greatest item.
LEMMA FrontIsGreatest ==
    ASSUME NEW s \in Seq(HeapValues), IsHeapOrdered(s)
    PROVE  \A i \in 1 .. Len(s) : s[i] <= s[1]
<1>0. Len(s) \in Nat /\ \A j \in 1 .. Len(s) : s[j] \in Int
  <2>1. Len(s) \in Nat /\ \A j \in 1 .. Len(s) : s[j] \in HeapValues
    BY LenProperties, ElementOfSeq
  <2>2. \A x \in HeapValues : x \in Int
    BY HeapAssumption
  <2> QED
    BY <2>1, <2>2, Zenon
<1>1. SUFFICES ASSUME ~ \A i \in 1 .. Len(s) : s[i] <= s[1] PROVE FALSE
  OBVIOUS
<1> DEFINE T == {i \in 1 .. Len(s) : ~ (s[i] <= s[1])}
<1>2. T \in SUBSET Nat /\ T # {}
  BY <1>1
<1>3. PICK i \in T : \A j \in T : i <= j
  BY <1>2, LeastNumber
<1>4. i \in 1 .. Len(s) /\ ~ (s[i] <= s[1])
  OBVIOUS
<1>5. i >= 2
  BY <1>0, <1>4
<1>6. (i \div 2) \in 1 .. Len(s) /\ i \div 2 < i
  BY <1>0, <1>4, <1>5
<1>7. i \div 2 \notin T
  BY <1>0, <1>3, <1>4, <1>6
<1>8. s[i \div 2] <= s[1]
  BY <1>6, <1>7
<1>9. s[i] <= s[i \div 2]
  BY <1>0, <1>4, <1>5 DEF IsHeapOrdered
<1> QED
  BY <1>0, <1>4, <1>5, <1>6, <1>8, <1>9

\* The positions CountUpTo counts.
UpTo(s, v) == {i \in 1 .. Len(s) : s[i] <= v}

\* It counts no more than there are items.
LEMMA CountIsBounded ==
    ASSUME NEW s \in Seq(HeapValues), NEW v \in Int
    PROVE  /\ IsFiniteSet(UpTo(s, v))
           /\ CountUpTo(s, v) = Cardinality(UpTo(s, v))
           /\ CountUpTo(s, v) \in 0 .. Len(s)
           /\ (\A i \in 1 .. Len(s) : s[i] <= v) => CountUpTo(s, v) = Len(s)
<1>1. Len(s) \in Nat /\ DOMAIN s = 1 .. Len(s)
  OBVIOUS
<1>2. IsFiniteSet(1 .. Len(s)) /\ Cardinality(1 .. Len(s)) = Len(s)
  BY <1>1, FS_Interval
<1>3. UpTo(s, v) \in SUBSET (1 .. Len(s))
  BY DEF UpTo
<1>4. IsFiniteSet(UpTo(s, v)) /\ Cardinality(UpTo(s, v)) <= Len(s)
  BY <1>2, <1>3, FS_Subset
<1>5. Cardinality(UpTo(s, v)) \in Nat
  BY <1>4, FS_CardinalityType
<1>6. CountUpTo(s, v) = Cardinality(UpTo(s, v))
  BY <1>1 DEF CountUpTo, UpTo
<1>7. (\A i \in 1 .. Len(s) : s[i] <= v) => UpTo(s, v) = 1 .. Len(s)
  BY DEF UpTo
<1> QED
  BY <1>1, <1>2, <1>4, <1>5, <1>6, <1>7

\* A bijection shows that as many are counted.
LEMMA CountedAlike ==
    ASSUME NEW s \in Seq(HeapValues), NEW t \in Seq(HeapValues), NEW v \in Int, NEW f,
           f \in Bijection(UpTo(s, v), UpTo(t, v))
    PROVE  CountUpTo(s, v) = CountUpTo(t, v)
<1>1. ExistsBijection(UpTo(s, v), UpTo(t, v))
  BY DEF ExistsBijection
<1> QED
  BY <1>1, FS_Bijection, CountIsBounded

\* Append adds the new item to the count.
LEMMA CountOfAppend ==
    ASSUME NEW s \in Seq(HeapValues), NEW x \in HeapValues, NEW v \in Int
    PROVE  CountUpTo(Append(s, x), v) = CountUpTo(s, v) + (IF x <= v THEN 1 ELSE 0)
<1> DEFINE t == Append(s, x)
<1>1. /\ t \in Seq(HeapValues) /\ Len(t) = Len(s) + 1 /\ t[Len(s) + 1] = x
      /\ \A i \in 1 .. Len(s) : t[i] = s[i]
      /\ Len(s) \in Nat
  BY AppendProperties
<1> HIDE DEF t
<1>2. UpTo(t, v) = IF x <= v THEN UpTo(s, v) \cup {Len(s) + 1} ELSE UpTo(s, v)
  BY <1>1 DEF UpTo
<1>3. Len(s) + 1 \notin UpTo(s, v)
  BY <1>1 DEF UpTo
<1>4. /\ IsFiniteSet(UpTo(s, v)) /\ CountUpTo(s, v) = Cardinality(UpTo(s, v))
      /\ CountUpTo(s, v) \in Nat
  BY CountIsBounded
<1>5. CountUpTo(t, v) = Cardinality(UpTo(t, v))
  BY <1>1, CountIsBounded
<1>6. Cardinality(UpTo(s, v) \cup {Len(s) + 1}) = Cardinality(UpTo(s, v)) + 1
  BY <1>3, <1>4, FS_AddElement
<1>7. CountUpTo(t, v) = CountUpTo(s, v) + (IF x <= v THEN 1 ELSE 0)
  BY <1>2, <1>4, <1>5, <1>6
<1> QED
  BY <1>7 DEF t

\* Without the front item it is not counted.
LEMMA CountOfTail ==
    ASSUME NEW s \in Seq(HeapValues), s # << >>, NEW v \in Int
    PROVE  CountUpTo(s, v) = CountUpTo(Tail(s), v) + (IF s[1] <= v THEN 1 ELSE 0)
<1> DEFINE t == Tail(s)
           T == {i \in 2 .. Len(s) : s[i] <= v}
           f == [i \in T |-> i - 1]
<1>1. /\ t \in Seq(HeapValues) /\ Len(t) = Len(s) - 1
      /\ \A i \in 1 .. Len(t) : t[i] = s[i + 1]
      /\ Len(s) \in Nat /\ Len(s) >= 1
  BY HeadTailProperties
<1> HIDE DEF t
<1>2. f \in Bijection(T, UpTo(t, v))
  <2>1. f \in [T -> UpTo(t, v)]
    BY <1>1 DEF UpTo
  <2>2. \A a, b \in T : f[a] = f[b] => a = b
    BY <1>1
  <2>3. \A j \in UpTo(t, v) : \E a \in T : f[a] = j
    <3> TAKE j \in UpTo(t, v)
    <3>1. j + 1 \in T /\ f[j + 1] = j
      BY <1>1 DEF UpTo
    <3> QED
      BY <3>1
  <2> QED
    BY <2>1, <2>2, <2>3 DEF Bijection, Injection, Surjection, IsInjective
<1>3. IsFiniteSet(T) /\ 1 \notin T
  <2>1. IsFiniteSet(2 .. Len(s))
    BY <1>1, FS_Interval
  <2>2. T \in SUBSET (2 .. Len(s)) /\ 1 \notin T
    BY <1>1
  <2> QED
    BY <2>1, <2>2, FS_Subset
<1>4. Cardinality(T) = Cardinality(UpTo(t, v))
  BY <1>2, <1>3, FS_Bijection DEF ExistsBijection
<1>5. UpTo(s, v) = IF s[1] <= v THEN T \cup {1} ELSE T
  BY <1>1 DEF UpTo
<1> HIDE DEF T, f
<1>6. Cardinality(T \cup {1}) = Cardinality(T) + 1
  BY <1>3, FS_AddElement
<1>7. /\ CountUpTo(s, v) = Cardinality(UpTo(s, v)) /\ CountUpTo(t, v) = Cardinality(UpTo(t, v))
      /\ CountUpTo(t, v) \in 0 .. Len(t)
  BY <1>1, CountIsBounded
<1>8. CountUpTo(s, v) = CountUpTo(t, v) + (IF s[1] <= v THEN 1 ELSE 0)
  BY <1>4, <1>5, <1>6, <1>7
<1> QED
  BY <1>8 DEF t

\* An arrangement has the same items, so it counts alike.
LEMMA CountOfArrangement ==
    ASSUME NEW s \in Seq(HeapValues), NEW t \in Arrangements(s)
    PROVE  /\ t \in Seq(HeapValues)
           /\ Len(t) = Len(s)
           /\ \A v \in Int : CountUpTo(t, v) = CountUpTo(s, v)
<1>1. PICK f \in Bijection(DOMAIN s, DOMAIN s) : t = [i \in DOMAIN s |-> s[f[i]]]
  BY DEF Arrangements
<1>2. /\ f \in [1 .. Len(s) -> 1 .. Len(s)]
      /\ \A a, b \in 1 .. Len(s) : f[a] = f[b] => a = b
      /\ \A b \in 1 .. Len(s) : \E a \in 1 .. Len(s) : f[a] = b
  <2>1. DOMAIN s = 1 .. Len(s)
    OBVIOUS
  <2>2. f \in Bijection(1 .. Len(s), 1 .. Len(s))
    BY <2>1, Zenon
  <2>3. f \in Injection(1 .. Len(s), 1 .. Len(s)) /\ f \in Surjection(1 .. Len(s), 1 .. Len(s))
    BY <2>2 DEF Bijection
  <2>4. f \in [1 .. Len(s) -> 1 .. Len(s)] /\ IsInjective(f)
    BY <2>3 DEF Injection
  <2>5. DOMAIN f = 1 .. Len(s)
    BY <2>4
  <2>6. \A a, b \in 1 .. Len(s) : f[a] = f[b] => a = b
    BY <2>4, <2>5 DEF IsInjective
  <2>7. \A b \in 1 .. Len(s) : \E a \in 1 .. Len(s) : f[a] = b
    BY <2>3 DEF Surjection
  <2> QED
    BY <2>4, <2>6, <2>7
<1>3. t \in [1 .. Len(s) -> HeapValues] /\ \A i \in 1 .. Len(s) : t[i] = s[f[i]]
  BY <1>1, <1>2
<1>4. Len(s) \in Nat /\ t \in Seq(HeapValues) /\ Len(t) = Len(s)
  BY <1>3
<1>5. ASSUME NEW v \in Int PROVE CountUpTo(t, v) = CountUpTo(s, v)
  <2> DEFINE g == [i \in UpTo(t, v) |-> f[i]]
  <2>1. g \in [UpTo(t, v) -> UpTo(s, v)]
    BY <1>2, <1>3, <1>4 DEF UpTo
  <2>2. \A a, b \in UpTo(t, v) : g[a] = g[b] => a = b
    BY <1>2, <1>4 DEF UpTo
  <2>3. \A b \in UpTo(s, v) : \E a \in UpTo(t, v) : g[a] = b
    <3> TAKE b \in UpTo(s, v)
    <3>1. PICK a \in 1 .. Len(s) : f[a] = b
      BY <1>2 DEF UpTo
    <3>2. a \in UpTo(t, v)
      BY <1>3, <1>4, <3>1 DEF UpTo
    <3> QED
      BY <3>1, <3>2
  <2>4. g \in Bijection(UpTo(t, v), UpTo(s, v))
    BY <2>1, <2>2, <2>3 DEF Bijection, Injection, Surjection, IsInjective
  <2> QED
    BY <1>4, <2>4, CountedAlike
<1> QED
  BY <1>4, <1>5

\* The contracts of the standard heap functions, where their requirements hold.
LEMMA MadeHeap ==
    ASSUME NEW s \in Seq(HeapValues), NEW t \in MakeHeap(s)
    PROVE  /\ t \in Seq(HeapValues) /\ Len(t) = Len(s) /\ IsHeapOrdered(t)
           /\ \A v \in Int : CountUpTo(t, v) = CountUpTo(s, v)
<1>1. t \in Arrangements(s) /\ IsHeapOrdered(t)
  BY DEF MakeHeap
<1> QED
  BY <1>1, CountOfArrangement

\* std::push_heap after a push_back to a heap.
LEMMA PushedHeap ==
    ASSUME NEW s \in Seq(HeapValues), IsHeapOrdered(s), NEW x \in HeapValues,
           NEW t \in PushHeap(Append(s, x))
    PROVE  /\ t \in Seq(HeapValues) /\ Len(t) = Len(s) + 1 /\ IsHeapOrdered(t)
           /\ \A v \in Int :
                 CountUpTo(t, v) = CountUpTo(s, v) + (IF x <= v THEN 1 ELSE 0)
<1> DEFINE a == Append(s, x)
<1>1. a \in Seq(HeapValues) /\ Len(a) = Len(s) + 1 /\ Len(s) \in Nat
  BY AppendProperties
<1>2. SubSeq(a, 1, Len(a) - 1) = s
  <2>1. Len(a) - 1 = Len(s)
    BY <1>1
  <2>2. SubSeq(Append(s, x), 1, Len(s)) = s
    OBVIOUS
  <2> QED
    BY <2>1, <2>2
<1>3. t \in MakeHeap(a)
  BY <1>2 DEF PushHeap
<1> HIDE DEF a
<1>4. /\ t \in Seq(HeapValues) /\ Len(t) = Len(a) /\ IsHeapOrdered(t)
      /\ \A v \in Int : CountUpTo(t, v) = CountUpTo(a, v)
  BY <1>1, <1>3, MadeHeap
<1>5. \A v \in Int : CountUpTo(a, v) = CountUpTo(s, v) + (IF x <= v THEN 1 ELSE 0)
  BY CountOfAppend DEF a
<1> QED
  BY <1>1, <1>4, <1>5

\* std::pop_heap and pop_back of a heap that is not empty.
LEMMA PoppedHeap ==
    ASSUME NEW s \in Seq(HeapValues), s # << >>, IsHeapOrdered(s), NEW t \in PopHeap(s)
    PROVE  /\ t \in Seq(HeapValues) /\ Len(t) = Len(s) - 1 /\ IsHeapOrdered(t)
           /\ \A v \in Int :
                 CountUpTo(s, v) = CountUpTo(t, v) + (IF s[1] <= v THEN 1 ELSE 0)
<1> DEFINE a == Tail(s)
<1>1. a \in Seq(HeapValues) /\ Len(a) = Len(s) - 1
  BY HeadTailProperties
<1>2. t \in MakeHeap(a)
  BY DEF PopHeap
<1> HIDE DEF a
<1>3. /\ t \in Seq(HeapValues) /\ Len(t) = Len(a) /\ IsHeapOrdered(t)
      /\ \A v \in Int : CountUpTo(t, v) = CountUpTo(a, v)
  BY <1>1, <1>2, MadeHeap
<1>4. \A v \in Int : CountUpTo(s, v) = CountUpTo(a, v) + (IF s[1] <= v THEN 1 ELSE 0)
  BY CountOfTail DEF a
<1> QED
  BY <1>1, <1>3, <1>4

\* New heaps are empty.
LEMMA HeapInvInit == HeapInit => HeapInv
<1> SUFFICES ASSUME HeapInit PROVE HeapInv
  OBVIOUS
<1>1. PICK capacity \in HeapCapacities : limited = [capacity |-> capacity, items |-> << >>]
  BY DEF HeapInit
<1>2. heap = [items |-> << >>, heapified |-> TRUE] /\ pushed = << >> /\ popped = FALSE
  BY DEF HeapInit
<1>3. << >> \in Seq(HeapValues) /\ Len(<< >>) = 0
  OBVIOUS
<1>4. HeapTypes
  BY <1>1, <1>2, <1>3 DEF HeapTypes
<1>5. capacity \in Nat
  BY HeapAssumption
<1>6. IsHeapOrdered(<< >>)
  BY <1>3 DEF IsHeapOrdered
<1>7. ASSUME NEW v \in HeapValues PROVE CountUpTo(<< >>, v) = 0
  <2>1. CountUpTo(<< >>, v) \in 0 .. Len(<< >>)
    BY <1>3, HeapAssumption, CountIsBounded
  <2> QED
    BY <1>3, <2>1
<1>8. HeapifiedIsHeap /\ Len(limited.items) <= limited.capacity
  BY <1>1, <1>2, <1>3, <1>5, <1>6 DEF HeapifiedIsHeap
<1>9. KeepsTheSmallest
  BY <1>1, <1>2, <1>5, <1>7 DEF KeepsTheSmallest
<1> QED
  BY <1>4, <1>8, <1>9 DEF HeapInv, HeapsAreOrdered

\* A step of the plain heap that leaves its flag true of its items.
LEMMA PlainStep ==
    ASSUME HeapInv, UNCHANGED <<limited, pushed, popped>>,
           heap' \in [items : Seq(HeapValues), heapified : BOOLEAN],
           heap'.heapified => IsHeapOrdered(heap'.items)
    PROVE  HeapInv'
<1>1. HeapTypes'
  BY DEF HeapInv, HeapTypes
<1>2. HeapifiedIsHeap' /\ (Len(limited.items) <= limited.capacity)'
  BY DEF HeapInv, HeapsAreOrdered, HeapifiedIsHeap
<1>3. KeepsTheSmallest'
  BY DEF HeapInv, HeapsAreOrdered, KeepsTheSmallest
<1> QED
  BY <1>1, <1>2, <1>3 DEF HeapInv, HeapsAreOrdered

\* Every operation of Heap preserves the invariant.
LEMMA PlainHeapStep ==
    ASSUME HeapInv, PlainHeapNext
    PROVE  HeapInv'
<1> DEFINE items == heap.items
<1>1. /\ heap = [items |-> items, heapified |-> heap.heapified]
      /\ items \in Seq(HeapValues) /\ heap.heapified \in BOOLEAN
      /\ heap.heapified => IsHeapOrdered(items)
  BY DEF HeapInv, HeapTypes, HeapsAreOrdered, HeapifiedIsHeap
<1>2. ASSUME NEW x \in HeapValues, PushBack(x) PROVE HeapInv'
  <2>1. Append(items, x) \in Seq(HeapValues)
    BY <1>1, AppendProperties
  <2>2. /\ heap' = [items |-> Append(items, x), heapified |-> FALSE]
        /\ UNCHANGED <<limited, pushed, popped>>
    BY <1>2 DEF PushBack, HeapifiedAfterPushBack
  <2> QED
    BY <2>1, <2>2, PlainStep
<1>3. ASSUME NEW x \in HeapValues, Push(x) PROVE HeapInv'
  <2>1. /\ UNCHANGED <<limited, pushed, popped>>
        /\ \E t \in IF heap.heapified THEN PushHeap(Append(items, x)) ELSE {Append(items, x)} :
              heap' = [heap EXCEPT !.items = t]
    BY <1>3 DEF Push
  <2>2. PICK t \in IF heap.heapified THEN PushHeap(Append(items, x)) ELSE {Append(items, x)} :
            heap' = [heap EXCEPT !.items = t]
    BY <2>1
  <2>3. t \in Seq(HeapValues) /\ (heap.heapified => IsHeapOrdered(t))
    <3>1. CASE heap.heapified
      BY <1>1, <2>2, <3>1, PushedHeap
    <3>2. CASE ~heap.heapified
      <4>1. t = Append(items, x)
        BY <2>2, <3>2
      <4> QED
        BY <1>1, <3>2, <4>1, AppendProperties
    <3> QED
      BY <3>1, <3>2
  <2>4. heap' = [items |-> t, heapified |-> heap.heapified]
    BY <1>1, <2>2
  <2> QED
    BY <1>1, <2>1, <2>3, <2>4, PlainStep
<1>4. CASE Heapify
  <2>1. PICK t \in MakeHeap(items) : heap' = [items |-> t, heapified |-> TRUE]
    BY <1>4 DEF Heapify
  <2>2. t \in Seq(HeapValues) /\ IsHeapOrdered(t)
    BY <1>1, <2>1, MadeHeap
  <2>3. UNCHANGED <<limited, pushed, popped>>
    BY <1>4 DEF Heapify
  <2> QED
    BY <2>1, <2>2, <2>3, PlainStep
<1>5. CASE Pop
  <2>1. PICK s \in IF heap.heapified THEN {items} ELSE MakeHeap(items) :
            \E t \in PopHeap(s) : heap' = [items |-> t, heapified |-> TRUE]
    BY <1>5 DEF Pop
  <2>2. PICK t \in PopHeap(s) : heap' = [items |-> t, heapified |-> TRUE]
    BY <2>1
  <2>3. items # << >> /\ UNCHANGED <<limited, pushed, popped>>
    BY <1>5 DEF Pop
  <2>4. s \in Seq(HeapValues) /\ IsHeapOrdered(s) /\ Len(s) = Len(items)
    BY <1>1, <2>1, MadeHeap
  <2>5. s # << >>
    BY <1>1, <2>3, <2>4
  <2>6. t \in Seq(HeapValues) /\ IsHeapOrdered(t)
    BY <2>2, <2>4, <2>5, PoppedHeap
  <2> QED
    BY <2>2, <2>3, <2>6, PlainStep
<1> QED
  BY <1>2, <1>3, <1>4, <1>5 DEF PlainHeapNext

\* The parts of the limited heap.
LEMMA LimitedFacts ==
    ASSUME HeapInv
    PROVE  /\ limited = [capacity |-> limited.capacity, items |-> limited.items]
           /\ limited.capacity \in HeapCapacities
           /\ limited.capacity \in Nat /\ limited.capacity >= 1
           /\ limited.items \in Seq(HeapValues) /\ IsHeapOrdered(limited.items)
           /\ Len(limited.items) \in Nat /\ Len(limited.items) <= limited.capacity
           /\ pushed \in Seq(HeapValues)
           /\ heap.heapified => IsHeapOrdered(heap.items)
<1>1. /\ limited = [capacity |-> limited.capacity, items |-> limited.items]
      /\ limited.capacity \in HeapCapacities /\ limited.items \in Seq(HeapValues)
      /\ pushed \in Seq(HeapValues)
  BY DEF HeapInv, HeapTypes
<1>2. limited.capacity \in Nat \ {0}
  BY <1>1, HeapAssumption
<1>3. Len(limited.items) \in Nat
  BY <1>1, LenProperties
<1>4. /\ IsHeapOrdered(limited.items) /\ Len(limited.items) <= limited.capacity
      /\ heap.heapified => IsHeapOrdered(heap.items)
  BY DEF HeapInv, HeapsAreOrdered, HeapifiedIsHeap
<1> QED
  BY <1>1, <1>2, <1>3, <1>4

\* Fewer of two counts.
Least(m, n) == IF m < n THEN m ELSE n

\* How the counts change when the limited heap has room, replaces its top with a
\* smaller value, or refuses a value that is not smaller.
LEMMA LimitedCounts ==
    ASSUME HeapInv, ~popped, NEW x \in HeapValues, NEW v \in Int,
           CountUpTo(limited.items, v) = Least(CountUpTo(pushed, v), limited.capacity),
           NEW t \in Seq(HeapValues),
           LET more == IF x <= v THEN 1 ELSE 0
               top == IF limited.items[1] <= v THEN 1 ELSE 0
           IN  \/ /\ Len(limited.items) < limited.capacity
                  /\ CountUpTo(t, v) = CountUpTo(limited.items, v) + more
               \/ /\ Len(limited.items) = limited.capacity /\ x < limited.items[1]
                  /\ CountUpTo(t, v) = CountUpTo(limited.items, v) - top + more
               \/ /\ Len(limited.items) = limited.capacity /\ ~ (x < limited.items[1])
                  /\ t = limited.items
    PROVE  CountUpTo(t, v) = Least(CountUpTo(Append(pushed, x), v), limited.capacity)
<1> DEFINE s == limited.items
           n == limited.capacity
           front == s[1]
           more == IF x <= v THEN 1 ELSE 0
           top == IF front <= v THEN 1 ELSE 0
           kept == CountUpTo(s, v)
           given == CountUpTo(pushed, v)
           after == CountUpTo(t, v)
<1>1. /\ s \in Seq(HeapValues) /\ pushed \in Seq(HeapValues)
      /\ n \in Nat /\ n >= 1 /\ IsHeapOrdered(s) /\ Len(s) \in Nat /\ x \in Int
  BY LimitedFacts, HeapAssumption
<1>2. CountUpTo(Append(pushed, x), v) = given + more
  BY <1>1, CountOfAppend
<1>3. kept \in 0 .. Len(s) /\ given \in Nat /\ kept = Least(given, n)
  <2>1. kept \in 0 .. Len(s) /\ given \in 0 .. Len(pushed)
    BY <1>1, CountIsBounded
  <2>2. kept = Least(given, n)
    OBVIOUS
  <2> HIDE DEF kept, given, s, n
  <2> QED
    BY <2>1, <2>2
<1>4. ASSUME Len(s) = n
      PROVE  /\ front \in Int
             /\ front <= v => kept = n
             /\ ~ (front <= v) => kept <= n - 1
  <2>1. s # << >>
    BY <1>1, <1>4
  <2>2. \A i \in 1 .. Len(s) : s[i] <= front /\ s[i] \in Int
    <3>1. \A i \in 1 .. Len(s) : s[i] \in HeapValues
      BY <1>1, ElementOfSeq
    <3>2. \A y \in HeapValues : y \in Int
      BY HeapAssumption
    <3>3. \A i \in 1 .. Len(s) : s[i] \in Int
      BY <3>1, <3>2, Zenon
    <3> QED
      BY <1>1, <3>3, FrontIsGreatest
  <2>3. front \in Int
    BY <1>1, <1>4, <2>2
  <2>4. front <= v => \A i \in 1 .. Len(s) : s[i] <= v
    BY <2>2, <2>3
  <2>5. front <= v => kept = n
    BY <1>1, <1>4, <2>4, CountIsBounded
  <2>6. Tail(s) \in Seq(HeapValues) /\ Len(Tail(s)) = Len(s) - 1
    BY <1>1, <2>1, HeadTailProperties
  <2>7. CountUpTo(Tail(s), v) \in 0 .. Len(s) - 1
    BY <2>6, CountIsBounded
  <2>8. kept = CountUpTo(Tail(s), v) + top
    BY <1>1, <2>1, CountOfTail
  <2> QED
    BY <1>1, <1>4, <2>3, <2>5, <2>7, <2>8
<1>5. \/ Len(s) < n /\ after = kept + more
      \/ Len(s) = n /\ x < front /\ after = kept - top + more
      \/ Len(s) = n /\ ~ (x < front) /\ after = kept
  OBVIOUS
<1> HIDE DEF s, n, front, kept, given, after
<1>6. after = Least(given + more, n)
  <2>1. CASE Len(s) < n /\ after = kept + more
    BY <1>1, <1>3, <2>1 DEF Least
  <2>2. CASE Len(s) = n /\ x < front /\ after = kept - top + more
    BY <1>1, <1>3, <1>4, <2>2 DEF Least
  <2>3. CASE Len(s) = n /\ ~ (x < front) /\ after = kept
    BY <1>1, <1>3, <1>4, <2>3 DEF Least
  <2> QED
    BY <1>5, <2>1, <2>2, <2>3
<1> QED
  BY <1>2, <1>6 DEF n, given, after

\* LimitedHeap::Push.
LEMMA LimitedPushStep ==
    ASSUME HeapInv, NEW x \in HeapValues, LimitedPush(x)
    PROVE  HeapInv'
<1> DEFINE s == limited.items
           n == limited.capacity
           Room == PushHeap(Append(s, x))
           Swapped == UNION {PushHeap(Append(u, x)) : u \in PopHeap(s)}
<1>1. /\ limited = [capacity |-> n, items |-> s] /\ n \in HeapCapacities
      /\ s \in Seq(HeapValues) /\ pushed \in Seq(HeapValues)
      /\ n \in Nat /\ n >= 1 /\ IsHeapOrdered(s) /\ Len(s) \in Nat /\ Len(s) <= n
      /\ heap.heapified => IsHeapOrdered(heap.items)
  BY LimitedFacts
<1>2. /\ pushed' = Append(pushed, x) /\ UNCHANGED <<heap, popped>>
      /\ \E t \in IF Len(s) < n THEN Room ELSE IF ReplacesTop(x) THEN Swapped ELSE {s} :
            limited' = [limited EXCEPT !.items = t]
  BY DEF LimitedPush
<1>3. PICK t \in IF Len(s) < n THEN Room ELSE IF ReplacesTop(x) THEN Swapped ELSE {s} :
          limited' = [limited EXCEPT !.items = t]
  BY <1>2
<1>4. limited' = [capacity |-> n, items |-> t]
  BY <1>1, <1>3
<1> DEFINE more(v) == IF x <= v THEN 1 ELSE 0
           top(v) == IF s[1] <= v THEN 1 ELSE 0
           Filled == /\ Len(s) < n
                     /\ \A v \in Int : CountUpTo(t, v) = CountUpTo(s, v) + more(v)
           Exchanged == /\ Len(s) = n /\ x < s[1]
                        /\ \A v \in Int : CountUpTo(t, v) = CountUpTo(s, v) - top(v) + more(v)
           Refused == Len(s) = n /\ ~ (x < s[1]) /\ t = s
<1>5. /\ t \in Seq(HeapValues) /\ IsHeapOrdered(t) /\ Len(t) <= n
      /\ Filled \/ Exchanged \/ Refused
  <2>1. CASE Len(s) < n
    <3>1. t \in Room
      BY <1>3, <2>1
    <3>2. /\ t \in Seq(HeapValues) /\ IsHeapOrdered(t) /\ Len(t) = Len(s) + 1
          /\ \A v \in Int : CountUpTo(t, v) = CountUpTo(s, v) + more(v)
      BY <1>1, <3>1, PushedHeap
    <3> QED
      BY <1>1, <2>1, <3>2
  <2>2. CASE ~ (Len(s) < n) /\ ReplacesTop(x)
    <3>0. Len(s) = n /\ s # << >> /\ x < s[1]
      BY <1>1, <2>2 DEF ReplacesTop
    <3>1. t \in Swapped
      BY <1>3, <2>2
    <3>2. PICK u \in PopHeap(s) : t \in PushHeap(Append(u, x))
      BY <3>1
    <3>3. /\ u \in Seq(HeapValues) /\ Len(u) = Len(s) - 1 /\ IsHeapOrdered(u)
          /\ \A v \in Int : CountUpTo(s, v) = CountUpTo(u, v) + top(v)
      BY <1>1, <3>0, <3>2, PoppedHeap
    <3>4. /\ t \in Seq(HeapValues) /\ IsHeapOrdered(t) /\ Len(t) = Len(u) + 1
          /\ \A v \in Int : CountUpTo(t, v) = CountUpTo(u, v) + more(v)
      BY <3>2, <3>3, PushedHeap
    <3>5. ASSUME NEW v \in Int PROVE CountUpTo(t, v) = CountUpTo(s, v) - top(v) + more(v)
      <4>1. CountUpTo(u, v) \in Nat
        BY <3>3, CountIsBounded
      <4>2. top(v) \in {0, 1} /\ more(v) \in {0, 1}
        OBVIOUS
      <4>3. /\ CountUpTo(s, v) = CountUpTo(u, v) + top(v)
            /\ CountUpTo(t, v) = CountUpTo(u, v) + more(v)
        BY <3>3, <3>4
      <4> HIDE DEF top, more
      <4> QED
        BY <4>1, <4>2, <4>3
    <3>6. Len(t) <= n
      BY <1>1, <3>0, <3>3, <3>4
    <3> QED
      BY <3>0, <3>4, <3>5, <3>6
  <2>3. CASE ~ (Len(s) < n) /\ ~ReplacesTop(x)
    <3>1. t = s /\ Len(s) = n /\ ~ (x < s[1])
      BY <1>1, <1>3, <2>3 DEF ReplacesTop
    <3> QED
      BY <1>1, <3>1
  <2> QED
    BY <2>1, <2>2, <2>3
<1>6. HeapTypes'
  <2>1. Append(pushed, x) \in Seq(HeapValues)
    BY <1>1, AppendProperties
  <2> QED
    BY <1>1, <1>2, <1>4, <1>5, <2>1 DEF HeapInv, HeapTypes
<1>7. HeapifiedIsHeap' /\ (Len(limited.items) <= limited.capacity)'
  BY <1>1, <1>2, <1>4, <1>5 DEF HeapifiedIsHeap
<1>8. KeepsTheSmallest'
  <2>1. SUFFICES ASSUME ~popped, NEW v \in HeapValues
                 PROVE  CountUpTo(t, v) = Least(CountUpTo(Append(pushed, x), v), n)
    BY <1>2, <1>4 DEF KeepsTheSmallest, Least
  <2>2. v \in Int
    BY HeapAssumption
  <2>3. CountUpTo(s, v) = Least(CountUpTo(pushed, v), n)
    BY <2>1 DEF HeapInv, HeapsAreOrdered, KeepsTheSmallest, Least
  <2> QED
    BY <1>5, <2>1, <2>2, <2>3, LimitedCounts
<1> QED
  BY <1>6, <1>7, <1>8 DEF HeapInv, HeapsAreOrdered

\* LimitedHeap::Pop.
LEMMA LimitedPopStep ==
    ASSUME HeapInv, LimitedPop
    PROVE  HeapInv'
<1> DEFINE s == limited.items
           n == limited.capacity
<1>1. /\ limited = [capacity |-> n, items |-> s] /\ n \in HeapCapacities
      /\ s \in Seq(HeapValues) /\ n \in Nat /\ IsHeapOrdered(s)
      /\ Len(s) \in Nat /\ Len(s) <= n
      /\ heap.heapified => IsHeapOrdered(heap.items)
  BY LimitedFacts
<1>2. s # << >> /\ popped' = TRUE /\ UNCHANGED <<heap, pushed>>
  BY DEF LimitedPop
<1>3. PICK t \in PopHeap(s) : limited' = [limited EXCEPT !.items = t]
  BY DEF LimitedPop
<1>4. t \in Seq(HeapValues) /\ IsHeapOrdered(t) /\ Len(t) = Len(s) - 1
  BY <1>1, <1>2, <1>3, PoppedHeap
<1>5. limited' = [capacity |-> n, items |-> t]
  BY <1>1, <1>3
<1>6. HeapTypes' /\ HeapifiedIsHeap' /\ (Len(limited.items) <= limited.capacity)'
  BY <1>1, <1>2, <1>4, <1>5 DEF HeapInv, HeapTypes, HeapifiedIsHeap
<1>7. KeepsTheSmallest'
  BY <1>2 DEF KeepsTheSmallest
<1> QED
  BY <1>6, <1>7 DEF HeapInv, HeapsAreOrdered

\* Whenever heapified_ is set the items are a heap, and a limited heap that was only
\* pushed into holds the smallest of the values it was given: for every capacity, and
\* whatever arrangement the standard library chooses.
THEOREM HeapCorrect == HeapSpec => []HeapsAreOrdered
<1>1. HeapInit => HeapInv
  BY HeapInvInit
<1>2. HeapInv /\ [PlainHeapNext \/ LimitedHeapNext]_heapVars => HeapInv'
  <2> SUFFICES ASSUME HeapInv, [PlainHeapNext \/ LimitedHeapNext]_heapVars PROVE HeapInv'
    OBVIOUS
  <2>1. CASE PlainHeapNext
    BY <2>1, PlainHeapStep
  <2>2. CASE LimitedHeapNext
    BY <2>2, LimitedPushStep, LimitedPopStep DEF LimitedHeapNext
  <2>3. CASE UNCHANGED heapVars
    <3>1. UNCHANGED <<heap, limited, pushed, popped>>
      BY <2>3 DEF heapVars
    <3>2. /\ heap' \in [items : Seq(HeapValues), heapified : BOOLEAN]
          /\ heap'.heapified => IsHeapOrdered(heap'.items)
      BY <3>1 DEF HeapInv, HeapTypes, HeapsAreOrdered, HeapifiedIsHeap
    <3> QED
      BY <3>1, <3>2, PlainStep
  <2> QED
    BY <2>1, <2>2, <2>3
<1>3. HeapInv => HeapsAreOrdered
  BY DEF HeapInv
<1> QED
  BY <1>1, <1>2, <1>3, PTL DEF HeapSpec

-----------------------------------------------------------------------------
(* Plain records. *)

LEMMA DivMod ==
    ASSUME NEW c \in Nat \ {0}, NEW i \in Int
    PROVE  /\ i \div c \in Int /\ i % c \in 0 .. c - 1
           /\ i = (c * (i \div c)) + (i % c)
OBVIOUS

LEMMA DivBound ==
    ASSUME NEW c \in Nat \ {0}, NEW n \in Nat, NEW i \in 0 .. n * c - 1
    PROVE  i \div c \in 0 .. n - 1
<1>1. i \div c \in Int /\ i % c \in 0 .. c - 1 /\ i = (c * (i \div c)) + (i % c)
  BY DivMod
<1> DEFINE q == i \div c
           r == i % c
<1> HIDE DEF q, r
<1>2. q \in Int /\ r \in 0 .. c - 1 /\ i = c * q + r /\ i \in 0 .. n * c - 1
  BY <1>1 DEF q, r
<1>3. q >= 0
  <2> SUFFICES ASSUME q <= -1 PROVE FALSE
    BY <1>2
  <2>1. c * q <= -c
    BY <1>2, Z3
  <2> QED
    BY <1>2, <2>1, Z3
<1>4. q < n
  <2> SUFFICES ASSUME q >= n PROVE FALSE
    BY <1>2
  <2>1. c * q >= n * c
    BY <1>2, Z3
  <2> QED
    BY <1>2, <2>1, Z3
<1> QED
  BY <1>2, <1>3, <1>4 DEF q

LEMMA MultipleMod ==
    ASSUME NEW c \in Nat \ {0}, NEW z \in Int
    PROVE  (c * z) % c = 0
BY Z3

\* A place in the blocks is one item's.
LEMMA PlaceUnique ==
    ASSUME NEW c \in Nat \ {0}, NEW i \in Int, NEW j \in Int, i \div c = j \div c, i % c = j % c
    PROVE  i = j
<1>1. i = (c * (i \div c)) + (i % c) /\ j = (c * (j \div c)) + (j % c)
  BY DivMod
<1> QED
  BY <1>1, Zenon

\* The blocks, and their items.
Rows == [0 .. ChunkCapacity - 1 -> Nat]
Places(ch) == 0 .. Len(ch) * ChunkCapacity - 1
ItemOf(ch, i) == ch[i \div ChunkCapacity + 1][i % ChunkCapacity]
PutOf(ch, i, key) == [ch EXCEPT ![i \div ChunkCapacity + 1][i % ChunkCapacity] = key]

LEMMA CapacityIs == ChunkCapacity \in Nat \ {0} /\ MaxRecords \in Nat \ {0}
BY RecordsAssumption

LEMMA PlaceIn ==
    ASSUME NEW ch \in Seq(Rows), NEW i \in Places(ch)
    PROVE  i \in Nat /\ i \div ChunkCapacity + 1 \in 1 .. Len(ch) /\ i % ChunkCapacity \in 0 .. ChunkCapacity - 1
<1>1. Len(ch) \in Nat
  OBVIOUS
<1>2. i \in 0 .. Len(ch) * ChunkCapacity - 1
  BY DEF Places
<1>3. i \div ChunkCapacity \in 0 .. Len(ch) - 1
  BY <1>1, <1>2, CapacityIs, DivBound, Zenon
<1>4. i \in Nat
  BY <1>2, CapacityIs
<1>5. i \in Int
  BY <1>4
<1>6. i % ChunkCapacity \in 0 .. ChunkCapacity - 1
  BY <1>5, CapacityIs, DivMod, Zenon
<1>7. i \div ChunkCapacity + 1 \in 1 .. Len(ch)
  BY <1>1, <1>3
<1> QED
  BY <1>4, <1>6, <1>7

LEMMA ItemIs ==
    ASSUME NEW ch \in Seq(Rows), NEW i \in Places(ch)
    PROVE  ItemOf(ch, i) \in Nat
<1>1. i \div ChunkCapacity + 1 \in 1 .. Len(ch) /\ i % ChunkCapacity \in 0 .. ChunkCapacity - 1
  BY PlaceIn
<1> DEFINE q == i \div ChunkCapacity + 1
           r == i % ChunkCapacity
<1> HIDE DEF q, r
<1>2. q \in 1 .. Len(ch) /\ r \in 0 .. ChunkCapacity - 1
  BY <1>1 DEF q, r
<1>3. ch[q] \in Rows
  BY <1>2
<1>4. ch[q][r] \in Nat
  BY <1>2, <1>3 DEF Rows
<1> QED
  BY <1>4 DEF ItemOf, q, r

\* An assignment changes one item.
IsPut(ch, i, key, w) ==
    /\ w \in Seq(Rows) /\ Len(w) = Len(ch) /\ Places(w) = Places(ch)
    /\ ItemOf(w, i) = key
    /\ \A j \in Places(ch) : j # i => ItemOf(w, j) = ItemOf(ch, j)

\* PutOf changes the item of one place and nothing else.
LEMMA PutIs ==
    ASSUME NEW ch \in Seq(Rows), NEW i \in Places(ch), NEW key \in Nat
    PROVE  IsPut(ch, i, key, PutOf(ch, i, key))
<1> DEFINE q(j) == j \div ChunkCapacity + 1
           r(j) == j % ChunkCapacity
           w == PutOf(ch, i, key)
<1>1. \A j \in Places(ch) : j \in Nat /\ q(j) \in 1 .. Len(ch) /\ r(j) \in 0 .. ChunkCapacity - 1
  BY PlaceIn
<1>2. ASSUME NEW j \in Places(ch), q(j) = q(i), r(j) = r(i) PROVE j = i
  <2>1. j \in Int /\ i \in Int
    BY <1>1
  <2>2. j \div ChunkCapacity \in Int /\ i \div ChunkCapacity \in Int
    BY <2>1, CapacityIs, DivMod, Zenon
  <2>3. j \div ChunkCapacity = i \div ChunkCapacity
    <3> DEFINE a == j \div ChunkCapacity
               b == i \div ChunkCapacity
    <3>1. a \in Int /\ b \in Int /\ a + 1 = b + 1
      BY <2>2, <1>2
    <3> HIDE DEF a, b
    <3>2. a = b
      BY <3>1
    <3> QED
      BY <3>2 DEF a, b
  <2> QED
    BY <2>1, <2>3, <1>2, CapacityIs, PlaceUnique, Zenon
<1>3. w = [ch EXCEPT ![q(i)] = [ch[q(i)] EXCEPT ![r(i)] = key]]
  BY DEF PutOf
<1> DEFINE row == [ch[q(i)] EXCEPT ![r(i)] = key]
<1> HIDE DEF q, r, w
<1>4. ch[q(i)] \in Rows /\ q(i) \in 1 .. Len(ch) /\ r(i) \in 0 .. ChunkCapacity - 1
  BY <1>1
<1>5. row \in Rows /\ row[r(i)] = key /\ \A k \in 0 .. ChunkCapacity - 1 : k # r(i) => row[k] = ch[q(i)][k]
  BY <1>4 DEF Rows
<1> HIDE DEF row
<1>6. w = [ch EXCEPT ![q(i)] = row]
  BY <1>3 DEF row
<1>7. w \in Seq(Rows) /\ Len(w) = Len(ch) /\ w[q(i)] = row /\ \A k \in 1 .. Len(ch) : k # q(i) => w[k] = ch[k]
  BY <1>4, <1>5, <1>6
<1>8. \A j \in Places(ch) : ItemOf(w, j) = w[q(j)][r(j)] /\ ItemOf(ch, j) = ch[q(j)][r(j)]
  BY DEF ItemOf, q, r
<1>9. ItemOf(w, i) = key
  BY <1>5, <1>7, <1>8, Zenon
<1>10. ASSUME NEW j \in Places(ch), j # i PROVE ItemOf(w, j) = ItemOf(ch, j)
  <2>1. CASE q(j) = q(i)
    <3>1. r(j) # r(i)
      BY <2>1, <1>2, <1>10
    <3> QED
      BY <3>1, <2>1, <1>1, <1>5, <1>7, <1>8, Zenon
  <2>2. CASE q(j) # q(i)
    BY <2>2, <1>1, <1>7, <1>8, Zenon
  <2> QED
    BY <2>1, <2>2
<1>11. Places(w) = Places(ch)
  BY <1>7, Zenon DEF Places
<1>12. IsPut(ch, i, key, w)
  BY <1>7, <1>9, <1>10, <1>11, Zenon DEF IsPut
<1> QED
  BY <1>12 DEF w

-----------------------------------------------------------------------------

\* The array outside of Sort: every record has a place, what lies beyond the greatest
\* size so far is zero, and the records that are known are there.
ArrayOK(n, ch, known, most) ==
    /\ n \in 0 .. MaxRecords /\ most \in 0 .. MaxRecords /\ n <= most
    /\ ch \in Seq(Rows) /\ n <= Len(ch) * ChunkCapacity
    /\ known \in [0 .. MaxRecords - 1 -> Int]
    /\ \A i \in Places(ch) : i >= most => ItemOf(ch, i) = 0
KnownOK(n, ch, known) == \A i \in 0 .. n - 1 : known[i] \in {-1, ItemOf(ch, i)}

LEMMA IndexesArePlaces ==
    ASSUME NEW n, NEW ch, NEW known, NEW most, ArrayOK(n, ch, known, most)
    PROVE  /\ ch \in Seq(Rows) /\ Len(ch) \in Nat /\ n \in Nat
           /\ \A i \in 0 .. n - 1 : i \in Places(ch) /\ i \in 0 .. MaxRecords - 1 /\ i < most
<1>1. /\ n \in 0 .. MaxRecords /\ most \in 0 .. MaxRecords /\ n <= most
      /\ ch \in Seq(Rows) /\ n <= Len(ch) * ChunkCapacity
  BY DEF ArrayOK
<1>2. Len(ch) \in Nat /\ Len(ch) * ChunkCapacity \in Nat
  <2>1. Len(ch) \in Nat
    BY <1>1
  <2> QED
    BY <2>1, CapacityIs
<1> DEFINE z == Len(ch) * ChunkCapacity
<1>3. z \in Nat /\ n <= z
  BY <1>1, <1>2
<1> HIDE DEF z
<1>4. \A i \in 0 .. n - 1 : i \in 0 .. z - 1 /\ i \in 0 .. MaxRecords - 1 /\ i < most
  BY <1>1, <1>3, CapacityIs
<1>5. \A i \in 0 .. n - 1 : i \in Places(ch)
  BY <1>4, Zenon DEF Places, z
<1>6. n \in Nat
  BY <1>1, CapacityIs
<1> QED
  BY <1>1, <1>2, <1>4, <1>5, <1>6

\* Resize keeps the blocks it needs and adds blocks of zeros.
BlocksOf(ch, m) == [c \in 1 .. m |-> IF c <= Len(ch) THEN ch[c] ELSE Block]

LEMMA BlocksAre ==
    ASSUME NEW ch \in Seq(Rows), NEW m \in Nat
    PROVE  /\ BlocksOf(ch, m) \in Seq(Rows) /\ Len(BlocksOf(ch, m)) = m
           /\ \A i \in Places(BlocksOf(ch, m)) :
                 ItemOf(BlocksOf(ch, m), i) = IF i \in Places(ch) THEN ItemOf(ch, i) ELSE 0
<1> DEFINE b == BlocksOf(ch, m)
<1>1. Block \in Rows
  BY DEF Block, Rows
<1>2. Len(ch) \in Nat /\ \A c \in 1 .. m : c <= Len(ch) => ch[c] \in Rows
  OBVIOUS
<1>3. b \in Seq(Rows) /\ Len(b) = m /\ \A c \in 1 .. m : b[c] = IF c <= Len(ch) THEN ch[c] ELSE Block
  BY <1>1, <1>2 DEF BlocksOf
<1> HIDE DEF b
<1>4. ASSUME NEW i \in Places(b) PROVE ItemOf(b, i) = IF i \in Places(ch) THEN ItemOf(ch, i) ELSE 0
  <2> DEFINE q == i \div ChunkCapacity + 1
             r == i % ChunkCapacity
  <2>1. i \in Nat /\ q \in 1 .. m /\ r \in 0 .. ChunkCapacity - 1
    BY <1>3, PlaceIn
  <2>2. ItemOf(b, i) = b[q][r] /\ ItemOf(ch, i) = ch[q][r]
    BY DEF ItemOf
  <2>3. CASE i \in Places(ch)
    <3>1. q \in 1 .. Len(ch)
      BY <2>3, PlaceIn
    <3>2. q <= Len(ch)
      BY <3>1, <1>2
    <3> HIDE DEF q, r
    <3> QED
      BY <3>2, <2>1, <2>2, <2>3, <1>3, Zenon
  <2>4. CASE i \notin Places(ch)
    <3>1. ~(q <= Len(ch))
      <4> SUFFICES ASSUME q <= Len(ch) PROVE FALSE
        OBVIOUS
      <4> DEFINE a == i \div ChunkCapacity
                 l == Len(ch)
                 s == ChunkCapacity
      <4>1. a \in Int /\ r \in 0 .. s - 1 /\ i = (s * a) + r
        <5>1. i \in Int /\ ChunkCapacity \in Nat \ {0}
          BY <2>1, CapacityIs
        <5> QED
          BY <5>1, DivMod, Zenon
      <4>2. a + 1 <= l /\ l \in Nat /\ s \in Nat \ {0}
        BY <1>2, CapacityIs
      <4> HIDE DEF a, l, s, r, q
      <4>3. s * a + s <= l * s
        BY <4>1, <4>2, Z3
      <4>4. i < l * s
        BY <4>1, <4>2, <4>3, <2>1, Z3
      <4>5. l * s \in Int
        BY <4>2, Z3
      <4> DEFINE ls == l * s
      <4> HIDE DEF ls
      <4>6. i < ls /\ ls \in Int
        BY <4>4, <4>5 DEF ls
      <4>7. i \in 0 .. ls - 1
        BY <4>6, <2>1
      <4> QED
        BY <4>7, <2>4 DEF Places, ls, l, s
    <3> HIDE DEF q, r
    <3>2. b[q] = Block
      BY <3>1, <2>1, <1>3, Zenon
    <3>3. Block[r] = 0
      BY <2>1 DEF Block
    <3> QED
      BY <3>2, <3>3, <2>2, <2>4, Zenon
  <2> QED
    BY <2>3, <2>4
<1> QED
  BY <1>3, <1>4 DEF b

\* As many blocks as the records need.
LEMMA ChunksAreEnough ==
    ASSUME NEW n \in Nat \ {0}
    PROVE  ChunksFor(n) \in Nat /\ n <= ChunksFor(n) * ChunkCapacity
<1> DEFINE s == ChunkCapacity
           q == (n - 1) \div s
           r == (n - 1) % s
<1>1. q \in Int /\ r \in 0 .. s - 1 /\ n - 1 = (s * q) + r /\ s \in Nat \ {0}
  <2>1. n - 1 \in Int
    OBVIOUS
  <2> QED
    BY <2>1, CapacityIs, DivMod, Zenon
<1> HIDE DEF q, r, s
<1>2. q >= 0
  <2> SUFFICES ASSUME q <= -1 PROVE FALSE
    BY <1>1
  <2>1. s * q <= -s
    BY <1>1, Z3
  <2> QED
    BY <1>1, <2>1, Z3
<1>3. q + 1 \in Nat
  BY <1>1, <1>2
<1>4. (q + 1) * s = (s * q) + s
  BY <1>1, Z3
<1>5. n <= (q + 1) * s
  BY <1>1, <1>4, Z3
<1> QED
  BY <1>3, <1>5 DEF ChunksFor, q, s

\* Resize.
ChunksResized(ch, m) == IF m = 0 THEN <<>> ELSE BlocksOf(ch, ChunksFor(m))
KnownResized(known, n, most) == [i \in DOMAIN known |-> IF i < n THEN known[i] ELSE IF i < most THEN -1 ELSE 0]
MostResized(most, m) == IF m = 0 THEN 0 ELSE IF m > most THEN m ELSE most

LEMMA ResizeKeeps ==
    ASSUME NEW n, NEW ch, NEW known, NEW most, ArrayOK(n, ch, known, most), KnownOK(n, ch, known),
           NEW m \in 0 .. MaxRecords
    PROVE  /\ ArrayOK(m, ChunksResized(ch, m), KnownResized(known, n, most), MostResized(most, m))
           /\ KnownOK(m, ChunksResized(ch, m), KnownResized(known, n, most))
<1> DEFINE ch2 == ChunksResized(ch, m)
           known2 == KnownResized(known, n, most)
           most2 == MostResized(most, m)
<1>0. /\ ch2 = (IF m = 0 THEN <<>> ELSE BlocksOf(ch, ChunksFor(m)))
      /\ known2 = [i \in DOMAIN known |-> IF i < n THEN known[i] ELSE IF i < most THEN -1 ELSE 0]
      /\ most2 = (IF m = 0 THEN 0 ELSE IF m > most THEN m ELSE most)
  BY Zenon DEF ChunksResized, KnownResized, MostResized
<1> SUFFICES ArrayOK(m, ch2, known2, most2) /\ KnownOK(m, ch2, known2)
  OBVIOUS
<1> HIDE DEF ch2, known2, most2
<1>1. /\ n \in 0 .. MaxRecords /\ most \in 0 .. MaxRecords /\ n <= most
      /\ ch \in Seq(Rows) /\ n <= Len(ch) * ChunkCapacity
      /\ known \in [0 .. MaxRecords - 1 -> Int]
      /\ \A i \in Places(ch) : i >= most => ItemOf(ch, i) = 0
  BY DEF ArrayOK
<1>2. /\ ch \in Seq(Rows) /\ Len(ch) \in Nat /\ n \in Nat
      /\ \A i \in 0 .. n - 1 : i \in Places(ch) /\ i \in 0 .. MaxRecords - 1 /\ i < most
  BY IndexesArePlaces
<1>3. /\ known2 \in [0 .. MaxRecords - 1 -> Int]
      /\ \A i \in 0 .. MaxRecords - 1 : known2[i] = IF i < n THEN known[i] ELSE IF i < most THEN -1 ELSE 0
  BY <1>0, <1>1
<1>4. most2 \in 0 .. MaxRecords /\ m <= most2 /\ (m # 0 => most <= most2)
  BY <1>0, <1>1, CapacityIs
<1>5. CASE m = 0
  <2>1. ch2 = <<>>
    BY <1>0, <1>5
  <2>2. ch2 \in Seq(Rows) /\ Len(ch2) = 0
    <3>1. <<>> \in Seq(Rows) /\ Len(<<>>) = 0
      OBVIOUS
    <3> QED
      BY <2>1, <3>1, Zenon
  <2>3. Places(ch2) = {} /\ m <= Len(ch2) * ChunkCapacity
    BY <2>2, <1>5, CapacityIs DEF Places
  <2>4. 0 .. m - 1 = {}
    BY <1>5
  <2> QED
    BY <2>2, <2>3, <2>4, <1>3, <1>4, Zenon DEF ArrayOK, KnownOK
<1>6. CASE m # 0
  <2>1. m \in Nat \ {0}
    BY <1>6, CapacityIs
  <2>2. ChunksFor(m) \in Nat /\ m <= ChunksFor(m) * ChunkCapacity
    BY <2>1, ChunksAreEnough, Zenon
  <2>3. /\ ch2 \in Seq(Rows) /\ Len(ch2) = ChunksFor(m)
        /\ \A i \in Places(ch2) : ItemOf(ch2, i) = IF i \in Places(ch) THEN ItemOf(ch, i) ELSE 0
    BY <2>2, <1>0, <1>1, <1>6, BlocksAre, Zenon
  <2>4. ASSUME NEW i \in Places(ch2), i >= most2 PROVE ItemOf(ch2, i) = 0
    <3>1. i \in Nat
      BY <2>3, PlaceIn, Zenon
    <3>2. i >= most
      BY <3>1, <2>4, <1>1, <1>4, <1>6, CapacityIs
    <3> QED
      BY <3>2, <2>3, <1>1, Zenon
  <2>5. ArrayOK(m, ch2, known2, most2)
    BY <2>2, <2>3, <2>4, <1>3, <1>4, Zenon DEF ArrayOK
  <2>6. \A i \in 0 .. m - 1 : i \in Places(ch2) /\ i \in 0 .. MaxRecords - 1
    BY <2>5, IndexesArePlaces, Zenon
  <2>7. ASSUME NEW i \in 0 .. m - 1 PROVE known2[i] \in {-1, ItemOf(ch2, i)}
    <3>1. i \in 0 .. MaxRecords - 1 /\ i \in Places(ch2)
      BY <2>6
    <3>2. i \in Nat /\ (i < n => i \in 0 .. n - 1) /\ (~(i < most) => i >= most)
      BY <1>1, <1>2, CapacityIs
    <3>3. CASE i < n
      <4>1. known2[i] = known[i] /\ i \in Places(ch)
        BY <3>1, <3>2, <3>3, <1>2, <1>3, Zenon
      <4>2. known[i] \in {-1, ItemOf(ch, i)}
        BY <3>2, <3>3, Zenon DEF KnownOK
      <4> QED
        BY <4>1, <4>2, <2>3, <3>1, Zenon
    <3>4. CASE ~(i < n) /\ i < most
      BY <3>1, <3>4, <1>3, Zenon
    <3>5. CASE ~(i < n) /\ ~(i < most)
      <4>1. known2[i] = 0
        BY <3>1, <3>5, <1>3, Zenon
      <4>2. ItemOf(ch2, i) = 0
        BY <3>1, <3>2, <3>5, <1>1, <2>3, Zenon
      <4> QED
        BY <4>1, <4>2
    <3> QED
      BY <3>3, <3>4, <3>5
  <2> QED
    BY <2>5, <2>7, Zenon DEF KnownOK
<1> QED
  BY <1>5, <1>6

\* An assignment.
LEMMA AssignKeeps ==
    ASSUME NEW n, NEW ch, NEW known, NEW most, ArrayOK(n, ch, known, most), KnownOK(n, ch, known),
           NEW i \in 0 .. n - 1, NEW key \in Nat,
           NEW known2, known2 = [known EXCEPT ![i] = key]
    PROVE  ArrayOK(n, PutOf(ch, i, key), known2, most) /\ KnownOK(n, PutOf(ch, i, key), known2)
<1> DEFINE w == PutOf(ch, i, key)
<1>1. /\ n \in 0 .. MaxRecords /\ most \in 0 .. MaxRecords /\ n <= most
      /\ ch \in Seq(Rows) /\ n <= Len(ch) * ChunkCapacity
      /\ known \in [0 .. MaxRecords - 1 -> Int]
      /\ \A j \in Places(ch) : j >= most => ItemOf(ch, j) = 0
  BY DEF ArrayOK
<1>2. /\ n \in Nat
      /\ \A j \in 0 .. n - 1 : j \in Places(ch) /\ j \in 0 .. MaxRecords - 1 /\ j < most
  BY IndexesArePlaces, Zenon
<1>3. /\ w \in Seq(Rows) /\ Len(w) = Len(ch) /\ Places(w) = Places(ch) /\ ItemOf(w, i) = key
      /\ \A j \in Places(ch) : j # i => ItemOf(w, j) = ItemOf(ch, j)
  <2>1. i \in Places(ch)
    BY <1>2
  <2>2. IsPut(ch, i, key, w)
    BY <1>1, <2>1, PutIs, Zenon
  <2> QED
    BY <2>2, Zenon DEF IsPut
<1>4. /\ known2 \in [0 .. MaxRecords - 1 -> Int] /\ known2[i] = key
      /\ \A j \in 0 .. MaxRecords - 1 : j # i => known2[j] = known[j]
  BY <1>1, <1>2
<1> HIDE DEF w
<1>5. ASSUME NEW j \in Places(ch), j >= most PROVE ItemOf(w, j) = 0
  <2>1. j # i
    BY <1>1, <1>2, <1>5, CapacityIs
  <2> QED
    BY <2>1, <1>1, <1>3, <1>5, Zenon
<1>6. ArrayOK(n, w, known2, most)
  BY <1>1, <1>3, <1>4, <1>5, Zenon DEF ArrayOK
<1>7. ASSUME NEW j \in 0 .. n - 1 PROVE known2[j] \in {-1, ItemOf(w, j)}
  <2>1. CASE j = i
    BY <2>1, <1>3, <1>4, Zenon
  <2>2. CASE j # i
    <3>1. known[j] \in {-1, ItemOf(ch, j)}
      BY Zenon DEF KnownOK
    <3> QED
      BY <2>2, <3>1, <1>2, <1>3, <1>4, Zenon
  <2> QED
    BY <2>1, <2>2
<1> QED
  BY <1>6, <1>7, Zenon DEF KnownOK, w

\* Records read from a stream.
ItemsRead(ch, m, keys) ==
    [c \in 1 .. Len(ch) |-> [k \in DOMAIN ch[c] |->
                               LET i == (c - 1) * ChunkCapacity + k
                               IN  IF i < m THEN keys[i + 1] ELSE ch[c][k]]]
KnownRead(known, m, keys) == [i \in DOMAIN known |-> IF i < m THEN keys[i + 1] ELSE known[i]]

LEMMA ReadKeeps ==
    ASSUME NEW n, NEW ch, NEW known, NEW most, ArrayOK(n, ch, known, most), KnownOK(n, ch, known),
           NEW m \in 0 .. n, NEW keys, \A i \in 1 .. m : keys[i] \in Nat
    PROVE  /\ ArrayOK(n, ItemsRead(ch, m, keys), KnownRead(known, m, keys), most)
           /\ KnownOK(n, ItemsRead(ch, m, keys), KnownRead(known, m, keys))
<1> DEFINE ch2 == ItemsRead(ch, m, keys)
           known2 == KnownRead(known, m, keys)
<1>1. /\ n \in 0 .. MaxRecords /\ most \in 0 .. MaxRecords /\ n <= most
      /\ ch \in Seq(Rows) /\ n <= Len(ch) * ChunkCapacity
      /\ known \in [0 .. MaxRecords - 1 -> Int]
      /\ \A j \in Places(ch) : j >= most => ItemOf(ch, j) = 0
  BY DEF ArrayOK
<1>2. /\ n \in Nat /\ Len(ch) \in Nat
      /\ \A j \in 0 .. n - 1 : j \in Places(ch) /\ j \in 0 .. MaxRecords - 1 /\ j < most
  BY IndexesArePlaces, Zenon
<1>3. m \in Nat /\ m <= n
  BY <1>2
<1>4. ASSUME NEW i \in Nat, i < m PROVE keys[i + 1] \in Nat
  <2>1. i + 1 \in 1 .. m
    BY <1>3, <1>4
  <2> QED
    BY <2>1
<1> DEFINE Row(c) == [k \in DOMAIN ch[c] |-> IF (c - 1) * ChunkCapacity + k < m
                                             THEN keys[((c - 1) * ChunkCapacity + k) + 1] ELSE ch[c][k]]
<1>5. ch2 = [c \in 1 .. Len(ch) |-> Row(c)]
  BY DEF ItemsRead
<1>0. known2 = [i \in DOMAIN known |-> IF i < m THEN keys[i + 1] ELSE known[i]]
  BY DEF KnownRead
<1> HIDE DEF ch2, known2
<1>6. ASSUME NEW c \in 1 .. Len(ch)
      PROVE  /\ Row(c) \in Rows
             /\ \A k \in 0 .. ChunkCapacity - 1 :
                   Row(c)[k] = IF (c - 1) * ChunkCapacity + k < m
                               THEN keys[((c - 1) * ChunkCapacity + k) + 1] ELSE ch[c][k]
  <2>1. ch[c] \in Rows
    BY <1>1, <1>6
  <2>2. DOMAIN ch[c] = 0 .. ChunkCapacity - 1 /\ \A k \in 0 .. ChunkCapacity - 1 : ch[c][k] \in Nat
    BY <2>1 DEF Rows
  <2> DEFINE z == (c - 1) * ChunkCapacity
  <2>3. z \in Nat
    BY <1>2, <1>6, CapacityIs, Z3
  <2> HIDE DEF z
  <2>4. ASSUME NEW k \in 0 .. ChunkCapacity - 1
        PROVE  (IF z + k < m THEN keys[(z + k) + 1] ELSE ch[c][k]) \in Nat
    <3>1. z + k \in Nat
      BY <2>3, CapacityIs
    <3> QED
      BY <3>1, <2>2, <1>4
  <2>5. Row(c) = [k \in 0 .. ChunkCapacity - 1 |-> IF z + k < m THEN keys[(z + k) + 1] ELSE ch[c][k]]
    BY <2>2, Zenon DEF z
  <2> HIDE DEF Row
  <2>6. Row(c) \in Rows
    BY <2>4, <2>5, Zenon DEF Rows
  <2>7. \A k \in 0 .. ChunkCapacity - 1 : Row(c)[k] = IF z + k < m THEN keys[(z + k) + 1] ELSE ch[c][k]
    BY <2>5, Zenon
  <2> QED
    BY <2>6, <2>7, Zenon DEF z
<1> HIDE DEF Row
<1>7. ch2 \in Seq(Rows) /\ Len(ch2) = Len(ch) /\ \A c \in 1 .. Len(ch) : ch2[c] = Row(c)
  BY <1>2, <1>5, <1>6
<1>8. ASSUME NEW i \in Places(ch) PROVE ItemOf(ch2, i) = IF i < m THEN keys[i + 1] ELSE ItemOf(ch, i)
  <2> DEFINE q == i \div ChunkCapacity
             r == i % ChunkCapacity
  <2>1. i \in Nat /\ q + 1 \in 1 .. Len(ch) /\ r \in 0 .. ChunkCapacity - 1
    BY <1>1, PlaceIn, Zenon
  <2>2. i = (ChunkCapacity * q) + r /\ q \in Int
    <3>1. i \in Int
      BY <2>1
    <3> QED
      BY <3>1, CapacityIs, DivMod, Zenon
  <2>3. ItemOf(ch2, i) = ch2[q + 1][r] /\ ItemOf(ch, i) = ch[q + 1][r]
    BY DEF ItemOf
  <2> HIDE DEF q, r
  <2>4. ((q + 1) - 1) * ChunkCapacity + r = i
    <3>1. (q + 1) - 1 = q
      BY <2>2
    <3>2. q * ChunkCapacity = ChunkCapacity * q
      BY <2>2, CapacityIs, Z3
    <3> QED
      BY <3>1, <3>2, <2>2
  <2> QED
    BY <2>1, <2>3, <2>4, <1>6, <1>7, Zenon
<1>9. Places(ch2) = Places(ch)
  BY <1>7, Zenon DEF Places
<1>10. /\ known2 \in [0 .. MaxRecords - 1 -> Int]
       /\ \A i \in 0 .. MaxRecords - 1 : known2[i] = IF i < m THEN keys[i + 1] ELSE known[i]
  <2> DEFINE v(i) == IF i < m THEN keys[i + 1] ELSE known[i]
  <2>1. ASSUME NEW i \in 0 .. MaxRecords - 1 PROVE v(i) \in Int
    <3>1. i \in Nat /\ known[i] \in Int
      BY <1>1, CapacityIs
    <3>2. i < m => keys[i + 1] \in Nat
      BY <3>1, <1>4
    <3> QED
      BY <3>1, <3>2
  <2>2. known2 = [i \in 0 .. MaxRecords - 1 |-> v(i)]
    BY <1>0, <1>1
  <2> HIDE DEF v
  <2>3. known2 \in [0 .. MaxRecords - 1 -> Int] /\ \A i \in 0 .. MaxRecords - 1 : known2[i] = v(i)
    BY <2>1, <2>2
  <2> QED
    BY <2>3, Zenon DEF v
<1>11. ASSUME NEW j \in Places(ch), j >= most PROVE ItemOf(ch2, j) = 0
  <2>1. ~(j < m)
    <3>1. j \in Nat
      BY <1>1, PlaceIn, Zenon
    <3> QED
      BY <3>1, <1>1, <1>3, <1>11, CapacityIs
  <2> QED
    BY <2>1, <1>1, <1>8, <1>11, Zenon
<1>12. ArrayOK(n, ch2, known2, most)
  BY <1>1, <1>7, <1>9, <1>10, <1>11, Zenon DEF ArrayOK
<1>13. ASSUME NEW j \in 0 .. n - 1 PROVE known2[j] \in {-1, ItemOf(ch2, j)}
  <2>1. known[j] \in {-1, ItemOf(ch, j)}
    BY Zenon DEF KnownOK
  <2> QED
    BY <2>1, <1>2, <1>8, <1>10, Zenon
<1> QED
  BY <1>12, <1>13, Zenon DEF KnownOK, ch2, known2

-----------------------------------------------------------------------------
(* The prototype of a record. *)

\* Each field starts where the one before ends; the record's alignment is that of
\* one of its fields, and is divisible by the alignment of every field that was
\* placed at a multiple of it.
Divides(c, a) == a % c = 0
FieldRecords == [offset : Nat, size : Nat, alignment : Nat \ {0}]
FieldsOK(fs, size, alignment) ==
    /\ size \in Nat /\ alignment \in Nat \ {0} /\ fs \in Seq(FieldRecords)
    /\ alignment = 1 \/ \E t \in FieldTypes : t.alignment = alignment
    /\ \A k \in 1 .. Len(fs) :
          fs[k].offset + fs[k].size = IF k < Len(fs) THEN fs[k + 1].offset ELSE size
    /\ \A k \in 1 .. Len(fs) :
          Divides(fs[k].alignment, fs[k].offset) => Divides(fs[k].alignment, alignment)

LEMMA DividesIs ==
    ASSUME NEW c \in Nat \ {0}, NEW a \in Int, Divides(c, a)
    PROVE  \E z \in Int : a = c * z
<1>1. a \div c \in Int /\ a = (c * (a \div c)) + (a % c)
  BY DivMod
<1> DEFINE z == a \div c
<1>2. z \in Int /\ a = (c * z) + 0
  BY <1>1, Zenon DEF Divides
<1> HIDE DEF z
<1>3. a = c * z
  <2>1. c * z \in Int
    BY <1>2, Z3
  <2> DEFINE y == c * z
  <2>2. y \in Int /\ a = y + 0
    BY <2>1, <1>2
  <2> HIDE DEF y
  <2>3. a = y
    BY <2>2
  <2> QED
    BY <2>3 DEF y
<1> QED
  BY <1>2, <1>3, Zenon

LEMMA MultipleDivides ==
    ASSUME NEW c \in Nat \ {0}, NEW z \in Int
    PROVE  Divides(c, c * z)
BY MultipleMod, Zenon DEF Divides

LEMMA DividesOn ==
    ASSUME NEW c \in Nat \ {0}, NEW b \in Nat \ {0}, NEW a \in Int, Divides(c, b), Divides(b, a)
    PROVE  Divides(c, a)
<1>1. PICK y \in Int : b = c * y
  <2>1. b \in Int
    OBVIOUS
  <2> QED
    BY <2>1, DividesIs, Zenon
<1>2. PICK z \in Int : a = b * z
  BY DividesIs, Zenon
<1>3. y * z \in Int
  BY Z3
<1>4. a = c * (y * z)
  BY <1>1, <1>2, Z3
<1> QED
  BY <1>3, <1>4, MultipleDivides, Zenon

LEMMA EveryOne ==
    ASSUME NEW c \in Nat \ {0}
    PROVE  /\ Divides(c, c) /\ Divides(1, c) /\ Divides(c, 0)
           /\ c <= 1 => c = 1
BY Z3 DEF Divides

\* Adding a field keeps them.
LEMMA FieldAdded ==
    ASSUME NEW fs, NEW size, NEW alignment, FieldsOK(fs, size, alignment),
           NEW type \in FieldTypes,
           NEW alignment2, alignment2 = (IF Divides(type.alignment, size) /\ alignment < type.alignment
                                         THEN type.alignment ELSE alignment)
    PROVE  FieldsOK(Append(fs, [offset |-> size, size |-> type.size, alignment |-> type.alignment]),
                    size + type.size, alignment2)
<1> DEFINE f == [offset |-> size, size |-> type.size, alignment |-> type.alignment]
           fs2 == Append(fs, f)
<1>1. /\ size \in Nat /\ alignment \in Nat \ {0} /\ fs \in Seq(FieldRecords)
      /\ alignment = 1 \/ \E t \in FieldTypes : t.alignment = alignment
      /\ \A k \in 1 .. Len(fs) :
            fs[k].offset + fs[k].size = IF k < Len(fs) THEN fs[k + 1].offset ELSE size
      /\ \A k \in 1 .. Len(fs) :
            Divides(fs[k].alignment, fs[k].offset) => Divides(fs[k].alignment, alignment)
  BY Zenon DEF FieldsOK
<1>2. type.size \in Nat /\ type.alignment \in Nat \ {0}
  BY RecordsAssumption
<1>3. f \in FieldRecords /\ f.offset = size /\ f.size = type.size /\ f.alignment = type.alignment
  BY <1>1, <1>2 DEF FieldRecords
<1> HIDE DEF f
<1>4. /\ fs2 \in Seq(FieldRecords) /\ Len(fs2) = Len(fs) + 1 /\ Len(fs) \in Nat
      /\ fs2[Len(fs) + 1] = f /\ \A k \in 1 .. Len(fs) : fs2[k] = fs[k]
  BY <1>1, <1>3
<1> HIDE DEF fs2
<1>5. alignment2 \in Nat \ {0} /\ size + type.size \in Nat
  BY <1>1, <1>2
<1>6. alignment2 = 1 \/ \E t \in FieldTypes : t.alignment = alignment2
  BY <1>1, Zenon
<1>7. Divides(alignment, alignment2)
  <2>1. CASE Divides(type.alignment, size) /\ alignment < type.alignment
    <3>1. alignment2 = type.alignment
      BY <2>1
    <3>2. CASE alignment = 1
      BY <3>1, <3>2, <1>2, EveryOne, Zenon
    <3>3. CASE \E t \in FieldTypes : t.alignment = alignment
      <4>1. PICK t \in FieldTypes : t.alignment = alignment
        BY <3>3
      <4>2. alignment <= type.alignment
        BY <2>1, <1>1, <1>2
      <4>3. t.alignment <= type.alignment => type.alignment % t.alignment = 0
        BY RecordsAssumption, Zenon
      <4> QED
        BY <3>1, <4>1, <4>2, <4>3, Zenon DEF Divides
    <3> QED
      BY <3>2, <3>3, <1>1
  <2>2. CASE ~(Divides(type.alignment, size) /\ alignment < type.alignment)
    <3>1. alignment2 = alignment
      BY <2>2
    <3> QED
      BY <3>1, <1>1, EveryOne, Zenon
  <2> QED
    BY <2>1, <2>2
<1>8. ASSUME Divides(type.alignment, size) PROVE Divides(type.alignment, alignment2)
  <2>1. CASE alignment < type.alignment
    <3>1. alignment2 = type.alignment
      BY <2>1, <1>8
    <3> QED
      BY <3>1, <1>2, EveryOne, Zenon
  <2>2. CASE ~(alignment < type.alignment)
    <3>1. alignment2 = alignment /\ type.alignment <= alignment
      <4>1. alignment2 = alignment
        BY <2>2
      <4>2. type.alignment <= alignment
        BY <2>2, <1>1, <1>2
      <4> QED
        BY <4>1, <4>2
    <3>2. CASE alignment = 1
      <4>1. type.alignment = 1
        BY <3>1, <3>2, <1>2
      <4> QED
        BY <3>1, <3>2, <4>1, <1>2, EveryOne, Zenon
    <3>3. CASE \E t \in FieldTypes : t.alignment = alignment
      <4>1. PICK t \in FieldTypes : t.alignment = alignment
        BY <3>3
      <4>2. type.alignment <= t.alignment => t.alignment % type.alignment = 0
        BY RecordsAssumption, Zenon
      <4> QED
        BY <3>1, <4>1, <4>2, Zenon DEF Divides
    <3> QED
      BY <3>2, <3>3, <1>1
  <2> QED
    BY <2>1, <2>2
<1>9. \A k \in 1 .. Len(fs2) : k \in Nat /\ (k \in 1 .. Len(fs) \/ k = Len(fs) + 1)
  BY <1>4
<1>10. ASSUME NEW k \in 1 .. Len(fs2)
       PROVE  fs2[k].offset + fs2[k].size = IF k < Len(fs2) THEN fs2[k + 1].offset ELSE size + type.size
  <2>1. CASE k = Len(fs) + 1
    <3>1. ~(k < Len(fs2)) /\ fs2[k] = f
      BY <2>1, <1>4
    <3> QED
      BY <3>1, <1>3
  <2>2. CASE k \in 1 .. Len(fs)
    <3>1. k < Len(fs2) /\ fs2[k] = fs[k]
      BY <2>2, <1>4
    <3>2. CASE k < Len(fs)
      <4>1. k + 1 \in 1 .. Len(fs)
        BY <3>2, <2>2, <1>4
      <4>2. fs2[k + 1] = fs[k + 1]
        BY <4>1, <1>4
      <4>3. fs[k].offset + fs[k].size = IF k < Len(fs) THEN fs[k + 1].offset ELSE size
        BY <2>2, <1>1, Zenon
      <4> QED
        BY <3>1, <3>2, <4>2, <4>3, Zenon
    <3>3. CASE ~(k < Len(fs))
      <4>1. k + 1 = Len(fs) + 1
        BY <3>3, <2>2, <1>4
      <4>2. fs2[k + 1] = f
        BY <4>1, <1>4
      <4>3. fs[k].offset + fs[k].size = IF k < Len(fs) THEN fs[k + 1].offset ELSE size
        BY <2>2, <1>1, Zenon
      <4> QED
        BY <3>1, <3>3, <4>2, <4>3, <1>3, Zenon
    <3> QED
      BY <3>2, <3>3
  <2> QED
    BY <2>1, <2>2, <1>9
<1>11. ASSUME NEW k \in 1 .. Len(fs2), Divides(fs2[k].alignment, fs2[k].offset)
       PROVE  Divides(fs2[k].alignment, alignment2)
  <2>1. CASE k = Len(fs) + 1
    <3>1. fs2[k].alignment = type.alignment /\ fs2[k].offset = size
      BY <2>1, <1>3, <1>4, Zenon
    <3> QED
      BY <3>1, <1>8, <1>11, Zenon
  <2>2. CASE k \in 1 .. Len(fs)
    <3>1. fs2[k] = fs[k]
      BY <2>2, <1>4, Zenon
    <3>2. Divides(fs[k].alignment, alignment)
      BY <3>1, <2>2, <1>1, <1>11, Zenon
    <3>3. fs[k].alignment \in Nat \ {0}
      <4>1. fs[k] \in FieldRecords
        BY <2>2, <1>1
      <4> QED
        BY <4>1 DEF FieldRecords
    <3>4. alignment2 \in Int
      BY <1>5
    <3> QED
      BY <3>1, <3>2, <3>3, <3>4, <1>1, <1>5, <1>7, DividesOn, Zenon
  <2> QED
    BY <2>1, <2>2, <1>9
<1> QED
  BY <1>4, <1>5, <1>6, <1>10, <1>11, Zenon DEF FieldsOK, fs2, f

\* They are what FieldsAreAligned says.
LEMMA FieldsMean ==
    ASSUME FieldsOK(fields, protoSize, protoAlignment)
    PROVE  FieldsAreAligned
<1>1. /\ protoSize \in Nat /\ protoAlignment \in Nat \ {0} /\ fields \in Seq(FieldRecords)
      /\ \A k \in 1 .. Len(fields) :
            fields[k].offset + fields[k].size = IF k < Len(fields) THEN fields[k + 1].offset ELSE protoSize
      /\ \A k \in 1 .. Len(fields) :
            Divides(fields[k].alignment, fields[k].offset) => Divides(fields[k].alignment, protoAlignment)
  BY Zenon DEF FieldsOK
<1> DEFINE s == protoSize
           p == protoAlignment
           q == (s - 1) \div p
           r == (s - 1) % p
<1>2. q \in Int /\ r \in 0 .. p - 1 /\ s - 1 = (p * q) + r
  <2>1. s - 1 \in Int
    BY <1>1
  <2> QED
    BY <1>1, <2>1, DivMod, Zenon
<1>3. AlignedSize = (q + 1) * p
  BY DEF AlignedSize
<1>4. s \in Nat /\ p \in Nat \ {0}
  BY <1>1
<1> HIDE DEF q, r
<1>5. (q + 1) * p = (p * q) + p /\ p * q \in Int
  BY <1>2, <1>4, Z3
<1>6. AlignedSize \in protoSize .. protoSize + protoAlignment - 1
  <2> DEFINE pq == p * q
             al == (q + 1) * p
  <2>1. pq \in Int /\ al = pq + p /\ s - 1 = pq + r /\ r \in 0 .. p - 1
    BY <1>2, <1>5
  <2> HIDE DEF pq, al, s, p
  <2>2. al \in s .. s + p - 1
    BY <2>1, <1>4
  <2> QED
    BY <2>2, <1>3 DEF al, s, p
<1>7. ASSUME NEW k \in 1 .. Len(fields), NEW item \in 0 .. 2,
             fields[k].offset % fields[k].alignment = 0
      PROVE  (item * AlignedSize + fields[k].offset) % fields[k].alignment = 0
  <2> DEFINE o == fields[k].offset
             a == fields[k].alignment
  <2>1. o \in Nat /\ a \in Nat \ {0}
    <3>1. fields[k] \in FieldRecords
      BY <1>1
    <3> QED
      BY <3>1 DEF FieldRecords
  <2>2. Divides(a, o) /\ Divides(a, p)
    BY <1>1, <1>7, Zenon DEF Divides
  <2>3. item \in Int
    OBVIOUS
  <2> HIDE DEF o, a, p
  <2>4. o \in Int /\ p \in Int
    BY <2>1, <1>4
  <2>5. PICK y \in Int : o = a * y
    BY <2>1, <2>2, <2>4, DividesIs, Zenon
  <2>6. PICK z \in Int : p = a * z
    BY <2>1, <2>2, <2>4, DividesIs, Zenon
  <2> DEFINE w == item * ((q + 1) * z) + y
  <2>7. w \in Int
    BY <1>2, <2>3, Z3
  <2>8. item * ((q + 1) * p) + o = a * w
    <3>1. (q + 1) * p = a * ((q + 1) * z)
      BY <1>2, <2>1, <2>6, Z3
    <3> DEFINE u == (q + 1) * z
               v == (q + 1) * p
    <3>2. u \in Int /\ v = a * u
      <4>1. u \in Int
        BY <1>2, Z3
      <4> QED
        BY <3>1, <4>1
    <3> HIDE DEF u, v
    <3>3. item * v + o = a * (item * u + y)
      <4>1. item * v = a * (item * u)
        BY <2>1, <2>3, <3>2, Z3
      <4> DEFINE iu == item * u
      <4>2. iu \in Int /\ item * v = a * iu
        <5>1. iu \in Int
          BY <2>3, <3>2, Z3
        <5> QED
          BY <4>1, <5>1
      <4> HIDE DEF iu
      <4>3. a * iu + a * y = a * (iu + y)
        BY <2>1, <4>2, Z3
      <4> QED
        BY <2>5, <4>2, <4>3, Zenon DEF iu
    <3> QED
      BY <3>3 DEF u, v
  <2> HIDE DEF w
  <2>9. Divides(a, item * ((q + 1) * p) + o)
    BY <2>1, <2>7, <2>8, MultipleDivides, Zenon
  <2> QED
    BY <2>9, <1>3, Zenon DEF Divides, o, a
<1> QED
  BY <1>1, <1>6, <1>7, Zenon DEF FieldsAreAligned

-----------------------------------------------------------------------------
(* QuickSort. *)

\* The index is a permutation of the records.
Indexes(n) == 0 .. n - 1
PermOK(n, ix) ==
    /\ ix \in [Indexes(n) -> Indexes(n)]
    /\ \A p, q \in Indexes(n) : ix[p] = ix[q] => p = q
    /\ \A r \in Indexes(n) : \E p \in Indexes(n) : ix[p] = r

\* The keys in the order of the index.
KeysIn(n, ch, ix) == [p \in Indexes(n) |-> ItemOf(ch, ix[p])]

\* The ranges that are still to be sorted follow one another, and two records that
\* are not in one of them are in order.
Ranges == [low : Int, high : Int]
RangesOK(n, cs) ==
    /\ cs \in Seq(Ranges)
    /\ \A k \in 1 .. Len(cs) : 0 <= cs[k].low /\ cs[k].low < cs[k].high /\ cs[k].high <= n - 1
    /\ \A k, l \in 1 .. Len(cs) : k < l => cs[k].high < cs[l].low
InRange(c, a, b) == c.low <= a /\ b <= c.high
OrderedBut(n, K, cs) ==
    \A a, b \in Indexes(n) : a < b => K[a] <= K[b] \/ \E k \in 1 .. Len(cs) : InRange(cs[k], a, b)

\* Partitioning: what i and j have passed is on the right side of x, and neither
\* leaves the range: x is between them, or both have moved past a swap.
RangeRecords == [low : Int, high : Int, i : Int, j : Int, x : Int]
Now(rg) == [low |-> rg.low, high |-> rg.high]
Passed(K, rg) ==
    /\ rg.low <= rg.i /\ rg.j <= rg.high
    /\ \A a \in Int : (rg.low <= a /\ a < rg.i /\ a <= rg.high) => K[a] <= rg.x
    /\ \A b \in Int : (rg.j < b /\ rg.low <= b /\ b <= rg.high) => rg.x <= K[b]
Between(K, rg) ==
    /\ rg.i <= rg.j + 1
    /\ \/ \E m \in Int : rg.i <= m /\ m <= rg.j /\ K[m] = rg.x
       \/ rg.low < rg.i /\ rg.j < rg.high
Stage(K, rg, pc) ==
    /\ pc \in {"i", "j", "swap", "next"}
    /\ pc # "next" => Between(K, rg)
    /\ pc \in {"j", "swap"} => rg.x <= K[rg.i]
    /\ pc = "swap" => K[rg.j] <= rg.x
    /\ pc = "next" => rg.j < rg.i /\ rg.low < rg.i /\ rg.j < rg.high
QuickOK(n, K, rg, cs, pc) ==
    /\ rg \in RangeRecords
    /\ RangesOK(n, <<Now(rg)>> \o cs) /\ OrderedBut(n, K, <<Now(rg)>> \o cs)
    /\ cs \in Seq(Ranges)
    /\ Passed(K, rg) /\ Stage(K, rg, pc)

LEMMA NowIn ==
    ASSUME NEW rg \in RangeRecords, NEW cs \in Seq(Ranges)
    PROVE  /\ Now(rg) \in Ranges /\ Now(rg).low = rg.low /\ Now(rg).high = rg.high
           /\ Len(<<Now(rg)>> \o cs) = Len(cs) + 1 /\ Len(cs) \in Nat
           /\ (<<Now(rg)>> \o cs)[1] = Now(rg)
           /\ \A k \in 1 .. Len(cs) : (<<Now(rg)>> \o cs)[k + 1] = cs[k] /\ cs[k] \in Ranges
           /\ rg.low \in Int /\ rg.high \in Int /\ rg.i \in Int /\ rg.j \in Int /\ rg.x \in Int
<1>1. rg.low \in Int /\ rg.high \in Int /\ rg.i \in Int /\ rg.j \in Int /\ rg.x \in Int
  BY DEF RangeRecords
<1>2. Now(rg) \in Ranges /\ Now(rg).low = rg.low /\ Now(rg).high = rg.high
  BY <1>1 DEF Now, Ranges
<1> DEFINE c == Now(rg)
<1> HIDE DEF c
<1>3. c \in Ranges
  BY <1>2 DEF c
<1>4. /\ Len(<<c>> \o cs) = Len(cs) + 1 /\ Len(cs) \in Nat
      /\ (<<c>> \o cs)[1] = c
      /\ \A k \in 1 .. Len(cs) : (<<c>> \o cs)[k + 1] = cs[k] /\ cs[k] \in Ranges
  BY <1>3
<1> QED
  BY <1>1, <1>2, <1>4 DEF c

\* A range that is taken up.
LEMMA RangeStarts ==
    ASSUME NEW n \in Nat, NEW K \in [Indexes(n) -> Nat],
           NEW c \in Ranges, NEW cs \in Seq(Ranges), RangesOK(n, <<c>> \o cs), OrderedBut(n, K, <<c>> \o cs),
           NEW rg, rg = [low |-> c.low, high |-> c.high, i |-> c.low, j |-> c.high,
                         x |-> K[(c.low + c.high) \div 2]]
    PROVE  QuickOK(n, K, rg, cs, "i")
<1>1. c.low \in Int /\ c.high \in Int
  BY DEF Ranges
<1>2. Len(<<c>> \o cs) >= 1 /\ (<<c>> \o cs)[1] = c
  OBVIOUS
<1>3. 0 <= c.low /\ c.low < c.high /\ c.high <= n - 1
  BY <1>2 DEF RangesOK
<1> DEFINE m == (c.low + c.high) \div 2
<1>4. m \in Int /\ c.low <= m /\ m <= c.high /\ m \in Indexes(n)
  BY <1>1, <1>3 DEF Indexes
<1> HIDE DEF m
<1>5. K[m] \in Int
  BY <1>4
<1>6. rg = [low |-> c.low, high |-> c.high, i |-> c.low, j |-> c.high, x |-> K[m]]
  BY DEF m
<1>7. /\ rg \in RangeRecords /\ rg.low = c.low /\ rg.high = c.high /\ rg.i = c.low /\ rg.j = c.high
      /\ rg.x = K[m]
  BY <1>1, <1>5, <1>6 DEF RangeRecords
<1>8. Now(rg) = c
  BY <1>7 DEF Now, Ranges
<1>9. Passed(K, rg)
  BY <1>1, <1>7 DEF Passed
<1>10. Between(K, rg)
  <2>1. rg.i <= rg.j + 1
    BY <1>1, <1>3, <1>7
  <2>2. \E k \in Int : rg.i <= k /\ k <= rg.j /\ K[k] = rg.x
    BY <1>4, <1>7
  <2> QED
    BY <2>1, <2>2, Zenon DEF Between
<1>11. Stage(K, rg, "i")
  BY <1>10 DEF Stage
<1> QED
  BY <1>7, <1>8, <1>9, <1>11, Zenon DEF QuickOK

\* The range is within the records.
LEMMA RangeInside ==
    ASSUME NEW n \in Nat, NEW K, NEW rg, NEW cs, NEW pc, QuickOK(n, K, rg, cs, pc)
    PROVE  /\ rg \in RangeRecords /\ cs \in Seq(Ranges)
           /\ rg.low \in Int /\ rg.high \in Int /\ rg.i \in Int /\ rg.j \in Int /\ rg.x \in Int
           /\ 0 <= rg.low /\ rg.low < rg.high /\ rg.high <= n - 1
           /\ Passed(K, rg) /\ Stage(K, rg, pc)
           /\ pc # "next" => /\ rg.i <= rg.high /\ rg.low <= rg.j
                             /\ rg.i \in Indexes(n) /\ rg.j \in Indexes(n)
<1>1. rg \in RangeRecords /\ cs \in Seq(Ranges) /\ Passed(K, rg) /\ Stage(K, rg, pc)
      /\ RangesOK(n, <<Now(rg)>> \o cs)
  BY Zenon DEF QuickOK
<1>2. /\ rg.low \in Int /\ rg.high \in Int /\ rg.i \in Int /\ rg.j \in Int /\ rg.x \in Int
      /\ Now(rg).low = rg.low /\ Now(rg).high = rg.high
      /\ Len(<<Now(rg)>> \o cs) = Len(cs) + 1 /\ Len(cs) \in Nat
      /\ (<<Now(rg)>> \o cs)[1] = Now(rg)
  BY <1>1, NowIn, Zenon
<1>3. 1 \in 1 .. Len(<<Now(rg)>> \o cs)
  BY <1>2
<1>4. 0 <= rg.low /\ rg.low < rg.high /\ rg.high <= n - 1
  <2> DEFINE s == <<Now(rg)>> \o cs
  <2>1. \A k \in 1 .. Len(s) : 0 <= s[k].low /\ s[k].low < s[k].high /\ s[k].high <= n - 1
    BY <1>1, Zenon DEF RangesOK
  <2> QED
    BY <1>2, <1>3, <2>1, Zenon
<1>5. ASSUME pc # "next" PROVE rg.i <= rg.high /\ rg.low <= rg.j /\ rg.i \in Indexes(n) /\ rg.j \in Indexes(n)
  <2>1. /\ rg.low <= rg.i /\ rg.j <= rg.high
    BY <1>1 DEF Passed
  <2>2. /\ rg.i <= rg.j + 1
        /\ \/ \E m \in Int : rg.i <= m /\ m <= rg.j
           \/ rg.low < rg.i /\ rg.j < rg.high
    BY <1>1, <1>5 DEF Stage, Between
  <2>3. rg.i <= rg.high /\ rg.low <= rg.j
    BY <2>1, <2>2, <1>2
  <2> QED
    BY <2>1, <2>3, <1>2, <1>4 DEF Indexes
<1> QED
  BY <1>1, <1>2, <1>4, <1>5, Zenon

LEMMA RangeMoved ==
    ASSUME NEW rg \in RangeRecords, NEW z \in Int
    PROVE  /\ [rg EXCEPT !.i = z] \in RangeRecords
           /\ [rg EXCEPT !.i = z].low = rg.low /\ [rg EXCEPT !.i = z].high = rg.high
           /\ [rg EXCEPT !.i = z].i = z /\ [rg EXCEPT !.i = z].j = rg.j /\ [rg EXCEPT !.i = z].x = rg.x
           /\ [rg EXCEPT !.j = z] \in RangeRecords
           /\ [rg EXCEPT !.j = z].low = rg.low /\ [rg EXCEPT !.j = z].high = rg.high
           /\ [rg EXCEPT !.j = z].i = rg.i /\ [rg EXCEPT !.j = z].j = z /\ [rg EXCEPT !.j = z].x = rg.x
BY DEF RangeRecords

\* i moves up or stops.
LEMMA ScanUpKeeps ==
    ASSUME NEW n \in Nat, NEW K \in [Indexes(n) -> Nat], NEW rg, NEW cs, QuickOK(n, K, rg, cs, "i"),
           NEW rg2, NEW pc2,
           \/ K[rg.i] < rg.x /\ rg2 = [rg EXCEPT !.i = rg.i + 1] /\ pc2 = "i"
           \/ ~(K[rg.i] < rg.x) /\ rg2 = rg /\ pc2 = "j"
    PROVE  QuickOK(n, K, rg2, cs, pc2)
<1>1. /\ rg \in RangeRecords /\ cs \in Seq(Ranges)
      /\ rg.low \in Int /\ rg.high \in Int /\ rg.i \in Int /\ rg.j \in Int /\ rg.x \in Int
      /\ Passed(K, rg) /\ Stage(K, rg, "i") /\ rg.i <= rg.high
      /\ rg.i \in Indexes(n) /\ rg.j \in Indexes(n)
  <2> DEFINE pc == "i"
  <2>1. pc # "next" /\ QuickOK(n, K, rg, cs, pc)
    OBVIOUS
  <2> HIDE DEF pc
  <2>2. /\ rg \in RangeRecords /\ cs \in Seq(Ranges)
        /\ rg.low \in Int /\ rg.high \in Int /\ rg.i \in Int /\ rg.j \in Int /\ rg.x \in Int
        /\ Passed(K, rg) /\ Stage(K, rg, pc) /\ rg.i <= rg.high /\ rg.low <= rg.j
        /\ rg.i \in Indexes(n) /\ rg.j \in Indexes(n)
    BY <2>1, RangeInside
  <2> QED
    BY <2>2 DEF pc
<1>2. K[rg.i] \in Int
  BY <1>1
<1>3. Between(K, rg)
  BY <1>1 DEF Stage
<1>4. CASE K[rg.i] < rg.x /\ rg2 = [rg EXCEPT !.i = rg.i + 1] /\ pc2 = "i"
  <2>1. /\ rg2 \in RangeRecords /\ rg2.low = rg.low /\ rg2.high = rg.high /\ rg2.i = rg.i + 1 /\ rg2.j = rg.j
        /\ rg2.x = rg.x
    BY <1>1, <1>4, SMTT(30) DEF RangeRecords
  <2>2. Now(rg2) = Now(rg)
    BY <2>1 DEF Now
  <2>3. Passed(K, rg2)
    <3>1. rg2.low <= rg2.i /\ rg2.j <= rg2.high
      BY <1>1, <2>1 DEF Passed
    <3>2. ASSUME NEW a \in Int, rg2.low <= a, a < rg2.i, a <= rg2.high PROVE K[a] <= rg2.x
      <4>1. CASE a = rg.i
        BY <4>1, <1>1, <1>2, <1>4, <2>1
      <4>2. CASE a # rg.i
        <5>1. rg.low <= a /\ a < rg.i /\ a <= rg.high
          BY <4>2, <3>2, <1>1, <2>1
        <5> QED
          BY <5>1, <1>1, <2>1 DEF Passed
      <4> QED
        BY <4>1, <4>2
    <3>3. \A b \in Int : (rg2.j < b /\ rg2.low <= b /\ b <= rg2.high) => rg2.x <= K[b]
      BY <1>1, <2>1, Zenon DEF Passed
    <3> QED
      BY <3>1, <3>2, <3>3, Zenon DEF Passed
  <2>4. Between(K, rg2)
    <3>1. CASE \E m \in Int : rg.i <= m /\ m <= rg.j /\ K[m] = rg.x
      <4>1. PICK m \in Int : rg.i <= m /\ m <= rg.j /\ K[m] = rg.x
        BY <3>1
      <4>2. m # rg.i
        BY <4>1, <1>1, <1>2, <1>4
      <4>3. rg2.i <= m /\ m <= rg2.j /\ K[m] = rg2.x
        BY <4>1, <4>2, <2>1, <1>1
      <4>4. rg2.i <= rg2.j + 1
        BY <4>1, <4>3, <2>1, <1>1
      <4> QED
        BY <4>3, <4>4, Zenon DEF Between
    <3>2. CASE rg.low < rg.i /\ rg.j < rg.high
      <4>1. rg.i # rg.j + 1
        <5> SUFFICES ASSUME rg.i = rg.j + 1 PROVE FALSE
          OBVIOUS
        <5>1. rg.x <= K[rg.i]
          <6>1. rg.j < rg.i /\ rg.low <= rg.i
            BY <3>2, <1>1
          <6> QED
            BY <6>1, <1>1 DEF Passed
        <5> QED
          BY <5>1, <1>1, <1>2, <1>4
      <4>2. rg.i <= rg.j + 1
        BY <1>3 DEF Between
      <4>3. rg2.i <= rg2.j + 1 /\ rg2.low < rg2.i /\ rg2.j < rg2.high
        <5> DEFINE i == rg.i
                   j == rg.j
                   low == rg.low
                   high == rg.high
        <5>1. /\ i \in Int /\ j \in Int /\ low \in Int /\ high \in Int
              /\ i # j + 1 /\ i <= j + 1 /\ low < i /\ j < high
          BY <4>1, <4>2, <3>2, <1>1
        <5> HIDE DEF i, j, low, high
        <5>2. i + 1 <= j + 1 /\ low < i + 1 /\ j < high
          BY <5>1
        <5> QED
          BY <5>2, <2>1, Zenon DEF i, j, low, high
      <4> QED
        BY <4>3, Zenon DEF Between
    <3> QED
      BY <3>1, <3>2, <1>3, Zenon DEF Between
  <2>5. Stage(K, rg2, "i")
    BY <2>4 DEF Stage
  <2>6. QuickOK(n, K, rg2, cs, "i")
    BY <1>1, <2>1, <2>2, <2>3, <2>5, Zenon DEF QuickOK
  <2> QED
    BY <2>6, <1>4
<1>5. CASE ~(K[rg.i] < rg.x) /\ rg2 = rg /\ pc2 = "j"
  <2>1. rg.x <= K[rg.i]
    BY <1>1, <1>2, <1>5
  <2>2. Stage(K, rg, "j")
    BY <2>1, <1>3 DEF Stage
  <2>3. QuickOK(n, K, rg, cs, "j")
    BY <2>2, Zenon DEF QuickOK
  <2> QED
    BY <2>3, <1>5
<1> QED
  BY <1>4, <1>5

\* j moves down or stops.
LEMMA ScanDownKeeps ==
    ASSUME NEW n \in Nat, NEW K \in [Indexes(n) -> Nat], NEW rg, NEW cs, QuickOK(n, K, rg, cs, "j"),
           NEW rg2, NEW pc2,
           \/ rg.x < K[rg.j] /\ rg2 = [rg EXCEPT !.j = rg.j - 1] /\ pc2 = "j"
           \/ ~(rg.x < K[rg.j]) /\ rg2 = rg /\ pc2 = "swap"
    PROVE  QuickOK(n, K, rg2, cs, pc2)
<1>1. /\ rg \in RangeRecords /\ cs \in Seq(Ranges)
      /\ rg.low \in Int /\ rg.high \in Int /\ rg.i \in Int /\ rg.j \in Int /\ rg.x \in Int
      /\ Passed(K, rg) /\ Stage(K, rg, "j") /\ rg.i <= rg.high /\ rg.low <= rg.j
      /\ rg.i \in Indexes(n) /\ rg.j \in Indexes(n)
  <2> DEFINE pc == "j"
  <2>1. pc # "next" /\ QuickOK(n, K, rg, cs, pc)
    OBVIOUS
  <2> HIDE DEF pc
  <2>2. /\ rg \in RangeRecords /\ cs \in Seq(Ranges)
        /\ rg.low \in Int /\ rg.high \in Int /\ rg.i \in Int /\ rg.j \in Int /\ rg.x \in Int
        /\ Passed(K, rg) /\ Stage(K, rg, pc) /\ rg.i <= rg.high /\ rg.low <= rg.j
        /\ rg.i \in Indexes(n) /\ rg.j \in Indexes(n)
    BY <2>1, RangeInside
  <2> QED
    BY <2>2 DEF pc
<1>2. K[rg.j] \in Int
  BY <1>1
<1>3. Between(K, rg) /\ rg.x <= K[rg.i]
  BY <1>1 DEF Stage
<1>4. CASE rg.x < K[rg.j] /\ rg2 = [rg EXCEPT !.j = rg.j - 1] /\ pc2 = "j"
  <2>1. /\ rg2 \in RangeRecords /\ rg2.low = rg.low /\ rg2.high = rg.high /\ rg2.i = rg.i /\ rg2.j = rg.j - 1
        /\ rg2.x = rg.x
    <3>1. rg.j - 1 \in Int
      BY <1>1
    <3> QED
      BY <3>1, <1>1, <1>4, RangeMoved, Zenon
  <2>2. Now(rg2) = Now(rg)
    BY <2>1 DEF Now
  <2>3. Passed(K, rg2)
    <3>1. rg2.low <= rg2.i /\ rg2.j <= rg2.high
      BY <1>1, <2>1 DEF Passed
    <3>2. ASSUME NEW b \in Int, rg2.j < b, rg2.low <= b, b <= rg2.high PROVE rg2.x <= K[b]
      <4>1. CASE b = rg.j
        BY <4>1, <1>1, <1>2, <1>4, <2>1
      <4>2. CASE b # rg.j
        <5>1. rg.j < b /\ rg.low <= b /\ b <= rg.high
          BY <4>2, <3>2, <1>1, <2>1
        <5> QED
          BY <5>1, <1>1, <2>1 DEF Passed
      <4> QED
        BY <4>1, <4>2
    <3>3. \A a \in Int : (rg2.low <= a /\ a < rg2.i /\ a <= rg2.high) => K[a] <= rg2.x
      BY <1>1, <2>1, Zenon DEF Passed
    <3> QED
      BY <3>1, <3>2, <3>3, Zenon DEF Passed
  <2>4. Between(K, rg2)
    <3>1. CASE \E m \in Int : rg.i <= m /\ m <= rg.j /\ K[m] = rg.x
      <4>1. PICK m \in Int : rg.i <= m /\ m <= rg.j /\ K[m] = rg.x
        BY <3>1
      <4>2. m # rg.j
        BY <4>1, <1>1, <1>2, <1>4
      <4>3. rg2.i <= m /\ m <= rg2.j /\ K[m] = rg2.x
        BY <4>1, <4>2, <2>1, <1>1
      <4>4. rg2.i <= rg2.j + 1
        BY <4>1, <4>3, <2>1, <1>1
      <4> QED
        BY <4>3, <4>4, Zenon DEF Between
    <3>2. CASE rg.low < rg.i /\ rg.j < rg.high
      <4>1. rg.i # rg.j + 1
        <5> SUFFICES ASSUME rg.i = rg.j + 1 PROVE FALSE
          OBVIOUS
        <5>1. K[rg.j] <= rg.x
          <6>1. rg.j < rg.i /\ rg.low <= rg.j /\ rg.j <= rg.high
            BY <3>2, <1>1
          <6> QED
            BY <6>1, <1>1 DEF Passed
        <5> QED
          BY <5>1, <1>1, <1>2, <1>4
      <4>2. rg.i <= rg.j + 1
        BY <1>3 DEF Between
      <4>3. rg2.i <= rg2.j + 1
        BY <4>1, <4>2, <1>1, <2>1
      <4>4. rg2.low < rg2.i /\ rg2.j < rg2.high
        BY <3>2, <1>1, <2>1
      <4> QED
        BY <4>3, <4>4, Zenon DEF Between
    <3> QED
      BY <3>1, <3>2, <1>3, Zenon DEF Between
  <2>5. Stage(K, rg2, "j")
    BY <2>4, <1>3, <2>1 DEF Stage
  <2>6. QuickOK(n, K, rg2, cs, "j")
    BY <1>1, <2>1, <2>2, <2>3, <2>5, Zenon DEF QuickOK
  <2> QED
    BY <2>6, <1>4
<1>5. CASE ~(rg.x < K[rg.j]) /\ rg2 = rg /\ pc2 = "swap"
  <2>1. K[rg.j] <= rg.x
    BY <1>1, <1>2, <1>5
  <2>2. Stage(K, rg, "swap")
    BY <2>1, <1>3 DEF Stage
  <2>3. QuickOK(n, K, rg, cs, "swap")
    BY <2>2, Zenon DEF QuickOK
  <2> QED
    BY <2>3, <1>5
<1> QED
  BY <1>4, <1>5

\* Keys that change places inside of the range that is being sorted.
GoesTo(p, q, l, h) ==
    /\ ~(l <= p /\ p <= h) => q = p
    /\ l <= p /\ p <= h => l <= q /\ q <= h
ChangedInside(n, K, K2, l, h) ==
    \A p \in Indexes(n) : \E q \in Indexes(n) : K2[p] = K[q] /\ GoesTo(p, q, l, h)

PairGoesTo(a, b, p, q, l, h) ==
    /\ {a, b, p, q, l, h} \subseteq Int /\ l < h /\ a < b /\ ~(l <= a /\ b <= h)
    /\ GoesTo(a, p, l, h) /\ GoesTo(b, q, l, h)

LEMMA PairsMove ==
    ASSUME NEW a, NEW b, NEW p, NEW q, NEW l, NEW h, PairGoesTo(a, b, p, q, l, h)
    PROVE  /\ p < q /\ ~(l <= p /\ q <= h)
           /\ \A u \in Int : h < u /\ u <= p => u <= a /\ q = b
<1>1. /\ a \in Int /\ b \in Int /\ p \in Int /\ q \in Int /\ l \in Int /\ h \in Int
      /\ l < h /\ a < b /\ ~(l <= a /\ b <= h)
      /\ GoesTo(a, p, l, h) /\ GoesTo(b, q, l, h)
  BY DEF PairGoesTo
<1> QED
  BY <1>1 DEF GoesTo

LEMMA OrderedInside ==
    ASSUME NEW n \in Nat, NEW K \in [Indexes(n) -> Nat], NEW K2 \in [Indexes(n) -> Nat],
           NEW s, RangesOK(n, s), OrderedBut(n, K, s), NEW l \in Int, NEW h \in Int,
           Len(s) \in Nat, Len(s) >= 1, s[1].low = l, s[1].high = h,
           ChangedInside(n, K, K2, l, h)
    PROVE  OrderedBut(n, K2, s)
<1>1. /\ \A k \in 1 .. Len(s) : k \in Int /\ s[k].low \in Int /\ s[k].high \in Int
      /\ l < h /\ 1 \in 1 .. Len(s)
      /\ \A k \in 1 .. Len(s) : k # 1 => h < s[k].low
  <2>1. 1 \in 1 .. Len(s)
    OBVIOUS
  <2>2. s \in Seq(Ranges) /\ l < h
    BY <2>1, Zenon DEF RangesOK
  <2>3. ASSUME NEW k \in 1 .. Len(s) PROVE s[k].low \in Int /\ s[k].high \in Int
    <3>1. s[k] \in Ranges
      BY <2>2
    <3> QED
      BY <3>1 DEF Ranges
  <2>4. ASSUME NEW k \in 1 .. Len(s), k # 1 PROVE h < s[k].low
    <3>1. 1 < k
      BY <2>4
    <3> QED
      BY <3>1, <2>1, Zenon DEF RangesOK
  <2>5. \A k \in 1 .. Len(s) : k \in Int
    OBVIOUS
  <2> QED
    BY <2>1, <2>2, <2>3, <2>4, <2>5, Zenon
<1>2. SUFFICES ASSUME NEW a \in Indexes(n), NEW b \in Indexes(n), a < b
               PROVE  K2[a] <= K2[b] \/ \E k \in 1 .. Len(s) : InRange(s[k], a, b)
  BY Zenon DEF OrderedBut
<1>3. PICK p \in Indexes(n) : K2[a] = K[p] /\ GoesTo(a, p, l, h)
  BY Zenon DEF ChangedInside
<1>4. PICK q \in Indexes(n) : K2[b] = K[q] /\ GoesTo(b, q, l, h)
  BY Zenon DEF ChangedInside
<1>5. a \in Int /\ b \in Int /\ p \in Int /\ q \in Int
  BY DEF Indexes
<1>6. CASE l <= a /\ b <= h
  BY <1>6, <1>1, Zenon DEF InRange
<1>7. CASE ~(l <= a /\ b <= h)
  <2>0. l < h
    BY <1>1, Zenon
  <2>1. p < q /\ ~(l <= p /\ q <= h) /\ \A u \in Int : h < u /\ u <= p => u <= a /\ q = b
    <3>1. PairGoesTo(a, b, p, q, l, h)
      BY <1>2, <1>3, <1>4, <1>5, <1>7, <2>0, Zenon DEF PairGoesTo
    <3> QED
      BY <3>1, PairsMove
  <2>2. CASE K[p] <= K[q]
    BY <2>2, <1>3, <1>4, Zenon
  <2>3. CASE \E k \in 1 .. Len(s) : InRange(s[k], p, q)
    <3>1. PICK k \in 1 .. Len(s) : s[k].low <= p /\ q <= s[k].high
      BY <2>3, Zenon DEF InRange
    <3>2. CASE k = 1
      <4>1. l <= p /\ q <= h
        BY <3>1, <3>2
      <4> QED
        BY <4>1, <2>1
    <3>3. CASE k # 1
      <4> DEFINE u == s[k].low
                 v == s[k].high
      <4>1. h < u /\ u \in Int /\ v \in Int /\ u <= p /\ q <= v
        BY <3>1, <3>3, <1>1, Zenon
      <4> HIDE DEF u, v
      <4>2. u <= a /\ b <= v
        BY <4>1, <2>1, Zenon
      <4>3. InRange(s[k], a, b)
        BY <4>2, Zenon DEF InRange, u, v
      <4> QED
        BY <4>3, Zenon
    <3> QED
      BY <3>2, <3>3
  <2> QED
    BY <2>1, <2>2, <2>3, Zenon DEF OrderedBut
<1> QED
  BY <1>6, <1>7

\* A pair that is swapped, and both moving on.
SwappedIn(K, i, j) == IF i < j THEN [K EXCEPT ![i] = K[j], ![j] = K[i]] ELSE K
MovedOn(rg) == [rg EXCEPT !.i = rg.i + 1, !.j = rg.j - 1]

LEMMA SwappedIs ==
    ASSUME NEW n \in Nat, NEW K \in [Indexes(n) -> Nat], NEW i \in Indexes(n), NEW j \in Indexes(n)
    PROVE  /\ SwappedIn(K, i, j) \in [Indexes(n) -> Nat]
           /\ \A p \in Indexes(n) : p # i /\ p # j => SwappedIn(K, i, j)[p] = K[p]
           /\ i < j => SwappedIn(K, i, j)[i] = K[j] /\ SwappedIn(K, i, j)[j] = K[i]
           /\ ~(i < j) => SwappedIn(K, i, j) = K
<1>1. CASE i < j
  BY <1>1 DEF SwappedIn, Indexes
<1>2. CASE ~(i < j)
  BY <1>2 DEF SwappedIn
<1> QED
  BY <1>1, <1>2

LEMMA MovedIs ==
    ASSUME NEW rg \in RangeRecords
    PROVE  /\ MovedOn(rg) \in RangeRecords
           /\ MovedOn(rg).low = rg.low /\ MovedOn(rg).high = rg.high /\ MovedOn(rg).x = rg.x
           /\ MovedOn(rg).i = rg.i + 1 /\ MovedOn(rg).j = rg.j - 1
<1>1. rg.i + 1 \in Int /\ rg.j - 1 \in Int
  BY DEF RangeRecords
<1> QED
  BY <1>1 DEF MovedOn, RangeRecords

LEMMA SwapKeeps ==
    ASSUME NEW n \in Nat, NEW K \in [Indexes(n) -> Nat], NEW rg, NEW cs, QuickOK(n, K, rg, cs, "swap"),
           NEW K2, K2 = SwappedIn(K, rg.i, rg.j),
           NEW rg2, rg.i <= rg.j => rg2 = MovedOn(rg), ~(rg.i <= rg.j) => rg2 = rg,
           NEW pc2, rg2.i <= rg2.j => pc2 = "i", ~(rg2.i <= rg2.j) => pc2 = "next"
    PROVE  QuickOK(n, K2, rg2, cs, pc2)
<1>1. /\ rg \in RangeRecords /\ cs \in Seq(Ranges)
      /\ rg.low \in Int /\ rg.high \in Int /\ rg.i \in Int /\ rg.j \in Int /\ rg.x \in Int
      /\ 0 <= rg.low /\ rg.low < rg.high /\ rg.high <= n - 1
      /\ Passed(K, rg) /\ Stage(K, rg, "swap") /\ rg.i <= rg.high /\ rg.low <= rg.j
      /\ rg.i \in Indexes(n) /\ rg.j \in Indexes(n)
  <2> DEFINE pc == "swap"
  <2>1. pc # "next" /\ QuickOK(n, K, rg, cs, pc)
    OBVIOUS
  <2> HIDE DEF pc
  <2>2. /\ rg \in RangeRecords /\ cs \in Seq(Ranges)
        /\ rg.low \in Int /\ rg.high \in Int /\ rg.i \in Int /\ rg.j \in Int /\ rg.x \in Int
        /\ 0 <= rg.low /\ rg.low < rg.high /\ rg.high <= n - 1
        /\ Passed(K, rg) /\ Stage(K, rg, pc) /\ rg.i <= rg.high /\ rg.low <= rg.j
        /\ rg.i \in Indexes(n) /\ rg.j \in Indexes(n)
    BY <2>1, RangeInside
  <2> QED
    BY <2>2 DEF pc
<1> DEFINE i == rg.i
           j == rg.j
<1>2. Between(K, rg) /\ rg.x <= K[i] /\ K[j] <= rg.x
  BY <1>1 DEF Stage
<1>3. rg.low <= i /\ j <= rg.high
  BY <1>1 DEF Passed
<1>4. i \in Indexes(n) /\ j \in Indexes(n) /\ i \in Int /\ j \in Int
  BY <1>1
<1> HIDE DEF i, j
<1>5. /\ K2 \in [Indexes(n) -> Nat]
      /\ \A p \in Indexes(n) : p # i /\ p # j => K2[p] = K[p]
      /\ i < j => K2[i] = K[j] /\ K2[j] = K[i]
      /\ ~(i < j) => K2 = K
  <2>1. K2 = SwappedIn(K, i, j)
    BY DEF i, j
  <2>2. /\ SwappedIn(K, i, j) \in [Indexes(n) -> Nat]
        /\ \A p \in Indexes(n) : p # i /\ p # j => SwappedIn(K, i, j)[p] = K[p]
        /\ i < j => SwappedIn(K, i, j)[i] = K[j] /\ SwappedIn(K, i, j)[j] = K[i]
        /\ ~(i < j) => SwappedIn(K, i, j) = K
    BY <1>4, SwappedIs
  <2> QED
    BY <2>1, <2>2
<1>7. RangesOK(n, <<Now(rg)>> \o cs) /\ OrderedBut(n, K, <<Now(rg)>> \o cs)
  BY Zenon DEF QuickOK
<1>8. OrderedBut(n, K2, <<Now(rg)>> \o cs)
  <2> DEFINE s == <<Now(rg)>> \o cs
             l == rg.low
             h == rg.high
  <2>1. Len(s) \in Nat /\ Len(s) >= 1 /\ s[1].low = l /\ s[1].high = h
    <3>1. Now(rg).low = rg.low /\ Now(rg).high = rg.high
          /\ Len(s) = Len(cs) + 1 /\ Len(cs) \in Nat /\ s[1] = Now(rg)
      BY <1>1, NowIn, Zenon
    <3>2. Len(s) \in Nat /\ Len(s) >= 1
      BY <3>1
    <3> QED
      BY <3>1, <3>2, Zenon
  <2>2. l \in Int /\ h \in Int /\ RangesOK(n, s) /\ OrderedBut(n, K, s)
    BY <1>1, <1>7
  <2>3. l <= i /\ i <= h /\ l <= j /\ j <= h
    BY <1>1, <1>3 DEF i, j
  <2> HIDE DEF s, l, h
  <2>4. ChangedInside(n, K, K2, l, h)
    <3> SUFFICES ASSUME NEW p \in Indexes(n)
                 PROVE  \E q \in Indexes(n) : K2[p] = K[q] /\ GoesTo(p, q, l, h)
      BY Zenon DEF ChangedInside
    <3>1. CASE p # i /\ p # j
      BY <3>1, <1>5, Zenon DEF GoesTo
    <3>2. CASE ~(i < j)
      BY <3>2, <1>5, Zenon DEF GoesTo
    <3>3. CASE p = i /\ i < j
      BY <3>3, <1>4, <1>5, <2>3, Zenon DEF GoesTo
    <3>4. CASE p = j /\ i < j
      BY <3>4, <1>4, <1>5, <2>3, Zenon DEF GoesTo
    <3> QED
      BY <3>1, <3>2, <3>3, <3>4
  <2>5. OrderedBut(n, K2, s)
    BY <1>5, <2>1, <2>2, <2>4, OrderedInside, Zenon
  <2> QED
    BY <2>5 DEF s
<1>9. CASE i <= j
  <2>1. /\ rg2 \in RangeRecords /\ rg2.low = rg.low /\ rg2.high = rg.high /\ rg2.i = i + 1 /\ rg2.j = j - 1
        /\ rg2.x = rg.x
    <3>1. rg2 = MovedOn(rg)
      BY <1>9 DEF i, j
    <3> QED
      BY <3>1, <1>1, MovedIs, Zenon DEF i, j
  <2>2. Now(rg2) = Now(rg)
    BY <2>1 DEF Now
  <2>3. K2[i] <= rg.x /\ rg.x <= K2[j]
    <3>1. CASE i < j
      BY <3>1, <1>2, <1>5, Zenon
    <3>2. CASE ~(i < j)
      <4>1. i = j
        BY <3>2, <1>9, <1>4
      <4> QED
        BY <4>1, <3>2, <1>2, <1>5, Zenon
    <3> QED
      BY <3>1, <3>2
  <2>4. \A a \in Int : rg.low <= a /\ a <= rg.high => a \in Indexes(n)
    BY <1>1 DEF Indexes
  <2>5. Passed(K2, rg2)
    <3>1. rg2.low <= rg2.i /\ rg2.j <= rg2.high
      BY <1>1, <1>3, <1>4, <2>1
    <3>2. ASSUME NEW a \in Int, rg2.low <= a, a < rg2.i, a <= rg2.high PROVE K2[a] <= rg2.x
      <4>1. CASE a = i
        BY <4>1, <2>1, <2>3, Zenon
      <4>2. CASE a # i
        <5>0. rg.low <= a /\ a < i + 1 /\ a <= rg.high
          BY <3>2, <2>1, Zenon
        <5>1. rg.low <= a /\ a < i /\ a <= rg.high /\ a # j
          BY <5>0, <4>2, <1>4, <1>9
        <5>2. K2[a] = K[a]
          BY <5>1, <4>2, <2>4, <1>5, Zenon
        <5>3. K[a] <= rg.x
          BY <5>1, <1>1, Zenon DEF Passed, i
        <5> QED
          BY <5>2, <5>3, <2>1, Zenon
      <4> QED
        BY <4>1, <4>2
    <3>3. ASSUME NEW b \in Int, rg2.j < b, rg2.low <= b, b <= rg2.high PROVE rg2.x <= K2[b]
      <4>1. CASE b = j
        BY <4>1, <2>1, <2>3, Zenon
      <4>2. CASE b # j
        <5>0. j - 1 < b /\ rg.low <= b /\ b <= rg.high
          BY <3>3, <2>1, Zenon
        <5>1. j < b /\ rg.low <= b /\ b <= rg.high /\ b # i
          BY <5>0, <4>2, <1>4, <1>9
        <5>2. K2[b] = K[b]
          BY <5>1, <4>2, <2>4, <1>5, Zenon
        <5>3. rg.x <= K[b]
          BY <5>1, <1>1, Zenon DEF Passed, j
        <5> QED
          BY <5>2, <5>3, <2>1, Zenon
      <4> QED
        BY <4>1, <4>2
    <3> QED
      BY <3>1, <3>2, <3>3, Zenon DEF Passed
  <2>6. Stage(K2, rg2, pc2)
    <3>1. rg2.low < rg2.i /\ rg2.j < rg2.high
      <4>1. rg.low < i + 1
        BY <1>1, <1>3, <1>4
      <4>2. j - 1 < rg.high
        BY <1>1, <1>3, <1>4
      <4> QED
        BY <4>1, <4>2, <2>1, Zenon
    <3>2. CASE rg2.i <= rg2.j
      <4>1. rg2.i <= rg2.j + 1
        BY <3>2, <2>1, <1>4
      <4>2. Between(K2, rg2)
        BY <3>1, <4>1, Zenon DEF Between
      <4>3. pc2 = "i"
        BY <3>2
      <4> QED
        BY <4>2, <4>3 DEF Stage
    <3>3. CASE ~(rg2.i <= rg2.j)
      <4>1. rg2.j < rg2.i
        <5>1. ~(i + 1 <= j - 1)
          BY <3>3, <2>1, Zenon
        <5>2. j - 1 < i + 1
          BY <5>1, <1>4
        <5> QED
          BY <5>2, <2>1, Zenon
      <4>2. pc2 = "next"
        BY <3>3
      <4> QED
        BY <3>1, <4>1, <4>2 DEF Stage
    <3> QED
      BY <3>2, <3>3
  <2> QED
    BY <1>1, <1>7, <1>8, <2>1, <2>2, <2>5, <2>6, Zenon DEF QuickOK
<1>10. CASE ~(i <= j)
  <2>1. K2 = K /\ rg2 = rg
    <3>1. ~(i < j)
      BY <1>10, <1>4
    <3> QED
      BY <3>1, <1>5, <1>10, Zenon DEF i, j
  <2>2. pc2 = "next"
    BY <2>1, <1>10 DEF i, j
  <2>3. rg.j < rg.i
    BY <1>10, <1>4 DEF i, j
  <2>4. rg.low < rg.i /\ rg.j < rg.high
    <3>1. \/ \E m \in Int : rg.i <= m /\ m <= rg.j
          \/ rg.low < rg.i /\ rg.j < rg.high
      BY <1>2, Zenon DEF Between
    <3> QED
      BY <3>1, <2>3, <1>1
  <2>5. Stage(K2, rg2, pc2)
    BY <2>1, <2>2, <2>3, <2>4 DEF Stage
  <2> QED
    BY <1>1, <1>7, <2>1, <2>5, Zenon DEF QuickOK
<1> QED
  BY <1>9, <1>10

\* Lists of ranges, one after the other.
Precedes(s, t) == \A k \in 1 .. Len(s), m \in 1 .. Len(t) : s[k].high < t[m].low

LEMMA RangesJoin ==
    ASSUME NEW n \in Nat, NEW s, NEW t, RangesOK(n, s), RangesOK(n, t),
           Precedes(s, t)
    PROVE  /\ RangesOK(n, s \o t)
           /\ \A k \in 1 .. Len(s) : \E m \in 1 .. Len(s \o t) : (s \o t)[m] = s[k]
           /\ \A k \in 1 .. Len(t) : \E m \in 1 .. Len(s \o t) : (s \o t)[m] = t[k]
           /\ \A m \in 1 .. Len(s \o t) : \/ \E k \in 1 .. Len(s) : (s \o t)[m] = s[k]
                                          \/ \E k \in 1 .. Len(t) : (s \o t)[m] = t[k]
<1> DEFINE r == s \o t
<1>1. s \in Seq(Ranges) /\ t \in Seq(Ranges)
  BY DEF RangesOK
<1>2. /\ r \in Seq(Ranges) /\ Len(r) = Len(s) + Len(t) /\ Len(s) \in Nat /\ Len(t) \in Nat
      /\ \A k \in 1 .. Len(s) : r[k] = s[k]
      /\ \A k \in 1 .. Len(t) : r[Len(s) + k] = t[k]
  BY <1>1
<1> HIDE DEF r
<1>3. \A m \in 1 .. Len(r) : m \in 1 .. Len(s) \/ (m - Len(s) \in 1 .. Len(t) /\ m = Len(s) + (m - Len(s)))
  BY <1>2
<1>10. ASSUME NEW m \in 1 .. Len(r), m - Len(s) \in 1 .. Len(t) PROVE r[m] = t[m - Len(s)]
  <2> DEFINE k == m - Len(s)
  <2>1. k \in 1 .. Len(t) /\ m = Len(s) + k
    BY <1>2, <1>10
  <2> HIDE DEF k
  <2>2. r[m] = t[k]
    BY <2>1, <1>2, Zenon
  <2> QED
    BY <2>2 DEF k
<1>4. ASSUME NEW m \in 1 .. Len(r)
      PROVE  \/ \E k \in 1 .. Len(s) : r[m] = s[k]
             \/ \E k \in 1 .. Len(t) : r[m] = t[k]
  BY <1>2, <1>3, Zenon
<1>5. \A k \in 1 .. Len(s) : \E m \in 1 .. Len(r) : r[m] = s[k]
  <2>1. \A k \in 1 .. Len(s) : k \in 1 .. Len(r)
    BY <1>2
  <2> QED
    BY <2>1, <1>2, Zenon
<1>6. \A k \in 1 .. Len(t) : \E m \in 1 .. Len(r) : r[m] = t[k]
  <2>1. \A k \in 1 .. Len(t) : Len(s) + k \in 1 .. Len(r)
    BY <1>2
  <2> QED
    BY <2>1, <1>2, Zenon
<1>7. \A k \in 1 .. Len(r) : 0 <= r[k].low /\ r[k].low < r[k].high /\ r[k].high <= n - 1
  <2>1. /\ \A k \in 1 .. Len(s) : 0 <= s[k].low /\ s[k].low < s[k].high /\ s[k].high <= n - 1
        /\ \A k \in 1 .. Len(t) : 0 <= t[k].low /\ t[k].low < t[k].high /\ t[k].high <= n - 1
    BY Zenon DEF RangesOK
  <2> QED
    BY <2>1, <1>4, Zenon
<1>8. ASSUME NEW k \in 1 .. Len(r), NEW m \in 1 .. Len(r), k < m PROVE r[k].high < r[m].low
  <2>1. CASE m \in 1 .. Len(s)
    <3>1. k \in 1 .. Len(s)
      BY <1>2, <1>8, <2>1
    <3>2. s[k].high < s[m].low
      BY <3>1, <2>1, <1>8, Zenon DEF RangesOK
    <3> QED
      BY <3>1, <3>2, <2>1, <1>2, Zenon
  <2>2. CASE k \in 1 .. Len(s) /\ m - Len(s) \in 1 .. Len(t)
    <3>1. r[k] = s[k] /\ r[m] = t[m - Len(s)]
      BY <2>2, <1>2, <1>10, Zenon
    <3>2. s[k].high < t[m - Len(s)].low
      BY <2>2, Zenon DEF Precedes
    <3> QED
      BY <3>1, <3>2, Zenon
  <2>3. CASE k - Len(s) \in 1 .. Len(t) /\ m - Len(s) \in 1 .. Len(t)
    <3>1. k - Len(s) < m - Len(s)
      BY <1>2, <1>8
    <3>2. t[k - Len(s)].high < t[m - Len(s)].low
      BY <2>3, <3>1, Zenon DEF RangesOK
    <3>3. r[k] = t[k - Len(s)] /\ r[m] = t[m - Len(s)]
      BY <2>3, <1>10, Zenon
    <3> QED
      BY <3>2, <3>3, Zenon
  <2> QED
    BY <2>1, <2>2, <2>3, <1>3
<1>9. RangesOK(n, r)
  BY <1>2, <1>7, <1>8, Zenon DEF RangesOK
<1> QED
  BY <1>4, <1>5, <1>6, <1>9, Zenon DEF r

LEMMA CallIs ==
    ASSUME NEW n \in Nat, NEW l \in Int, NEW h \in Int, 0 <= l, h <= n - 1
    PROVE  /\ RangesOK(n, CallIfLonger(l, h))
           /\ \A k \in 1 .. Len(CallIfLonger(l, h)) : CallIfLonger(l, h)[k].low = l /\ CallIfLonger(l, h)[k].high = h
           /\ l < h => \E k \in 1 .. Len(CallIfLonger(l, h)) :
                          CallIfLonger(l, h)[k].low = l /\ CallIfLonger(l, h)[k].high = h
<1> DEFINE c == [low |-> l, high |-> h]
           s == CallIfLonger(l, h)
<1>1. c \in Ranges /\ c.low = l /\ c.high = h
  BY DEF Ranges
<1>2. CASE l < h
  <2>1. s = <<c>>
    BY <1>2 DEF CallIfLonger
  <2> HIDE DEF c, s
  <2>2. <<c>> \in Seq(Ranges) /\ Len(<<c>>) = 1 /\ <<c>>[1] = c
    BY <1>1
  <2>3. s \in Seq(Ranges) /\ Len(s) = 1 /\ s[1] = c
    BY <2>1, <2>2, Zenon
  <2>4. \A k \in 1 .. Len(s) : k = 1 /\ s[k] = c
    BY <2>3
  <2>5. 1 \in 1 .. Len(s)
    BY <2>3
  <2>6. \A k, m \in 1 .. Len(s) : ~(k < m)
    BY <2>4
  <2>7. RangesOK(n, s)
    BY <1>1, <1>2, <2>3, <2>4, <2>6, Zenon DEF RangesOK
  <2> QED
    BY <1>1, <2>4, <2>5, <2>7, Zenon DEF s
<1>3. CASE ~(l < h)
  <2>1. s = <<>>
    BY <1>3 DEF CallIfLonger
  <2> HIDE DEF s
  <2>2. <<>> \in Seq(Ranges) /\ \A k \in 1 .. Len(<<>>) : FALSE
    OBVIOUS
  <2>3. s \in Seq(Ranges) /\ \A k \in 1 .. Len(s) : FALSE
    BY <2>1, <2>2, Zenon
  <2>4. RangesOK(n, s)
    BY <2>3, Zenon DEF RangesOK
  <2> QED
    BY <1>3, <2>3, <2>4, Zenon DEF s
<1> QED
  BY <1>2, <1>3

\* What is pending when a range is partitioned.
PendingOf(rg, cs) == CallIfLonger(rg.low, rg.j) \o CallIfLonger(rg.i, rg.high) \o cs

LEMMA PendingKeeps ==
    ASSUME NEW n \in Nat, NEW K \in [Indexes(n) -> Nat], NEW rg, NEW cs, QuickOK(n, K, rg, cs, "next")
    PROVE  RangesOK(n, PendingOf(rg, cs)) /\ OrderedBut(n, K, PendingOf(rg, cs))
<1>1. /\ rg \in RangeRecords /\ cs \in Seq(Ranges)
      /\ rg.low \in Int /\ rg.high \in Int /\ rg.i \in Int /\ rg.j \in Int /\ rg.x \in Int
      /\ 0 <= rg.low /\ rg.low < rg.high /\ rg.high <= n - 1
      /\ Passed(K, rg) /\ Stage(K, rg, "next")
  <2> DEFINE pc == "next"
  <2>1. QuickOK(n, K, rg, cs, pc)
    OBVIOUS
  <2> HIDE DEF pc
  <2>2. /\ rg \in RangeRecords /\ cs \in Seq(Ranges)
        /\ rg.low \in Int /\ rg.high \in Int /\ rg.i \in Int /\ rg.j \in Int /\ rg.x \in Int
        /\ 0 <= rg.low /\ rg.low < rg.high /\ rg.high <= n - 1
        /\ Passed(K, rg) /\ Stage(K, rg, pc)
    BY <2>1, RangeInside
  <2> QED
    BY <2>2 DEF pc
<1>2. rg.j < rg.i /\ rg.low < rg.i /\ rg.j < rg.high
  BY <1>1 DEF Stage
<1> DEFINE s == CallIfLonger(rg.low, rg.j)
           t == CallIfLonger(rg.i, rg.high)
           u == <<Now(rg)>> \o cs
           l == rg.low
           h == rg.high
           i == rg.i
           j == rg.j
<1>3. /\ l \in Int /\ h \in Int /\ i \in Int /\ j \in Int
      /\ 0 <= l /\ l < h /\ h <= n - 1 /\ j < i /\ l < i /\ j < h
  BY <1>1, <1>2
<1>4. RangesOK(n, u) /\ OrderedBut(n, K, u)
  BY Zenon DEF QuickOK
<1>5. /\ Len(u) = Len(cs) + 1 /\ Len(cs) \in Nat /\ u[1].low = l /\ u[1].high = h
      /\ \A k \in 1 .. Len(cs) : u[k + 1] = cs[k] /\ cs[k] \in Ranges
  BY <1>1, NowIn
<1>6. PendingOf(rg, cs) = (s \o t) \o cs
  BY DEF PendingOf
<1> HIDE DEF u, l, h, i, j
<1>7. /\ RangesOK(n, s)
      /\ \A k \in 1 .. Len(s) : s[k].low = l /\ s[k].high = j
      /\ l < j => \E k \in 1 .. Len(s) : s[k].low = l /\ s[k].high = j
  <2>1. s = CallIfLonger(l, j) /\ j <= n - 1
    BY <1>3 DEF l, j
  <2> QED
    BY <2>1, <1>3, CallIs
<1>8. /\ RangesOK(n, t)
      /\ \A k \in 1 .. Len(t) : t[k].low = i /\ t[k].high = h
      /\ i < h => \E k \in 1 .. Len(t) : t[k].low = i /\ t[k].high = h
  <2>1. t = CallIfLonger(i, h) /\ 0 <= i
    BY <1>3 DEF i, h
  <2> QED
    BY <2>1, <1>3, CallIs
<1> HIDE DEF s, t
<1>9. /\ \A k \in 1 .. Len(cs) : k + 1 \in 1 .. Len(u) /\ u[k + 1] = cs[k] /\ h < cs[k].low
      /\ \A m \in 1 .. Len(u) : m = 1 \/ (m - 1 \in 1 .. Len(cs) /\ u[m] = cs[m - 1])
  <2>1. \A k \in 1 .. Len(cs) : k + 1 \in 1 .. Len(u) /\ 1 < k + 1
    BY <1>5
  <2>2. 1 \in 1 .. Len(u)
    BY <1>5
  <2>3. \A k \in 1 .. Len(cs) : u[1].high < u[k + 1].low
    BY <1>4, <2>1, <2>2, Zenon DEF RangesOK
  <2>4. ASSUME NEW m \in 1 .. Len(u), m # 1 PROVE m - 1 \in 1 .. Len(cs) /\ u[m] = cs[m - 1]
    <3>1. m - 1 \in 1 .. Len(cs) /\ m = (m - 1) + 1
      BY <1>5, <2>4
    <3> QED
      BY <3>1, <1>5
  <2> QED
    BY <1>5, <2>1, <2>3, <2>4, Zenon
<1>10. RangesOK(n, cs)
  <2>1. \A k \in 1 .. Len(cs) : 0 <= cs[k].low /\ cs[k].low < cs[k].high /\ cs[k].high <= n - 1
    BY <1>4, <1>9, Zenon DEF RangesOK
  <2>2. ASSUME NEW k \in 1 .. Len(cs), NEW m \in 1 .. Len(cs), k < m PROVE cs[k].high < cs[m].low
    <3>1. k + 1 < m + 1
      BY <2>2
    <3> QED
      BY <3>1, <1>4, <1>9, Zenon DEF RangesOK
  <2> QED
    BY <1>1, <2>1, <2>2, Zenon DEF RangesOK
<1>11. Precedes(s, t)
  BY <1>3, <1>7, <1>8, Zenon DEF Precedes
<1> DEFINE st == s \o t
<1>12. /\ RangesOK(n, st)
       /\ \A k \in 1 .. Len(s) : \E m \in 1 .. Len(st) : st[m] = s[k]
       /\ \A k \in 1 .. Len(t) : \E m \in 1 .. Len(st) : st[m] = t[k]
       /\ \A m \in 1 .. Len(st) : \/ \E k \in 1 .. Len(s) : st[m] = s[k]
                                  \/ \E k \in 1 .. Len(t) : st[m] = t[k]
  <2>1. RangesOK(n, s) /\ RangesOK(n, t) /\ Precedes(s, t)
    BY <1>7, <1>8, <1>11
  <2>2. RangesOK(n, st)
    BY <2>1, RangesJoin
  <2>3. \A k \in 1 .. Len(s) : \E m \in 1 .. Len(st) : st[m] = s[k]
    BY <2>1, RangesJoin
  <2>4. \A k \in 1 .. Len(t) : \E m \in 1 .. Len(st) : st[m] = t[k]
    BY <2>1, RangesJoin
  <2>5. \A m \in 1 .. Len(st) : \/ \E k \in 1 .. Len(s) : st[m] = s[k]
                                \/ \E k \in 1 .. Len(t) : st[m] = t[k]
    BY <2>1, RangesJoin
  <2> QED
    BY <2>2, <2>3, <2>4, <2>5
<1> HIDE DEF st
<1>13. Precedes(st, cs)
  <2> SUFFICES ASSUME NEW k \in 1 .. Len(st), NEW m \in 1 .. Len(cs) PROVE st[k].high < cs[m].low
    BY Zenon DEF Precedes
  <2>1. st[k].high = j \/ st[k].high = h
    <3>1. CASE \E k2 \in 1 .. Len(s) : st[k] = s[k2]
      BY <3>1, <1>7, Zenon
    <3>2. CASE \E k2 \in 1 .. Len(t) : st[k] = t[k2]
      BY <3>2, <1>8, Zenon
    <3> QED
      BY <3>1, <3>2, <1>12
  <2>2. cs[m].low \in Int /\ h < cs[m].low
    <3>1. cs[m] \in Ranges
      BY <1>5, Zenon
    <3>2. cs[m].low \in Int
      BY <3>1 DEF Ranges
    <3> QED
      BY <3>2, <1>9, Zenon
  <2> DEFINE x == cs[m].low
             y == st[k].high
  <2> HIDE DEF x, y
  <2>3. (y = j \/ y = h) /\ x \in Int /\ h < x
    BY <2>1, <2>2 DEF x, y
  <2>4. y < x
    BY <2>3, <1>3
  <2> QED
    BY <2>4 DEF x, y
<1> DEFINE p == st \o cs
<1>14. /\ RangesOK(n, p)
       /\ \A k \in 1 .. Len(st) : \E m \in 1 .. Len(p) : p[m] = st[k]
       /\ \A k \in 1 .. Len(cs) : \E m \in 1 .. Len(p) : p[m] = cs[k]
  BY <1>10, <1>12, <1>13, RangesJoin
<1> HIDE DEF p
<1>15. ASSUME NEW a \in Indexes(n), NEW b \in Indexes(n), a < b
       PROVE  K[a] <= K[b] \/ \E k \in 1 .. Len(p) : InRange(p[k], a, b)
  <2>1. a \in Int /\ b \in Int /\ K[a] \in Int /\ K[b] \in Int
    BY DEF Indexes
  <2>2. CASE \E k \in 1 .. Len(u) : InRange(u[k], a, b)
    <3>1. PICK k \in 1 .. Len(u) : InRange(u[k], a, b)
      BY <2>2
    <3>2. CASE k = 1
      <4>1. l <= a /\ b <= h
        BY <3>1, <3>2, <1>5, Zenon DEF InRange
      <4>2. CASE b <= j
        <5>1. l < j
          BY <4>1, <4>2, <1>3, <1>15, <2>1
        <5>2. PICK m \in 1 .. Len(s) : s[m].low = l /\ s[m].high = j
          BY <5>1, <1>7
        <5>3. PICK m2 \in 1 .. Len(st) : st[m2] = s[m]
          BY <1>12
        <5>4. PICK m3 \in 1 .. Len(p) : p[m3] = st[m2]
          BY <1>14
        <5>5. InRange(p[m3], a, b)
          BY <5>2, <5>3, <5>4, <4>1, <4>2, Zenon DEF InRange
        <5> QED
          BY <5>5
      <4>3. CASE i <= a
        <5>1. i < h
          BY <4>1, <4>3, <1>3, <1>15, <2>1
        <5>2. PICK m \in 1 .. Len(t) : t[m].low = i /\ t[m].high = h
          BY <5>1, <1>8
        <5>3. PICK m2 \in 1 .. Len(st) : st[m2] = t[m]
          BY <1>12
        <5>4. PICK m3 \in 1 .. Len(p) : p[m3] = st[m2]
          BY <1>14
        <5>5. InRange(p[m3], a, b)
          BY <5>2, <5>3, <5>4, <4>1, <4>3, Zenon DEF InRange
        <5> QED
          BY <5>5
      <4>4. CASE ~(b <= j) /\ ~(i <= a)
        <5>1. l <= a /\ a < i /\ a <= h /\ j < b /\ l <= b /\ b <= h
          BY <4>1, <4>4, <1>3, <1>15, <2>1
        <5>2. K[a] <= rg.x /\ rg.x <= K[b]
          BY <5>1, <1>1, <2>1, Zenon DEF Passed, l, h, i, j
        <5> DEFINE x == rg.x
                   ka == K[a]
                   kb == K[b]
        <5>3. x \in Int /\ ka \in Int /\ kb \in Int /\ ka <= x /\ x <= kb
          BY <5>2, <1>1, <2>1
        <5> HIDE DEF x, ka, kb
        <5>4. ka <= kb
          BY <5>3
        <5> QED
          BY <5>4 DEF ka, kb
      <4> QED
        BY <4>2, <4>3, <4>4
    <3>3. CASE k # 1
      <4>1. k - 1 \in 1 .. Len(cs) /\ u[k] = cs[k - 1]
        BY <3>3, <1>9, Zenon
      <4>2. PICK m \in 1 .. Len(p) : p[m] = cs[k - 1]
        BY <4>1, <1>14, Zenon
      <4> QED
        BY <4>1, <4>2, <3>1, Zenon
    <3> QED
      BY <3>2, <3>3
  <2> QED
    BY <2>2, <1>4, <1>15, Zenon DEF OrderedBut
<1>16. OrderedBut(n, K, p)
  BY <1>15, Zenon DEF OrderedBut
<1> QED
  BY <1>6, <1>14, <1>16, Zenon DEF p, st

\* Sort starts with the records in their own order.
LEMMA KeysAre ==
    ASSUME NEW n, NEW ch, NEW known, NEW most, ArrayOK(n, ch, known, most), NEW ix, PermOK(n, ix)
    PROVE  /\ n \in Nat /\ KeysIn(n, ch, ix) \in [Indexes(n) -> Nat]
           /\ \A p \in Indexes(n) : KeysIn(n, ch, ix)[p] = ItemOf(ch, ix[p]) /\ ix[p] \in Indexes(n)
<1>1. n \in Nat /\ ch \in Seq(Rows) /\ \A i \in Indexes(n) : i \in Places(ch)
  BY IndexesArePlaces, Zenon DEF Indexes
<1>2. \A p \in Indexes(n) : ix[p] \in Indexes(n)
  BY DEF PermOK
<1>3. \A p \in Indexes(n) : ItemOf(ch, ix[p]) \in Nat
  BY <1>1, <1>2, ItemIs, Zenon
<1> QED
  BY <1>1, <1>2, <1>3, Zenon DEF KeysIn

LEMMA SwapPerm ==
    ASSUME NEW n \in Nat, NEW ix, PermOK(n, ix), NEW i \in Indexes(n), NEW j \in Indexes(n), NEW ch
    PROVE  /\ PermOK(n, SwappedIn(ix, i, j))
           /\ KeysIn(n, ch, SwappedIn(ix, i, j)) = SwappedIn(KeysIn(n, ch, ix), i, j)
<1> DEFINE w == SwappedIn(ix, i, j)
<1>1. /\ ix \in [Indexes(n) -> Indexes(n)]
      /\ \A p, q \in Indexes(n) : ix[p] = ix[q] => p = q
      /\ \A r \in Indexes(n) : \E p \in Indexes(n) : ix[p] = r
  BY Zenon DEF PermOK
<1>2. CASE ~(i < j)
  BY <1>2 DEF SwappedIn
<1>3. CASE i < j
  <2>1. i # j
    BY <1>3 DEF Indexes
  <2>2. w = [ix EXCEPT ![i] = ix[j], ![j] = ix[i]]
    BY <1>3 DEF SwappedIn
  <2>3. /\ w \in [Indexes(n) -> Indexes(n)] /\ w[i] = ix[j] /\ w[j] = ix[i]
        /\ \A p \in Indexes(n) : p # i /\ p # j => w[p] = ix[p]
    BY <1>1, <2>1, <2>2
  <2>4. KeysIn(n, ch, w) = SwappedIn(KeysIn(n, ch, ix), i, j)
    <3> DEFINE k == KeysIn(n, ch, ix)
               k2 == KeysIn(n, ch, w)
               v == [k EXCEPT ![i] = k[j], ![j] = k[i]]
    <3>1. SwappedIn(k, i, j) = v
      BY <1>3 DEF SwappedIn
    <3>2. DOMAIN k = Indexes(n) /\ DOMAIN k2 = Indexes(n) /\ k2 = [p \in Indexes(n) |-> k2[p]]
          /\ \A p \in Indexes(n) : k[p] = ItemOf(ch, ix[p]) /\ k2[p] = ItemOf(ch, w[p])
      BY Zenon DEF KeysIn
    <3> HIDE DEF k, k2, w
    <3>3. DOMAIN v = Indexes(n) /\ v = [p \in Indexes(n) |-> v[p]] /\ v[i] = k[j] /\ v[j] = k[i]
          /\ \A p \in Indexes(n) : p # i /\ p # j => v[p] = k[p]
      BY <2>1, <3>2
    <3> HIDE DEF v
    <3>4. \A p \in Indexes(n) : v[p] = k2[p]
      <4> SUFFICES ASSUME NEW p \in Indexes(n) PROVE v[p] = k2[p]
        OBVIOUS
      <4>1. CASE p = i
        BY <4>1, <2>3, <3>2, <3>3, Zenon
      <4>2. CASE p = j
        BY <4>2, <2>3, <3>2, <3>3, Zenon
      <4>3. CASE p # i /\ p # j
        BY <4>3, <2>3, <3>2, <3>3, Zenon
      <4> QED
        BY <4>1, <4>2, <4>3
    <3>5. v = k2
      BY <3>2, <3>3, <3>4
    <3> QED
      BY <3>1, <3>5 DEF k, k2
  <2> HIDE DEF w
  <2>5. \A p, q \in Indexes(n) : w[p] = w[q] => p = q
    <3> SUFFICES ASSUME NEW p \in Indexes(n), NEW q \in Indexes(n), w[p] = w[q] PROVE p = q
      OBVIOUS
    <3>1. CASE p # i /\ p # j
      BY <3>1, <1>1, <2>1, <2>3
    <3>2. CASE q # i /\ q # j
      BY <3>2, <1>1, <2>1, <2>3
    <3>3. CASE (p = i \/ p = j) /\ (q = i \/ q = j)
      BY <3>3, <1>1, <2>1, <2>3
    <3> QED
      BY <3>1, <3>2, <3>3
  <2>6. \A r \in Indexes(n) : \E p \in Indexes(n) : w[p] = r
    <3> SUFFICES ASSUME NEW r \in Indexes(n) PROVE \E p \in Indexes(n) : w[p] = r
      OBVIOUS
    <3>1. PICK p \in Indexes(n) : ix[p] = r
      BY <1>1
    <3>2. CASE p = i
      BY <3>1, <3>2, <2>3, Zenon
    <3>3. CASE p = j
      BY <3>1, <3>3, <2>3, Zenon
    <3>4. CASE p # i /\ p # j
      BY <3>1, <3>4, <2>3, Zenon
    <3> QED
      BY <3>2, <3>3, <3>4
  <2> QED
    BY <2>3, <2>4, <2>5, <2>6, Zenon DEF PermOK, w
<1> QED
  BY <1>2, <1>3

LEMMA IdentityPerm ==
    ASSUME NEW n \in Nat, NEW ix, ix = [i \in Indexes(n) |-> i]
    PROVE  PermOK(n, ix)
BY DEF PermOK

LEMMA AllInOneRange ==
    ASSUME NEW n \in Nat, NEW K
    PROVE  /\ n > 1 => /\ RangesOK(n, <<[low |-> 0, high |-> n - 1]>> \o <<>>)
                       /\ OrderedBut(n, K, <<[low |-> 0, high |-> n - 1]>> \o <<>>)
           /\ ~(n > 1) => OrderedBut(n, K, <<>>)
           /\ <<>> \in Seq(Ranges) /\ [low |-> 0, high |-> n - 1] \in Ranges
<1> DEFINE c == [low |-> 0, high |-> n - 1]
           s == <<c>> \o <<>>
<1>1. c \in Ranges /\ c.low = 0 /\ c.high = n - 1
  BY DEF Ranges
<1> HIDE DEF c
<1>2. s \in Seq(Ranges) /\ Len(s) = 1 /\ s[1] = c /\ <<>> \in Seq(Ranges)
  BY <1>1
<1> HIDE DEF s
<1>3. \A k \in 1 .. Len(s) : k = 1 /\ s[k] = c
  BY <1>2
<1>4. 1 \in 1 .. Len(s)
  BY <1>2
<1>5. ASSUME n > 1 PROVE RangesOK(n, s)
  <2>1. 0 <= 0 /\ 0 < n - 1 /\ n - 1 <= n - 1
    BY <1>5
  <2>2. \A k, m \in 1 .. Len(s) : ~(k < m)
    BY <1>3
  <2> QED
    BY <1>1, <1>2, <1>3, <2>1, <2>2, Zenon DEF RangesOK
<1>6. OrderedBut(n, K, s)
  <2>1. \A a, b \in Indexes(n) : 0 <= a /\ b <= n - 1
    BY DEF Indexes
  <2>2. \A a, b \in Indexes(n) : InRange(s[1], a, b)
    BY <2>1, <1>1, <1>2, Zenon DEF InRange
  <2> QED
    BY <2>2, <1>4, Zenon DEF OrderedBut
<1>7. ASSUME ~(n > 1) PROVE OrderedBut(n, K, <<>>)
  <2>1. \A a, b \in Indexes(n) : ~(a < b)
    BY <1>7 DEF Indexes
  <2> QED
    BY <2>1, Zenon DEF OrderedBut
<1> QED
  BY <1>1, <1>2, <1>5, <1>6, <1>7, Zenon DEF c, s

LEMMA NothingPending ==
    ASSUME NEW n \in Nat, NEW K, OrderedBut(n, K, <<>>)
    PROVE  \A a, b \in Indexes(n) : a < b => K[a] <= K[b]
<1>1. \A k \in 1 .. Len(<<>>) : FALSE
  OBVIOUS
<1> QED
  BY <1>1, Zenon DEF OrderedBut

-----------------------------------------------------------------------------
(* ArrangeByIndex. *)

\* What the array is to hold: the records as they were, in order.
Target(n, known, T) ==
    /\ T \in [Indexes(n) -> Nat] /\ \A a, b \in Indexes(n) : a < b => T[a] <= T[b]
    /\ \E A \in [Indexes(n) -> Nat], P \in [Indexes(n) -> Indexes(n)] :
          /\ PermOK(n, P)
          /\ \A k \in Indexes(n) : T[k] = A[P[k]]
          /\ \A k \in Indexes(n) : known[k] \in {-1, A[k]}

\* A mark, -1, is where the record is in place; the others follow the index in cycles.
MarkedOK(n, ch, ix, T) ==
    /\ ix \in [Indexes(n) -> Indexes(n) \cup {-1}]
    /\ \A k \in Indexes(n) : ix[k] = -1 => ItemOf(ch, k) = T[k]
    /\ \A k, m \in Indexes(n) : (ix[k] # -1 /\ ix[k] = ix[m]) => k = m
ArrangeOK(n, ch, ix, i, T) ==
    /\ MarkedOK(n, ch, ix, T)
    /\ i \in 0 .. n /\ \A k \in Indexes(n) : k < i => ix[k] \in {-1, k}
    /\ \A k \in Indexes(n) : ix[k] # -1 => ix[ix[k]] # -1 /\ ItemOf(ch, ix[k]) = T[k]

\* Within a cycle that starts at i, the record from i is in temp, and the record at
\* "to" was moved on.
CycleOK(n, ch, ix, i, to, from, temp, T) ==
    /\ MarkedOK(n, ch, ix, T)
    /\ i \in Indexes(n) /\ \A k \in Indexes(n) : k < i => ix[k] \in {-1, k}
    /\ to \in Indexes(n) /\ from \in Indexes(n) /\ temp \in Nat
    /\ ix[to] = from /\ from # i
    /\ \A k \in Indexes(n) : ix[k] # -1 =>
          /\ ix[k] = i => T[k] = temp
          /\ ix[k] # i => ix[ix[k]] # -1 /\ ItemOf(ch, ix[k]) = T[k]
    /\ to # i => ix[i] = -1 /\ \A k \in Indexes(n) : ix[k] # to

LEMMA ArrangeStarts ==
    ASSUME NEW n, NEW ch, NEW known, NEW most, ArrayOK(n, ch, known, most), KnownOK(n, ch, known),
           NEW ix, PermOK(n, ix), OrderedBut(n, KeysIn(n, ch, ix), <<>>)
    PROVE  \E T : Target(n, known, T) /\ ArrangeOK(n, ch, ix, 0, T)
<1> DEFINE T == KeysIn(n, ch, ix)
           A == [k \in Indexes(n) |-> ItemOf(ch, k)]
<1>1. /\ n \in Nat /\ T \in [Indexes(n) -> Nat]
      /\ \A p \in Indexes(n) : T[p] = ItemOf(ch, ix[p]) /\ ix[p] \in Indexes(n)
  BY KeysAre, Zenon
<1>2. \A a, b \in Indexes(n) : a < b => T[a] <= T[b]
  BY <1>1, NothingPending, Zenon
<1> HIDE DEF T
<1>3. A \in [Indexes(n) -> Nat] /\ \A k \in Indexes(n) : A[k] = ItemOf(ch, k)
  <2>1. ch \in Seq(Rows) /\ \A i \in Indexes(n) : i \in Places(ch)
    BY IndexesArePlaces, Zenon DEF Indexes
  <2>2. \A k \in Indexes(n) : ItemOf(ch, k) \in Nat
    BY <2>1, ItemIs, Zenon
  <2> QED
    BY <2>2
<1> HIDE DEF A
<1>4. \A k \in Indexes(n) : T[k] = A[ix[k]]
  BY <1>1, <1>3, Zenon
<1>5. \A k \in Indexes(n) : known[k] \in {-1, A[k]}
  BY <1>3, Zenon DEF KnownOK, Indexes
<1>6. Target(n, known, T)
  <2>1. ix \in [Indexes(n) -> Indexes(n)]
    BY DEF PermOK
  <2> QED
    BY <2>1, <1>1, <1>2, <1>3, <1>4, <1>5, Zenon DEF Target
<1>7. \A k \in Indexes(n) : ix[k] # -1
  BY <1>1 DEF Indexes
<1>8. ix \in [Indexes(n) -> Indexes(n) \cup {-1}]
  BY DEF PermOK
<1>9. \A k, m \in Indexes(n) : ix[k] = ix[m] => k = m
  BY Zenon DEF PermOK
<1>10. MarkedOK(n, ch, ix, T)
  BY <1>7, <1>8, <1>9, Zenon DEF MarkedOK
<1>11. 0 \in 0 .. n /\ \A k \in Indexes(n) : ~(k < 0)
  BY <1>1 DEF Indexes
<1>12. ArrangeOK(n, ch, ix, 0, T)
  BY <1>1, <1>7, <1>10, <1>11, Zenon DEF ArrangeOK
<1> QED
  BY <1>6, <1>12

\* The next record, which is in place or starts a cycle.
LEMMA ArrangeOn ==
    ASSUME NEW n \in Nat, NEW ch, NEW ix, NEW i, NEW T, T \in [Indexes(n) -> Nat],
           ch \in Seq(Rows), \A k \in Indexes(n) : k \in Places(ch),
           ArrangeOK(n, ch, ix, i, T), i < n
    PROVE  /\ i \in Indexes(n)
           /\ ix[i] \in {i, -1} => ArrangeOK(n, ch, ix, i + 1, T)
           /\ ix[i] \notin {i, -1} => CycleOK(n, ch, ix, i, i, ix[i], ItemOf(ch, i), T)
<1>1. /\ MarkedOK(n, ch, ix, T)
      /\ i \in 0 .. n /\ \A k \in Indexes(n) : k < i => ix[k] \in {-1, k}
      /\ \A k \in Indexes(n) : ix[k] # -1 => ix[ix[k]] # -1 /\ ItemOf(ch, ix[k]) = T[k]
  BY Zenon DEF ArrangeOK
<1>2. i \in Indexes(n)
  BY <1>1 DEF Indexes
<1>3. ASSUME ix[i] \in {i, -1} PROVE ArrangeOK(n, ch, ix, i + 1, T)
  <2>1. i + 1 \in 0 .. n
    BY <1>1
  <2>2. \A k \in Indexes(n) : k < i + 1 => k < i \/ k = i
    BY <1>1 DEF Indexes
  <2>3. \A k \in Indexes(n) : k < i + 1 => ix[k] \in {-1, k}
    BY <2>2, <1>1, <1>3
  <2> QED
    BY <2>1, <2>3, <1>1, Zenon DEF ArrangeOK
<1>4. ASSUME ix[i] \notin {i, -1} PROVE CycleOK(n, ch, ix, i, i, ix[i], ItemOf(ch, i), T)
  <2>1. ix[i] \in Indexes(n) /\ ix[i] # i
    BY <1>1, <1>2, <1>4 DEF MarkedOK
  <2>2. ItemOf(ch, i) \in Nat
    BY <1>2, ItemIs, Zenon
  <2>3. \A k \in Indexes(n) : ix[k] # -1 =>
          /\ ix[k] = i => T[k] = ItemOf(ch, i)
          /\ ix[k] # i => ix[ix[k]] # -1 /\ ItemOf(ch, ix[k]) = T[k]
    BY <1>1, Zenon
  <2> QED
    BY <2>1, <2>2, <2>3, <1>1, <1>2, Zenon DEF CycleOK
<1> QED
  BY <1>2, <1>3, <1>4

\* A record is moved along its cycle.
LEMMA CycleGoesOn ==
    ASSUME NEW n \in Nat, NEW ch, NEW ix, NEW i, NEW to, NEW from, NEW temp, NEW T, T \in [Indexes(n) -> Nat],
           ch \in Seq(Rows), \A k \in Indexes(n) : k \in Places(ch),
           CycleOK(n, ch, ix, i, to, from, temp, T),
           NEW moved, moved = PutOf(ch, to, ItemOf(ch, from)),
           NEW next, next = ix[from]
    PROVE  /\ to \in Indexes(n) /\ from \in Indexes(n) /\ temp \in Nat /\ i \in Indexes(n)
           /\ next = i => ArrangeOK(n, PutOf(moved, from, temp), [ix EXCEPT ![to] = -1, ![from] = -1], i + 1, T)
           /\ next # i => CycleOK(n, moved, [ix EXCEPT ![to] = -1], i, from, next, temp, T)
<1>1. /\ MarkedOK(n, ch, ix, T)
      /\ i \in Indexes(n) /\ \A k \in Indexes(n) : k < i => ix[k] \in {-1, k}
      /\ to \in Indexes(n) /\ from \in Indexes(n) /\ temp \in Nat
      /\ ix[to] = from /\ from # i
      /\ \A k \in Indexes(n) : ix[k] # -1 =>
            /\ ix[k] = i => T[k] = temp
            /\ ix[k] # i => ix[ix[k]] # -1 /\ ItemOf(ch, ix[k]) = T[k]
      /\ to # i => ix[i] = -1 /\ \A k \in Indexes(n) : ix[k] # to
  BY Zenon DEF CycleOK
<1>2. /\ ix \in [Indexes(n) -> Indexes(n) \cup {-1}]
      /\ \A k \in Indexes(n) : ix[k] = -1 => ItemOf(ch, k) = T[k]
      /\ \A k, m \in Indexes(n) : (ix[k] # -1 /\ ix[k] = ix[m]) => k = m
  BY <1>1, Zenon DEF MarkedOK
<1>3. -1 \notin Indexes(n)
  BY DEF Indexes
<1>4. from # to /\ next \in Indexes(n) /\ ix[to] # -1 /\ ix[from] # -1 /\ ItemOf(ch, from) = T[to]
  <2>1. ix[to] # -1 /\ ix[to] # i
    BY <1>1, <1>3
  <2>2. ix[from] # -1 /\ ItemOf(ch, from) = T[to]
    BY <2>1, <1>1
  <2>3. next \in Indexes(n)
    BY <2>2, <1>1, <1>2
  <2>4. from # to
    BY <1>1, Zenon
  <2> QED
    BY <2>1, <2>2, <2>3, <2>4
<1>5. \A k \in Indexes(n) : k # to /\ ix[k] # -1 => ix[k] # from
  BY <1>1, <1>2, <1>4, Zenon
<1>6. \A k \in Indexes(n) : ix[k] # -1 /\ ix[k] # i => ix[k] # to /\ ix[k] \in Indexes(n)
  BY <1>1, <1>2
<1>7. /\ moved \in Seq(Rows) /\ Places(moved) = Places(ch) /\ ItemOf(moved, to) = T[to]
      /\ \A k \in Indexes(n) : k # to => ItemOf(moved, k) = ItemOf(ch, k)
  <2>1. to \in Places(ch) /\ ItemOf(ch, from) \in Nat
    BY <1>1, ItemIs, Zenon
  <2>2. /\ moved \in Seq(Rows) /\ Places(moved) = Places(ch) /\ ItemOf(moved, to) = ItemOf(ch, from)
        /\ \A k \in Places(ch) : k # to => ItemOf(moved, k) = ItemOf(ch, k)
    <3>1. IsPut(ch, to, ItemOf(ch, from), moved)
      BY <2>1, PutIs, Zenon
    <3> QED
      BY <3>1, Zenon DEF IsPut
  <2> QED
    BY <2>2, <1>4, Zenon
<1> HIDE DEF MarkedOK, ArrangeOK, CycleOK
<1>8. ASSUME next = i
      PROVE  ArrangeOK(n, PutOf(moved, from, temp), [ix EXCEPT ![to] = -1, ![from] = -1], i + 1, T)
  <2> DEFINE ch2 == PutOf(moved, from, temp)
             ix2 == [ix EXCEPT ![to] = -1, ![from] = -1]
  <2>1. /\ ItemOf(ch2, from) = temp
        /\ \A k \in Indexes(n) : k # from => ItemOf(ch2, k) = ItemOf(moved, k)
    <3>1. from \in Places(moved)
      BY <1>1, <1>7, Zenon
    <3>2. ItemOf(ch2, from) = temp
          /\ \A k \in Places(moved) : k # from => ItemOf(ch2, k) = ItemOf(moved, k)
      <4>1. moved \in Seq(Rows) /\ from \in Places(moved) /\ temp \in Nat
        BY <3>1, <1>1, <1>7
      <4> QED
        <5>1. IsPut(moved, from, temp, ch2)
          BY <4>1, PutIs, Zenon
        <5> QED
          BY <5>1, Zenon DEF IsPut
    <3> QED
      BY <3>2, <1>7, Zenon
  <2>2. /\ ix2 \in [Indexes(n) -> Indexes(n) \cup {-1}] /\ ix2[to] = -1 /\ ix2[from] = -1
        /\ \A k \in Indexes(n) : k # to /\ k # from => ix2[k] = ix[k]
    BY <1>1, <1>2
  <2> HIDE DEF ch2, ix2
  <2>3. ASSUME NEW k \in Indexes(n), ix2[k] = -1 PROVE ItemOf(ch2, k) = T[k]
    <3>1. CASE k = to
      BY <3>1, <2>1, <1>1, <1>4, <1>7, Zenon
    <3>2. CASE k = from
      BY <3>2, <2>1, <1>1, <1>4, <1>8, Zenon
    <3>3. CASE k # to /\ k # from
      BY <3>3, <2>1, <2>2, <2>3, <1>2, <1>7, Zenon
    <3> QED
      BY <3>1, <3>2, <3>3
  <2>4. \A k \in Indexes(n) : ix2[k] # -1 => k # to /\ k # from /\ ix2[k] = ix[k] /\ ix[k] # -1 /\ ix[k] # i
    <3> SUFFICES ASSUME NEW k \in Indexes(n), ix2[k] # -1
                 PROVE  k # to /\ k # from /\ ix2[k] = ix[k] /\ ix[k] # -1 /\ ix[k] # i
      OBVIOUS
    <3>1. k # to /\ k # from /\ ix2[k] = ix[k] /\ ix[k] # -1
      BY <2>2, Zenon
    <3>2. ix[k] # i
      BY <3>1, <1>1, <1>2, <1>4, <1>8, Zenon
    <3> QED
      BY <3>1, <3>2
  <2>5. \A k, m \in Indexes(n) : (ix2[k] # -1 /\ ix2[k] = ix2[m]) => k = m
    BY <2>4, <1>2, Zenon
  <2>6. MarkedOK(n, ch2, ix2, T)
    BY <2>2, <2>3, <2>5, Zenon DEF MarkedOK
  <2>7. ASSUME NEW k \in Indexes(n), ix2[k] # -1
        PROVE  ix2[ix2[k]] # -1 /\ ItemOf(ch2, ix2[k]) = T[k]
    <3>1. ix2[k] = ix[k] /\ ix[k] # -1 /\ ix[k] # i /\ k # to
      BY <2>4, <2>7, Zenon
    <3>2. ix[k] # to /\ ix[k] # from /\ ix[k] \in Indexes(n)
      BY <3>1, <1>5, <1>6, Zenon
    <3>3. ix[ix[k]] # -1 /\ ItemOf(ch, ix[k]) = T[k]
      BY <3>1, <1>1, Zenon
    <3>4. ItemOf(ch2, ix[k]) = T[k]
      BY <3>2, <3>3, <2>1, <1>7, Zenon
    <3>5. ix2[ix[k]] # -1
      BY <3>2, <3>3, <2>2, Zenon
    <3> QED
      BY <3>1, <3>4, <3>5, Zenon
  <2>8. i + 1 \in 0 .. n /\ \A k \in Indexes(n) : k < i + 1 => k < i \/ k = i
    BY <1>1 DEF Indexes
  <2>9. ASSUME NEW k \in Indexes(n), k < i + 1 PROVE ix2[k] \in {-1, k}
    <3>1. CASE k = to \/ k = from
      BY <3>1, <2>2, Zenon
    <3>2. CASE k # to /\ k # from
      <4>1. ix2[k] = ix[k]
        BY <3>2, <2>2, Zenon
      <4>2. CASE k < i
        BY <4>1, <4>2, <1>1
      <4>3. CASE k = i
        BY <4>1, <4>3, <3>2, <1>1
      <4> QED
        BY <4>2, <4>3, <2>8, <2>9
    <3> QED
      BY <3>1, <3>2
  <2> QED
    BY <2>6, <2>7, <2>8, <2>9, Zenon DEF ArrangeOK, ch2, ix2
<1>9. ASSUME next # i PROVE CycleOK(n, moved, [ix EXCEPT ![to] = -1], i, from, next, temp, T)
  <2> DEFINE ix2 == [ix EXCEPT ![to] = -1]
  <2>1. /\ ix2 \in [Indexes(n) -> Indexes(n) \cup {-1}] /\ ix2[to] = -1
        /\ \A k \in Indexes(n) : k # to => ix2[k] = ix[k]
    BY <1>1, <1>2
  <2> HIDE DEF ix2
  <2>2. ASSUME NEW k \in Indexes(n), ix2[k] = -1 PROVE ItemOf(moved, k) = T[k]
    <3>1. CASE k = to
      BY <3>1, <1>7, Zenon
    <3>2. CASE k # to
      BY <3>2, <2>1, <2>2, <1>2, <1>7, Zenon
    <3> QED
      BY <3>1, <3>2
  <2>3. \A k \in Indexes(n) : ix2[k] # -1 => k # to /\ ix2[k] = ix[k] /\ ix[k] # -1
    BY <2>1, Zenon
  <2>4. \A k, m \in Indexes(n) : (ix2[k] # -1 /\ ix2[k] = ix2[m]) => k = m
    BY <2>3, <1>2, Zenon
  <2>5. MarkedOK(n, moved, ix2, T)
    BY <2>1, <2>2, <2>4, Zenon DEF MarkedOK
  <2>6. ASSUME NEW k \in Indexes(n), ix2[k] # -1
        PROVE  /\ ix2[k] = i => T[k] = temp
               /\ ix2[k] # i => ix2[ix2[k]] # -1 /\ ItemOf(moved, ix2[k]) = T[k]
    <3>1. ix2[k] = ix[k] /\ ix[k] # -1 /\ k # to
      BY <2>3, <2>6, Zenon
    <3>2. CASE ix[k] = i
      BY <3>1, <3>2, <1>1, Zenon
    <3>3. CASE ix[k] # i
      <4>1. ix[k] # to /\ ix[k] \in Indexes(n)
        BY <3>1, <3>3, <1>6, Zenon
      <4>2. ix[ix[k]] # -1 /\ ItemOf(ch, ix[k]) = T[k]
        BY <3>1, <3>3, <1>1, Zenon
      <4>3. ix2[ix[k]] # -1 /\ ItemOf(moved, ix[k]) = T[k]
        BY <4>1, <4>2, <2>1, <1>7, Zenon
      <4> QED
        BY <3>1, <3>3, <4>3, Zenon
    <3> QED
      BY <3>2, <3>3
  <2>7. ASSUME NEW k \in Indexes(n), k < i PROVE ix2[k] \in {-1, k}
    <3>1. CASE k = to
      BY <3>1, <2>1, Zenon
    <3>2. CASE k # to
      BY <3>2, <2>1, <2>7, <1>1
    <3> QED
      BY <3>1, <3>2
  <2>8. ix2[from] = next /\ ix2[i] = -1
    <3>1. ix2[from] = next
      BY <1>1, <1>4, <2>1, Zenon
    <3>2. CASE to = i
      BY <3>1, <3>2, <2>1, Zenon
    <3>3. CASE to # i
      BY <3>1, <3>3, <2>1, <1>1, Zenon
    <3> QED
      BY <3>1, <3>2, <3>3
  <2>9. \A k \in Indexes(n) : ix2[k] # from
    <3> SUFFICES ASSUME NEW k \in Indexes(n) PROVE ix2[k] # from
      OBVIOUS
    <3>1. CASE ix2[k] = -1
      BY <3>1, <1>1, <1>3
    <3>2. CASE ix2[k] # -1
      BY <3>2, <2>3, <1>5, Zenon
    <3> QED
      BY <3>1, <3>2
  <2> QED
    BY <2>5, <2>6, <2>7, <2>8, <2>9, <1>1, <1>4, <1>9, Zenon DEF CycleOK, ix2
<1> QED
  BY <1>1, <1>8, <1>9

\* When no record is left, all are in place.
IsArranged(n, ch, T) == \A k \in Indexes(n) : ItemOf(ch, k) = T[k]

\* When every place is arranged, every place has its record.
LEMMA ArrangeEnds ==
    ASSUME NEW n \in Nat, NEW ch, NEW ix, NEW i, NEW T, ArrangeOK(n, ch, ix, i, T), i >= n
    PROVE  IsArranged(n, ch, T)
<1>1. /\ i \in 0 .. n /\ \A k \in Indexes(n) : k < i => ix[k] \in {-1, k}
      /\ \A k \in Indexes(n) : ix[k] # -1 => ItemOf(ch, ix[k]) = T[k]
      /\ \A k \in Indexes(n) : ix[k] = -1 => ItemOf(ch, k) = T[k]
  BY Zenon DEF ArrangeOK, MarkedOK
<1>2. \A k \in Indexes(n) : k < i
  BY <1>1 DEF Indexes
<1>3. \A k \in Indexes(n) : ix[k] = -1 \/ ix[k] = k
  BY <1>1, <1>2
<1> QED
  BY <1>1, <1>3, Zenon DEF IsArranged

-----------------------------------------------------------------------------
(* What Sort leaves. *)

\* As many records with each key as before.
Having(n, A, key) == {k \in Indexes(n) : A[k] = key}

LEMMA SameCount ==
    ASSUME NEW n \in Nat, NEW A \in [Indexes(n) -> Nat], NEW T \in [Indexes(n) -> Nat],
           NEW P \in [Indexes(n) -> Indexes(n)], PermOK(n, P),
           \A k \in Indexes(n) : T[k] = A[P[k]], NEW key
    PROVE  Cardinality(Having(n, T, key)) = Cardinality(Having(n, A, key))
<1> DEFINE X == {k \in Indexes(n) : T[k] = key}
           Y == {k \in Indexes(n) : A[k] = key}
           f == [k \in X |-> P[k]]
<1>1. /\ \A p, q \in Indexes(n) : P[p] = P[q] => p = q
      /\ \A r \in Indexes(n) : \E p \in Indexes(n) : P[p] = r
  BY Zenon DEF PermOK
<1>2. IsFiniteSet(X)
  <2>1. IsFiniteSet(Indexes(n)) /\ X \subseteq Indexes(n)
    <3>1. 0 \in Int /\ n - 1 \in Int
      OBVIOUS
    <3> QED
      BY <3>1, FS_Interval DEF Indexes
  <2> QED
    BY <2>1, FS_Subset, Zenon
<1>3. f \in [X -> Y]
  BY <1>1
<1>4. \A p, q \in X : f[p] = f[q] => p = q
  BY <1>1
<1>5. \A r \in Y : \E p \in X : f[p] = r
  <2> SUFFICES ASSUME NEW r \in Y PROVE \E p \in X : f[p] = r
    OBVIOUS
  <2>1. PICK p \in Indexes(n) : P[p] = r
    BY <1>1
  <2>2. p \in X
    BY <2>1
  <2> QED
    BY <2>1, <2>2
<1> HIDE DEF f, X, Y
<1>6. f \in Bijection(X, Y)
  <2>1. IsInjective(f)
    <3>1. DOMAIN f = X
      BY <1>3
    <3> QED
      BY <3>1, <1>4 DEF IsInjective
  <2> QED
    BY <2>1, <1>3, <1>5, Zenon DEF Bijection, Injection, Surjection
<1>7. ExistsBijection(X, Y)
  BY <1>6, Zenon DEF ExistsBijection
<1>8. Cardinality(Y) = Cardinality(X)
  BY <1>2, <1>7, FS_Bijection, Zenon
<1> QED
  BY <1>8, Zenon DEF X, Y, Having

\* BinarySearch finds a key exactly if it is there.
Middle(span) == (span.left + span.right) \div 2
Halves(span, key, f) ==
    IF key < Item(Middle(span)) THEN f[[span EXCEPT !.right = Middle(span)]]
    ELSE IF key > Item(Middle(span)) THEN f[[span EXCEPT !.left = Middle(span) + 1]]
    ELSE TRUE
SearchStep(span, key, f) == IF span.left >= span.right THEN FALSE ELSE Halves(span, key, f)
IsSearch(f, key) == f = [span \in Spans |-> SearchStep(span, key, f)]
KeyWithin(span, key) == \E i \in RecordIndexes : span.left <= i /\ i < span.right /\ Item(i) = key

LEMMA SpanIs ==
    ASSUME recSize \in Nat, NEW span \in Spans
    PROVE  /\ span.left \in 0 .. recSize /\ span.right \in 0 .. recSize
           /\ span.left < span.right =>
                 /\ Middle(span) \in RecordIndexes /\ span.left <= Middle(span) /\ Middle(span) < span.right
                 /\ [span EXCEPT !.right = Middle(span)] \in Spans
                 /\ [span EXCEPT !.right = Middle(span)].left = span.left
                 /\ [span EXCEPT !.right = Middle(span)].right = Middle(span)
                 /\ [span EXCEPT !.left = Middle(span) + 1] \in Spans
                 /\ [span EXCEPT !.left = Middle(span) + 1].left = Middle(span) + 1
                 /\ [span EXCEPT !.left = Middle(span) + 1].right = span.right
<1>1. span.left \in 0 .. recSize /\ span.right \in 0 .. recSize
  BY DEF Spans
<1> DEFINE m == Middle(span)
<1>2. ASSUME span.left < span.right
      PROVE  m \in RecordIndexes /\ span.left <= m /\ m < span.right /\ m \in 0 .. recSize /\ m + 1 \in 0 .. recSize
  <2> DEFINE l == span.left
             r == span.right
  <2>1. l \in 0 .. recSize /\ r \in 0 .. recSize /\ l < r
    BY <1>1, <1>2
  <2> HIDE DEF l, r
  <2> DEFINE k == (l + r) \div 2
  <2>2. l <= k /\ k < r /\ k \in Int
    BY <2>1
  <2> HIDE DEF k
  <2>3. k \in 0 .. recSize - 1 /\ k \in 0 .. recSize /\ k + 1 \in 0 .. recSize
    BY <2>1, <2>2
  <2>4. m = k
    BY DEF Middle, k, l, r
  <2> QED
    BY <2>2, <2>3, <2>4 DEF RecordIndexes, l, r
<1> HIDE DEF m
<1>3. \A x \in 0 .. recSize : /\ [span EXCEPT !.right = x] \in Spans
                              /\ [span EXCEPT !.right = x].left = span.left
                              /\ [span EXCEPT !.right = x].right = x
                              /\ [span EXCEPT !.left = x] \in Spans
                              /\ [span EXCEPT !.left = x].left = x
                              /\ [span EXCEPT !.left = x].right = span.right
  BY <1>1 DEF Spans
<1> QED
  BY <1>1, <1>2, <1>3, Zenon DEF m

\* The half that is searched is where the key may be.
LEMMA HalfIsEnough ==
    ASSUME recSize \in Nat, \A i \in RecordIndexes : Item(i) \in Nat,
           \A i, j \in RecordIndexes : i <= j => Item(i) <= Item(j),
           NEW key \in Nat, NEW span \in Spans
    PROVE  /\ span.left >= span.right => ~KeyWithin(span, key)
           /\ (span.left < span.right /\ key < Item(Middle(span))) =>
                 (KeyWithin(span, key) <=> KeyWithin([span EXCEPT !.right = Middle(span)], key))
           /\ (span.left < span.right /\ key > Item(Middle(span))) =>
                 (KeyWithin(span, key) <=> KeyWithin([span EXCEPT !.left = Middle(span) + 1], key))
           /\ (span.left < span.right /\ ~(key < Item(Middle(span))) /\ ~(key > Item(Middle(span)))) =>
                 KeyWithin(span, key)
<1> DEFINE l == span.left
           r == span.right
           m == Middle(span)
           sl == [span EXCEPT !.right = Middle(span)]
           sr == [span EXCEPT !.left = Middle(span) + 1]
<1>1. /\ l \in 0 .. recSize /\ r \in 0 .. recSize
      /\ l < r => /\ m \in RecordIndexes /\ l <= m /\ m < r
                  /\ sl.left = l /\ sl.right = m /\ sr.left = m + 1 /\ sr.right = r
  BY SpanIs, Zenon
<1>2. \A i \in RecordIndexes : i \in Int
  BY DEF RecordIndexes
<1>3. KeyWithin(span, key) <=> \E i \in RecordIndexes : l <= i /\ i < r /\ Item(i) = key
  BY Zenon DEF KeyWithin
<1>4. l < r => /\ KeyWithin(sl, key) <=> \E i \in RecordIndexes : l <= i /\ i < m /\ Item(i) = key
               /\ KeyWithin(sr, key) <=> \E i \in RecordIndexes : m + 1 <= i /\ i < r /\ Item(i) = key
  BY <1>1, Zenon DEF KeyWithin
<1> HIDE DEF l, r, m, sl, sr
<1>5. ASSUME l >= r PROVE ~KeyWithin(span, key)
  <2>1. \A i \in RecordIndexes : ~(l <= i /\ i < r)
    BY <1>1, <1>2, <1>5
  <2> QED
    BY <2>1, <1>3, Zenon
<1>6. ASSUME l < r, key < Item(m) PROVE KeyWithin(span, key) <=> KeyWithin(sl, key)
  <2>1. ASSUME NEW i \in RecordIndexes PROVE (l <= i /\ i < r /\ Item(i) = key) <=> (l <= i /\ i < m /\ Item(i) = key)
    <3>1. m <= i => Item(m) <= Item(i)
      BY <1>1, <1>6
    <3>2. Item(m) \in Nat /\ Item(i) \in Nat
      BY <1>1, <1>6
    <3> QED
      BY <3>1, <3>2, <1>1, <1>2, <1>6
  <2> QED
    BY <2>1, <1>3, <1>4, <1>6, Zenon
<1>7. ASSUME l < r, key > Item(m) PROVE KeyWithin(span, key) <=> KeyWithin(sr, key)
  <2>1. ASSUME NEW i \in RecordIndexes PROVE (l <= i /\ i < r /\ Item(i) = key) <=> (m + 1 <= i /\ i < r /\ Item(i) = key)
    <3>1. i <= m => Item(i) <= Item(m)
      BY <1>1, <1>7
    <3>2. Item(m) \in Nat /\ Item(i) \in Nat
      BY <1>1, <1>7
    <3> QED
      BY <3>1, <3>2, <1>1, <1>2, <1>7
  <2> QED
    BY <2>1, <1>3, <1>4, <1>7, Zenon
<1>8. ASSUME l < r, ~(key < Item(m)), ~(key > Item(m)) PROVE KeyWithin(span, key)
  <2>1. Item(m) \in Nat
    BY <1>1, <1>8
  <2>2. Item(m) = key
    BY <2>1, <1>8
  <2> QED
    BY <2>2, <1>1, <1>3, <1>8, Zenon
<1> QED
  BY <1>5, <1>6, <1>7, <1>8 DEF l, r, m, sl, sr

LEMMA SearchFinds ==
    ASSUME recSize \in Nat, \A i \in RecordIndexes : Item(i) \in Nat,
           \A i, j \in RecordIndexes : i <= j => Item(i) <= Item(j),
           NEW key \in Nat
    PROVE  BinarySearchFor(key) = (\E i \in RecordIndexes : Item(i) = key)
<1> DEFINE g == [span \in Spans |-> KeyWithin(span, key)]
           f == CHOOSE h : IsSearch(h, key)
           start == [left |-> 0, right |-> recSize]
<1>1. IsSearch(g, key)
  <2>1. ASSUME NEW span \in Spans PROVE KeyWithin(span, key) = SearchStep(span, key, g)
    <3> DEFINE m == Middle(span)
               sl == [span EXCEPT !.right = m]
               sr == [span EXCEPT !.left = m + 1]
    <3>1. /\ span.left >= span.right => ~KeyWithin(span, key)
          /\ (span.left < span.right /\ key < Item(m)) => (KeyWithin(span, key) <=> KeyWithin(sl, key))
          /\ (span.left < span.right /\ key > Item(m)) => (KeyWithin(span, key) <=> KeyWithin(sr, key))
          /\ (span.left < span.right /\ ~(key < Item(m)) /\ ~(key > Item(m))) => KeyWithin(span, key)
      BY HalfIsEnough, Zenon
    <3>2. span.left < span.right => sl \in Spans /\ sr \in Spans
      BY SpanIs, Zenon
    <3>3. span.left < span.right <=> ~(span.left >= span.right)
      <4>1. span.left \in 0 .. recSize /\ span.right \in 0 .. recSize
        BY SpanIs, Zenon
      <4> DEFINE a == span.left
                 b == span.right
      <4> HIDE DEF a, b
      <4>2. a \in 0 .. recSize /\ b \in 0 .. recSize
        BY <4>1 DEF a, b
      <4>3. a < b <=> ~(a >= b)
        BY <4>2
      <4> QED
        BY <4>3 DEF a, b
    <3>4. \A s \in Spans : g[s] = KeyWithin(s, key) /\ KeyWithin(s, key) \in BOOLEAN
      BY DEF KeyWithin
    <3>5. SearchStep(span, key, g) =
             IF span.left >= span.right THEN FALSE
             ELSE IF key < Item(m) THEN g[sl] ELSE IF key > Item(m) THEN g[sr] ELSE TRUE
      BY Zenon DEF SearchStep, Halves
    <3> HIDE DEF g, m, sl, sr
    <3>6. KeyWithin(span, key) \in BOOLEAN
      BY <3>4, Zenon
    <3>7. CASE span.left >= span.right
      BY <3>7, <3>1, <3>5, <3>6, Zenon
    <3>8. CASE span.left < span.right /\ key < Item(m)
      BY <3>8, <3>1, <3>2, <3>3, <3>4, <3>5, <3>6, Zenon
    <3>9. CASE span.left < span.right /\ ~(key < Item(m)) /\ key > Item(m)
      BY <3>9, <3>1, <3>2, <3>3, <3>4, <3>5, <3>6, Zenon
    <3>10. CASE span.left < span.right /\ ~(key < Item(m)) /\ ~(key > Item(m))
      BY <3>10, <3>1, <3>2, <3>3, <3>4, <3>5, <3>6, Zenon
    <3> QED
      BY <3>3, <3>7, <3>8, <3>9, <3>10, Zenon
  <2> QED
    BY <2>1, Zenon DEF IsSearch
<1>2. IsSearch(f, key)
  BY <1>1, Zenon
<1>3. BinarySearchFor(key) = f[start]
  BY DEF BinarySearchFor, IsSearch, SearchStep, Halves, Middle
<1> HIDE DEF f, g
<1>4. \A span \in Spans : f[span] = SearchStep(span, key, f) /\ g[span] = KeyWithin(span, key)
  BY <1>2, Zenon DEF IsSearch, g
<1> DEFINE Bad(k) == \E span \in Spans : span.right - span.left = k /\ f[span] # KeyWithin(span, key)
           T == {k \in Nat : Bad(k)}
<1>5. T = {}
  <2> SUFFICES ASSUME T # {} PROVE FALSE
    OBVIOUS
  <2>1. T \in SUBSET Nat /\ \A k \in Nat : k \in T <=> Bad(k)
    OBVIOUS
  <2> HIDE DEF T, Bad
  <2>2. PICK x \in T : \A y \in T : x <= y
    BY <2>1, LeastNumber, Zenon
  <2>3. x \in Nat /\ Bad(x)
    BY <2>1
  <2>4. PICK span \in Spans : span.right - span.left = x /\ f[span] # KeyWithin(span, key)
    BY <2>3 DEF Bad
  <2>5. \A s \in Spans : (s.right - s.left \in Nat /\ s.right - s.left < x) => f[s] = KeyWithin(s, key)
    <3> SUFFICES ASSUME NEW s \in Spans, s.right - s.left \in Nat, s.right - s.left < x,
                        f[s] # KeyWithin(s, key)
                 PROVE  FALSE
      BY Zenon
    <3> DEFINE y == s.right - s.left
    <3>1. Bad(y) /\ y \in Nat /\ y < x
      BY DEF Bad
    <3> HIDE DEF y
    <3>2. y \in T
      BY <3>1, <2>1, Zenon
    <3>3. x <= y
      BY <3>2, <2>2
    <3> QED
      BY <3>1, <3>3, <2>3
  <2> DEFINE m == Middle(span)
             sl == [span EXCEPT !.right = m]
             sr == [span EXCEPT !.left = m + 1]
             l == span.left
             r == span.right
  <2>6. /\ l \in 0 .. recSize /\ r \in 0 .. recSize
        /\ l < r => /\ l <= m /\ m < r /\ m \in RecordIndexes
                    /\ sl \in Spans /\ sl.left = l /\ sl.right = m
                    /\ sr \in Spans /\ sr.left = m + 1 /\ sr.right = r
    BY SpanIs, Zenon
  <2>7. /\ l >= r => ~KeyWithin(span, key)
        /\ (l < r /\ key < Item(m)) => (KeyWithin(span, key) <=> KeyWithin(sl, key))
        /\ (l < r /\ key > Item(m)) => (KeyWithin(span, key) <=> KeyWithin(sr, key))
        /\ (l < r /\ ~(key < Item(m)) /\ ~(key > Item(m))) => KeyWithin(span, key)
    BY HalfIsEnough, Zenon
  <2>8. f[span] = IF l >= r THEN FALSE
                  ELSE IF key < Item(m) THEN f[sl] ELSE IF key > Item(m) THEN f[sr] ELSE TRUE
    BY <1>4, Zenon DEF SearchStep, Halves
  <2>9. r - l = x /\ f[span] # KeyWithin(span, key)
    BY <2>4
  <2>10. \A s \in Spans : KeyWithin(s, key) \in BOOLEAN
    BY DEF KeyWithin
  <2> HIDE DEF m, sl, sr, l, r
  <2>11. ASSUME l < r PROVE f[sl] = KeyWithin(sl, key) /\ f[sr] = KeyWithin(sr, key)
    <3>1. m \in Int
      BY <2>6, <2>11 DEF RecordIndexes
    <3>2. m - l \in Nat /\ m - l < x /\ r - (m + 1) \in Nat /\ r - (m + 1) < x
      <4>1. l \in Int /\ r \in Int /\ l <= m /\ m < r
        BY <2>6, <2>11
      <4> QED
        BY <3>1, <4>1, <2>9
    <3> QED
      BY <3>2, <2>5, <2>6, <2>11, Zenon
  <2>12. l < r <=> ~(l >= r)
    BY <2>6
  <2>13. KeyWithin(span, key) \in BOOLEAN
    BY <2>10, Zenon
  <2>14. CASE l >= r
    BY <2>14, <2>7, <2>8, <2>9, <2>13, Zenon
  <2>15. CASE l < r /\ key < Item(m)
    BY <2>15, <2>6, <2>7, <2>8, <2>9, <2>10, <2>11, <2>12, Zenon
  <2>16. CASE l < r /\ ~(key < Item(m)) /\ key > Item(m)
    BY <2>16, <2>6, <2>7, <2>8, <2>9, <2>10, <2>11, <2>12, Zenon
  <2>17. CASE l < r /\ ~(key < Item(m)) /\ ~(key > Item(m))
    BY <2>17, <2>7, <2>8, <2>9, <2>12, <2>13, Zenon
  <2> QED
    BY <2>12, <2>14, <2>15, <2>16, <2>17, Zenon
<1>6. start \in Spans /\ start.left = 0 /\ start.right = recSize
  BY DEF Spans
<1> HIDE DEF start
<1>7. f[start] = KeyWithin(start, key)
  <2> SUFFICES ASSUME f[start] # KeyWithin(start, key) PROVE FALSE
    BY Zenon
  <2>1. start.right - start.left = recSize
    BY <1>6
  <2>2. Bad(recSize)
    BY <2>1, <1>6, Zenon
  <2>3. recSize \in T
    BY <2>2
  <2> QED
    BY <2>3, <1>5
<1>8. KeyWithin(start, key) = \E i \in RecordIndexes : Item(i) = key
  <2>1. \A i \in RecordIndexes : 0 <= i /\ i < recSize
    BY DEF RecordIndexes
  <2>2. KeyWithin(start, key) <=> \E i \in RecordIndexes : Item(i) = key
    BY <2>1, <1>6, Zenon DEF KeyWithin
  <2>3. KeyWithin(start, key) \in BOOLEAN /\ (\E i \in RecordIndexes : Item(i) = key) \in BOOLEAN
    BY DEF KeyWithin
  <2> QED
    BY <2>2, <2>3, Zenon
<1> QED
  BY <1>3, <1>7, <1>8, Zenon

-----------------------------------------------------------------------------
(* The invariant. *)

\* Until Sort is done with its index, the records are where they were.
CycleRecords == [i : Int, to : Int, from : Int, temp : Int]
QuickPcs == {"i", "j", "swap", "next"}
Calm(n, ch, known, ix, rg, cs, cy, pc) ==
    /\ pc \in {"idle"} \cup QuickPcs => KnownOK(n, ch, known)
    /\ pc \in QuickPcs => PermOK(n, ix) /\ QuickOK(n, KeysIn(n, ch, ix), rg, cs, pc) /\ cy.i = 0
Arranging(n, ch, known, ix, cy, pc) ==
    /\ pc = "arrange" => \E T : Target(n, known, T) /\ ArrangeOK(n, ch, ix, cy.i, T)
    /\ pc = "cycle" => \E T : Target(n, known, T) /\ CycleOK(n, ch, ix, cy.i, cy.to, cy.from, cy.temp, T)
    /\ pc = "sorted" => \E T : Target(n, known, T) /\ \A k \in Indexes(n) : ItemOf(ch, k) = T[k]
SortOK(n, ch, known, ix, rg, cs, cy, pc) ==
    /\ pc \in {"idle", "arrange", "cycle", "sorted"} \cup QuickPcs
    /\ cy \in CycleRecords
    /\ Calm(n, ch, known, ix, rg, cs, cy, pc) /\ Arranging(n, ch, known, ix, cy, pc)

RecordsInv ==
    /\ FieldsOK(fields, protoSize, protoAlignment)
    /\ ArrayOK(recSize, chunks, assigned, highest)
    /\ SortOK(recSize, chunks, assigned, index, range, calls, cycle, recPc)

\* While nothing is sorted, only the records count.
LEMMA IdleOK ==
    ASSUME NEW n, NEW ch, NEW known, KnownOK(n, ch, known), NEW ix, NEW rg, NEW cs, NEW cy \in CycleRecords
    PROVE  SortOK(n, ch, known, ix, rg, cs, cy, "idle")
<1>1. Calm(n, ch, known, ix, rg, cs, cy, "idle")
  BY DEF Calm, QuickPcs
<1>2. Arranging(n, ch, known, ix, cy, "idle")
  BY DEF Arranging
<1> QED
  BY <1>1, <1>2 DEF SortOK

LEMMA QuickIsOK ==
    ASSUME NEW n, NEW ch, NEW known, KnownOK(n, ch, known), NEW ix, NEW rg, NEW cs, NEW cy \in CycleRecords, cy.i = 0,
           NEW pc, pc \in QuickPcs, PermOK(n, ix), QuickOK(n, KeysIn(n, ch, ix), rg, cs, pc)
    PROVE  SortOK(n, ch, known, ix, rg, cs, cy, pc)
<1>1. Calm(n, ch, known, ix, rg, cs, cy, pc)
  BY Zenon DEF Calm
<1>2. Arranging(n, ch, known, ix, cy, pc)
  BY DEF Arranging, QuickPcs
<1> QED
  BY <1>1, <1>2 DEF SortOK

LEMMA ArrangeIsOK ==
    ASSUME NEW n, NEW ch, NEW known, NEW ix, NEW rg, NEW cs, NEW cy \in CycleRecords,
           NEW T, Target(n, known, T)
    PROVE  /\ ArrangeOK(n, ch, ix, cy.i, T) => SortOK(n, ch, known, ix, rg, cs, cy, "arrange")
           /\ CycleOK(n, ch, ix, cy.i, cy.to, cy.from, cy.temp, T) => SortOK(n, ch, known, ix, rg, cs, cy, "cycle")
           /\ (\A k \in Indexes(n) : ItemOf(ch, k) = T[k]) => SortOK(n, ch, known, ix, rg, cs, cy, "sorted")
<1>1. \A pc \in {"arrange", "cycle", "sorted"} : Calm(n, ch, known, ix, rg, cs, cy, pc)
  BY DEF Calm, QuickPcs
<1>2. ASSUME ArrangeOK(n, ch, ix, cy.i, T) PROVE SortOK(n, ch, known, ix, rg, cs, cy, "arrange")
  <2>1. \E T2 : Target(n, known, T2) /\ ArrangeOK(n, ch, ix, cy.i, T2)
    BY <1>2, Zenon
  <2>2. Arranging(n, ch, known, ix, cy, "arrange")
    <3>1. "arrange" # "cycle" /\ "arrange" # "sorted"
      OBVIOUS
    <3> QED
      BY <2>1, <3>1, Zenon DEF Arranging
  <2> QED
    BY <1>1, <2>2 DEF SortOK
<1>3. ASSUME CycleOK(n, ch, ix, cy.i, cy.to, cy.from, cy.temp, T) PROVE SortOK(n, ch, known, ix, rg, cs, cy, "cycle")
  <2>1. \E T2 : Target(n, known, T2) /\ CycleOK(n, ch, ix, cy.i, cy.to, cy.from, cy.temp, T2)
    BY <1>3, Zenon
  <2>2. Arranging(n, ch, known, ix, cy, "cycle")
    <3>1. "cycle" # "arrange" /\ "cycle" # "sorted"
      OBVIOUS
    <3> QED
      BY <2>1, <3>1, Zenon DEF Arranging
  <2> QED
    BY <1>1, <2>2 DEF SortOK
<1>4. ASSUME \A k \in Indexes(n) : ItemOf(ch, k) = T[k] PROVE SortOK(n, ch, known, ix, rg, cs, cy, "sorted")
  <2>1. \E T2 : Target(n, known, T2) /\ \A k \in Indexes(n) : ItemOf(ch, k) = T2[k]
    BY <1>4, Zenon
  <2>2. Arranging(n, ch, known, ix, cy, "sorted")
    <3>1. "sorted" # "arrange" /\ "sorted" # "cycle"
      OBVIOUS
    <3> QED
      BY <2>1, <3>1, Zenon DEF Arranging
  <2> QED
    BY <1>1, <2>2 DEF SortOK
<1> QED
  BY <1>2, <1>3, <1>4

\* What is known at each place of the program.
LEMMA AtIdle ==
    ASSUME RecordsInv, recPc \in {"idle"} \cup QuickPcs
    PROVE  KnownOK(recSize, chunks, assigned) /\ cycle \in CycleRecords
BY Zenon DEF RecordsInv, SortOK, Calm

LEMMA AtQuick ==
    ASSUME RecordsInv, recPc \in QuickPcs
    PROVE  /\ KnownOK(recSize, chunks, assigned) /\ cycle \in CycleRecords /\ cycle.i = 0
           /\ PermOK(recSize, index)
           /\ QuickOK(recSize, KeysIn(recSize, chunks, index), range, calls, recPc)
           /\ recSize \in Nat /\ KeysIn(recSize, chunks, index) \in [Indexes(recSize) -> Nat]
           /\ \A p \in Indexes(recSize) : KeysIn(recSize, chunks, index)[p] = KeyAt(p)
<1>1. ArrayOK(recSize, chunks, assigned, highest)
  BY DEF RecordsInv
<1>2. SortOK(recSize, chunks, assigned, index, range, calls, cycle, recPc)
  BY DEF RecordsInv
<1>3. /\ KnownOK(recSize, chunks, assigned) /\ cycle \in CycleRecords /\ cycle.i = 0
      /\ PermOK(recSize, index)
      /\ QuickOK(recSize, KeysIn(recSize, chunks, index), range, calls, recPc)
  BY <1>2, Zenon DEF SortOK, Calm
<1>4. /\ recSize \in Nat /\ KeysIn(recSize, chunks, index) \in [Indexes(recSize) -> Nat]
      /\ \A p \in Indexes(recSize) : KeysIn(recSize, chunks, index)[p] = ItemOf(chunks, index[p]) /\ index[p] \in Indexes(recSize)
  BY <1>1, <1>3, KeysAre, Zenon
<1> QED
  BY <1>3, <1>4, Zenon DEF KeyAt, Item, ItemOf

LEMMA ArrayIs ==
    ASSUME RecordsInv
    PROVE  /\ ArrayOK(recSize, chunks, assigned, highest)
           /\ FieldsOK(fields, protoSize, protoAlignment)
           /\ recSize \in Nat /\ chunks \in Seq(Rows)
           /\ \A k \in Indexes(recSize) : k \in Places(chunks) /\ k \in 0 .. MaxRecords - 1 /\ k < highest
           /\ RecordIndexes = Indexes(recSize)
<1>1. ArrayOK(recSize, chunks, assigned, highest) /\ FieldsOK(fields, protoSize, protoAlignment)
  BY DEF RecordsInv
<1> QED
  BY <1>1, IndexesArePlaces, Zenon DEF RecordIndexes, Indexes

-----------------------------------------------------------------------------
(* The calls that change the array. *)

ArrayInv == /\ ArrayOK(recSize, chunks, assigned, highest)
            /\ SortOK(recSize, chunks, assigned, index, range, calls, cycle, recPc)

LEMMA ResizeStep ==
    ASSUME RecordsInv, NEW n \in 0 .. MaxRecords, Resize(n)
    PROVE  ArrayInv'
<1>1. recPc = "idle" /\ UNCHANGED sortVars
  BY DEF Resize, RecordCall
<1>2. ArrayOK(recSize, chunks, assigned, highest) /\ KnownOK(recSize, chunks, assigned) /\ cycle \in CycleRecords
  BY <1>1, AtIdle, ArrayIs
<1>3. /\ recSize' = n
      /\ chunks' = ChunksResized(chunks, n)
      /\ assigned' = KnownResized(assigned, recSize, highest)
      /\ highest' = MostResized(highest, n)
  BY DEF Resize, ChunksAfterResize, BlocksOf, ChunksResized, KnownResized, MostResized
<1>4. ArrayOK(n, chunks', assigned', highest') /\ KnownOK(n, chunks', assigned')
  BY <1>2, <1>3, ResizeKeeps, Zenon
<1>5. SortOK(n, chunks', assigned', index, range, calls, cycle, "idle")
  BY <1>2, <1>4, IdleOK, Zenon
<1>6. SortOK(recSize', chunks', assigned', index', range', calls', cycle', recPc')
  BY <1>1, <1>3, <1>5 DEF sortVars
<1> QED
  BY <1>3, <1>4, <1>6 DEF ArrayInv

LEMMA AssignStep ==
    ASSUME RecordsInv, NEW i \in RecordIndexes, NEW key \in RecordKeys, AssignRecord(i, key)
    PROVE  ArrayInv'
<1>1. recPc = "idle" /\ UNCHANGED <<recSize, highest, sortVars>>
  BY DEF AssignRecord, RecordCall
<1>2. ArrayOK(recSize, chunks, assigned, highest) /\ KnownOK(recSize, chunks, assigned) /\ cycle \in CycleRecords
  BY <1>1, AtIdle, ArrayIs
<1>3. chunks' = PutOf(chunks, i, key) /\ assigned' = [assigned EXCEPT ![i] = key]
  BY DEF AssignRecord, WithItem, PutOf
<1>4. i \in 0 .. recSize - 1 /\ key \in Nat
  BY RecordsAssumption DEF RecordIndexes
<1>5. ArrayOK(recSize, chunks', assigned', highest) /\ KnownOK(recSize, chunks', assigned')
  BY <1>2, <1>3, <1>4, AssignKeeps, Zenon
<1>6. SortOK(recSize, chunks', assigned', index, range, calls, cycle, "idle")
  BY <1>2, <1>5, IdleOK, Zenon
<1>7. SortOK(recSize', chunks', assigned', index', range', calls', cycle', recPc')
  BY <1>1, <1>6 DEF sortVars
<1> QED
  BY <1>1, <1>5, <1>7 DEF ArrayInv

LEMMA ReadStep ==
    ASSUME RecordsInv, NEW keys \in BoundedSeq(RecordKeys, recSize), ReadItems(keys)
    PROVE  ArrayInv'
<1>1. recPc = "idle" /\ UNCHANGED <<recSize, highest, sortVars>>
  BY DEF ReadItems, RecordCall
<1>2. ArrayOK(recSize, chunks, assigned, highest) /\ KnownOK(recSize, chunks, assigned) /\ cycle \in CycleRecords
      /\ recSize \in Nat
  BY <1>1, AtIdle, ArrayIs
<1>3. Len(keys) \in 0 .. recSize /\ \A i \in 1 .. Len(keys) : keys[i] \in Nat
  <2>1. PICK z \in 0 .. recSize : keys \in [1 .. z -> RecordKeys]
    BY DEF BoundedSeq, SeqOf
  <2>2. z \in Nat
    BY <2>1, <1>2
  <2>3. Len(keys) = z
    BY <2>1, <2>2
  <2>4. \A i \in 1 .. z : keys[i] \in Nat
    BY <2>1, RecordsAssumption
  <2> QED
    BY <2>1, <2>3, <2>4
<1> DEFINE n == Len(keys)
           whole == n - (n % ChunkCapacity)
<1>4. PICK m \in (IF n >= recSize THEN {recSize} ELSE whole .. n) :
         chunks' = ItemsRead(chunks, m, keys) /\ assigned' = KnownRead(assigned, m, keys)
  BY DEF ReadItems, ItemsRead, KnownRead
<1>5. m \in 0 .. recSize /\ m <= n
  <2>1. n \in 0 .. recSize
    BY <1>3
  <2> HIDE DEF n
  <2>2. n % ChunkCapacity \in 0 .. n
    <3>1. n \in Nat /\ ChunkCapacity \in Nat \ {0}
      BY <2>1, <1>2, CapacityIs
    <3> QED
      BY <3>1, Z3
  <2>3. whole \in 0 .. n
    BY <2>1, <2>2, <1>2
  <2> HIDE DEF whole
  <2>4. CASE n >= recSize
    <3>1. m = recSize
      BY <2>4
    <3> QED
      BY <3>1, <2>1, <2>4, <1>2
  <2>5. CASE ~(n >= recSize)
    <3>1. m \in whole .. n
      BY <2>5
    <3> QED
      BY <3>1, <2>1, <2>3, <1>2
  <2> QED
    BY <2>4, <2>5
<1>6. \A i \in 1 .. m : keys[i] \in Nat
  <2>1. \A i \in 1 .. m : i \in 1 .. n
    BY <1>2, <1>3, <1>5
  <2> QED
    BY <2>1, <1>3, Zenon
<1> HIDE DEF n, whole
<1>7. ArrayOK(recSize, chunks', assigned', highest) /\ KnownOK(recSize, chunks', assigned')
  BY <1>2, <1>4, <1>5, <1>6, ReadKeeps, Zenon
<1>8. SortOK(recSize, chunks', assigned', index, range, calls, cycle, "idle")
  BY <1>2, <1>7, IdleOK, Zenon
<1>9. SortOK(recSize', chunks', assigned', index', range', calls', cycle', recPc')
  BY <1>1, <1>8 DEF sortVars
<1> QED
  BY <1>1, <1>7, <1>9 DEF ArrayInv

-----------------------------------------------------------------------------
(* The steps of Sort. *)

LEMMA NewRangeOK ==
    ASSUME ArrayOK(recSize, chunks, assigned, highest), NEW ix, PermOK(recSize, ix),
           NEW c \in Ranges, NEW cs \in Seq(Ranges), RangesOK(recSize, <<c>> \o cs),
           OrderedBut(recSize, KeysIn(recSize, chunks, ix), <<c>> \o cs)
    PROVE  QuickOK(recSize, KeysIn(recSize, chunks, ix), NewRange(c.low, c.high, ix), cs, "i")
<1> DEFINE K == KeysIn(recSize, chunks, ix)
           m == (c.low + c.high) \div 2
<1>1. /\ recSize \in Nat /\ K \in [Indexes(recSize) -> Nat]
      /\ \A p \in Indexes(recSize) : K[p] = ItemOf(chunks, ix[p]) /\ ix[p] \in Indexes(recSize)
  BY KeysAre, Zenon
<1>2. c.low \in Int /\ c.high \in Int
  BY DEF Ranges
<1>3. 0 <= c.low /\ c.low < c.high /\ c.high <= recSize - 1
  <2>1. Len(<<c>> \o cs) >= 1 /\ (<<c>> \o cs)[1] = c
    OBVIOUS
  <2> QED
    BY <2>1 DEF RangesOK
<1>4. m \in Indexes(recSize)
  BY <1>1, <1>2, <1>3 DEF Indexes
<1> HIDE DEF K
<1>5. K[m] = Item(ix[m])
  BY <1>1, <1>4, Zenon DEF Item, ItemOf
<1>6. NewRange(c.low, c.high, ix) = [low |-> c.low, high |-> c.high, i |-> c.low, j |-> c.high,
                                     x |-> K[(c.low + c.high) \div 2]]
  BY <1>5, Zenon DEF NewRange
<1>7. OrderedBut(recSize, K, <<c>> \o cs)
  BY DEF K
<1>8. QuickOK(recSize, K, NewRange(c.low, c.high, ix), cs, "i")
  BY <1>1, <1>6, <1>7, RangeStarts
<1> QED
  BY <1>8 DEF K

LEMMA StartStep ==
    ASSUME RecordsInv, StartSort
    PROVE  ArrayInv'
<1>1. /\ recPc = "idle" /\ index' = [i \in RecordIndexes |-> i]
      /\ IF recSize <= 1
         THEN recPc' = "arrange" /\ UNCHANGED range
         ELSE recPc' = "i" /\ range' = NewRange(0, recSize - 1, index')
      /\ calls' = <<>> /\ cycle' = NoCycle
      /\ UNCHANGED <<recSize, chunks, assigned, highest>>
  BY DEF StartSort, RecordCall
<1>2. /\ ArrayOK(recSize, chunks, assigned, highest) /\ KnownOK(recSize, chunks, assigned)
      /\ recSize \in Nat /\ RecordIndexes = Indexes(recSize)
  BY <1>1, AtIdle, ArrayIs
<1>3. PermOK(recSize, index')
  BY <1>1, <1>2, IdentityPerm, Zenon
<1>4. NoCycle \in CycleRecords /\ NoCycle.i = 0
  BY DEF NoCycle, CycleRecords
<1> DEFINE K == KeysIn(recSize, chunks, index')
           c == [low |-> 0, high |-> recSize - 1]
<1>5. /\ recSize > 1 => RangesOK(recSize, <<c>> \o <<>>) /\ OrderedBut(recSize, K, <<c>> \o <<>>)
      /\ ~(recSize > 1) => OrderedBut(recSize, K, <<>>)
      /\ <<>> \in Seq(Ranges) /\ c \in Ranges
  BY <1>2, AllInOneRange, Zenon
<1>6. c.low = 0 /\ c.high = recSize - 1
  OBVIOUS
<1> HIDE DEF K, c
<1>7. CASE recSize <= 1
  <2>1. ~(recSize > 1)
    BY <1>2, <1>7
  <2>2. OrderedBut(recSize, KeysIn(recSize, chunks, index'), <<>>)
    BY <2>1, <1>5 DEF K
  <2>3. PICK T : Target(recSize, assigned, T) /\ ArrangeOK(recSize, chunks, index', 0, T)
    BY <2>2, <1>2, <1>3, ArrangeStarts, Zenon
  <2>4. SortOK(recSize, chunks, assigned, index', range, <<>>, NoCycle, "arrange")
    BY <2>3, <1>4, ArrangeIsOK
  <2> QED
    BY <2>4, <1>1, <1>2, <1>7 DEF ArrayInv
<1>8. CASE ~(recSize <= 1)
  <2>1. recSize > 1
    BY <1>2, <1>8
  <2>2. QuickOK(recSize, K, NewRange(c.low, c.high, index'), <<>>, "i")
    BY <2>1, <1>2, <1>3, <1>5, NewRangeOK DEF K
  <2>3. range' = NewRange(c.low, c.high, index')
    BY <1>1, <1>6, <1>8
  <2>4. "i" \in QuickPcs
    BY DEF QuickPcs
  <2>5. SortOK(recSize, chunks, assigned, index', range', <<>>, NoCycle, "i")
    BY <2>2, <2>3, <2>4, <1>2, <1>3, <1>4, QuickIsOK DEF K
  <2> QED
    BY <2>5, <1>1, <1>2, <1>8 DEF ArrayInv
<1> QED
  BY <1>7, <1>8

\* A step of QuickSort that leaves the index alone.
LEMMA QuickGoesOn ==
    ASSUME RecordsInv, recPc \in QuickPcs, NEW rg, NEW pc \in QuickPcs,
           QuickOK(recSize, KeysIn(recSize, chunks, index), rg, calls, pc),
           range' = rg, recPc' = pc, ArrayStays, UNCHANGED <<index, calls, cycle>>
    PROVE  ArrayInv'
<1>1. /\ KnownOK(recSize, chunks, assigned) /\ cycle \in CycleRecords /\ cycle.i = 0
      /\ PermOK(recSize, index)
  BY AtQuick
<1>2. ArrayOK(recSize, chunks, assigned, highest)
  BY ArrayIs
<1>3. SortOK(recSize, chunks, assigned, index, rg, calls, cycle, pc)
  BY <1>1, QuickIsOK
<1> QED
  BY <1>2, <1>3 DEF ArrayInv, ArrayStays

LEMMA ScanUpStep ==
    ASSUME RecordsInv, ScanUp
    PROVE  ArrayInv'
<1> DEFINE K == KeysIn(recSize, chunks, index)
<1>1. /\ recPc = "i"
      /\ IF KeyAt(range.i) < range.x
         THEN range' = [range EXCEPT !.i = range.i + 1] /\ UNCHANGED recPc
         ELSE recPc' = "j" /\ UNCHANGED range
      /\ ArrayStays /\ UNCHANGED <<index, calls, cycle>>
  BY DEF ScanUp
<1>2. recPc \in QuickPcs /\ recPc # "next"
  BY <1>1 DEF QuickPcs
<1>3. /\ recSize \in Nat /\ K \in [Indexes(recSize) -> Nat]
      /\ QuickOK(recSize, K, range, calls, recPc)
      /\ \A p \in Indexes(recSize) : K[p] = KeyAt(p)
  BY <1>2, AtQuick
<1>4. range.i \in Indexes(recSize)
  BY <1>2, <1>3, RangeInside
<1>5. K[range.i] = KeyAt(range.i)
  BY <1>3, <1>4
<1> HIDE DEF K
<1>6. \/ K[range.i] < range.x /\ range' = [range EXCEPT !.i = range.i + 1] /\ recPc' = "i"
      \/ ~(K[range.i] < range.x) /\ range' = range /\ recPc' = "j"
  BY <1>1, <1>5
<1>7. QuickOK(recSize, K, range, calls, "i")
  BY <1>1, <1>3
<1>8. QuickOK(recSize, K, range', calls, recPc')
  BY <1>3, <1>6, <1>7, ScanUpKeeps
<1>9. recPc' \in QuickPcs
  BY <1>6 DEF QuickPcs
<1> QED
  BY <1>1, <1>2, <1>8, <1>9, QuickGoesOn DEF K

LEMMA ScanDownStep ==
    ASSUME RecordsInv, ScanFromAbove
    PROVE  ArrayInv'
<1> DEFINE K == KeysIn(recSize, chunks, index)
<1>1. /\ recPc = "j"
      /\ IF range.x < KeyAt(range.j)
         THEN range' = [range EXCEPT !.j = range.j - 1] /\ UNCHANGED recPc
         ELSE recPc' = "swap" /\ UNCHANGED range
      /\ ArrayStays /\ UNCHANGED <<index, calls, cycle>>
  BY DEF ScanFromAbove
<1>2. recPc \in QuickPcs /\ recPc # "next"
  BY <1>1 DEF QuickPcs
<1>3. /\ recSize \in Nat /\ K \in [Indexes(recSize) -> Nat]
      /\ QuickOK(recSize, K, range, calls, recPc)
      /\ \A p \in Indexes(recSize) : K[p] = KeyAt(p)
  BY <1>2, AtQuick
<1>4. range.j \in Indexes(recSize)
  BY <1>2, <1>3, RangeInside
<1>5. K[range.j] = KeyAt(range.j)
  BY <1>3, <1>4
<1> HIDE DEF K
<1>6. \/ range.x < K[range.j] /\ range' = [range EXCEPT !.j = range.j - 1] /\ recPc' = "j"
      \/ ~(range.x < K[range.j]) /\ range' = range /\ recPc' = "swap"
  BY <1>1, <1>5
<1>7. QuickOK(recSize, K, range, calls, "j")
  BY <1>1, <1>3
<1>8. QuickOK(recSize, K, range', calls, recPc')
  BY <1>3, <1>6, <1>7, ScanDownKeeps
<1>9. recPc' \in QuickPcs
  BY <1>6 DEF QuickPcs
<1> QED
  BY <1>1, <1>2, <1>8, <1>9, QuickGoesOn DEF K

LEMMA SwapStep ==
    ASSUME RecordsInv, SwapPair
    PROVE  ArrayInv'
<1> DEFINE K == KeysIn(recSize, chunks, index)
           K2 == KeysIn(recSize, chunks, index')
<1>1. /\ recPc = "swap"
      /\ index' = SwappedIn(index, range.i, range.j)
      /\ range.i <= range.j => range' = MovedOn(range)
      /\ ~(range.i <= range.j) => range' = range
      /\ range'.i <= range'.j => recPc' = "i"
      /\ ~(range'.i <= range'.j) => recPc' = "next"
      /\ ArrayStays /\ UNCHANGED <<calls, cycle>>
  BY DEF SwapPair, MovesOn, SwappedIn, MovedOn
<1>2. recPc \in QuickPcs /\ recPc # "next"
  BY <1>1 DEF QuickPcs
<1>3. /\ recSize \in Nat /\ K \in [Indexes(recSize) -> Nat]
      /\ QuickOK(recSize, K, range, calls, recPc) /\ PermOK(recSize, index)
      /\ KnownOK(recSize, chunks, assigned) /\ cycle \in CycleRecords /\ cycle.i = 0
  BY <1>2, AtQuick
<1>4. range.i \in Indexes(recSize) /\ range.j \in Indexes(recSize)
  BY <1>2, <1>3, RangeInside
<1>5. PermOK(recSize, index') /\ K2 = SwappedIn(K, range.i, range.j)
  BY <1>1, <1>3, <1>4, SwapPerm
<1> HIDE DEF K, K2
<1>6. QuickOK(recSize, K, range, calls, "swap")
  BY <1>1, <1>3
<1>7. QuickOK(recSize, K2, range', calls, recPc')
  BY <1>1, <1>3, <1>5, <1>6, SwapKeeps
<1>8. recPc' \in QuickPcs
  BY <1>1 DEF QuickPcs
<1>9. SortOK(recSize, chunks, assigned, index', range', calls, cycle, recPc')
  BY <1>3, <1>5, <1>7, <1>8, QuickIsOK DEF K2
<1>10. ArrayOK(recSize, chunks, assigned, highest)
  BY ArrayIs
<1> QED
  BY <1>1, <1>9, <1>10 DEF ArrayInv, ArrayStays

LEMMA NextStep ==
    ASSUME RecordsInv, NextRange
    PROVE  ArrayInv'
<1> DEFINE K == KeysIn(recSize, chunks, index)
           p == PendingOf(range, calls)
<1>1. /\ recPc = "next"
      /\ p = <<>> => recPc' = "arrange" /\ UNCHANGED <<range, calls>>
      /\ p # <<>> => /\ recPc' = "i"
                     /\ range' = NewRange(Head(p).low, Head(p).high, index)
                     /\ calls' = Tail(p)
      /\ ArrayStays /\ UNCHANGED <<index, cycle>>
  BY DEF NextRange, Pending, PendingOf
<1>2. recPc \in QuickPcs
  BY <1>1 DEF QuickPcs
<1>3. /\ recSize \in Nat /\ K \in [Indexes(recSize) -> Nat]
      /\ QuickOK(recSize, K, range, calls, recPc) /\ PermOK(recSize, index)
      /\ KnownOK(recSize, chunks, assigned) /\ cycle \in CycleRecords /\ cycle.i = 0
  BY <1>2, AtQuick
<1>4. ArrayOK(recSize, chunks, assigned, highest)
  BY ArrayIs
<1>5. RangesOK(recSize, p) /\ OrderedBut(recSize, K, p)
  <2>1. QuickOK(recSize, K, range, calls, "next")
    BY <1>1, <1>3
  <2> HIDE DEF K
  <2> QED
    BY <2>1, <1>3, PendingKeeps
<1> HIDE DEF K, p
<1>6. CASE p = <<>>
  <2>1. OrderedBut(recSize, KeysIn(recSize, chunks, index), <<>>)
    BY <1>5, <1>6 DEF K
  <2>2. PICK T : Target(recSize, assigned, T) /\ ArrangeOK(recSize, chunks, index, 0, T)
    BY <2>1, <1>3, <1>4, ArrangeStarts, Zenon
  <2>3. ArrangeOK(recSize, chunks, index, cycle.i, T)
    BY <2>2, <1>3
  <2>4. SortOK(recSize, chunks, assigned, index, range, calls, cycle, "arrange")
    BY <2>2, <2>3, <1>3, ArrangeIsOK
  <2> QED
    BY <2>4, <1>1, <1>4, <1>6 DEF ArrayInv, ArrayStays
<1>7. CASE p # <<>>
  <2> DEFINE c == Head(p)
             cs == Tail(p)
  <2>1. c \in Ranges /\ cs \in Seq(Ranges) /\ p = <<c>> \o cs
    <3>1. p \in Seq(Ranges)
      BY <1>5 DEF RangesOK
    <3> QED
      BY <3>1, <1>7
  <2> HIDE DEF c, cs
  <2>2. QuickOK(recSize, K, NewRange(c.low, c.high, index), cs, "i")
    BY <2>1, <1>3, <1>4, <1>5, NewRangeOK DEF K
  <2>3. recPc' = "i" /\ range' = NewRange(c.low, c.high, index) /\ calls' = cs
    BY <1>1, <1>7 DEF c, cs
  <2>4. "i" \in QuickPcs
    BY DEF QuickPcs
  <2>5. SortOK(recSize, chunks, assigned, index, range', calls', cycle, "i")
    BY <2>2, <2>3, <2>4, <1>3, QuickIsOK DEF K
  <2> QED
    BY <2>3, <2>5, <1>1, <1>4 DEF ArrayInv, ArrayStays
<1> QED
  BY <1>6, <1>7

LEMMA TargetIs ==
    ASSUME NEW n, NEW known, NEW T, Target(n, known, T)
    PROVE  T \in [Indexes(n) -> Nat] /\ \A a, b \in Indexes(n) : a < b => T[a] <= T[b]
BY Zenon DEF Target

LEMMA AtArrange ==
    ASSUME RecordsInv
    PROVE  /\ cycle \in CycleRecords
           /\ recPc = "arrange" => \E T : /\ Target(recSize, assigned, T)
                                          /\ ArrangeOK(recSize, chunks, index, cycle.i, T)
           /\ recPc = "cycle" => \E T : /\ Target(recSize, assigned, T)
                                        /\ CycleOK(recSize, chunks, index, cycle.i, cycle.to, cycle.from, cycle.temp, T)
           /\ recPc = "sorted" => \E T : /\ Target(recSize, assigned, T)
                                         /\ \A k \in Indexes(recSize) : ItemOf(chunks, k) = T[k]
BY Zenon DEF RecordsInv, SortOK, Arranging

LEMMA CyclesAre ==
    ASSUME NEW c \in CycleRecords
    PROVE  c.i \in Int /\ c.to \in Int /\ c.from \in Int /\ c.temp \in Int
BY DEF CycleRecords

LEMMA CycleMoves ==
    ASSUME NEW c \in CycleRecords, NEW i \in Int
    PROVE  [c EXCEPT !.i = i] \in CycleRecords /\ [c EXCEPT !.i = i].i = i
BY DEF CycleRecords

Following(c, to, from) == [c EXCEPT !.to = to, !.from = from]

IsFollowing(c, to, from, d) ==
    d \in CycleRecords /\ d.i = c.i /\ d.to = to /\ d.from = from /\ d.temp = c.temp

\* Following a cycle moves its two ends and keeps the rest.
LEMMA CycleFollows ==
    ASSUME NEW c \in CycleRecords, NEW to \in Int, NEW from \in Int
    PROVE  IsFollowing(c, to, from, Following(c, to, from))
BY DEF CycleRecords, Following, IsFollowing

LEMMA ArrangeStep ==
    ASSUME RecordsInv, ArrangeItem
    PROVE  ArrayInv'
<1>1. /\ recPc = "arrange" /\ cycle.i < recSize
      /\ IF index[cycle.i] \in {cycle.i, -1}
         THEN cycle' = [cycle EXCEPT !.i = cycle.i + 1] /\ UNCHANGED recPc
         ELSE /\ cycle' = [i |-> cycle.i, to |-> cycle.i, from |-> index[cycle.i], temp |-> Item(cycle.i)]
              /\ recPc' = "cycle"
      /\ ArrayStays /\ UNCHANGED <<index, range, calls>>
  BY DEF ArrangeItem
<1>2. /\ ArrayOK(recSize, chunks, assigned, highest) /\ recSize \in Nat /\ chunks \in Seq(Rows)
      /\ \A k \in Indexes(recSize) : k \in Places(chunks)
  BY ArrayIs
<1>3. /\ cycle \in CycleRecords
      /\ \E T : Target(recSize, assigned, T) /\ ArrangeOK(recSize, chunks, index, cycle.i, T)
  BY <1>1, AtArrange
<1>4. PICK T : Target(recSize, assigned, T) /\ ArrangeOK(recSize, chunks, index, cycle.i, T)
  BY <1>3
<1>5. T \in [Indexes(recSize) -> Nat]
  BY <1>4, TargetIs
<1>6. /\ cycle.i \in Indexes(recSize)
      /\ index[cycle.i] \in {cycle.i, -1} => ArrangeOK(recSize, chunks, index, cycle.i + 1, T)
      /\ index[cycle.i] \notin {cycle.i, -1} =>
            CycleOK(recSize, chunks, index, cycle.i, cycle.i, index[cycle.i], ItemOf(chunks, cycle.i), T)
  BY <1>1, <1>2, <1>4, <1>5, ArrangeOn, Zenon
<1>7. CASE index[cycle.i] \in {cycle.i, -1}
  <2>1. cycle' = [cycle EXCEPT !.i = cycle.i + 1] /\ recPc' = "arrange"
    BY <1>1, <1>7
  <2>2. cycle.i + 1 \in Int
    <3>1. cycle \in CycleRecords
      BY <1>3
    <3>2. cycle.i \in Int
      BY <3>1, CyclesAre, Zenon
    <3> QED
      BY <3>2
  <2>3. cycle' \in CycleRecords /\ cycle'.i = cycle.i + 1
    <3>1. cycle \in CycleRecords
      BY <1>3
    <3> QED
      BY <2>1, <2>2, <3>1, CycleMoves, Zenon
  <2>4. ArrangeOK(recSize, chunks, index, cycle'.i, T)
    BY <2>3, <1>6, <1>7
  <2>5. SortOK(recSize, chunks, assigned, index, range, calls, cycle', "arrange")
    BY <2>3, <2>4, <1>4, ArrangeIsOK
  <2> QED
    BY <2>1, <2>5, <1>1, <1>2 DEF ArrayInv, ArrayStays
<1>8. CASE index[cycle.i] \notin {cycle.i, -1}
  <2> DEFINE from == index[cycle.i]
             temp == ItemOf(chunks, cycle.i)
             i == cycle.i
             c == [i |-> i, to |-> i, from |-> from, temp |-> temp]
  <2>1. cycle' = c /\ recPc' = "cycle"
    BY <1>1, <1>8 DEF Item, ItemOf
  <2>2. CycleOK(recSize, chunks, index, i, i, from, temp, T)
    BY <1>6, <1>8
  <2>3. i \in Int /\ from \in Int /\ temp \in Int
    <3>1. i \in Indexes(recSize) /\ from \in Indexes(recSize) /\ temp \in Nat
      BY <2>2, Zenon DEF CycleOK
    <3> HIDE DEF i, from, temp
    <3> QED
      BY <3>1 DEF Indexes
  <2> HIDE DEF i, from, temp
  <2>4. c \in CycleRecords /\ c.i = i /\ c.to = i /\ c.from = from /\ c.temp = temp
    BY <2>3 DEF CycleRecords
  <2> HIDE DEF c
  <2>5. CycleOK(recSize, chunks, index, c.i, c.to, c.from, c.temp, T)
    BY <2>2, <2>4
  <2>6. SortOK(recSize, chunks, assigned, index, range, calls, c, "cycle")
    BY <2>4, <2>5, <1>4, ArrangeIsOK
  <2> QED
    BY <2>1, <2>6, <1>1, <1>2 DEF ArrayInv, ArrayStays
<1> QED
  BY <1>7, <1>8

\* An assignment to a record leaves the rest of the array as it is.
LEMMA PutKeeps ==
    ASSUME NEW n, NEW ch, NEW known, NEW most, ArrayOK(n, ch, known, most), NEW i \in Indexes(n), NEW key \in Nat
    PROVE  /\ ArrayOK(n, PutOf(ch, i, key), known, most)
           /\ PutOf(ch, i, key) \in Seq(Rows) /\ \A k \in Indexes(n) : k \in Places(PutOf(ch, i, key))
<1>1. /\ n \in 0 .. MaxRecords /\ most \in 0 .. MaxRecords /\ n <= most
      /\ ch \in Seq(Rows) /\ n <= Len(ch) * ChunkCapacity
      /\ known \in [0 .. MaxRecords - 1 -> Int]
      /\ \A j \in Places(ch) : j >= most => ItemOf(ch, j) = 0
  BY DEF ArrayOK
<1>2. \A k \in Indexes(n) : k \in Places(ch) /\ k < most
  BY IndexesArePlaces, Zenon DEF Indexes
<1> DEFINE w == PutOf(ch, i, key)
<1>3. /\ w \in Seq(Rows) /\ Len(w) = Len(ch) /\ Places(w) = Places(ch)
      /\ \A j \in Places(ch) : j # i => ItemOf(w, j) = ItemOf(ch, j)
  <2>1. i \in Places(ch)
    BY <1>2
  <2>2. IsPut(ch, i, key, w)
    BY <1>1, <2>1, PutIs, Zenon
  <2> QED
    BY <2>2, Zenon DEF IsPut
<1> HIDE DEF w
<1>4. ASSUME NEW j \in Places(ch), j >= most PROVE ItemOf(w, j) = 0
  <2>1. j # i
    BY <1>1, <1>2, <1>4, CapacityIs DEF Indexes
  <2> QED
    BY <2>1, <1>1, <1>3, <1>4, Zenon
<1>5. ArrayOK(n, w, known, most)
  BY <1>1, <1>3, <1>4, Zenon DEF ArrayOK
<1> QED
  BY <1>2, <1>3, <1>5, Zenon DEF w

LEMMA FollowStep ==
    ASSUME RecordsInv, FollowCycle
    PROVE  ArrayInv'
<1> DEFINE i == cycle.i
           to == cycle.to
           from == cycle.from
           temp == cycle.temp
           next == index[from]
           moved == PutOf(chunks, to, ItemOf(chunks, from))
<1>1. /\ recPc = "cycle"
      /\ next = i => /\ chunks' = PutOf(moved, from, temp)
                     /\ index' = [index EXCEPT ![to] = -1, ![from] = -1]
                     /\ cycle' = [cycle EXCEPT !.i = i + 1]
                     /\ recPc' = "arrange"
      /\ next # i => /\ chunks' = moved
                     /\ index' = [index EXCEPT ![to] = -1]
                     /\ cycle' = [cycle EXCEPT !.to = from, !.from = next]
                     /\ recPc' = "cycle"
      /\ UNCHANGED <<recSize, assigned, highest, range, calls>>
  BY DEF FollowCycle, WithItem, Item, ItemOf, PutOf
<1>2. /\ ArrayOK(recSize, chunks, assigned, highest) /\ recSize \in Nat /\ chunks \in Seq(Rows)
      /\ \A k \in Indexes(recSize) : k \in Places(chunks)
  BY ArrayIs
<1>3. /\ cycle \in CycleRecords
      /\ \E T : Target(recSize, assigned, T) /\ CycleOK(recSize, chunks, index, i, to, from, temp, T)
  BY <1>1, AtArrange
<1>4. PICK T : Target(recSize, assigned, T) /\ CycleOK(recSize, chunks, index, i, to, from, temp, T)
  BY <1>3
<1>5. T \in [Indexes(recSize) -> Nat]
  BY <1>4, TargetIs
<1>6. i \in Int /\ to \in Int /\ from \in Int
  <2>1. cycle \in CycleRecords
    BY <1>3
  <2> QED
    BY <2>1, CyclesAre, Zenon DEF i, to, from
<1> HIDE DEF i, to, from, temp
<1>7. /\ to \in Indexes(recSize) /\ from \in Indexes(recSize) /\ temp \in Nat /\ i \in Indexes(recSize)
      /\ next = i => ArrangeOK(recSize, PutOf(moved, from, temp), [index EXCEPT ![to] = -1, ![from] = -1], i + 1, T)
      /\ next # i => CycleOK(recSize, moved, [index EXCEPT ![to] = -1], i, from, next, temp, T)
  BY <1>2, <1>4, <1>5, CycleGoesOn
<1>8. ItemOf(chunks, from) \in Nat
  BY <1>2, <1>7, ItemIs, Zenon
<1>9. ArrayOK(recSize, moved, assigned, highest)
  BY <1>2, <1>7, <1>8, PutKeeps, Zenon
<1>10. ArrayOK(recSize, PutOf(moved, from, temp), assigned, highest)
  BY <1>7, <1>9, PutKeeps, Zenon
<1> HIDE DEF moved, next
<1>11. CASE next = i
  <2>1. i + 1 \in Int
    BY <1>6
  <2>2. cycle' \in CycleRecords /\ cycle'.i = i + 1
    <3>1. cycle \in CycleRecords
      BY <1>3
    <3>2. cycle' = [cycle EXCEPT !.i = i + 1]
      BY <1>1, <1>11
    <3>3. [cycle EXCEPT !.i = i + 1] \in CycleRecords /\ [cycle EXCEPT !.i = i + 1].i = i + 1
      BY <2>1, <3>1, CycleMoves, Zenon
    <3> QED
      BY <3>2, <3>3, Zenon
  <2>3. ArrangeOK(recSize, chunks', index', cycle'.i, T)
    BY <2>2, <1>1, <1>7, <1>11
  <2>4. SortOK(recSize, chunks', assigned, index', range, calls, cycle', "arrange")
    BY <2>2, <2>3, <1>4, ArrangeIsOK
  <2>5. ArrayOK(recSize, chunks', assigned, highest)
    BY <1>1, <1>10, <1>11
  <2> QED
    BY <2>4, <2>5, <1>1, <1>11 DEF ArrayInv
<1>12. CASE next # i
  <2>1. next \in Int
    <3>1. CycleOK(recSize, moved, [index EXCEPT ![to] = -1], i, from, next, temp, T)
      BY <1>7, <1>12
    <3>2. next \in Indexes(recSize)
      BY <3>1, Zenon DEF CycleOK
    <3> QED
      BY <3>2 DEF Indexes
  <2>2. cycle' \in CycleRecords /\ cycle'.i = i /\ cycle'.to = from /\ cycle'.from = next /\ cycle'.temp = temp
    <3>1. cycle' = Following(cycle, from, next)
      BY <1>1, <1>12 DEF Following
    <3>2. cycle \in CycleRecords
      BY <1>3
    <3>3. cycle.i = i /\ cycle.temp = temp
      BY DEF i, temp
    <3> DEFINE c == Following(cycle, from, next)
    <3>4. c \in CycleRecords /\ c.i = cycle.i /\ c.to = from /\ c.from = next /\ c.temp = cycle.temp
      <4>1. from \in Int
        BY <1>6
      <4>2. IsFollowing(cycle, from, next, c)
        BY <2>1, <4>1, <3>2, CycleFollows, Zenon
      <4> QED
        BY <4>2, Zenon DEF IsFollowing
    <3> HIDE DEF c
    <3>5. cycle' = c
      BY <3>1 DEF c
    <3> QED
      BY <3>3, <3>4, <3>5
  <2>3. CycleOK(recSize, chunks', index', cycle'.i, cycle'.to, cycle'.from, cycle'.temp, T)
    BY <2>2, <1>1, <1>7, <1>12
  <2>4. SortOK(recSize, chunks', assigned, index', range, calls, cycle', "cycle")
    BY <2>2, <2>3, <1>4, ArrangeIsOK
  <2>5. ArrayOK(recSize, chunks', assigned, highest)
    BY <1>1, <1>9, <1>12
  <2> QED
    BY <2>4, <2>5, <1>1, <1>12 DEF ArrayInv
<1> QED
  BY <1>11, <1>12

LEMMA EndStep ==
    ASSUME RecordsInv, SortEnds
    PROVE  ArrayInv'
<1>1. /\ recPc = "arrange" /\ cycle.i >= recSize /\ recPc' = "sorted"
      /\ UNCHANGED <<recSize, chunks, assigned, highest, recCalls, index, range, calls, cycle>>
  BY DEF SortEnds
<1>2. ArrayOK(recSize, chunks, assigned, highest) /\ recSize \in Nat
  BY ArrayIs
<1>3. /\ cycle \in CycleRecords
      /\ \E T : Target(recSize, assigned, T) /\ ArrangeOK(recSize, chunks, index, cycle.i, T)
  BY <1>1, AtArrange
<1>4. PICK T : Target(recSize, assigned, T) /\ ArrangeOK(recSize, chunks, index, cycle.i, T)
  BY <1>3
<1>5. \A k \in Indexes(recSize) : ItemOf(chunks, k) = T[k]
  <2>1. recSize \in Nat /\ cycle.i >= recSize
    BY <1>1, <1>2
  <2>2. IsArranged(recSize, chunks, T)
    BY <2>1, <1>4, ArrangeEnds, Zenon
  <2> QED
    BY <2>2 DEF IsArranged
<1>6. SortOK(recSize, chunks, assigned, index, range, calls, cycle, "sorted")
  BY <1>3, <1>4, <1>5, ArrangeIsOK
<1> QED
  BY <1>1, <1>2, <1>6 DEF ArrayInv

LEMMA ReturnStep ==
    ASSUME RecordsInv, SortReturns
    PROVE  ArrayInv'
<1>1. /\ recPc' = "idle" /\ cycle' = NoCycle
      /\ assigned' = [i \in DOMAIN assigned |-> IF i \in RecordIndexes THEN Item(i) ELSE assigned[i]]
      /\ UNCHANGED <<recSize, chunks, highest>>
  BY DEF SortReturns
<1>2. /\ ArrayOK(recSize, chunks, assigned, highest) /\ recSize \in Nat /\ chunks \in Seq(Rows)
      /\ \A k \in Indexes(recSize) : k \in Places(chunks) /\ k \in 0 .. MaxRecords - 1
      /\ RecordIndexes = Indexes(recSize)
  BY ArrayIs
<1>3. assigned \in [0 .. MaxRecords - 1 -> Int]
  BY <1>2 DEF ArrayOK
<1>4. \A k \in Indexes(recSize) : Item(k) = ItemOf(chunks, k) /\ Item(k) \in Nat
  <2>1. \A k \in Indexes(recSize) : ItemOf(chunks, k) \in Nat
    BY <1>2, ItemIs, Zenon
  <2> QED
    BY <2>1, Zenon DEF Item, ItemOf
<1>5. /\ assigned' \in [0 .. MaxRecords - 1 -> Int]
      /\ \A k \in Indexes(recSize) : assigned'[k] = Item(k)
  BY <1>1, <1>2, <1>3, <1>4
<1>6. ArrayOK(recSize, chunks, assigned', highest)
  BY <1>2, <1>5, Zenon DEF ArrayOK
<1>7. KnownOK(recSize, chunks, assigned')
  <2>1. \A k \in 0 .. recSize - 1 : assigned'[k] = ItemOf(chunks, k)
    BY <1>4, <1>5, Zenon DEF Indexes
  <2> QED
    BY <2>1 DEF KnownOK
<1>8. NoCycle \in CycleRecords
  BY DEF NoCycle, CycleRecords
<1>9. SortOK(recSize, chunks, assigned', index', range', calls', NoCycle, "idle")
  BY <1>7, <1>8, IdleOK
<1> QED
  BY <1>1, <1>6, <1>9 DEF ArrayInv

-----------------------------------------------------------------------------
(* All steps, and what they keep. *)

LEMMA ArraySteps ==
    ASSUME RecordsInv, ArrayNext
    PROVE  RecordsInv'
<1>1. UNCHANGED protoVars
  BY DEF ArrayNext
<1>2. ArrayInv'
  <2>1. CASE \E n \in 0 .. MaxRecords : Resize(n)
    BY <2>1, ResizeStep
  <2>2. CASE \E i \in RecordIndexes, key \in RecordKeys : AssignRecord(i, key)
    BY <2>2, AssignStep
  <2>3. CASE \E keys \in BoundedSeq(RecordKeys, recSize) : ReadItems(keys)
    BY <2>3, ReadStep
  <2>4. CASE StartSort
    BY <2>4, StartStep
  <2>5. CASE ScanUp
    BY <2>5, ScanUpStep
  <2>6. CASE ScanFromAbove
    BY <2>6, ScanDownStep
  <2>7. CASE SwapPair
    BY <2>7, SwapStep
  <2>8. CASE NextRange
    BY <2>8, NextStep
  <2>9. CASE ArrangeItem
    BY <2>9, ArrangeStep
  <2>10. CASE FollowCycle
    BY <2>10, FollowStep
  <2>11. CASE SortEnds
    BY <2>11, EndStep
  <2>12. CASE SortReturns
    BY <2>12, ReturnStep
  <2> QED
    BY <2>1, <2>2, <2>3, <2>4, <2>5, <2>6, <2>7, <2>8, <2>9, <2>10, <2>11, <2>12 DEF ArrayNext
<1>3. FieldsOK(fields, protoSize, protoAlignment)
  BY ArrayIs
<1> QED
  BY <1>1, <1>2, <1>3 DEF RecordsInv, ArrayInv, protoVars

LEMMA PrototypeSteps ==
    ASSUME RecordsInv, PrototypeNext
    PROVE  RecordsInv'
<1>1. PICK type \in FieldTypes : AddField(type) /\ UNCHANGED recVars
  BY DEF PrototypeNext
<1>2. FieldsOK(fields, protoSize, protoAlignment)
  BY ArrayIs
<1>3. /\ fields' = Append(fields, [offset |-> protoSize, size |-> type.size, alignment |-> type.alignment])
      /\ protoAlignment' = IF Divides(type.alignment, protoSize) /\ protoAlignment < type.alignment
                           THEN type.alignment ELSE protoAlignment
      /\ protoSize' = protoSize + type.size
  BY <1>1 DEF AddField, AlignmentWith, Divides
<1>4. FieldsOK(fields', protoSize', protoAlignment')
  BY <1>2, <1>3, FieldAdded
<1>5. /\ ArrayOK(recSize, chunks, assigned, highest)
      /\ SortOK(recSize, chunks, assigned, index, range, calls, cycle, recPc)
  BY DEF RecordsInv
<1> QED
  BY <1>1, <1>4, <1>5 DEF RecordsInv, recVars, sortVars

LEMMA RecordsStart ==
    ASSUME RecordsInit
    PROVE  RecordsInv
<1>1. /\ fields = <<>> /\ protoSize = 0 /\ protoAlignment = 1
      /\ recSize = 0 /\ chunks = <<>> /\ cycle = NoCycle /\ recPc = "idle"
      /\ assigned = [i \in 0 .. MaxRecords - 1 |-> -1] /\ highest = 0
  BY DEF RecordsInit
<1>2. FieldsOK(<<>>, 0, 1)
  <2>1. <<>> \in Seq(FieldRecords) /\ \A k \in 1 .. Len(<<>>) : FALSE
    OBVIOUS
  <2>2. 0 \in Nat /\ 1 \in Nat \ {0}
    OBVIOUS
  <2> QED
    BY <2>1, <2>2, Zenon DEF FieldsOK
<1>3. ArrayOK(0, <<>>, assigned, 0)
  <2>1. <<>> \in Seq(Rows) /\ Len(<<>>) = 0
    OBVIOUS
  <2>2. 0 \in 0 .. MaxRecords /\ 0 <= 0 /\ 0 <= 0 * ChunkCapacity
    BY CapacityIs
  <2>3. \A i \in Places(<<>>) : FALSE
    BY <2>1, CapacityIs DEF Places
  <2>4. assigned \in [0 .. MaxRecords - 1 -> Int]
    BY <1>1
  <2> QED
    BY <2>1, <2>2, <2>3, <2>4, Zenon DEF ArrayOK
<1>4. KnownOK(0, <<>>, assigned)
  BY DEF KnownOK
<1>5. NoCycle \in CycleRecords
  BY DEF NoCycle, CycleRecords
<1>6. SortOK(0, <<>>, assigned, index, range, calls, NoCycle, "idle")
  BY <1>4, <1>5, IdleOK
<1> QED
  BY <1>1, <1>2, <1>3, <1>6, Zenon DEF RecordsInv

\* The invariant says that the records are right.
LEMMA RecordsMean ==
    ASSUME RecordsInv
    PROVE  RecordsAreRight
<1>1. /\ ArrayOK(recSize, chunks, assigned, highest) /\ FieldsOK(fields, protoSize, protoAlignment)
      /\ recSize \in Nat /\ chunks \in Seq(Rows)
      /\ \A k \in Indexes(recSize) : k \in Places(chunks) /\ k \in 0 .. MaxRecords - 1
      /\ RecordIndexes = Indexes(recSize)
  BY ArrayIs
<1>2. FieldsAreAligned
  BY <1>1, FieldsMean
<1>3. RecordsAreKept
  <2>1. recSize <= Len(chunks) * ChunkCapacity
    BY <1>1 DEF ArrayOK
  <2>2. ASSUME recPc = "idle", NEW i \in RecordIndexes PROVE assigned[i] \in {-1, Item(i)}
    <3>1. KnownOK(recSize, chunks, assigned)
      BY <2>2, AtIdle
    <3> QED
      BY <3>1, Zenon DEF KnownOK, RecordIndexes, Item, ItemOf
  <2> QED
    BY <2>1, <2>2 DEF RecordsAreKept
<1>4. SortStaysInside
  <2>1. ASSUME recPc \in {"i", "j"} PROVE {range.i, range.j} \subseteq RecordIndexes
    <3>1. recPc \in QuickPcs /\ recPc # "next"
      BY <2>1 DEF QuickPcs
    <3>2. QuickOK(recSize, KeysIn(recSize, chunks, index), range, calls, recPc)
      BY <3>1, AtQuick
    <3>3. range.i \in Indexes(recSize) /\ range.j \in Indexes(recSize)
      BY <1>1, <3>1, <3>2, RangeInside
    <3> QED
      BY <1>1, <3>3
  <2>2. ASSUME recPc = "next" PROVE range.j < range.high /\ range.i > range.low
    <3>1. recPc \in QuickPcs
      BY <2>2 DEF QuickPcs
    <3>2. QuickOK(recSize, KeysIn(recSize, chunks, index), range, calls, recPc)
      BY <3>1, AtQuick
    <3>3. /\ range.low \in Int /\ range.i \in Int
          /\ Stage(KeysIn(recSize, chunks, index), range, recPc)
      BY <1>1, <3>2, RangeInside
    <3>4. range.j < range.high /\ range.low < range.i
      BY <2>2, <3>3 DEF Stage
    <3> QED
      BY <3>3, <3>4
  <2>3. ASSUME recPc = "cycle" PROVE {cycle.to, cycle.from} \subseteq RecordIndexes
    <3>1. PICK T : CycleOK(recSize, chunks, index, cycle.i, cycle.to, cycle.from, cycle.temp, T)
      BY <2>3, AtArrange
    <3>2. cycle.to \in Indexes(recSize) /\ cycle.from \in Indexes(recSize)
      BY <3>1, Zenon DEF CycleOK
    <3> QED
      BY <3>2, <1>1
  <2> QED
    BY <2>1, <2>2, <2>3 DEF SortStaysInside
<1>5. SortIsRight
  <2> SUFFICES ASSUME recPc = "sorted"
               PROVE  /\ \A i \in 1 .. recSize - 1 : Item(i - 1) <= Item(i)
                      /\ (\A i \in RecordIndexes : assigned[i] # -1) =>
                            \A key \in RecordKeys \cup {0} : CountNow(key) = CountThen(key)
                      /\ \A key \in RecordKeys \cup {0} :
                            BinarySearchFor(key) = (\E i \in RecordIndexes : Item(i) = key)
    BY DEF SortIsRight
  <2>1. PICK T : /\ Target(recSize, assigned, T)
                 /\ \A k \in Indexes(recSize) : ItemOf(chunks, k) = T[k]
    BY AtArrange
  <2>2. T \in [Indexes(recSize) -> Nat] /\ \A a, b \in Indexes(recSize) : a < b => T[a] <= T[b]
    BY <2>1, TargetIs, Zenon
  <2>3. \A k \in Indexes(recSize) : Item(k) = T[k] /\ Item(k) \in Nat
    <3>1. \A k \in Indexes(recSize) : T[k] \in Nat
      BY <2>2
    <3> QED
      BY <3>1, <2>1, Zenon DEF Item, ItemOf
  <2>4. ASSUME NEW i \in 1 .. recSize - 1 PROVE Item(i - 1) <= Item(i)
    <3>1. i - 1 \in Indexes(recSize) /\ i \in Indexes(recSize) /\ i - 1 < i
      BY <1>1 DEF Indexes
    <3> QED
      BY <3>1, <2>2, <2>3, Zenon
  <2>5. ASSUME \A i \in RecordIndexes : assigned[i] # -1, NEW key \in RecordKeys \cup {0}
        PROVE  CountNow(key) = CountThen(key)
    <3>1. PICK A \in [Indexes(recSize) -> Nat], P \in [Indexes(recSize) -> Indexes(recSize)] :
             /\ PermOK(recSize, P)
             /\ \A k \in Indexes(recSize) : T[k] = A[P[k]]
             /\ \A k \in Indexes(recSize) : assigned[k] \in {-1, A[k]}
      BY <2>1, Zenon DEF Target
    <3>2. \A k \in Indexes(recSize) : assigned[k] = A[k]
      BY <3>1, <2>5, <1>1
    <3>3. Cardinality(Having(recSize, T, key)) = Cardinality(Having(recSize, A, key))
      <4>1. /\ recSize \in Nat /\ A \in [Indexes(recSize) -> Nat] /\ T \in [Indexes(recSize) -> Nat]
            /\ P \in [Indexes(recSize) -> Indexes(recSize)] /\ PermOK(recSize, P)
            /\ \A k \in Indexes(recSize) : T[k] = A[P[k]]
        BY <3>1, <2>2, <1>1
      <4> QED
        BY <4>1, SameCount, Zenon
    <3>4. Having(recSize, T, key) = {k \in RecordIndexes : Item(k) = key}
      BY <2>3, <1>1 DEF Having
    <3>5. Having(recSize, A, key) = {k \in RecordIndexes : assigned[k] = key}
      BY <3>2, <1>1 DEF Having
    <3> QED
      BY <3>3, <3>4, <3>5, Zenon DEF CountNow, CountThen
  <2>6. ASSUME NEW key \in RecordKeys \cup {0}
        PROVE  BinarySearchFor(key) = (\E i \in RecordIndexes : Item(i) = key)
    <3>1. key \in Nat
      BY RecordsAssumption
    <3>2. \A i \in RecordIndexes : Item(i) \in Nat
      BY <2>3, <1>1
    <3>3. ASSUME NEW i \in RecordIndexes, NEW j \in RecordIndexes, i <= j PROVE Item(i) <= Item(j)
      <4>1. CASE i = j
        <5>1. Item(i) \in Nat
          BY <3>2
        <5> QED
          BY <4>1, <5>1
      <4>2. CASE i # j
        <5>1. i < j
          BY <3>3, <4>2 DEF RecordIndexes
        <5> QED
          BY <5>1, <2>2, <2>3, <1>1, Zenon
      <4> QED
        BY <4>1, <4>2
    <3> QED
      BY <1>1, <3>1, <3>2, <3>3, SearchFinds
  <2> QED
    BY <2>4, <2>5, <2>6
<1> QED
  BY <1>2, <1>3, <1>4, <1>5 DEF RecordsAreRight

LEMMA RecordsSteps == RecordsInv /\ [RecordsNext]_recordsVars => RecordsInv'
<1> SUFFICES ASSUME RecordsInv, [RecordsNext]_recordsVars PROVE RecordsInv'
  OBVIOUS
<1>1. CASE PrototypeNext
  BY <1>1, PrototypeSteps
<1>2. CASE ArrayNext
  BY <1>2, ArraySteps
<1>3. CASE UNCHANGED recordsVars
  BY <1>3 DEF RecordsInv, recordsVars, protoVars, recVars, sortVars
<1> QED
  BY <1>1, <1>2, <1>3 DEF RecordsNext

\* Plain records, for any field types whose alignments are powers of two and any
\* capacity of the blocks: every field that was placed at a multiple of its alignment
\* is aligned in every record of an array; records are kept through any calls that
\* resize, assign and read; Sort stays inside of the array, ends with all records in
\* order, none lost or doubled; and BinarySearch finds exactly the keys that are there.
THEOREM RecordsCorrect == RecordsSpec => []RecordsAreRight
<1>1. RecordsInit => RecordsInv
  BY RecordsStart
<1>2. RecordsInv /\ [RecordsNext]_recordsVars => RecordsInv'
  BY RecordsSteps
<1>3. RecordsInv => RecordsAreRight
  BY RecordsMean
<1> QED
  BY <1>1, <1>2, <1>3, PTL DEF RecordsSpec
=============================================================================
