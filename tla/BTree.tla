------------------------------- MODULE BTree -------------------------------
(***************************************************************************)
(* XTL::BTree (BTree.hpp): a B+ tree with its nodes linked by pointers.     *)
(* Leaves hold the items and form a doubly linked list; a branch holds, for *)
(* each child but the last, the largest key under that child.              *)
(*                                                                         *)
(* The tree is a heap of nodes, because what is hard here is keeping the    *)
(* links (parent, slot, next, prev), the counters and the branch keys right *)
(* while arrays are shifted and nodes are split and merged.  Pointers are   *)
(* numbers, 0 the null pointer.  Arrays are functions from 0 with one guard *)
(* cell past their capacity.  Items are their keys.                         *)
(***************************************************************************)
EXTENDS Integers, Sequences, FiniteSets

CONSTANTS
    UNIQUE_KEYS, LEAF_CAPACITY, BRANCH_CAPACITY,   \* template parameters
    Keys,                                          \* keys the caller uses
    MaxItems                                       \* bound: items in the tree

\* The limits the class comment puts on its parameters.
ASSUME BTreeAssumption ==
    /\ LEAF_CAPACITY \in Nat /\ LEAF_CAPACITY >= 2
    /\ BRANCH_CAPACITY \in Nat /\ BRANCH_CAPACITY >= 2
    /\ Keys \subseteq Nat \ {0}

NIL == 0        \* the null pointer
EMPTY == 0      \* ItemType(), KeyType()
OVERRUN == -1   \* a cell that a wrong range wrote to

VARIABLES
    tree,       \* [root, firstLeaf, size, leavesCount, branchesCount, heap]
    result      \* what the last call returned

treeVars == <<tree, result>>

-----------------------------------------------------------------------------
(* PlainArrayManager: memmove and memcpy on ranges [begin, end).            *)

Overrun(a) == [i \in DOMAIN a |-> OVERRUN]

\* Needs begin <= end.
ArrayInsert(a, begin, end, count) ==
    IF begin > end THEN Overrun(a)
    ELSE [i \in DOMAIN a |->
            IF begin + count <= i /\ i < end + count THEN a[i - count] ELSE a[i]]

\* Needs begin + count <= end.
ArrayDelete(a, begin, end, count) ==
    IF begin + count > end THEN Overrun(a)
    ELSE [i \in DOMAIN a |->
            IF begin <= i /\ i < end - count THEN a[i + count] ELSE a[i]]

ArrayMove(dest, to, source, begin, end) ==
    [i \in DOMAIN dest |->
        IF to <= i /\ i < to + end - begin THEN source[begin + i - to] ELSE dest[i]]

\* BinarySearch(key, a, size): where key is, or where it belongs.
RECURSIVE Search(_, _, _, _)
Search(key, a, left, right) ==
    LET middle == (left + right) \div 2
    IN  CASE left >= right    -> [found |-> FALSE, slot |-> left]
          [] a[middle] < key  -> Search(key, a, middle + 1, right)
          [] key < a[middle]  -> Search(key, a, left, middle)
          [] OTHER            -> [found |-> TRUE, slot |-> middle]

\* Mutant: the last item is never looked at.
BinarySearchSkipsLast(key, a, size) == Search(key, a, 0, size - 1)

BinarySearch(key, a, size) == Search(key, a, 0, size)

-----------------------------------------------------------------------------
(* Nodes.                                                                   *)

NewLeaf(prev, next) ==
    [leaf |-> TRUE, level |-> 0, slot |-> 0, parent |-> NIL, size |-> 0,
     next |-> next, prev |-> prev, items |-> [i \in 0 .. LEAF_CAPACITY |-> EMPTY]]

NewBranch(level) ==
    [leaf |-> FALSE, level |-> level, slot |-> 0, parent |-> NIL, size |-> 0,
     keys |-> [i \in 0 .. BRANCH_CAPACITY |-> EMPTY],
     childs |-> [i \in 0 .. BRANCH_CAPACITY + 1 |-> NIL]]

\* operator new: any address that is not in use.
FreshNode(t) == CHOOSE n \in 1 .. (Cardinality(DOMAIN t.heap) + 1) : n \notin DOMAIN t.heap

\* The tree with node n set to the record r.
Put(t, n, r) ==
    [t EXCEPT !.heap = [x \in DOMAIN @ \cup {n} |-> IF x = n THEN r ELSE @[x]]]

\* Leaf::GetMaxKey.
MaxKey(leaf) == leaf.items[leaf.size - 1]

\* Branch::UpdateChildrenLinks(from, to).
UpdateChildrenLinks(t, b, from, to) ==
    LET childs == t.heap[b].childs
    IN  [t EXCEPT !.heap =
           [n \in DOMAIN @ |->
              IF \E i \in from .. to : childs[i] = n
              THEN [@[n] EXCEPT !.parent = b,
                                !.slot = CHOOSE i \in from .. to : childs[i] = n]
              ELSE @[n]]]

\* Mutant: the key of a last child is not passed on to the branch above.
UpdateKeyHere(t, b, slot, key) ==
    IF slot < t.heap[b].size THEN [t EXCEPT !.heap[b].keys[slot] = key] ELSE t

\* Branch::UpdateKey: the last child has no key here, its key is further up.
RECURSIVE UpdateKey(_, _, _, _)
UpdateKey(t, b, slot, key) ==
    LET branch == t.heap[b]
    IN  IF slot < branch.size
        THEN [t EXCEPT !.heap[b].keys[slot] = key]
        ELSE IF branch.parent # NIL
             THEN UpdateKey(t, branch.parent, branch.slot, key)
             ELSE t

\* The parent's key for leaf l becomes the largest key of l.
UpdateLeafKey(t, l) ==
    UpdateKey(t, t.heap[l].parent, t.heap[l].slot, MaxKey(t.heap[l]))

-----------------------------------------------------------------------------
(* Insertion.  Each operator returns the new tree; those that may split also *)
(* return the new right sibling (NIL if none) and the key that separates it. *)

\* Leaf::Insert, into a leaf with room.
LeafInsert(t, l, slot, key) ==
    LET leaf == t.heap[l]
    IN  [t EXCEPT !.heap[l].items =
                      [ArrayInsert(leaf.items, slot, leaf.size, 1) EXCEPT ![slot] = key],
                  !.heap[l].size = leaf.size + 1]

\* Leaf::InsertAndSplit.
LeafInsertAndSplit(t, l, slot, key) ==
    LET leaf    == t.heap[l]
        newSize == (leaf.size + 1) \div 2
        new     == FreshNode(t)
        fresh   == NewLeaf(l, leaf.next)
        here    == slot < newSize
        at      == IF here THEN slot ELSE slot - newSize
        right   == IF here
                   THEN ArrayMove(fresh.items, 0, leaf.items, newSize - 1, leaf.size)
                   ELSE [ArrayMove(ArrayMove(fresh.items, 0, leaf.items, newSize, newSize + at),
                                   at + 1, leaf.items, newSize + at, leaf.size)
                         EXCEPT ![at] = key]
        left    == IF here
                   THEN [ArrayInsert(leaf.items, slot, newSize - 1, 1) EXCEPT ![slot] = key]
                   ELSE leaf.items
        t1      == IF leaf.next = NIL THEN t ELSE [t EXCEPT !.heap[leaf.next].prev = new]
        t2      == [t1 EXCEPT !.heap[l].next = new, !.heap[l].items = left,
                              !.heap[l].size = newSize]
        t3      == Put(t2, new, [fresh EXCEPT !.items = right,
                                              !.size = leaf.size + 1 - newSize])
    IN  [tree |-> t3, newNode |-> new, newKey |-> MaxKey(t3.heap[l])]

\* Leaf::InsertAndRearrangeWithRight: the items beyond half go to the right leaf,
\* which may belong to another branch.
InsertAndRearrangeWithRight(t, l, slot, key) ==
    LET leaf    == t.heap[l]
        r       == leaf.next
        total   == leaf.size + t.heap[r].size + 1
        newSize == total \div 2
        room    == ArrayInsert(t.heap[r].items, 0, t.heap[r].size, leaf.size + 1 - newSize)
        here    == slot < newSize
        right   == IF here
                   THEN ArrayMove(room, 0, leaf.items, newSize - 1, leaf.size)
                   ELSE [ArrayMove(ArrayMove(room, 0, leaf.items, newSize, slot),
                                   slot - newSize + 1, leaf.items, slot, leaf.size)
                         EXCEPT ![slot - newSize] = key]
        left    == IF here
                   THEN [ArrayInsert(leaf.items, slot, newSize - 1, 1) EXCEPT ![slot] = key]
                   ELSE leaf.items
    IN  UpdateLeafKey([t EXCEPT !.heap[l].items = left,  !.heap[l].size = newSize,
                                !.heap[r].items = right, !.heap[r].size = total - newSize],
                      l)

\* Leaf::InsertAndRearrangeWithLeft.
InsertAndRearrangeWithLeft(t, l, slot, key) ==
    LET leaf    == t.heap[l]
        p       == leaf.prev
        lsize   == t.heap[p].size
        total   == leaf.size + lsize + 1
        newSize == total \div 2
        moved   == leaf.size + 1 - newSize
        here    == slot >= moved
        left    == IF here
                   THEN ArrayMove(t.heap[p].items, lsize, leaf.items, 0, moved)
                   ELSE [ArrayMove(ArrayMove(t.heap[p].items, lsize, leaf.items, 0, slot),
                                   lsize + slot + 1, leaf.items, slot, moved - 1)
                         EXCEPT ![lsize + slot] = key]
        right   == IF here
                   THEN [ArrayDelete(ArrayDelete(leaf.items, 0, slot, moved),
                                     slot - moved + 1, leaf.size, moved - 1)
                         EXCEPT ![slot - moved] = key]
                   ELSE ArrayDelete(leaf.items, 0, leaf.size, moved - 1)
    IN  UpdateLeafKey([t EXCEPT !.heap[l].items = right, !.heap[l].size = newSize,
                                !.heap[p].items = left,  !.heap[p].size = total - newSize],
                      p)

LeafHasRoom(leaf) == leaf.size < LEAF_CAPACITY

\* The outcome of an insertion that left no new node for the level above, and
\* of one that split a node and counts the new one.
Kept(t) == [tree |-> t, inserted |-> TRUE, newNode |-> NIL, newKey |-> EMPTY]

Grown(split, counter) ==
    [tree     |-> [split.tree EXCEPT ![counter] = @ + 1],
     inserted |-> TRUE,
     newNode  |-> split.newNode,
     newKey   |-> split.newKey]

\* BTree::InsertIntoLeaf.
InsertIntoLeaf(t, l, key) ==
    LET leaf   == t.heap[l]
        find   == BinarySearch(key, leaf.items, leaf.size)
        left   == leaf.prev
        right  == leaf.next
        useLeft == IF right = NIL THEN LeafHasRoom(t.heap[left])
                   ELSE left # NIL /\ t.heap[left].size < t.heap[right].size
    IN  IF find.found /\ UNIQUE_KEYS
        THEN [tree |-> t, inserted |-> FALSE, newNode |-> NIL, newKey |-> EMPTY]
        ELSE IF LeafHasRoom(leaf)
        THEN Kept(LeafInsert(t, l, find.slot, key))
        ELSE IF leaf.parent # NIL /\ useLeft
        THEN Kept(InsertAndRearrangeWithLeft(t, l, find.slot, key))
        ELSE IF leaf.parent # NIL /\ right # NIL /\ LeafHasRoom(t.heap[right])
        THEN Kept(InsertAndRearrangeWithRight(t, l, find.slot, key))
        ELSE Grown(LeafInsertAndSplit(t, l, find.slot, key), "leavesCount")

\* Branch::Insert.
BranchInsert(t, b, slot, key, child) ==
    LET br == t.heap[b]
    IN  UpdateChildrenLinks(
          [t EXCEPT
             !.heap[b].keys   = [ArrayInsert(br.keys, slot, br.size, 1) EXCEPT ![slot] = key],
             !.heap[b].childs = [ArrayInsert(br.childs, slot + 1, br.size + 1, 1)
                                 EXCEPT ![slot + 1] = child],
             !.heap[b].size   = br.size + 1],
          b, slot + 1, br.size + 1)

\* Branch::InsertAndSplit: the middle key moves up, the rest to a new branch.
BranchInsertAndSplit(t, b, slot, key, node) ==
    LET br      == t.heap[b]
        newSize == (br.size + 1) \div 2
        new     == FreshNode(t)
        fresh   == [NewBranch(br.level) EXCEPT !.size = br.size - newSize]
        keys    == CASE slot < newSize ->
                          [up    |-> br.keys[newSize - 1],
                           left  |-> [ArrayInsert(br.keys, slot, newSize - 1, 1)
                                      EXCEPT ![slot] = key],
                           right |-> ArrayMove(fresh.keys, 0, br.keys, newSize, br.size)]
                     [] slot > newSize ->
                          [up    |-> br.keys[newSize],
                           left  |-> br.keys,
                           right |-> [ArrayMove(ArrayMove(fresh.keys, 0, br.keys, newSize + 1, slot),
                                                slot - newSize, br.keys, slot, br.size)
                                      EXCEPT ![slot - newSize - 1] = key]]
                     [] slot = newSize ->
                          [up    |-> key,
                           left  |-> br.keys,
                           right |-> ArrayMove(fresh.keys, 0, br.keys, newSize, br.size)]
        childs  == IF slot < newSize
                   THEN [left  |-> [ArrayInsert(br.childs, slot + 1, newSize, 1)
                                    EXCEPT ![slot + 1] = node],
                         right |-> ArrayMove(fresh.childs, 0, br.childs, newSize, br.size + 1)]
                   ELSE [left  |-> br.childs,
                         right |-> [ArrayMove(ArrayMove(fresh.childs, 0, br.childs, newSize + 1, slot + 1),
                                              slot - newSize + 1, br.childs, slot + 1, br.size + 1)
                                    EXCEPT ![slot - newSize] = node]]
        t1      == Put([t EXCEPT !.heap[b].keys = keys.left, !.heap[b].childs = childs.left,
                                 !.heap[b].size = newSize],
                       new, [fresh EXCEPT !.keys = keys.right, !.childs = childs.right])
        t2      == IF slot < newSize THEN UpdateChildrenLinks(t1, b, slot + 1, newSize) ELSE t1
    IN  [tree    |-> UpdateChildrenLinks(t2, new, 0, fresh.size),
         newNode |-> new, newKey |-> keys.up]

\* BTree::InsertIntoBranch after the insertion into child "slot".
InsertedBelow(below, n, slot) ==
    IF ~below.inserted \/ below.newNode = NIL
    THEN [below EXCEPT !.newNode = NIL, !.newKey = EMPTY]
    ELSE IF below.tree.heap[n].size < BRANCH_CAPACITY
    THEN Kept(BranchInsert(below.tree, n, slot, below.newKey, below.newNode))
    ELSE Grown(BranchInsertAndSplit(below.tree, n, slot, below.newKey, below.newNode),
               "branchesCount")

\* BTree::InsertIntoNode and InsertIntoBranch.
RECURSIVE InsertIntoNode(_, _, _)
InsertIntoNode(t, n, key) ==
    IF t.heap[n].leaf
    THEN InsertIntoLeaf(t, n, key)
    ELSE LET slot == BinarySearch(key, t.heap[n].keys, t.heap[n].size).slot
         IN  InsertedBelow(InsertIntoNode(t, t.heap[n].childs[slot], key), n, slot)

\* The first leaf, and a new root above the old one and its new sibling.
FirstLeaf(t) ==
    LET n == FreshNode(t)
    IN  [Put(t, n, NewLeaf(NIL, NIL)) EXCEPT
           !.root = n, !.firstLeaf = n, !.leavesCount = @ + 1]

NewRoot(t, key, node) ==
    LET top == FreshNode(t)
    IN  UpdateChildrenLinks(
          [Put(t, top, [NewBranch(t.heap[t.root].level + 1) EXCEPT
                          !.size = 1, !.keys[0] = key,
                          !.childs[0] = t.root, !.childs[1] = node])
           EXCEPT !.root = top, !.branchesCount = @ + 1],
          top, 0, 1)

\* BTree::Insert, for a tree with a root and after InsertIntoNode.
InsertedIntoRoot(done) ==
    [tree |-> IF ~done.inserted THEN done.tree
              ELSE IF done.newNode = NIL THEN [done.tree EXCEPT !.size = @ + 1]
              ELSE NewRoot([done.tree EXCEPT !.size = @ + 1], done.newKey, done.newNode),
     inserted |-> done.inserted]

InsertIntoRoot(t, key) == InsertedIntoRoot(InsertIntoNode(t, t.root, key))

TreeInsert(t, key) == InsertIntoRoot(IF t.root # NIL THEN t ELSE FirstLeaf(t), key)

-----------------------------------------------------------------------------
(* Deletion.                                                                *)

\* Leaf::Delete.  A leaf that becomes empty (LEAF_CAPACITY is 2 or 3) leaves the
\* largest key of its left neighbour, if any, in the parent.
LeafDelete(t, l, slot) ==
    LET leaf == t.heap[l]
        t1   == [t EXCEPT !.heap[l].items =
                              ArrayDelete([leaf.items EXCEPT ![slot] = EMPTY],
                                          slot, leaf.size, 1),
                          !.heap[l].size = leaf.size - 1]
    IN  IF slot # leaf.size - 1 \/ leaf.parent = NIL THEN t1
        ELSE IF leaf.size - 1 # 0 THEN UpdateLeafKey(t1, l)
        ELSE IF leaf.prev # NIL
        THEN UpdateKey(t1, leaf.parent, leaf.slot, MaxKey(t1.heap[leaf.prev]))
        ELSE t1

\* The left and the right node that an underfull node n is rearranged with.
LeftOf(t, n) ==
    IF t.heap[n].slot = 0 THEN n ELSE t.heap[t.heap[n].parent].childs[t.heap[n].slot - 1]

RightOf(t, n) ==
    IF t.heap[n].slot = 0 THEN t.heap[t.heap[n].parent].childs[1] ELSE n

\* The end of the range that RearrangeItems moves from the left leaf to the
\* right one, of which leftSize items are to stay.
MoveRightEnd(left, leftSize) == left.size - leftSize

\* Leaf::RearrangeItems.  All items go to the left leaf if they fit there, else
\* they are shared out.
RearrangeItems(t, l) ==
    LET a     == LeftOf(t, l)
        b     == RightOf(t, l)
        left  == t.heap[a]
        right == t.heap[b]
        total == left.size + right.size
        leftSize  == total \div 2
        rightSize == total - leftSize
        more  == left.size - leftSize       \* items the left leaf gives away
        fewer == right.size - rightSize     \* items the right leaf gives away
        toRight == [t EXCEPT
                      !.heap[b].items =
                          ArrayMove(ArrayInsert(right.items, 0, right.size, more),
                                    0, left.items, leftSize, MoveRightEnd(left, leftSize))]
        toLeft  == [t EXCEPT
                      !.heap[a].items = ArrayMove(left.items, left.size, right.items, 0, fewer),
                      !.heap[b].items = ArrayDelete(right.items, 0, right.size, fewer)]
    IN  IF total <= LEAF_CAPACITY
        THEN [t EXCEPT
                !.heap[a].items = ArrayMove(left.items, left.size, right.items, 0, right.size),
                !.heap[a].size = total,
                !.heap[b].size = 0]
        ELSE UpdateLeafKey([(IF leftSize < left.size THEN toRight ELSE toLeft) EXCEPT
                              !.heap[a].size = leftSize, !.heap[b].size = rightSize], a)

\* Branch::Delete: child "slot" and the key before it.
BranchDelete(t, b, slot) ==
    LET br == t.heap[b]
    IN  UpdateChildrenLinks(
          [t EXCEPT !.heap[b].keys   = ArrayDelete(br.keys, slot - 1, br.size, 1),
                    !.heap[b].childs = ArrayDelete(br.childs, slot, br.size + 1, 1),
                    !.heap[b].size   = br.size - 1],
          b, slot, br.size - 1)

\* Mutant: the key that comes down from the parent is not counted.
FitOneBranchOffByOne(total) == total <= BRANCH_CAPACITY

\* Two branches with "total" keys, and the parent's key between them, fit in one.
FitOneBranch(total) == total < BRANCH_CAPACITY

\* Branch::RearrangeKeys: the parent's key comes down and another goes up.
RearrangeKeys(t, n) ==
    LET a     == LeftOf(t, n)
        b     == RightOf(t, n)
        left  == t.heap[a]
        right == t.heap[b]
        p     == left.parent
        parentKey == t.heap[p].keys[left.slot]
        total == left.size + right.size
        leftSize  == total \div 2
        rightSize == total - leftSize
        more  == left.size - leftSize
        fewer == right.size - rightSize
        merged == UpdateChildrenLinks(
                    [t EXCEPT
                       !.heap[a].keys   = ArrayMove([left.keys EXCEPT ![left.size] = parentKey],
                                                    left.size + 1, right.keys, 0, right.size),
                       !.heap[a].childs = ArrayMove(left.childs, left.size + 1,
                                                    right.childs, 0, right.size + 1),
                       !.heap[a].size = total + 1,
                       !.heap[b].size = 0],
                    a, left.size + 1, total + 1)
        toRight == [t EXCEPT
                      !.heap[b].keys   = ArrayMove([ArrayInsert(right.keys, 0, right.size, more)
                                                    EXCEPT ![more - 1] = parentKey],
                                                   0, left.keys, leftSize + 1, left.size),
                      !.heap[b].childs = ArrayMove(ArrayInsert(right.childs, 0, right.size + 1, more),
                                                   0, left.childs, leftSize + 1, left.size + 1),
                      !.heap[p].keys[left.slot] = left.keys[leftSize]]
        toLeft  == [t EXCEPT
                      !.heap[a].keys   = ArrayMove([left.keys EXCEPT ![left.size] = parentKey],
                                                   left.size + 1, right.keys, 0, fewer - 1),
                      !.heap[a].childs = ArrayMove(left.childs, left.size + 1,
                                                   right.childs, 0, fewer),
                      !.heap[p].keys[left.slot] = right.keys[fewer - 1],
                      !.heap[b].keys   = ArrayDelete(right.keys, 0, right.size, fewer),
                      !.heap[b].childs = ArrayDelete(right.childs, 0, right.size + 1, fewer)]
        shared == [(IF leftSize < left.size THEN toRight
                    ELSE UpdateChildrenLinks(toLeft, a, left.size + 1, leftSize)) EXCEPT
                      !.heap[a].size = leftSize, !.heap[b].size = rightSize]
    IN  IF FitOneBranch(total)
        THEN merged
        ELSE UpdateChildrenLinks(shared, b, 0, rightSize)

\* BTree::DeleteFromBranch: t after Branch::Delete on b, and u after
\* RearrangeKeys emptied or filled the right one, r, of the two branches.
RECURSIVE DeleteFromBranch(_, _, _)
DeleteFromBranch(t, b, slot) ==
    LET Rearranged(u, r) ==
            IF u.heap[r].size # 0 THEN u
            ELSE [DeleteFromBranch(u, u.heap[r].parent, u.heap[r].slot) EXCEPT
                    !.branchesCount = @ - 1]
        LowerRoot(u, first) ==
            [u EXCEPT !.root = first, !.heap[first].parent = NIL,
                      !.heap[first].slot = 0, !.branchesCount = @ - 1]
        Deleted(u) ==
            IF u.heap[b].size >= BRANCH_CAPACITY \div 2 THEN u
            ELSE IF u.heap[b].parent # NIL
            THEN Rearranged(RearrangeKeys(u, b), RightOf(u, b))
            ELSE IF u.heap[b].size # 0 THEN u
            ELSE LowerRoot(u, u.heap[b].childs[0])
    IN  Deleted(BranchDelete(t, b, slot))

\* BTree::DeleteFromLeaf: likewise for leaves, and an emptied one is unlinked.
DeleteFromLeaf(t, l, slot) ==
    LET Unlink(u, prev, next) ==
            LET v == [u EXCEPT !.heap[prev].next = next, !.leavesCount = @ - 1]
            IN  IF next = NIL THEN v ELSE [v EXCEPT !.heap[next].prev = prev]
        Rearranged(u, r) ==
            IF u.heap[r].size # 0 THEN u
            ELSE Unlink(DeleteFromBranch(u, u.heap[r].parent, u.heap[r].slot),
                        u.heap[r].prev, u.heap[r].next)
        Deleted(u) ==
            IF u.heap[l].size >= LEAF_CAPACITY \div 2 THEN u
            ELSE IF u.heap[l].parent # NIL
            THEN Rearranged(RearrangeItems(u, l), RightOf(u, l))
            ELSE IF u.heap[l].size # 0 THEN u
            ELSE [u EXCEPT !.root = NIL, !.firstLeaf = NIL, !.leavesCount = @ - 1]
    IN  Deleted([LeafDelete(t, l, slot) EXCEPT !.size = @ - 1])

\* BTree::Find: the leaf and the slot of a key, NIL if it is not there.
RECURSIVE FindInNode(_, _, _)
FindInNode(t, n, key) ==
    LET node == t.heap[n]
        find == BinarySearch(key, IF node.leaf THEN node.items ELSE node.keys, node.size)
    IN  IF ~node.leaf THEN FindInNode(t, node.childs[find.slot], key)
        ELSE [leaf |-> IF find.found THEN n ELSE NIL, slot |-> find.slot]

Find(t, key) == IF t.root = NIL THEN [leaf |-> NIL, slot |-> 0]
                ELSE FindInNode(t, t.root, key)

\* BTree::Delete.
TreeDelete(t, key) ==
    LET DeleteAt(find) ==
            [tree    |-> IF find.leaf = NIL THEN t ELSE DeleteFromLeaf(t, find.leaf, find.slot),
             deleted |-> find.leaf # NIL]
    IN  DeleteAt(Find(t, key))

\* BTree::Clear, and a new tree.
EmptyTree == [root |-> NIL, firstLeaf |-> NIL, size |-> 0, leavesCount |-> 0,
              branchesCount |-> 0, heap |-> [n \in {} |-> {}]]

-----------------------------------------------------------------------------
(* Two trees that differ in the addresses of their nodes, or in the stale    *)
(* cells past the size of an array, are one state: nodes are numbered in the *)
(* order of a walk, deleted ones drop out, stale cells become EMPTY, which   *)
(* no key equals, so that a read of one shows.                               *)

RECURSIVE Walk(_, _)
Walk(heap, n) ==
    LET below[i \in -1 .. BRANCH_CAPACITY + 1] ==
            IF i = -1 THEN <<>> ELSE below[i - 1] \o Walk(heap, heap[n].childs[i])
    IN  IF heap[n].leaf THEN <<n>> ELSE <<n>> \o below[heap[n].size]

DANGLING == -1

Canonical(t) ==
    LET order == IF t.root = NIL THEN <<>> ELSE Walk(t.heap, t.root)
        Name(n) == IF n = NIL THEN NIL
                   ELSE IF \E i \in 1 .. Len(order) : order[i] = n
                        THEN CHOOSE i \in 1 .. Len(order) : order[i] = n
                        ELSE DANGLING
        Clear(a, size, cap) == [i \in DOMAIN a |-> IF i >= size /\ i < cap THEN EMPTY ELSE a[i]]
        Node(nd) == IF nd.leaf
                    THEN [nd EXCEPT !.parent = Name(@), !.next = Name(@), !.prev = Name(@),
                                    !.items = Clear(@, nd.size, LEAF_CAPACITY)]
                    ELSE [nd EXCEPT !.parent = Name(@),
                                    !.keys = Clear(@, nd.size, BRANCH_CAPACITY),
                                    !.childs = [i \in DOMAIN @ |->
                                                  IF i <= nd.size THEN Name(@[i])
                                                  ELSE IF i <= BRANCH_CAPACITY THEN NIL ELSE @[i]]]
    IN  [t EXCEPT !.root = Name(@), !.firstLeaf = Name(@),
                  !.heap = [i \in 1 .. Len(order) |-> Node(t.heap[order[i]])]]

-----------------------------------------------------------------------------
Bool(b) == IF b THEN "true" ELSE "false"

TreeInit == tree = EmptyTree /\ result = "none"

Insert(key) ==
    /\ tree.size < MaxItems
    /\ \E done \in {TreeInsert(tree, key)} :
         /\ tree' = Canonical(done.tree)
         /\ result' = Bool(done.inserted)

Delete(key) ==
    /\ \E done \in {TreeDelete(tree, key)} :
         /\ tree' = Canonical(done.tree)
         /\ result' = Bool(done.deleted)

Clear ==
    /\ tree' = EmptyTree
    /\ result' = "none"

TreeNext == Clear \/ \E key \in Keys : Insert(key) \/ Delete(key)

TreeSpec == TreeInit /\ [][TreeNext]_treeVars

-----------------------------------------------------------------------------
(* Properties.                                                              *)

\* The items in the order of the tree.
InOrder(t) ==
    LET order == Walk(t.heap, t.root)
        items[i \in 0 .. Len(order)] ==
            IF i = 0 THEN <<>>
            ELSE LET nd == t.heap[order[i]]
                 IN  items[i - 1] \o (IF nd.leaf THEN [j \in 1 .. nd.size |-> nd.items[j - 1]]
                                                 ELSE <<>>)
    IN  items[Len(order)]

\* The largest key under node n: the last item of its last leaf.
RECURSIVE LastKey(_, _)
LastKey(t, n) ==
    LET nd == t.heap[n]
    IN  IF nd.leaf THEN MaxKey(nd) ELSE LastKey(t, nd.childs[nd.size])

\* Tester::TestNode, TestLeaf and TestBranch on one node, with parent p.
TestNode(t, n, p, slot) ==
    LET nd == t.heap[n]
    IN  /\ nd.parent = p
        /\ nd.slot = slot
        /\ nd.leaf <=> nd.level = 0
        /\ p # NIL => t.heap[p].level = nd.level + 1
        /\ nd.leaf => nd.size > 0
        /\ nd.leaf /\ p # NIL => nd.size >= LEAF_CAPACITY \div 2
        /\ ~nd.leaf /\ p # NIL => nd.size >= BRANCH_CAPACITY \div 2
        /\ ~nd.leaf => \A i \in 0 .. nd.size - 1 : nd.keys[i] = LastKey(t, nd.childs[i])

\* Tester::Run and the links between leaves.  The repository's SelfTest, which its
\* test program calls after each change and expects to be true.
SelfTestOf(t) ==
    IF t.root = NIL
    THEN t.firstLeaf = NIL /\ t.size = 0 /\ t.leavesCount = 0 /\ t.branchesCount = 0
    ELSE LET nodes    == DOMAIN t.heap
             leaves   == SelectSeq(Walk(t.heap, t.root), LAMBDA n : t.heap[n].leaf)
             branches == {n \in nodes : ~t.heap[n].leaf}
             items    == InOrder(t)
         IN  /\ TestNode(t, t.root, NIL, 0)
             /\ \A b \in branches : \A i \in 0 .. t.heap[b].size :
                    TestNode(t, t.heap[b].childs[i], b, i)
             /\ \A i \in 1 .. Len(leaves) :
                  /\ t.heap[leaves[i]].prev = (IF i = 1 THEN NIL ELSE leaves[i - 1])
                  /\ t.heap[leaves[i]].next = (IF i = Len(leaves) THEN NIL ELSE leaves[i + 1])
             /\ \A i \in 1 .. Len(items) - 1 :
                  items[i] < items[i + 1] \/ (~UNIQUE_KEYS /\ items[i] = items[i + 1])
             /\ Len(items) = t.size
             /\ Len(leaves) = t.leavesCount
             /\ Cardinality(branches) = t.branchesCount

\* After every sequence of Insert, Delete and Clear the tree passes its own
\* SelfTest: links, levels, fill, order, branch keys and counters are right.
SelfTest == SelfTestOf(tree)

\* No split, merge or rearrangement writes past the end of a node's array or
\* passes memmove a range that ends before it begins.
NoOverrun ==
    \A n \in DOMAIN tree.heap :
      LET nd == tree.heap[n]
      IN  IF nd.leaf
          THEN nd.items[LEAF_CAPACITY] = EMPTY
          ELSE nd.keys[BRANCH_CAPACITY] = EMPTY /\ nd.childs[BRANCH_CAPACITY + 1] = NIL

\* The tree is what its own Tester accepts (links, sizes, order and the keys of
\* the branches), and no operation has written past an array, after any
\* sequence of inserts, deletes and clears.
TreeIsSound == SelfTest /\ NoOverrun

\* BTree::ConstIterator: the items from firstLeaf_ along the next links.
RECURSIVE FromLeaf(_, _, _)
FromLeaf(t, l, fuel) ==
    IF l = NIL \/ fuel = 0 THEN <<>>
    ELSE [j \in 1 .. t.heap[l].size |-> t.heap[l].items[j - 1]]
           \o FromLeaf(t, t.heap[l].next, fuel - 1)

Iteration(t) == FromLeaf(t, t.firstLeaf, Cardinality(DOMAIN t.heap))

\* The tree implements a sorted bag: what an iteration shows changes by exactly
\* the key inserted or deleted, and each call returns whether it did.
Bag == INSTANCE SortedBag WITH
         bag <- [k \in Keys |->
                   LET s == Iteration(tree) IN Cardinality({i \in 1 .. Len(s) : s[i] = k})]

ImplementsBag == Bag!BagSpec
=============================================================================
