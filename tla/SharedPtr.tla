------------------------------ MODULE SharedPtr ------------------------------
(***************************************************************************)
(* XTL::SharedPtr (SharedPtr.hpp): reference counted pointers, those of the *)
(* program (its variables) and those that are members of the objects they   *)
(* point to, one member per object.                                         *)
(*                                                                         *)
(* Deleting an object runs the destructor of its member before Release      *)
(* goes on, so a Release is a cascade: one step per pointer released.       *)
(***************************************************************************)
EXTENDS Integers, FiniteSets

CONSTANTS
    Pointers,       \* the SharedPtr variables of the program
    SharedObjects   \* the objects they may point to

NoTarget == "null"

ASSUME SharedAssumption == NoTarget \notin SharedObjects

VARIABLES
    pointer,    \* ptr_ of each variable
    member,     \* ptr_ of each object's member
    refCount,   \* the object's SharedPtrCounter
    exists,     \* the objects that were created and not deleted
    release,    \* the Release in progress: the object to let go of next, or NoTarget
    assign,     \* the operator= waiting for it: [pointer, holder, target, kept]
    damaged     \* a freed object was read

sharedVars == <<pointer, member, refCount, exists, release, assign, damaged>>

NoAssign == [pointer |-> NoTarget, holder |-> NoTarget, target |-> NoTarget, kept |-> FALSE]

SharedInit ==
    /\ pointer = [p \in Pointers |-> NoTarget]
    /\ member = [o \in SharedObjects |-> NoTarget]
    /\ refCount = [o \in SharedObjects |-> 0]
    /\ exists = {}
    /\ release = NoTarget
    /\ assign = NoAssign
    /\ damaged = FALSE

\* No call is in progress.
Quiet == release = NoTarget /\ assign = NoAssign

\* The pointers that point to o, of the program and in existing objects.
Referrers(o) ==
    {<<"pointer", p>> : p \in {q \in Pointers : pointer[q] = o}}
    \cup {<<"member", h>> : h \in {g \in exists : member[g] = o}}

\* The objects that are reached from these variables: those in every set that
\* holds what the variables and the members of its objects point to.
ReachedFrom(variables) ==
    {o \in SharedObjects :
        \A S \in SUBSET SharedObjects :
            ({pointer[q] : q \in variables} \cup {member[x] : x \in S}) \ {NoTarget} \subseteq S
                => o \in S}

\* SharedPtr(new T) and Reset(new T) of a pointer that is null.
Create(p, o) ==
    /\ Quiet
    /\ pointer[p] = NoTarget
    /\ o \notin exists
    /\ exists' = exists \cup {o}
    /\ refCount' = [refCount EXCEPT ![o] = 1]
    /\ member' = [member EXCEPT ![o] = NoTarget]
    /\ pointer' = [pointer EXCEPT ![p] = o]
    /\ UNCHANGED <<release, assign, damaged>>

\* AddRef.
AddRef(o) == IF o = NoTarget THEN refCount ELSE [refCount EXCEPT ![o] = @ + 1]

\* The copy constructor, into a variable that holds nothing.
Copy(p, q) ==
    /\ Quiet
    /\ pointer[p] = NoTarget
    /\ pointer[q] # NoTarget
    /\ pointer' = [pointer EXCEPT ![p] = pointer[q]]
    /\ refCount' = AddRef(pointer[q])
    /\ UNCHANGED <<member, exists, release, assign, damaged>>

\* Release of a variable, and its destructor.  The variable is null at the end
\* of the call; nobody looks at it before.
ReleasePointer(p) ==
    /\ Quiet
    /\ pointer[p] # NoTarget
    /\ pointer' = [pointer EXCEPT ![p] = NoTarget]
    /\ release' = pointer[p]
    /\ UNCHANGED <<member, refCount, exists, assign, damaged>>

\* Mutant: the last reference is taken to be the one before it.
IsLastTooEarly(o) == refCount[o] <= 2

\* SharedPtrCounter::Release returns true.
IsLast(o) == refCount[o] = 1

\* One Release: the counter goes down; with the last reference the object is
\* deleted, and its destructor releases its member.
ReleaseStep ==
    /\ release # NoTarget
    /\ LET o == release
       IN  IF IsLast(o)
           THEN /\ exists' = exists \ {o}
                /\ refCount' = [refCount EXCEPT ![o] = 0]
                /\ release' = member[o]
                /\ member' = [member EXCEPT ![o] = NoTarget]
           ELSE /\ refCount' = [refCount EXCEPT ![o] = @ - 1]
                /\ release' = NoTarget
                /\ UNCHANGED <<exists, member>>
    /\ UNCHANGED <<pointer, assign, damaged>>

\* operator= from another variable, or from the member of object h that the
\* program reached: the pointer's own object is released first, and "other" is
\* read after that.
AssignBegins(p, h, target) ==
    /\ Quiet
    /\ pointer[p] # target
    /\ release' = pointer[p]
    /\ pointer' = [pointer EXCEPT ![p] = NoTarget]
    /\ assign' = [pointer |-> p, holder |-> h, target |-> target,
                  kept |-> h = NoTarget \/ h \in ReachedFrom(Pointers \ {p})]
    /\ UNCHANGED <<member, refCount, exists, damaged>>

AssignPointer(p, q) == p # q /\ AssignBegins(p, NoTarget, pointer[q])
AssignMember(p, h) == h \in ReachedFrom(Pointers) /\ AssignBegins(p, h, member[h])

\* The second half of operator=.  When "other" was a member of an object that
\* the release has deleted, what is read is undefined.
AssignEnds ==
    /\ release = NoTarget
    /\ assign # NoAssign
    /\ IF assign.holder # NoTarget /\ assign.holder \notin exists
       THEN /\ damaged' = TRUE
            /\ UNCHANGED <<pointer, refCount>>
       ELSE /\ pointer' = [pointer EXCEPT ![assign.pointer] = assign.target]
            /\ refCount' = AddRef(assign.target)
            /\ UNCHANGED damaged
    /\ assign' = NoAssign
    /\ UNCHANGED <<member, exists, release>>

\* The member of an object that p points to is made to point to what q does;
\* the member's old target is released first, and nothing the program still
\* needs hangs on the member.
SetMember(p, q) ==
    /\ Quiet
    /\ pointer[p] # NoTarget
    /\ member[pointer[p]] = NoTarget
    /\ pointer[q] # NoTarget
    /\ member' = [member EXCEPT ![pointer[p]] = pointer[q]]
    /\ refCount' = AddRef(pointer[q])
    /\ UNCHANGED <<pointer, exists, release, assign, damaged>>

\* Release of a member.
ReleaseMember(p) ==
    /\ Quiet
    /\ pointer[p] # NoTarget
    /\ member[pointer[p]] # NoTarget
    /\ release' = member[pointer[p]]
    /\ member' = [member EXCEPT ![pointer[p]] = NoTarget]
    /\ UNCHANGED <<pointer, refCount, exists, assign, damaged>>

\* Reset(new T) of a pointer that holds something.  The new object was built
\* before the call; the release of the old one does not meet it.
ResetPointer(p, o) ==
    /\ Quiet
    /\ pointer[p] # NoTarget
    /\ o \notin exists
    /\ exists' = exists \cup {o}
    /\ refCount' = [refCount EXCEPT ![o] = 1]
    /\ member' = [member EXCEPT ![o] = NoTarget]
    /\ pointer' = [pointer EXCEPT ![p] = o]
    /\ release' = pointer[p]
    /\ UNCHANGED <<assign, damaged>>

SharedNext ==
    \/ \E p \in Pointers, o \in SharedObjects : Create(p, o) \/ ResetPointer(p, o)
    \/ \E p, q \in Pointers : Copy(p, q) \/ AssignPointer(p, q) \/ SetMember(p, q)
    \/ \E p \in Pointers : ReleasePointer(p) \/ ReleaseMember(p)
    \/ \E p \in Pointers, h \in SharedObjects : AssignMember(p, h)
    \/ ReleaseStep \/ AssignEnds

SharedSpec == SharedInit /\ [][SharedNext]_sharedVars

-----------------------------------------------------------------------------
\* Type invariant.
SharedTypeOK ==
    /\ pointer \in [Pointers -> SharedObjects \cup {NoTarget}]
    /\ member \in [SharedObjects -> SharedObjects \cup {NoTarget}]
    /\ refCount \in [SharedObjects -> Nat]
    /\ exists \subseteq SharedObjects
    /\ release \in SharedObjects \cup {NoTarget}
    /\ damaged \in BOOLEAN

\* The counter of an object is the number of pointers to it, in every state of
\* a cascade, the one being released included: an object is deleted with its
\* last reference and not before it, and no pointer outlives its object.
CountIsReferrers ==
    ~damaged =>
    /\ \A o \in SharedObjects :
          refCount[o] = Cardinality(Referrers(o)) + (IF release = o THEN 1 ELSE 0)
    /\ \A o \in SharedObjects : o \in exists <=> refCount[o] > 0

\* operator= releases before it reads the other pointer.  That is safe whenever
\* the other pointer lies in an object that something else keeps alive, however
\* deep the cascade goes.  (p = p->next of an object that only p owns is not.)
AssignmentIsSafe ==
    release = NoTarget /\ assign # NoAssign /\ assign.kept /\ ~damaged
        => assign.holder = NoTarget \/ assign.holder \in exists

\* Through copies, assignments and cascades of deletes, each object lives exactly
\* as long as a pointer to it, and assigning reads no freed pointer unless the
\* assigned pointer owned it.
ReferencesAreCounted == SharedTypeOK /\ CountIsReferrers /\ AssignmentIsSafe
=============================================================================
