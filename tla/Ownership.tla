------------------------------ MODULE Ownership ------------------------------
(***************************************************************************)
(* The library's two ways to own an object: reference counts (SharedPtr)    *)
(* and single owners (AutoPtrVector, AutoPtrStack, AutoPtrMap).  A program  *)
(* uses both; an object belongs to one of them.                             *)
(***************************************************************************)
EXTENDS SharedPtr, OwningContainers

ownershipVars == <<sharedVars, ownVars>>

OwnershipInit == SharedInit /\ OwningInit

OwnershipNext ==
    \/ SharedNext /\ UNCHANGED ownVars
    \/ OwningNext /\ UNCHANGED sharedVars

OwnershipSpec == OwnershipInit /\ [][OwnershipNext]_ownershipVars

\* SharedPtr and the owning containers: whatever copies, assignments and moves a
\* program makes, each object lives as long as it has an owner and is deleted once.
ObjectsAreDeletedOnce == ReferencesAreCounted /\ OwnershipIsSingle
=============================================================================
