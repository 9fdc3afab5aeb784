------------------------------ MODULE MCBTree ------------------------------
(***************************************************************************)
(* Instances of the B+ tree for TLC.                                        *)
(***************************************************************************)
EXTENDS BTree
=============================================================================
