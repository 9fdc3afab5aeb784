-------------------------- MODULE MCFileTransaction --------------------------
(***************************************************************************)
(* FileTransaction with a buffer of two units, so that a request fits, is   *)
(* buffered after a flush, or is written directly, in every order.          *)
(***************************************************************************)
EXTENDS FileTransaction
=============================================================================
