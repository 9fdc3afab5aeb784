--------------------------- MODULE MCNumberLiteral ---------------------------
(***************************************************************************)
(* Literals read into an unsigned type of four bits.                        *)
(***************************************************************************)
EXTENDS NumberLiteral
=============================================================================
