--------------------------- MODULE MCNginxLevelDB ---------------------------
(***************************************************************************)
(* The nginx module with two requests, so that one may follow the other.    *)
(***************************************************************************)
EXTENDS NginxLevelDB
=============================================================================
