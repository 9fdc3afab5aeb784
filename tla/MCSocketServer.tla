--------------------------- MODULE MCSocketServer ---------------------------
(***************************************************************************)
(* Instances of the event loop for TLC.                                     *)
(***************************************************************************)
EXTENDS SocketServer, TLC

CONSTANTS c1, c2, c3

TwoConns == {c1, c2}
ThreeConns == {c1, c2, c3}
ConnSymmetry == Permutations(Conn)
NoDescs == {}
FirstDesc == {0}
AllFaults == FaultKinds
HandlerFaults == {"dataDisconnects", "dataThrows"}
=============================================================================
