------------------------- MODULE ConnectionService -------------------------
(***************************************************************************)
(* What XTL::SocketServer promises the author of a ClientHandler, with no   *)
(* descriptor, selector or loop in sight: OnClientConnected() first, then   *)
(* OnDataReceived() with no more than the peer sent, then                  *)
(* OnClientDisconnected() once, and no callback after it.                   *)
(***************************************************************************)
EXTENDS Naturals

CONSTANT Conn

VARIABLES
    status,     \* "none", "connected" or "disconnected"
    sent,       \* units the peer sent
    delivered   \* units given to OnDataReceived()

serviceVars == <<status, sent, delivered>>

ServiceInit ==
    /\ status = [c \in Conn |-> "none"]
    /\ sent = [c \in Conn |-> 0]
    /\ delivered = [c \in Conn |-> 0]

\* The peer may send before it is accepted and after the server hung up.
Send(c) ==
    /\ sent' = [sent EXCEPT ![c] = @ + 1]
    /\ UNCHANGED <<status, delivered>>

Connected(c) ==
    /\ status[c] = "none"
    /\ status' = [status EXCEPT ![c] = "connected"]
    /\ UNCHANGED <<sent, delivered>>

\* OnClientConnected() may refuse the connection by disconnecting.
Refused(c) ==
    /\ status[c] = "none"
    /\ status' = [status EXCEPT ![c] = "disconnected"]
    /\ UNCHANGED <<sent, delivered>>

\* OnDataReceived() with the next n units; it may end in a disconnect.
DataReceived(c, n) ==
    /\ status[c] = "connected"
    /\ delivered[c] + n <= sent[c]
    /\ delivered' = [delivered EXCEPT ![c] = @ + n]
    /\ status' \in {status, [status EXCEPT ![c] = "disconnected"]}
    /\ UNCHANGED sent

Disconnected(c) ==
    /\ status[c] = "connected"
    /\ status' = [status EXCEPT ![c] = "disconnected"]
    /\ UNCHANGED <<sent, delivered>>

ServiceNext ==
    \E c \in Conn :
        \/ Send(c)
        \/ Connected(c) \/ Refused(c) \/ Disconnected(c)
        \/ \E n \in 1 .. sent[c] : DataReceived(c, n)

ServiceSpec == ServiceInit /\ [][ServiceNext]_serviceVars
=============================================================================
