-------------------------- MODULE WebSocketServer --------------------------
(***************************************************************************)
(* The acceptor of client sessions.  A session registers itself when its   *)
(* WebSocket handshake is done (ClientSession is the module of its inner   *)
(* life), but the cap is tested when its TCP connection is accepted.       *)
(***************************************************************************)
EXTENDS IoContext, Naturals, FiniteSets

CONSTANTS
    Clients,
    MaxWsSessions       \* MAX_WS_SESSIONS

ASSUME WsAssumption == MaxWsSessions \in Nat \ {0}

VARIABLES
    wsAccepting,    \* accepting_
    wsAccept,       \* the accept operation: "none", "armed", or the client it got
    wsSessions,     \* sessions_
    peer,           \* client -> "out", "refused", "shaking", "open", "closing", "gone"
    wsCopy          \* closeAll's copy: clients it has still to close

wsVars == <<wsAccepting, wsAccept, wsSessions, peer, wsCopy>>

\* The types of the variables.
WsTypeOK ==
    /\ wsAccepting \in BOOLEAN
    /\ wsAccept \in {"none", "armed"} \cup Clients
    /\ wsSessions \subseteq Clients /\ wsCopy \subseteq Clients
    /\ peer \in [Clients -> {"out", "refused", "shaking", "open", "closing", "gone"}]

WsInit ==
    /\ wsAccepting = FALSE
    /\ wsAccept = "none"
    /\ wsSessions = {}
    /\ peer = [c \in Clients |-> "out"]
    /\ wsCopy = {}

Move(c, state) == peer' = [peer EXCEPT ![c] = state]

RunWs ==
    /\ wsAccepting' = TRUE
    /\ wsAccept' = IF wsAccepting THEN wsAccept ELSE "armed"
    /\ UNCHANGED <<wsSessions, peer, wsCopy>>

WsConnect(c) ==
    /\ Idle /\ wsAccept = "armed" /\ peer[c] = "out"
    /\ wsAccept' = c
    /\ UNCHANGED <<wsAccepting, wsSessions, peer, wsCopy, ioVars>>

WsOnAccept ==
    /\ Idle /\ wsAccept \in Clients
    /\ wsAccept' = "none"
    /\ \/ wsAccepting /\ Goto("ws-cap", wsAccept) /\ UNCHANGED peer
       \/ ~wsAccepting /\ Done /\ Move(wsAccept, "refused")
    /\ UNCHANGED <<wsAccepting, wsSessions, wsCopy, stopped>>

\* A failed accept: onAccept starts the next one, unless the server was stopped.
WsOnAcceptError ==
    /\ Idle /\ wsAccept = "armed"
    /\ wsAccept' = "none"
    /\ IF wsAccepting THEN Goto("ws-rearm", 0) ELSE Done
    /\ UNCHANGED <<wsAccepting, wsSessions, peer, wsCopy, stopped>>

\* Over the cap the socket is dropped, otherwise the session starts its
\* handshake.
WsOnAcceptCap ==
    /\ io.at = "ws-cap"
    /\ Move(io.who, IF Cardinality(wsSessions) >= MaxWsSessions THEN "refused"
                                                                ELSE "shaking")
    /\ Goto("ws-rearm", 0)
    /\ UNCHANGED <<wsAccepting, wsAccept, wsSessions, wsCopy, stopped>>

WsDoAcceptTest ==
    /\ io.at = "ws-rearm"
    /\ IF wsAccepting THEN Goto("ws-arm", 0) ELSE Done
    /\ UNCHANGED <<wsVars, stopped>>

WsDoAcceptArm ==
    /\ io.at = "ws-arm"
    /\ wsAccept' = "armed"
    /\ Done
    /\ UNCHANGED <<wsAccepting, wsSessions, peer, wsCopy, stopped>>

\* The handshake succeeds or fails.
RegisterSession(c) ==
    /\ Idle /\ peer[c] = "shaking"
    /\ Move(c, "open")
    /\ wsSessions' = wsSessions \cup {c}
    /\ UNCHANGED <<wsAccepting, wsAccept, wsCopy, ioVars>>

HandshakeFails(c) ==
    /\ Idle /\ peer[c] = "shaking"
    /\ Move(c, "gone")
    /\ UNCHANGED <<wsAccepting, wsAccept, wsSessions, wsCopy, ioVars>>

\* A session ends, of itself or because closeAll dispatched close() to it.
UnregisterSession(c) ==
    /\ Idle /\ peer[c] \in {"open", "closing"}
    /\ Move(c, "gone")
    /\ wsSessions' = wsSessions \ {c}
    /\ UNCHANGED <<wsAccepting, wsAccept, wsCopy, ioVars>>

WsIo ==
    \/ WsOnAccept \/ WsOnAcceptError \/ WsOnAcceptCap \/ WsDoAcceptTest \/ WsDoAcceptArm
    \/ \E c \in Clients : RegisterSession(c) \/ HandshakeFails(c) \/ UnregisterSession(c)

WsPoll == \E c \in Clients : WsConnect(c)

-----------------------------------------------------------------------------
(* Called by the shutdown steps.                                           *)

StopAcceptFlag ==
    /\ wsAccepting' = FALSE
    /\ UNCHANGED <<wsAccept, wsSessions, peer, wsCopy>>

StopAcceptCancel ==
    /\ wsAccept' = IF wsAccept = "armed" THEN "none" ELSE wsAccept
    /\ UNCHANGED <<wsAccepting, wsSessions, peer, wsCopy>>

\* closeAll copies the table under its lock ...
CopyTable == wsCopy' = wsSessions

CloseAllCopy == CopyTable /\ UNCHANGED <<wsAccepting, wsAccept, wsSessions, peer>>

\* ... and dispatches a close to each session of the copy.
CloseAllNext ==
    \E c \in wsCopy :
        /\ wsCopy' = wsCopy \ {c}
        /\ IF peer[c] = "open" THEN Move(c, "closing") ELSE UNCHANGED peer
        /\ UNCHANGED <<wsAccepting, wsAccept, wsSessions>>
=============================================================================
