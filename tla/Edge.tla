-------------------------------- MODULE Edge --------------------------------
(***************************************************************************)
(* The other ends of the network: the WebSocket and UDP connectors and the *)
(* Go client.  They share no state; a behaviour exercises one of them,     *)
(* chosen initially.                                                       *)
(***************************************************************************)
EXTENDS WsConnector, UdpConnector, GoClient

VARIABLE part   \* the component this behaviour is about

vars == <<part, wsVars, udpVars, goVars>>

Init ==
    /\ part \in {"ws", "udp", "client"}
    /\ WsInit /\ UdpInit /\ GoInit

WsPart(A) == part = "ws" /\ A /\ UNCHANGED <<part, udpVars, goVars>>
UdpPart(A) == part = "udp" /\ A /\ UNCHANGED <<part, wsVars, goVars>>
GoPart(A) == part = "client" /\ A /\ UNCHANGED <<part, wsVars, udpVars>>

Next == WsPart(WsNext) \/ UdpPart(UdpNext) \/ GoPart(GoNext)

Spec == Init /\ [][Next]_vars

(***************************************************************************)
(* Fairness: goroutines run on, handlers and callbacks return, timers and  *)
(* deadlines fire.  No client is obliged to send, no server to answer.     *)
(***************************************************************************)
FairSpec ==
    /\ Spec
    /\ WF_vars(WsPart(WsTick)) /\ WF_vars(WsPart(WsStopStep))
    /\ \A c \in WsConns : /\ WF_vars(WsPart(WsServerStep(c)))
                          /\ WF_vars(WsPart(WsWorkerStep(c)))
    /\ WF_vars(UdpPart(UdpReaderStep)) /\ WF_vars(UdpPart(UdpCleanerExits))
    /\ WF_vars(UdpPart(UdpStopStep))
    /\ WF_vars(GoPart(Write)) /\ WF_vars(GoPart(WriterExits)) /\ WF_vars(GoPart(LoopStep))
    /\ WF_vars(GoPart(DisconnectConn))
    /\ \A d \in Dials : WF_vars(GoPart(ReaderStep(d)))
    /\ \A r \in Requests : WF_vars(GoPart(CallerStep(r))) /\ WF_vars(GoPart(Timeout(r)))

-----------------------------------------------------------------------------
\* A connector tells the application that a session is over exactly once per
\* session that is over: readers, heartbeat checks, cleaners and Stop race for it.
OnClosePaired == WsClosedOnce /\ UdpPaired

\* Stop of either connector returns.
StopReturns == WsStopReturns /\ UdpStopReturns
=============================================================================
