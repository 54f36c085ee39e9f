----------------------------- MODULE EdgeProofs ------------------------------
(***************************************************************************)
(* Proofs about the WebSocket and UDP connectors for any number of         *)
(* connections and addresses: the application hears of the end of a        *)
(* session exactly once, whoever of the reader, the heartbeat check, the   *)
(* cleanup, RemoveSession and Stop ends it.                                *)
(***************************************************************************)
EXTENDS Edge, TLAPS

-----------------------------------------------------------------------------
(* The WebSocket connector.                                                *)

\* What the argument needs of the records: the fields it is about are there.
WsShape ==
    /\ ws = [c \in WsConns |-> ws[c]]
    /\ \A c \in WsConns : {"at", "onClose"} \subseteq DOMAIN ws[c]

WsIInv == WsShape /\ WsClosedOnce

\* NewWebSocketConnector.
LEMMA WsInitial == WsInit => WsIInv
  BY DEF WsInit, WsIInv, WsShape, WsClosedOnce

\* Every step of the WebSocket connector, and the steps that leave it alone.
LEMMA WsStep == WsIInv /\ [WsNext]_wsVars => WsIInv'
<1> SUFFICES ASSUME WsIInv, [WsNext]_wsVars PROVE WsIInv'
  OBVIOUS
<1> USE DEF WsIInv, WsShape, WsClosedOnce
<1>1. ASSUME NEW c \in WsConns, WsAccept(c) \/ WsUpgrade(c) PROVE WsIInv'
  BY <1>1 DEF WsAccept, WsUpgrade
<1>2. ASSUME NEW c \in WsConns, WsSend(c) PROVE WsIInv'
  BY <1>2 DEF WsSend
<1>3. ASSUME NEW c \in WsConns, WsHangup(c) PROVE WsIInv'
  BY <1>3 DEF WsHangup
<1>4. ASSUME NEW c \in WsConns, WsTest(c) PROVE WsIInv'
  BY <1>4 DEF WsTest
<1>5. ASSUME NEW c \in WsConns, WsOpen(c) PROVE WsIInv'
  BY <1>5 DEF WsOpen
<1>6. ASSUME NEW c \in WsConns, WsReadFails(c) PROVE WsIInv'
  BY <1>6 DEF WsReadFails
<1>7. ASSUME NEW c \in WsConns, WsLeave(c) PROVE WsIInv'
  BY <1>7 DEF WsLeave
<1>8. ASSUME NEW c \in WsConns, WsDiscount(c) PROVE WsIInv'
  BY <1>8 DEF WsDiscount
<1>9. ASSUME NEW c \in WsConns, NEW kind \in {"text", "garbled", "message"}, WsRead(c, kind)
      PROVE WsIInv'
  BY <1>9 DEF WsRead
<1>10. ASSUME NEW c \in WsConns, WsTake(c) PROVE WsIInv'
  BY <1>10 DEF WsTake
<1>11. ASSUME NEW c \in WsConns, NEW answered \in BOOLEAN, WsHandle(c, answered) PROVE WsIInv'
  BY <1>11 DEF WsHandle
<1>12. ASSUME NEW c \in WsConns, WsWorkerExits(c) PROVE WsIInv'
  BY <1>12 DEF WsWorkerExits
<1>13. CASE WsTick
  BY <1>13 DEF WsTick, WsOlder
<1>14. CASE WsCheckHeartbeats
  BY <1>14 DEF WsCheckHeartbeats, WsReport
<1>15. CASE WsStopBegins \/ WsStopStep
  BY <1>15 DEF WsStopBegins, WsStopStep, WsLoopExits, WsLoopsDone, WsWorkersDone, WsStopTo
<1>16. CASE UNCHANGED wsVars
  BY <1>16 DEF wsVars
<1>17. QED
  BY <1>1, <1>2, <1>3, <1>4, <1>5, <1>6, <1>7, <1>8, <1>9, <1>10, <1>11, <1>12, <1>13, <1>14,
     <1>15, <1>16 DEF WsNext, WsServerStep, WsWorkerStep

-----------------------------------------------------------------------------
(* The UDP connector.                                                      *)

UdpTypes ==
    /\ udpSessions \subseteq UdpAddrs
    /\ udpConnects \in [UdpAddrs -> Nat] /\ udpCloses \in [UdpAddrs -> Nat]

\* readLoop has a packet in hand exactly between the read and the end of the handler.
UdpInHand == udpReader \in {"packet", "handle"} => udpFrom \in UdpAddrs

UdpIInv == UdpTypes /\ UdpInHand /\ UdpPaired

\* NewUDPConnector.
LEMMA UdpInitial == UdpInit => UdpIInv
  BY DEF UdpInit, UdpIInv, UdpTypes, UdpInHand, UdpPaired

\* Every step of the UDP connector, and the steps that leave it alone.
LEMMA UdpStep == UdpIInv /\ [UdpNext]_udpVars => UdpIInv'
<1> SUFFICES ASSUME UdpIInv, [UdpNext]_udpVars PROVE UdpIInv'
  OBVIOUS
<1> USE DEF UdpIInv, UdpTypes, UdpInHand, UdpPaired
<1>0. ASSUME NEW S, S \subseteq udpSessions, UdpCloseAll(S), UNCHANGED <<udpConnects, udpReader, udpFrom>>
      PROVE UdpIInv'
  BY <1>0 DEF UdpCloseAll
<1>1. ASSUME NEW a \in UdpAddrs, UdpReceive(a) PROVE UdpIInv'
  BY <1>1 DEF UdpReceive
<1>2. ASSUME NEW a \in UdpAddrs, UdpRemoveSession(a) PROVE UdpIInv'
  BY <1>2, <1>0 DEF UdpRemoveSession
<1>3. CASE UdpTick
  BY <1>3 DEF UdpTick
<1>4. CASE UdpCleanup
  BY <1>4, <1>0 DEF UdpCleanup
<1>5. CASE UdpLookup
  BY <1>5 DEF UdpLookup
<1>6. CASE UdpLoop \/ UdpHandled \/ UdpReaderExits \/ UdpCleanerExits
  BY <1>6 DEF UdpLoop, UdpHandled, UdpReaderExits, UdpCleanerExits
<1>7. CASE UdpSweep
  BY <1>7, <1>0 DEF UdpSweep, UdpStopTo
<1>8. CASE UdpStopBegins \/ UdpCloseSocket \/ UdpStopped
  BY <1>8 DEF UdpStopBegins, UdpCloseSocket, UdpStopped, UdpStopTo
<1>9. CASE UNCHANGED udpVars
  BY <1>9 DEF udpVars
<1>10. QED
  BY <1>1, <1>2, <1>3, <1>4, <1>5, <1>6, <1>7, <1>8, <1>9 DEF UdpNext, UdpReaderStep, UdpStopStep

-----------------------------------------------------------------------------
\* A session of either connector is reported to onClose exactly once per end,
\* whoever ends it: the WebSocket reader (the heartbeat check only closes the
\* socket under it), or the UDP cleanup, RemoveSession and Stop under sessionMu.
THEOREM ClosesPaired == Spec => []OnClosePaired
<1>1. Init => WsIInv /\ UdpIInv
  BY WsInitial, UdpInitial DEF Init
<1>2. (WsIInv /\ UdpIInv) /\ [Next]_vars => (WsIInv /\ UdpIInv)'
  <2> SUFFICES ASSUME WsIInv, UdpIInv, [Next]_vars PROVE WsIInv' /\ UdpIInv'
    OBVIOUS
  <2>1. [WsNext]_wsVars
    BY DEF Next, vars, WsPart, UdpPart, GoPart
  <2>2. [UdpNext]_udpVars
    BY DEF Next, vars, WsPart, UdpPart, GoPart
  <2>3. QED
    BY <2>1, <2>2, WsStep, UdpStep
<1>3. WsIInv /\ UdpIInv => OnClosePaired
  BY DEF WsIInv, UdpIInv, OnClosePaired
<1>4. QED
  BY <1>1, <1>2, <1>3, PTL DEF Spec
=============================================================================
