---------------------------- MODULE UdpConnector ----------------------------
(***************************************************************************)
(* UDPServer of connector/udp_server.go: one read loop that also runs the  *)
(* handlers, the cleanup loop, RemoveSession and Stop.  onConnect and      *)
(* onClose are called under sessionMu.  A packet is a good one: a short or *)
(* undecodable one changes nothing.                                        *)
(***************************************************************************)
EXTENDS Integers, FiniteSets

CONSTANTS
    UdpAddrs,       \* addresses that packets come from
    NoAddr,         \* "no packet in hand"
    UdpMaxConns,    \* s.maxConns, 0 for no limit
    UdpTimeout,     \* opts.HeartbeatTimeout, in ticks
    UdpMaxOpens     \* bound on the sessions one address opens

ASSUME UdpAssumption ==
    /\ NoAddr \notin UdpAddrs
    /\ UdpMaxConns \in Nat /\ UdpTimeout \in Nat /\ UdpMaxOpens \in Nat

VARIABLES
    udpSessions,    \* keys of s.sessions
    udpHeart,       \* address -> time since sd.heart
    udpConnects,    \* address -> calls of onConnect
    udpCloses,      \* address -> calls of onClose
    udpReader,      \* readLoop: "top", "read", "packet", "handle" or "exited"
    udpFrom,        \* the address of the packet in hand
    udpCleaner,     \* cleanupLoop: "select" or "exited"
    udpStop         \* Stop: "running", "marked", "swept", "waiting", "stopped"

udpVars == <<udpSessions, udpHeart, udpConnects, udpCloses, udpReader, udpFrom,
             udpCleaner, udpStop>>

UdpInit ==
    /\ udpSessions = {}
    /\ udpHeart = [a \in UdpAddrs |-> 0]
    /\ udpConnects = [a \in UdpAddrs |-> 0]
    /\ udpCloses = [a \in UdpAddrs |-> 0]
    /\ udpReader = "top" /\ udpFrom = NoAddr
    /\ udpCleaner = "select" /\ udpStop = "running"

\* ReadFromUDP returns a packet; handlePacket decodes it before it locks.
UdpReceive(a) ==
    /\ udpReader = "read" /\ udpStop \in {"running", "marked", "swept"}
    /\ udpConnects[a] < UdpMaxOpens
    /\ udpReader' = "packet" /\ udpFrom' = a
    /\ UNCHANGED <<udpSessions, udpHeart, udpConnects, udpCloses, udpCleaner, udpStop>>

\* handlePacket under sessionMu: a known address renews its session, a new one
\* opens a session unless the table is full; then the packet is dropped.
UdpLookup ==
    /\ udpReader = "packet"
    /\ \/ /\ udpFrom \in udpSessions
          /\ udpHeart' = [udpHeart EXCEPT ![udpFrom] = 0]
          /\ udpReader' = "handle"
          /\ UNCHANGED <<udpSessions, udpConnects, udpFrom>>
       \/ /\ udpFrom \notin udpSessions
          /\ UdpMaxConns > 0 /\ Cardinality(udpSessions) >= UdpMaxConns
          /\ udpReader' = "top" /\ udpFrom' = NoAddr
          /\ UNCHANGED <<udpSessions, udpHeart, udpConnects>>
       \/ /\ udpFrom \notin udpSessions
          /\ UdpMaxConns = 0 \/ Cardinality(udpSessions) < UdpMaxConns
          /\ udpSessions' = udpSessions \cup {udpFrom}
          /\ udpHeart' = [udpHeart EXCEPT ![udpFrom] = 0]
          /\ udpConnects' = [udpConnects EXCEPT ![udpFrom] = @ + 1]
          /\ udpReader' = "handle"
          /\ UNCHANGED udpFrom
    /\ UNCHANGED <<udpCloses, udpCleaner, udpStop>>

\* Pipeline, handler, forwarding, onMessage: whatever runs, runs in readLoop.
UdpHandled ==
    /\ udpReader = "handle"
    /\ udpReader' = "top" /\ udpFrom' = NoAddr
    /\ UNCHANGED <<udpSessions, udpHeart, udpConnects, udpCloses, udpCleaner, udpStop>>

\* The top of readLoop: running and stopCh are tested; a deadline leads back here.
UdpLoop ==
    /\ \/ udpReader = "top" /\ udpStop = "running" /\ udpReader' = "read"
       \/ udpReader = "read" /\ udpReader' = "top"
    /\ UNCHANGED <<udpSessions, udpHeart, udpConnects, udpCloses, udpFrom, udpCleaner, udpStop>>

\* readLoop ends: at the top, or because the socket is closed.
UdpReaderExits ==
    /\ \/ udpReader = "top" /\ udpStop # "running"
       \/ udpReader = "read" /\ udpStop \in {"waiting", "stopped"}
    /\ udpReader' = "exited"
    /\ UNCHANGED <<udpSessions, udpHeart, udpConnects, udpCloses, udpFrom, udpCleaner, udpStop>>

UdpTick ==
    /\ \E a \in UdpAddrs : udpHeart[a] <= UdpTimeout
    /\ udpHeart' = [a \in UdpAddrs |-> IF udpHeart[a] <= UdpTimeout THEN udpHeart[a] + 1
                                                                    ELSE udpHeart[a]]
    /\ UNCHANGED <<udpSessions, udpConnects, udpCloses, udpReader, udpFrom, udpCleaner, udpStop>>

\* The sessions of a set leave the table, each after a call of onClose.
UdpCloseAll(S) ==
    /\ udpSessions' = udpSessions \ S
    /\ udpCloses' = [a \in UdpAddrs |-> IF a \in S THEN udpCloses[a] + 1 ELSE udpCloses[a]]

\* cleanupSessions.
UdpCleanup ==
    LET expired == {a \in udpSessions : udpHeart[a] > UdpTimeout}
    IN  /\ udpCleaner = "select" /\ expired # {}
        /\ UdpCloseAll(expired)
        /\ UNCHANGED <<udpHeart, udpConnects, udpReader, udpFrom, udpCleaner, udpStop>>

\* RemoveSession, called by the application.
UdpRemoveSession(a) ==
    /\ a \in udpSessions
    /\ UdpCloseAll({a})
    /\ UNCHANGED <<udpHeart, udpConnects, udpReader, udpFrom, udpCleaner, udpStop>>

UdpCleanerExits ==
    /\ udpCleaner = "select" /\ udpStop # "running"
    /\ udpCleaner' = "exited"
    /\ UNCHANGED <<udpSessions, udpHeart, udpConnects, udpCloses, udpReader, udpFrom, udpStop>>

UdpStopTo(from, to) ==
    /\ udpStop = from /\ udpStop' = to
    /\ UNCHANGED <<udpHeart, udpConnects, udpReader, udpFrom, udpCleaner>>

\* running is set to 0 and stopCh closed.
UdpStopBegins == UdpStopTo("running", "marked") /\ UNCHANGED <<udpSessions, udpCloses>>

\* Under sessionMu every session is reported and deleted.  readLoop may hold a
\* packet and open another session afterwards.
UdpSweep == UdpStopTo("marked", "swept") /\ UdpCloseAll(udpSessions)

\* The socket is closed.
UdpCloseSocket == UdpStopTo("swept", "waiting") /\ UNCHANGED <<udpSessions, udpCloses>>

\* The counter of s.wg is zero.
UdpLoopsDone == udpReader = "exited" /\ udpCleaner = "exited"

\* s.wg.Wait, and Stop returns.
UdpStopped ==
    UdpLoopsDone /\ UdpStopTo("waiting", "stopped") /\ UNCHANGED <<udpSessions, udpCloses>>

UdpReaderStep == UdpLoop \/ UdpLookup \/ UdpHandled \/ UdpReaderExits
UdpStopStep == UdpSweep \/ UdpCloseSocket \/ UdpStopped

UdpNext ==
    \/ \E a \in UdpAddrs : UdpReceive(a) \/ UdpRemoveSession(a)
    \/ UdpTick \/ UdpCleanup \/ UdpCleanerExits
    \/ UdpReaderStep \/ UdpStopBegins \/ UdpStopStep

-----------------------------------------------------------------------------
\* An address has a session exactly while onConnect was called once more than
\* onClose, whoever of cleanup, RemoveSession and Stop ends it.
UdpPaired ==
    \A a \in UdpAddrs :
        udpConnects[a] - udpCloses[a] = IF a \in udpSessions THEN 1 ELSE 0

\* Stop returns.
UdpStopReturns == udpStop # "running" ~> udpStop = "stopped"
=============================================================================
