---------------------------- MODULE WsConnector -----------------------------
(***************************************************************************)
(* WebSocketServer of connector/ws_server.go.  net/http runs handleHTTP in *)
(* a goroutine per connection that no wait group knows; the limit is       *)
(* tested there and counted later.  The read deadline is set once, when    *)
(* reading starts, so a connection ends at ReadTimeout however busy it is. *)
(* checkHeartbeats reports an expired connection to onClose with the       *)
(* session field that handleWSConn never fills, i.e. with nil.             *)
(***************************************************************************)
EXTENDS Integers, Sequences

CONSTANTS
    WsConns,            \* connections that clients open, each once
    WsTalkers,          \* those whose clients send messages
    WsBlacklisted,      \* those from a blacklisted address
    WsMaxConns,         \* opts.MaxConns, 0 for no limit
    WsReadTimeout,      \* opts.ReadTimeout, in ticks
    WsHeartbeatTimeout, \* opts.HeartbeatTimeout, in ticks
    WsChanCap,          \* capacity of msgCh (256 in the code)
    WsMaxMsgs           \* bound on the messages of one client

ASSUME WsAssumption ==
    /\ WsMaxConns \in Nat /\ WsHeartbeatTimeout \in Nat /\ WsMaxMsgs \in Nat
    /\ WsReadTimeout \in Nat \ {0} /\ WsChanCap \in Nat \ {0}

VARIABLES
    ws,             \* connection -> its socket, goroutines, channel and clocks
    wsConnections,  \* s.connections
    wsLoop,         \* the heartbeat loop
    wsStop          \* Stop: "running", "wg", "msgWg", "stopped"

wsVars == <<ws, wsConnections, wsLoop, wsStop>>

WsInit ==
    /\ ws = [c \in WsConns |->
               [at |-> "none",        \* where handleWSConn is
                known |-> FALSE,      \* is it in s.sessions?
                closed |-> FALSE,     \* has the server closed the socket?
                gone |-> FALSE,       \* has the client?
                sent |-> 0,           \* messages sent so far
                wire |-> <<>>,        \* messages not read yet
                msgCh |-> <<>>,
                worker |-> "none",    \* processSessionMessages
                replies |-> <<>>,     \* numbers of the requests answered
                age |-> 0,            \* time since the read deadline was set
                heart |-> 0,          \* time since sd.heart
                onClose |-> 0]]       \* calls of onClose with this session
    /\ wsConnections = 0 /\ wsLoop = "select" /\ wsStop = "running"

-----------------------------------------------------------------------------
(* The environment: clients and time.                                      *)

\* A client connects while the listener is open.
WsAccept(c) ==
    /\ ws[c].at = "none" /\ wsStop = "running"
    /\ ws' = [ws EXCEPT ![c].at = "accepted"]
    /\ UNCHANGED <<wsConnections, wsLoop, wsStop>>

\* Its request arrives, also after Stop has closed the listener, or never: handleHTTP
\* upgrades.
WsUpgrade(c) ==
    /\ ws[c].at = "accepted"
    /\ ws' = [ws EXCEPT ![c].at = "upgraded"]
    /\ UNCHANGED <<wsConnections, wsLoop, wsStop>>

\* A client sends its next message.
WsSend(c) ==
    /\ c \in WsTalkers /\ ws[c].at \notin {"none", "accepted"} /\ ~ws[c].gone /\ ws[c].sent < WsMaxMsgs
    /\ ws' = [ws EXCEPT ![c].sent = @ + 1, ![c].wire = Append(@, ws[c].sent + 1)]
    /\ UNCHANGED <<wsConnections, wsLoop, wsStop>>

WsHangup(c) ==
    /\ ws[c].at \notin {"none", "accepted"} /\ ~ws[c].gone
    /\ ws' = [ws EXCEPT ![c].gone = TRUE]
    /\ UNCHANGED <<wsConnections, wsLoop, wsStop>>

\* A clock stops counting where nothing tells later times apart.
WsOlder(t, limit) == IF t < limit THEN t + 1 ELSE t

WsTick ==
    /\ ws' = [c \in WsConns |-> [ws[c] EXCEPT !.age = WsOlder(@, WsReadTimeout),
                                              !.heart = WsOlder(@, WsHeartbeatTimeout + 1)]]
    /\ ws' # ws
    /\ UNCHANGED <<wsConnections, wsLoop, wsStop>>

-----------------------------------------------------------------------------
(* handleWSConn and readLoop.                                              *)

WsFull == WsMaxConns > 0 /\ wsConnections >= WsMaxConns

\* The blacklist and the limit are tested.
WsTest(c) ==
    /\ ws[c].at = "upgraded"
    /\ ws' = IF c \in WsBlacklisted \/ WsFull
               THEN [ws EXCEPT ![c].at = "refused", ![c].closed = TRUE]
               ELSE [ws EXCEPT ![c].at = "tested"]
    /\ UNCHANGED <<wsConnections, wsLoop, wsStop>>

\* The connection is counted, the session stored, its worker started.
WsOpen(c) ==
    /\ ws[c].at = "tested"
    /\ ws' = [ws EXCEPT ![c].at = "reading", ![c].known = TRUE, ![c].worker = "idle",
                        ![c].age = 0, ![c].heart = 0]
    /\ wsConnections' = wsConnections + 1
    /\ UNCHANGED <<wsLoop, wsStop>>

\* ReadMessage returns a message (of a closed socket too, if it was buffered).
\* A text message is skipped, a binary one renews the heartbeat; one that is no
\* JSON is skipped then, the others go to the channel.  A full channel closes
\* the session.
WsRead(c, kind) ==
    LET offered == kind = "message"
        room == Len(ws[c].msgCh) < WsChanCap
    IN  /\ ws[c].at = "reading" /\ ws[c].wire # <<>>
        /\ ws' = [ws EXCEPT ![c].wire = Tail(@),
                            ![c].heart = IF kind # "text" /\ ws[c].known THEN 0 ELSE @,
                            ![c].msgCh = IF offered /\ room THEN Append(@, Head(ws[c].wire)) ELSE @,
                            ![c].closed = @ \/ (offered /\ ~room)]
        /\ UNCHANGED <<wsConnections, wsLoop, wsStop>>

\* Fault: reading has no deadline.
WsReadFailsOnly(c) ==
    /\ ws[c].at = "reading"
    /\ ws[c].closed \/ (ws[c].gone /\ ws[c].wire = <<>>)
    /\ ws' = [ws EXCEPT ![c].at = "leaving", ![c].known = FALSE]
    /\ UNCHANGED <<wsConnections, wsLoop, wsStop>>

\* ReadMessage fails: the socket is closed, the client is gone, or the deadline
\* has passed.  removeSession.
WsReadFails(c) ==
    /\ ws[c].at = "reading"
    /\ \/ ws[c].closed
       \/ ws[c].gone /\ ws[c].wire = <<>>
       \/ ws[c].age = WsReadTimeout
    /\ ws' = [ws EXCEPT ![c].at = "leaving", ![c].known = FALSE]
    /\ UNCHANGED <<wsConnections, wsLoop, wsStop>>

\* close(msgCh), onClose(session).
WsLeave(c) ==
    /\ ws[c].at = "leaving"
    /\ ws' = [ws EXCEPT ![c].at = "left", ![c].onClose = @ + 1]
    /\ UNCHANGED <<wsConnections, wsLoop, wsStop>>

\* The deferred function of handleWSConn.
WsDiscount(c) ==
    /\ ws[c].at = "left"
    /\ ws' = [ws EXCEPT ![c].at = "done", ![c].closed = TRUE]
    /\ wsConnections' = wsConnections - 1
    /\ UNCHANGED <<wsLoop, wsStop>>

-----------------------------------------------------------------------------
(* processSessionMessages.                                                 *)

WsTake(c) ==
    /\ ws[c].worker = "idle" /\ ws[c].msgCh # <<>>
    /\ ws' = [ws EXCEPT ![c].worker = "busy"]
    /\ UNCHANGED <<wsConnections, wsLoop, wsStop>>

\* handleMessage: a request is answered by the pipeline or the route's handler,
\* anything else is forwarded in a goroutine or dropped.
WsHandle(c, answered) ==
    /\ ws[c].worker = "busy"
    /\ ws' = [ws EXCEPT ![c].worker = "idle", ![c].msgCh = Tail(@),
                        ![c].replies = IF answered THEN Append(@, Head(ws[c].msgCh)) ELSE @]
    /\ UNCHANGED <<wsConnections, wsLoop, wsStop>>

WsWorkerExits(c) ==
    /\ ws[c].worker = "idle" /\ ws[c].msgCh = <<>> /\ ws[c].at \in {"left", "done"}
    /\ ws' = [ws EXCEPT ![c].worker = "exited"]
    /\ UNCHANGED <<wsConnections, wsLoop, wsStop>>

-----------------------------------------------------------------------------
(* heartbeatLoop and Stop.                                                 *)

WsExpired(c) == ws[c].known /\ ws[c].heart > WsHeartbeatTimeout

\* Fault: checkHeartbeats has the session and reports it.
WsReportExpired(c) == ws[c].onClose + 1

\* The reports of a session once checkHeartbeats expired it: sd.session is nil,
\* so the call of onClose is for no session.
WsReport(c) == ws[c].onClose

\* checkHeartbeats, all of it under heartMu.
WsCheckHeartbeats ==
    /\ wsLoop = "select" /\ \E c \in WsConns : WsExpired(c)
    /\ ws' = [c \in WsConns |->
                IF WsExpired(c) THEN [ws[c] EXCEPT !.closed = TRUE, !.known = FALSE,
                                                   !.onClose = WsReport(c)]
                                ELSE ws[c]]
    /\ UNCHANGED <<wsConnections, wsLoop, wsStop>>

WsLoopExits ==
    /\ wsLoop = "select" /\ wsStop # "running"
    /\ wsLoop' = "exited"
    /\ UNCHANGED <<ws, wsConnections, wsStop>>

WsStopTo(from, to) ==
    wsStop = from /\ wsStop' = to /\ UNCHANGED <<ws, wsConnections, wsLoop>>

\* stopCh and the listener are closed; serveHTTP returns with the listener.
WsStopBegins == WsStopTo("running", "wg")

\* s.wg.Wait.
WsLoopsDone == wsLoop = "exited" /\ WsStopTo("wg", "msgWg")

\* s.msgWg's counter is zero.
WsNoWorkers == \A c \in WsConns : ws[c].worker \in {"none", "exited"}

\* s.msgWg.Wait, and Stop returns.
WsWorkersDone == WsNoWorkers /\ WsStopTo("msgWg", "stopped")

-----------------------------------------------------------------------------
WsServerStep(c) ==
    \/ WsTest(c) \/ WsOpen(c) \/ WsReadFails(c) \/ WsLeave(c) \/ WsDiscount(c)
    \/ \E kind \in {"text", "garbled", "message"} : WsRead(c, kind)

WsWorkerStep(c) ==
    WsTake(c) \/ WsWorkerExits(c) \/ \E answered \in BOOLEAN : WsHandle(c, answered)

WsStopStep == WsLoopExits \/ WsLoopsDone \/ WsWorkersDone

WsNext ==
    \/ \E c \in WsConns : \/ WsAccept(c) \/ WsUpgrade(c) \/ WsSend(c) \/ WsHangup(c)
                          \/ WsServerStep(c) \/ WsWorkerStep(c)
    \/ WsTick \/ WsCheckHeartbeats \/ WsStopBegins \/ WsStopStep

-----------------------------------------------------------------------------
\* Every session is reported to onClose exactly once, by its reader, also when
\* checkHeartbeats expired it first.
WsClosedOnce ==
    \A c \in WsConns : ws[c].onClose = IF ws[c].at \in {"left", "done"} THEN 1 ELSE 0

\* Stop returns although readers are in no wait group: each ends at its deadline
\* and closes the channel its worker waits for.
WsStopReturns == wsStop # "running" ~> wsStop = "stopped"
=============================================================================
