---------------------------- MODULE TcpConnector ----------------------------
(***************************************************************************)
(* Server of connector/tcp_server.go: one accept loop, one handleConn      *)
(* goroutine and one message worker per connection, the heartbeat loop and *)
(* Stop.  A client, the network and time are the environment.  What a      *)
(* message says is left out but for what the connector does with it: a     *)
(* request is answered, a notification is not, a body that is no JSON is   *)
(* skipped, and a frame that overruns readBuf ends the connection.         *)
(* Forwarding is left out: Forward runs in a goroutine of its own, touches *)
(* nothing of the connector and never answers the client.                  *)
(***************************************************************************)
EXTENDS Integers, Sequences, FiniteSets

CONSTANTS
    Conns,              \* connections that clients may open, each once
    Blacklistable,      \* those from an address the operator may blacklist
    MaxConns,           \* opts.MaxConns
    ReadTimeout,        \* opts.ReadTimeout, in ticks
    HeartbeatTimeout,   \* opts.HeartbeatTimeout, in ticks
    ChanCap,            \* capacity of a session's msgCh (256 in the code)
    Kinds,              \* kinds of frames the clients send
    MaxMsgs             \* bound on the frames all clients send together

ASSUME ConstAssumption ==
    /\ IsFiniteSet(Conns)
    /\ MaxConns \in Nat
    /\ ReadTimeout \in Nat \ {0}
    /\ HeartbeatTimeout \in Nat
    /\ ChanCap \in Nat \ {0}
    /\ MaxMsgs \in Nat
    /\ Kinds \subseteq {"request", "notify", "garbled", "huge"}

VARIABLES
    pc,             \* connection -> where it is on its way through handleConn
    connections,    \* s.connections
    sessions,       \* keys of s.sessions
    blackList,      \* s.blackList
    closed,         \* connections whose socket the server closed
    gone,           \* connections that the client closed or lost
    wire,           \* connection -> frames sent and not read yet
    readBuf,        \* connection -> frames read and not dispatched yet
    msgCh,          \* connection -> contents of the session's channel
    worker,         \* connection -> its processSessionMessages goroutine
    heart,          \* connection -> ticks since sessionData.heart, 0 without entry
    waited,         \* connection -> ticks since SetReadDeadline, 0 outside Read
    expired,        \* local of checkHeartbeats: removed, not closed yet
    acceptor,       \* the accept loop
    heartbeat,      \* the heartbeat loop
    stopper,        \* the caller of Stop
    sent,           \* number of frames sent
    replies         \* connection -> numbers of the requests answered

tableVars == <<connections, sessions, closed>>
clientVars == <<blackList, gone, sent>>
dataVars == <<wire, readBuf, msgCh, worker, replies>>
timeVars == <<heart, waited>>
loopVars == <<acceptor, heartbeat, expired, stopper>>
vars == <<pc, tableVars, clientVars, dataVars, timeVars, loopVars>>

Idle == [at |-> "idle"]
NotStarted == [at |-> "none"]
Exited == [at |-> "exited"]

Init ==
    /\ pc = [c \in Conns |-> "none"]
    /\ connections = 0
    /\ sessions = {} /\ blackList = {} /\ closed = {} /\ gone = {}
    /\ wire = [c \in Conns |-> <<>>]
    /\ readBuf = [c \in Conns |-> <<>>]
    /\ msgCh = [c \in Conns |-> <<>>]
    /\ worker = [c \in Conns |-> NotStarted]
    /\ heart = [c \in Conns |-> 0]
    /\ waited = [c \in Conns |-> 0]
    /\ expired = {}
    /\ acceptor = "accept" /\ heartbeat = "select" /\ stopper = "running"
    /\ sent = 0
    /\ replies = [c \in Conns |-> <<>>]

\* s.stopCh is closed.
Stopping == stopper # "running"

\* handleConn of c runs: it was counted and has not returned.
Served(c) == pc[c] \in {"spawned", "select", "reading", "dispatch",
                        "leaving", "closed"}

Goto(c, l) == pc' = [pc EXCEPT ![c] = l]

-----------------------------------------------------------------------------
(* Clients, the operator and time.                                         *)

Send(c, kind) ==
    /\ pc[c] \notin {"none", "refused", "done"} /\ c \notin gone \cup closed
    /\ sent < MaxMsgs
    /\ sent' = sent + 1
    /\ wire' = [wire EXCEPT ![c] = Append(@, [n |-> sent + 1, kind |-> kind])]
    /\ UNCHANGED <<pc, blackList, gone, readBuf, msgCh, worker, replies, timeVars, loopVars,
                   tableVars>>

Hangup(c) ==
    /\ pc[c] \notin {"none", "refused", "done"} /\ c \notin gone \cup closed
    /\ gone' = gone \cup {c}
    /\ UNCHANGED <<pc, blackList, sent, dataVars, timeVars, loopVars, tableVars>>

\* The application closes the session: Session.Close.
CloseSession(c) ==
    /\ c \in sessions \ closed
    /\ closed' = closed \cup {c}
    /\ UNCHANGED <<pc, connections, sessions, clientVars, dataVars, timeVars, loopVars>>

\* The operator changes the list before the connection is looked up in it.
AddToBlackList(c) ==
    /\ c \in Blacklistable \ blackList /\ pc[c] \in {"none", "spawned"}
    /\ blackList' = blackList \cup {c}
    /\ UNCHANGED <<pc, gone, sent, tableVars, dataVars, timeVars, loopVars>>

RemoveFromBlackList(c) ==
    /\ c \in blackList /\ pc[c] \in {"none", "spawned"}
    /\ blackList' = blackList \ {c}
    /\ UNCHANGED <<pc, gone, sent, tableVars, dataVars, timeVars, loopVars>>

Older(age, limit) == IF age < limit THEN age + 1 ELSE age

\* Time passes: for the session's clock up to just over the heartbeat timeout,
\* for the read deadline only while the connection waits in Read.
Tick ==
    /\ heart' = [c \in Conns |->
                   IF c \in sessions THEN Older(heart[c], HeartbeatTimeout + 1) ELSE 0]
    /\ waited' = [c \in Conns |->
                    IF pc[c] = "reading" THEN Older(waited[c], ReadTimeout) ELSE 0]
    /\ <<heart, waited>>' # <<heart, waited>>
    /\ UNCHANGED <<pc, clientVars, dataVars, loopVars, tableVars>>

-----------------------------------------------------------------------------
(* The accept loop.                                                        *)

\* Stop has closed stopCh and the listener: Accept fails and the loop returns.
AcceptExits ==
    /\ acceptor = "accept" /\ Stopping
    /\ acceptor' = "exited"
    /\ UNCHANGED <<pc, heartbeat, expired, stopper, tableVars, clientVars, dataVars, timeVars>>

\* Fault: the limit is off by one.
FullLate == MaxConns > 0 /\ connections > MaxConns

\* acceptLoop's test of MaxConns; 0 is no limit.
Full == MaxConns > 0 /\ connections >= MaxConns

\* An accepted connection is counted and gets its handleConn goroutine.
Admit(c) ==
    /\ acceptor = "accept" /\ ~Stopping
    /\ pc[c] = "none" /\ ~Full
    /\ connections' = connections + 1
    /\ Goto(c, "spawned")
    /\ UNCHANGED <<sessions, closed, clientVars, dataVars, timeVars, loopVars>>

\* An accepted connection is over the limit and closed at once.
Refuse(c) ==
    /\ acceptor = "accept" /\ ~Stopping
    /\ pc[c] = "none" /\ Full
    /\ closed' = closed \cup {c}
    /\ Goto(c, "refused")
    /\ UNCHANGED <<connections, sessions, clientVars, dataVars, timeVars, loopVars>>

AcceptLoop == AcceptExits \/ \E c \in Conns : Admit(c) \/ Refuse(c)

-----------------------------------------------------------------------------
(* handleConn and readLoop.                                                *)

\* handleConn returns for a blacklisted address, before the deferred
\* decrement of s.connections is set up.
TurnAway(c) ==
    /\ pc[c] = "spawned" /\ c \in blackList
    /\ closed' = closed \cup {c}
    /\ Goto(c, "done")
    /\ UNCHANGED <<connections, sessions, clientVars, dataVars, timeVars, loopVars>>

\* The session is entered in s.sessions and its worker is started; onConnect and
\* SendSchema run before the connection's next step.
Open(c) ==
    /\ pc[c] = "spawned" /\ c \notin blackList
    /\ sessions' = sessions \cup {c}
    /\ heart' = [heart EXCEPT ![c] = 0]
    /\ worker' = [worker EXCEPT ![c] = Idle]
    /\ Goto(c, "select")
    /\ UNCHANGED <<connections, closed, wire, readBuf, msgCh, waited, replies, clientVars,
                   loopVars>>

\* The top of readLoop: leave when stopped, else set the deadline and Read.
ReadSelect(c) ==
    /\ pc[c] = "select"
    /\ Goto(c, IF Stopping THEN "leaving" ELSE "reading")
    /\ UNCHANGED <<tableVars, clientVars, dataVars, timeVars, loopVars>>

\* updateSessionHeart (an expired session has no entry, and heart is 0).
Refreshed(c) == [heart EXCEPT ![c] = 0]

\* Read returns some frames.
Read(c) ==
    /\ pc[c] = "reading" /\ c \notin closed
    /\ \E k \in 1..Len(wire[c]) :
         /\ \A i \in 1..k : wire[c][i].kind # "huge"
         /\ readBuf' = [readBuf EXCEPT ![c] = SubSeq(wire[c], 1, k)]
         /\ wire' = [wire EXCEPT ![c] = SubSeq(wire[c], k + 1, Len(wire[c]))]
    /\ heart' = Refreshed(c)
    /\ waited' = [waited EXCEPT ![c] = 0]
    /\ Goto(c, "dispatch")
    /\ UNCHANGED <<msgCh, worker, replies, tableVars, clientVars, loopVars>>

\* Read returns the end of a frame that overruns readBuf: readLoop returns.
Overrun(c) ==
    /\ pc[c] = "reading" /\ c \notin closed
    /\ wire[c] # <<>> /\ Head(wire[c]).kind = "huge"
    /\ heart' = Refreshed(c)
    /\ waited' = [waited EXCEPT ![c] = 0]
    /\ Goto(c, "leaving")
    /\ UNCHANGED <<tableVars, clientVars, dataVars, loopVars>>

\* Read fails: deadline, end of stream, or socket closed.
ReadFails(c) ==
    /\ pc[c] = "reading"
    /\ \/ waited[c] >= ReadTimeout
       \/ c \in gone /\ wire[c] = <<>>
       \/ c \in closed
    /\ waited' = [waited EXCEPT ![c] = 0]
    /\ Goto(c, "leaving")
    /\ UNCHANGED <<heart, tableVars, clientVars, dataVars, loopVars>>

\* What the channel holds after dispatchMessages tried to send m.
Offer(ch, m) == IF m.kind # "garbled" /\ Len(ch) < ChanCap THEN Append(ch, m) ELSE ch

\* One frame of dispatchMessages; a full channel drops the message.
Dispatch(c) ==
    /\ pc[c] = "dispatch" /\ readBuf[c] # <<>>
    /\ msgCh' = [msgCh EXCEPT ![c] = Offer(@, Head(readBuf[c]))]
    /\ readBuf' = [readBuf EXCEPT ![c] = Tail(@)]
    /\ UNCHANGED <<pc, wire, worker, replies, clientVars, timeVars, loopVars, tableVars>>

DispatchDone(c) ==
    /\ pc[c] = "dispatch" /\ readBuf[c] = <<>>
    /\ Goto(c, "select")
    /\ UNCHANGED <<clientVars, dataVars, timeVars, loopVars, tableVars>>

\* readLoop's deferred function: removeSession, sconn.Close, close(msgCh).
Leave(c) ==
    /\ pc[c] = "leaving"
    /\ sessions' = sessions \ {c}
    /\ closed' = closed \cup {c}
    /\ readBuf' = [readBuf EXCEPT ![c] = <<>>]
    /\ wire' = [wire EXCEPT ![c] = <<>>]
    /\ heart' = [heart EXCEPT ![c] = 0]
    /\ Goto(c, "closed")
    /\ UNCHANGED <<connections, msgCh, worker, replies, waited, clientVars, loopVars>>

\* It calls onClose, and handleConn's deferred decrement follows.
Return(c) ==
    /\ pc[c] = "closed"
    /\ connections' = connections - 1
    /\ Goto(c, "done")
    /\ UNCHANGED <<sessions, closed, clientVars, dataVars, timeVars, loopVars>>

HandleConn(c) ==
    \/ TurnAway(c) \/ Open(c)
    \/ ReadSelect(c) \/ Read(c) \/ Overrun(c) \/ ReadFails(c) \/ Dispatch(c) \/ DispatchDone(c)
    \/ Leave(c) \/ Return(c)

-----------------------------------------------------------------------------
(* processSessionMessages, one goroutine per session.                      *)

\* Fault: nobody closes the channel.
ChanForgotten(c) == FALSE

\* readLoop has closed msgCh.
ChanClosed(c) == pc[c] \in {"closed", "done"}

\* The worker receives the next message.
Take(c) ==
    /\ worker[c] = Idle /\ msgCh[c] # <<>>
    /\ worker' = [worker EXCEPT ![c] = [at |-> "busy", msg |-> Head(msgCh[c])]]
    /\ msgCh' = [msgCh EXCEPT ![c] = Tail(@)]
    /\ UNCHANGED <<pc, wire, readBuf, replies, clientVars, timeVars, loopVars, tableVars>>

\* Fault: the message may be handled again after its response was sent.
HandleTwice(c) ==
    /\ worker[c].at = "busy"
    /\ worker' \in {worker, [worker EXCEPT ![c] = Idle]}
    /\ \/ UNCHANGED replies
       \/ /\ worker[c].msg.kind = "request" /\ c \notin closed \cup gone
          /\ replies' = [replies EXCEPT ![c] = Append(@, worker[c].msg.n)]
    /\ UNCHANGED <<pc, wire, readBuf, msgCh, clientVars, timeVars, loopVars, tableVars>>

\* handleMessage: a request is answered when the pipeline or a handler has a
\* response, on a connection that still works; a handler's error is answered
\* too.  A request that nobody handles stays unanswered.
HandleMessage(c) ==
    /\ worker[c].at = "busy"
    /\ worker' = [worker EXCEPT ![c] = Idle]
    /\ \/ UNCHANGED replies
       \/ /\ worker[c].msg.kind = "request" /\ c \notin closed \cup gone
          /\ replies' = [replies EXCEPT ![c] = Append(@, worker[c].msg.n)]
    /\ UNCHANGED <<pc, wire, readBuf, msgCh, clientVars, timeVars, loopVars, tableVars>>

\* The channel is closed and empty: msgWg.Done.
WorkerExits(c) ==
    /\ worker[c] = Idle /\ msgCh[c] = <<>> /\ ChanClosed(c)
    /\ worker' = [worker EXCEPT ![c] = Exited]
    /\ UNCHANGED <<pc, wire, readBuf, msgCh, replies, clientVars, timeVars, loopVars,
                   tableVars>>

ProcessSessionMessages(c) == Take(c) \/ HandleMessage(c) \/ WorkerExits(c)

-----------------------------------------------------------------------------
(* The heartbeat loop.                                                     *)

Overdue == {c \in sessions : heart[c] > HeartbeatTimeout}

\* checkHeartbeats under heartMu: the overdue sessions leave the map.
CheckHeartbeats ==
    /\ heartbeat = "select"
    /\ Overdue # {}
    /\ expired' = Overdue
    /\ sessions' = sessions \ Overdue
    /\ heart' = [c \in Conns |-> IF c \in Overdue THEN 0 ELSE heart[c]]
    /\ heartbeat' = "closing"
    /\ UNCHANGED <<pc, connections, closed, waited, acceptor, stopper, clientVars, dataVars>>

\* The connections checkHeartbeats closes after the unlock.
ToClose == expired

CloseExpired ==
    /\ heartbeat = "closing"
    /\ closed' = closed \cup ToClose
    /\ expired' = {}
    /\ heartbeat' = "select"
    /\ UNCHANGED <<pc, connections, sessions, acceptor, stopper, clientVars, dataVars,
                   timeVars>>

HeartbeatExits ==
    /\ heartbeat = "select" /\ Stopping
    /\ heartbeat' = "exited"
    /\ UNCHANGED <<pc, expired, acceptor, stopper, clientVars, dataVars, timeVars, tableVars>>

HeartbeatLoop == CheckHeartbeats \/ CloseExpired \/ HeartbeatExits

-----------------------------------------------------------------------------
(* Stop, called once.                                                      *)

\* Stop closes stopCh and the listener.
StopBegins ==
    /\ stopper = "running"
    /\ stopper' = "wg"
    /\ UNCHANGED <<pc, acceptor, heartbeat, expired, tableVars, clientVars, dataVars, timeVars>>

\* s.wg.Wait: the accept and the heartbeat loop have returned.
LoopsDone ==
    /\ stopper = "wg" /\ acceptor = "exited" /\ heartbeat = "exited"
    /\ stopper' = "msgWg"
    /\ UNCHANGED <<pc, expired, acceptor, heartbeat, clientVars, dataVars, timeVars,
                   tableVars>>

\* Fault: Stop does not wait for the workers.
AnyWorkers == TRUE

\* s.msgWg's counter is zero.
NoWorkers == \A c \in Conns : worker[c].at \in {"none", "exited"}

\* s.msgWg.Wait, and Stop returns.
WorkersDone ==
    /\ stopper = "msgWg" /\ NoWorkers
    /\ stopper' = "stopped"
    /\ UNCHANGED <<pc, expired, acceptor, heartbeat, clientVars, dataVars, timeVars,
                   tableVars>>

Stop == LoopsDone \/ WorkersDone

Next ==
    \/ \E c \in Conns : Hangup(c) \/ CloseSession(c) \/ AddToBlackList(c) \/ RemoveFromBlackList(c)
    \/ \E c \in Conns, kind \in Kinds : Send(c, kind)
    \/ Tick
    \/ AcceptLoop
    \/ \E c \in Conns : HandleConn(c) \/ ProcessSessionMessages(c)
    \/ HeartbeatLoop
    \/ StopBegins \/ Stop

\* Every goroutine runs on, callbacks and handlers return, and time passes.
Fairness ==
    /\ WF_vars(Tick) /\ WF_vars(AcceptLoop) /\ WF_vars(HeartbeatLoop) /\ WF_vars(Stop)
    /\ \A c \in Conns : WF_vars(HandleConn(c)) /\ WF_vars(ProcessSessionMessages(c))

Spec == Init /\ [][Next]_vars
FairSpec == Spec /\ Fairness

-----------------------------------------------------------------------------
Frames == [n : 1..MaxMsgs, kind : Kinds]

\* Types of the connector's fields.
TypeOK ==
    /\ pc \in [Conns -> {"none", "refused", "spawned", "select",
                         "reading", "dispatch", "leaving", "closed", "done"}]
    /\ connections \in Nat
    /\ sessions \subseteq Conns /\ closed \subseteq Conns
    /\ blackList \subseteq Conns /\ gone \subseteq Conns /\ sent \in 0..MaxMsgs
    /\ wire \in [Conns -> Seq(Frames)]
    /\ readBuf \in [Conns -> Seq(Frames)]
    /\ msgCh \in [Conns -> Seq(Frames)] /\ \A c \in Conns : Len(msgCh[c]) <= ChanCap
    /\ worker \in [Conns -> [at : {"none", "idle", "exited"}] \cup [at : {"busy"}, msg : Frames]]
    /\ replies \in [Conns -> Seq(1..MaxMsgs)]
    /\ heart \in [Conns -> 0..HeartbeatTimeout + 1]
    /\ waited \in [Conns -> 0..ReadTimeout]
    /\ acceptor \in {"accept", "exited"}
    /\ heartbeat \in {"select", "closing", "exited"}
    /\ expired \subseteq Conns
    /\ stopper \in {"running", "wg", "msgWg", "stopped"}

\* MaxConns is enforced: s.connections never falls behind the connections that
\* are being served, and those never exceed the limit.
AdmissionBounded ==
    /\ Cardinality({c \in Conns : Served(c)}) <= connections
    /\ MaxConns > 0 => connections <= MaxConns

\* A connection that is read but whose session checkHeartbeats removed from
\* s.sessions is closed or about to be: none is read on without a clock.
NoUntimedReader ==
    \A c \in Conns : pc[c] \in {"select", "reading", "dispatch"} /\ c \notin sessions
                        => c \in expired \cup closed

\* Once Stop has returned no handler runs and none will: no worker holds or has
\* a message, although handleConn goroutines of late connections may go on.
QuietAfterStop ==
    stopper = "stopped" => \A c \in Conns : worker[c].at # "busy" /\ msgCh[c] = <<>>

\* A client gets the replies to its requests in the order of the requests, and
\* no request is answered twice, whatever is dropped in between.
RepliesInOrder ==
    \A c \in Conns : \A i, j \in DOMAIN replies[c] : i < j => replies[c][i] < replies[c][j]

\* Stop returns, also while clients keep sending or say nothing.
StopReturns == Stopping ~> stopper = "stopped"

\* A connection is refused only when MaxConns connections are being served.
RefusedOnlyWhenFull ==
    [][\A c \in Conns : pc[c] = "none" /\ pc'[c] = "refused"
          => Cardinality({d \in Conns : Served(d)}) >= MaxConns]_vars
=============================================================================
