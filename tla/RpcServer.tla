----------------------------- MODULE RpcServer ------------------------------
(***************************************************************************)
(* rpcServer of rpc/server.go around its connections: acceptLoop, the      *)
(* semaphore that handleConn takes first, the points where it looks at the *)
(* context, and Stop, which closes the listener but no connection.  What   *)
(* one connection carries is the subject of RpcStream.                     *)
(***************************************************************************)
EXTENDS Integers, FiniteSets

CONSTANTS
    Peers,      \* connections made to the server, each once
    Slots       \* capacity of s.semaphore (1000 in the code)

ASSUME RpcServerAssumption == Slots \in Nat \ {0}

VARIABLES
    peer,       \* connection -> "none", "dialled", "accepted" (waits for a slot),
                \* "top", "read", "handle", "respond" or "done" (handleConn has returned)
    acceptor,   \* acceptLoop: "accept" or "exited"
    srvStop     \* Stop: "running", "marked" (running, context, stopCh), "waiting"
                \* (listener closed), "stopped"

srvVars == <<peer, acceptor, srvStop>>

SrvInit ==
    /\ peer = [c \in Peers |-> "none"]
    /\ acceptor = "accept" /\ srvStop = "running"

cancelledCtx == srvStop # "running"

\* Connections that hold a slot.
Serving == {c \in Peers : peer[c] \in {"top", "read", "handle", "respond"}}

Moves(c, from, to) ==
    peer[c] = from /\ peer' = [peer EXCEPT ![c] = to] /\ UNCHANGED <<acceptor, srvStop>>

DialServer(c) == srvStop \in {"running", "marked"} /\ Moves(c, "none", "dialled")

\* Accept returns a connection; the wait group grows before handleConn starts.
SrvAccept(c) ==
    acceptor = "accept" /\ srvStop \in {"running", "marked"} /\ Moves(c, "dialled", "accepted")

\* Accept fails because the listener is closed (other failures are retried).
AcceptorExits ==
    /\ acceptor = "accept" /\ srvStop \in {"waiting", "stopped"}
    /\ acceptor' = "exited"
    /\ UNCHANGED <<peer, srvStop>>

AcquireSlot(c) == Cardinality(Serving) < Slots /\ Moves(c, "accepted", "top")

GiveUpSlot(c) == cancelledCtx /\ Moves(c, "accepted", "done")

\* The top of the loop.
ConnTop(c) == Moves(c, "top", IF cancelledCtx THEN "done" ELSE "read")

\* A request's header has arrived; the context is looked at before its body.
SrvRequest(c) == Moves(c, "read", IF cancelledCtx THEN "done" ELSE "handle")

\* 30 s without a request, the peer is gone, or the request is too large.
SrvReadFails(c) == Moves(c, "read", "done")

\* handleRequest has a response (or the body is no request, and none is sent).
SrvHandled(c) == Moves(c, "handle", "respond") \/ Moves(c, "handle", "top")

\* sendResponse's write has returned.  It has no deadline: while the peer does not
\* read it need not return.
SrvResponded(c) == Moves(c, "respond", "top")

\* running, the context and stopCh ...
StopServer == srvStop = "running" /\ srvStop' = "marked" /\ UNCHANGED <<peer, acceptor>>

\* ... and the listener.
CloseListener == srvStop = "marked" /\ srvStop' = "waiting" /\ UNCHANGED <<peer, acceptor>>

\* The counter of s.wg is zero.
AllSignedOff == acceptor = "exited" /\ \A c \in Peers : peer[c] \in {"none", "dialled", "done"}

\* s.wg.Wait, and Stop returns.
ServerStopped ==
    /\ srvStop = "waiting" /\ AllSignedOff
    /\ srvStop' = "stopped"
    /\ UNCHANGED <<peer, acceptor>>

PeerStep(c) ==
    \/ AcquireSlot(c) \/ GiveUpSlot(c) \/ ConnTop(c) \/ SrvRequest(c) \/ SrvReadFails(c)
    \/ SrvHandled(c)

SrvStopStep == CloseListener \/ AcceptorExits \/ ServerStopped

SrvNext ==
    \/ \E c \in Peers : DialServer(c) \/ SrvAccept(c) \/ PeerStep(c) \/ SrvResponded(c)
    \/ StopServer \/ SrvStopStep

\* Stop has been called and has not returned.
ServerStopping == srvStop \notin {"running", "stopped"}

\* A response is being written.
Responding == \E c \in Peers : peer[c] = "respond"
=============================================================================
