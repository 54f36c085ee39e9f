------------------------------ MODULE RpcStream ------------------------------
(***************************************************************************)
(* One pooled RPC connection from end to end: the clientConn side          *)
(* (rpc/client.go: InvokeCtx, Notify, Close) and the per-connection loop   *)
(* of rpcServer (rpc/server.go: handleConn, handleRequest, sendResponse).  *)
(*                                                                         *)
(* The connection is lent to one caller at a time (PoolClient, NoSharing). *)
(* Requests and responses are numbered; InvokeCtx takes the next response  *)
(* on the stream for its own and never compares the numbers.               *)
(***************************************************************************)
EXTENDS Integers, Sequences

CONSTANTS
    Callers,      \* goroutines that borrow the connection in turn
    Nobody,       \* the connection is in the pool
    MaxSeq,       \* bound: requests sent
    MaxTimeouts,  \* bound: reads that end at their deadline or by cancellation
    MaxNotifies   \* bound: Notify calls

ASSUME StreamAssumption ==
    /\ Nobody \notin Callers
    /\ MaxSeq \in Nat /\ MaxTimeouts \in Nat /\ MaxNotifies \in Nat

VARIABLES
    holder,     \* the caller that holds the clientConn
    cur,        \* number of the request the holder waits for, 0 if none
    got,        \* number on the last response an Invoke returned, 0 if none
    seq,        \* p.seq
    toServer,   \* requests on the stream
    handling,   \* request inside handleRequest, 0 if none
    toClient,   \* responses on the stream
    serverUp,   \* handleConn has not returned
    garbled,    \* a response was read in part: the frame boundary is lost
    timeouts, notifies,   \* how often, for the bounds
    dirty       \* history: a Notify or a failed call used the connection

streamVars == <<holder, cur, got, seq, toServer, handling, toClient, serverUp, garbled,
          timeouts, notifies, dirty>>

StreamInit ==
    /\ holder = Nobody /\ cur = 0 /\ got = [c \in Callers |-> 0]
    /\ seq = 0
    /\ toServer = <<>> /\ handling = 0 /\ toClient = <<>>
    /\ serverUp = TRUE /\ garbled = FALSE
    /\ timeouts = 0 /\ notifies = 0 /\ dirty = FALSE

-----------------------------------------------------------------------------
\* GetClient: the connection is handed out whatever happened on it before.
Borrow(c) ==
    /\ holder = Nobody
    /\ holder' = c
    /\ got' = [got EXCEPT ![c] = 0]
    /\ UNCHANGED <<cur, seq, toServer, handling, toClient, serverUp, garbled,
                   timeouts, notifies, dirty>>

\* clientConn.Close puts it back, broken or not.
GiveBack ==
    /\ holder # Nobody /\ cur = 0
    /\ holder' = Nobody
    /\ UNCHANGED <<cur, got, seq, toServer, handling, toClient, serverUp, garbled,
                   timeouts, notifies, dirty>>

\* The frame is written; once the server has closed, it is lost.
WriteFrame ==
    /\ seq < MaxSeq
    /\ seq' = seq + 1
    /\ toServer' = IF serverUp THEN Append(toServer, seq + 1) ELSE toServer
    /\ UNCHANGED <<holder, handling, toClient, serverUp, garbled, timeouts>>

\* InvokeCtx up to the write.
Invoke ==
    /\ holder # Nobody /\ cur = 0
    /\ WriteFrame
    /\ cur' = seq + 1
    /\ got' = [got EXCEPT ![holder] = 0]
    /\ UNCHANGED <<notifies, dirty>>

\* Notify writes and does not read.
StreamNotify ==
    /\ holder # Nobody /\ cur = 0 /\ notifies < MaxNotifies
    /\ WriteFrame
    /\ notifies' = notifies + 1
    /\ dirty' = TRUE
    /\ UNCHANGED <<cur, got>>

\* InvokeCtx reads the next response, whatever its Seq, and returns it.
ReadReply ==
    /\ cur # 0 /\ toClient # <<>> /\ ~garbled
    /\ got' = [got EXCEPT ![holder] = Head(toClient)]
    /\ toClient' = Tail(toClient)
    /\ cur' = 0
    /\ UNCHANGED <<holder, seq, toServer, handling, serverUp, garbled, timeouts, notifies, dirty>>

\* InvokeCtx returns an error and leaves the stream as it is: the deadline or
\* the caller's context ended the read (perhaps inside a frame) ...
ReadTimesOut ==
    /\ cur # 0 /\ timeouts < MaxTimeouts
    /\ cur' = 0
    /\ timeouts' = timeouts + 1
    /\ dirty' = TRUE
    /\ garbled' \in IF toClient = <<>> THEN {garbled} ELSE {garbled, TRUE}
    /\ UNCHANGED <<holder, got, seq, toServer, handling, toClient, serverUp, notifies>>

\* ... or the server has closed, or the bytes are no frame any more.
StreamReadFails ==
    /\ cur # 0
    /\ garbled \/ (~serverUp /\ toClient = <<>>)
    /\ cur' = 0
    /\ dirty' = TRUE
    /\ UNCHANGED <<holder, got, seq, toServer, handling, toClient, serverUp, garbled,
                   timeouts, notifies>>

-----------------------------------------------------------------------------
\* handleConn: the next request, one at a time.
ServerRead ==
    /\ serverUp /\ handling = 0 /\ toServer # <<>>
    /\ handling' = Head(toServer)
    /\ toServer' = Tail(toServer)
    /\ UNCHANGED <<holder, cur, got, seq, toClient, serverUp, garbled, timeouts, notifies, dirty>>

\* Fault: the error path falls through and responds again.
RespondTwice ==
    /\ serverUp /\ handling # 0
    /\ toClient' = toClient \o <<handling, handling>>
    /\ handling' = 0
    /\ UNCHANGED <<holder, cur, got, seq, toServer, serverUp, garbled, timeouts, notifies, dirty>>

\* handleRequest: exactly one response per request, on every path (service or
\* method unknown, bad arguments, handler error or panic, result), and for a
\* Notify as well: req.Type is never looked at.
Respond ==
    /\ serverUp /\ handling # 0
    /\ toClient' = Append(toClient, handling)
    /\ handling' = 0
    /\ UNCHANGED <<holder, cur, got, seq, toServer, serverUp, garbled, timeouts, notifies, dirty>>

\* sendResponse could not marshal the reply: nothing is sent.
RespondUnencodable ==
    /\ serverUp /\ handling # 0
    /\ handling' = 0
    /\ UNCHANGED <<holder, cur, got, seq, toServer, toClient, serverUp, garbled,
                   timeouts, notifies, dirty>>

\* handleConn returns: 30 s without a request, or Stop.  The response of a
\* request being handled has been sent by then.
ServerCloses ==
    /\ serverUp /\ handling = 0
    /\ serverUp' = FALSE
    /\ toServer' = <<>>
    /\ UNCHANGED <<holder, cur, got, seq, handling, toClient, garbled, timeouts, notifies, dirty>>

StreamNext ==
    \/ \E c \in Callers : Borrow(c)
    \/ GiveBack \/ Invoke \/ StreamNotify \/ ReadReply \/ ReadTimesOut \/ StreamReadFails
    \/ ServerRead \/ Respond \/ RespondUnencodable \/ ServerCloses

StreamSpec == StreamInit /\ [][StreamNext]_streamVars

-----------------------------------------------------------------------------
\* Types of both ends of the connection.
StreamTypeOK ==
    /\ holder \in Callers \cup {Nobody}
    /\ cur \in 0..MaxSeq
    /\ got \in [Callers -> 0..MaxSeq]
    /\ seq \in 0..MaxSeq
    /\ toServer \in Seq(1..MaxSeq)
    /\ handling \in 0..MaxSeq
    /\ toClient \in Seq(1..MaxSeq)
    /\ serverUp \in BOOLEAN /\ garbled \in BOOLEAN /\ dirty \in BOOLEAN
    /\ timeouts \in 0..MaxTimeouts /\ notifies \in 0..MaxNotifies

\* On such a connection a call returns the response to its own request.
CleanReplies ==
    [][(~dirty /\ cur # 0 /\ cur' = 0 /\ toClient' # toClient) => got'[holder] = cur]_streamVars

\* Every call that returns a response returns the one to its own request,
\* and not one of an earlier Notify or of another caller's call.
ReplyMatches ==
    [][(cur # 0 /\ cur' = 0 /\ toClient' # toClient) => got'[holder] = cur]_streamVars
=============================================================================
