------------------------------ MODULE GoClient ------------------------------
(***************************************************************************)
(* Client of client/go/client.go over a stream protocol (TCP or            *)
(* WebSocket): requests with their timers, the read and write loops that   *)
(* every (re)connection starts, the heartbeat and reconnect loops, and     *)
(* Disconnect.  encode does not put the sequence number of a request into  *)
(* the frame, so the number a response names is the server's choice.  A    *)
(* request's timeout is longer than the few instructions between starting  *)
(* the timer and storing the entry in pending.                             *)
(***************************************************************************)
EXTENDS Integers, Sequences

CONSTANTS
    Requests,       \* calls of Request, each made once
    Notice,         \* a heartbeat in the write channel
    MaxDials,       \* bound on the connections made, the first one included
    WriteCap,       \* capacity of writeCh (256 in the code)
    MaxAttempts     \* opts.MaxReconnectAttempts

ASSUME GoClientAssumption ==
    /\ Notice \notin Requests
    /\ MaxDials \in Nat \ {0} /\ WriteCap \in Nat /\ MaxAttempts \in Nat

Dials == 1..MaxDials

VARIABLES
    req,        \* request -> its call, timer and channels
    pendings,   \* keys of c.pending
    writeCh,    \* c.writeCh
    dials,      \* connections made so far
    conn,       \* c.conn, 0 for nil
    alive,      \* connections not closed by either side
    connected,  \* c.connected
    reader,     \* connection -> the readLoop started with it
    writers,    \* number of writeLoops
    reconnect,  \* reconnectLoop: "wait", "try", "dial" or "exited"
    attempt,    \* its attempt
    signal,     \* len(c.reconnectCh)
    hanging,    \* Disconnect: "no", "marked" (closed and doneCh), "waiting"
    heartbeat,  \* heartbeatLoop runs
    wg          \* the counter of c.wg

goVars == <<req, pendings, writeCh, dials, conn, alive, connected, reader,
            writers, reconnect, attempt, signal, hanging, heartbeat, wg>>

\* Connect has succeeded.
GoInit ==
    /\ req = [r \in Requests |->
                [at |-> "idle", timer |-> FALSE, resultCh |-> 0, errCh |-> 0]]
    /\ pendings = {} /\ writeCh = <<>>
    /\ dials = 1 /\ conn = 1 /\ alive = {1} /\ connected = TRUE
    /\ reader = [d \in Dials |-> [at |-> IF d = 1 THEN "top" ELSE "none",
                                  conn |-> 0, visit |-> {}, loaded |-> {}]]
    /\ writers = 1 /\ reconnect = "wait" /\ attempt = 0 /\ signal = 0
    /\ hanging = "no" /\ heartbeat = TRUE /\ wg = 4

closed == hanging # "no"

-----------------------------------------------------------------------------
(* RequestWithTimeout.                                                     *)

\* The connected test, the timer and the entry.
Request(r) ==
    /\ req[r].at = "idle"
    /\ IF connected
         THEN /\ req' = [req EXCEPT ![r].at = "stored", ![r].timer = TRUE]
              /\ pendings' = pendings \cup {r}
         ELSE /\ req' = [req EXCEPT ![r].at = "returned"]
              /\ UNCHANGED pendings
    /\ UNCHANGED <<writeCh, dials, conn, alive, connected, reader, writers,
                   reconnect, attempt, signal, hanging, heartbeat, wg>>

\* The message enters the write channel, or 100 ms pass with the channel full.
Enqueue(r) ==
    /\ req[r].at = "stored"
    /\ IF Len(writeCh) < WriteCap
         THEN /\ writeCh' = Append(writeCh, r)
              /\ req' = [req EXCEPT ![r].at = "waiting"]
              /\ UNCHANGED pendings
         ELSE /\ req' = [req EXCEPT ![r].at = "returned", ![r].timer = FALSE]
              /\ pendings' = pendings \ {r}
              /\ UNCHANGED writeCh
    /\ UNCHANGED <<dials, conn, alive, connected, reader, writers, reconnect,
                   attempt, signal, hanging, heartbeat, wg>>

\* The timer's function: LoadAndDelete decides whether it rejects the request.
\* (If errCh is full the function blocks, and nobody waits for it.)
Timeout(r) ==
    /\ req[r].timer
    /\ req' = [req EXCEPT ![r].timer = FALSE,
                          ![r].errCh = IF r \in pendings THEN 1 ELSE @]
    /\ pendings' = pendings \ {r}
    /\ UNCHANGED <<writeCh, dials, conn, alive, connected, reader, writers, reconnect,
                   attempt, signal, hanging, heartbeat, wg>>

\* The caller takes a result or an error.
Return(r) ==
    /\ req[r].at = "waiting"
    /\ \/ req[r].resultCh > 0 /\ req' = [req EXCEPT ![r].at = "returned", ![r].resultCh = @ - 1]
       \/ req[r].errCh > 0 /\ req' = [req EXCEPT ![r].at = "returned", ![r].errCh = @ - 1]
    /\ UNCHANGED <<pendings, writeCh, dials, conn, alive, connected, reader, writers,
                   reconnect, attempt, signal, hanging, heartbeat, wg>>

-----------------------------------------------------------------------------
(* writeLoop and heartbeatLoop.                                            *)

\* One of the writeLoops takes a message: it is written, dropped for want of a
\* connection or lost with a dead one, unless the write fails, which ends the loop.
Write ==
    /\ writers > 0 /\ writeCh # <<>>
    /\ writeCh' = Tail(writeCh)
    /\ \/ UNCHANGED <<connected, writers, wg>>
       \/ /\ conn # 0 /\ conn \notin alive
          /\ connected' = FALSE /\ writers' = writers - 1 /\ wg' = wg - 1
    /\ UNCHANGED <<req, pendings, dials, conn, alive, reader, reconnect, attempt, signal,
                   hanging, heartbeat>>

WriterExits ==
    /\ writers > 0 /\ closed
    /\ writers' = writers - 1 /\ wg' = wg - 1
    /\ UNCHANGED <<req, pendings, writeCh, dials, conn, alive, connected, reader,
                   reconnect, attempt, signal, hanging, heartbeat>>

\* The ticker: Notify, if there is room.
Beat ==
    /\ heartbeat /\ connected /\ Len(writeCh) < WriteCap
    /\ writeCh' = Append(writeCh, Notice)
    /\ UNCHANGED <<req, pendings, dials, conn, alive, connected, reader, writers,
                   reconnect, attempt, signal, hanging, heartbeat, wg>>

\* heartbeatLoop returns without c.wg.Done.
BeatExits ==
    /\ heartbeat /\ closed
    /\ heartbeat' = FALSE
    /\ UNCHANGED <<req, pendings, writeCh, dials, conn, alive, connected, reader,
                   writers, reconnect, attempt, signal, hanging, wg>>

-----------------------------------------------------------------------------
(* readLoop; d is the connection it was started with.                      *)

ReaderUnchanged == UNCHANGED <<writeCh, dials, conn, alive, writers, reconnect, attempt,
                               hanging, heartbeat>>

\* It loads c.conn and ends if that is nil.
ReadTop(d) ==
    /\ reader[d].at = "top"
    /\ reader' = [reader EXCEPT ![d].at = IF conn = 0 THEN "exited" ELSE "read",
                                ![d].conn = conn]
    /\ wg' = IF conn = 0 THEN wg - 1 ELSE wg
    /\ UNCHANGED <<req, pendings, connected, signal>> /\ ReaderUnchanged

\* handlePacket of a response: LoadAndDelete decides again.
ReadAnswer(d, r) ==
    /\ reader[d].at = "read" /\ reader[d].conn \in alive
    /\ r \in pendings
    /\ pendings' = pendings \ {r}
    /\ req' = [req EXCEPT ![r].timer = FALSE, ![r].resultCh = 1]
    /\ reader' = [reader EXCEPT ![d].at = "top"]
    /\ UNCHANGED <<connected, signal, wg>> /\ ReaderUnchanged

\* The read fails: the reconnect loop is told, and cleanupPending ranges over
\* the entries.
ReadFails(d) ==
    /\ reader[d].at = "read" /\ reader[d].conn \notin alive
    /\ connected' = FALSE
    /\ signal' = IF closed \/ MaxAttempts = 0 THEN signal ELSE 1
    /\ reader' = [reader EXCEPT ![d].at = "clean", ![d].visit = pendings]
    /\ UNCHANGED <<req, pendings, wg>> /\ ReaderUnchanged

\* Range loads an entry that is still there ...
CleanLoad(d, r) ==
    /\ reader[d].at = "clean" /\ r \in reader[d].visit /\ reader[d].loaded = {}
    /\ reader' = [reader EXCEPT ![d].visit = @ \ {r}, ![d].loaded = {r} \cap pendings]
    /\ UNCHANGED <<req, pendings, connected, signal, wg>> /\ ReaderUnchanged

\* Fault: the timer is stopped and the entry deleted, but nobody is told.
CleanForgets(d, r) ==
    /\ reader[d].at = "clean" /\ r \in reader[d].loaded
    /\ req' = [req EXCEPT ![r].timer = FALSE]
    /\ pendings' = pendings \ {r}
    /\ reader' = [reader EXCEPT ![d].loaded = {}]
    /\ UNCHANGED <<connected, signal, wg>> /\ ReaderUnchanged

\* ... stops its timer ...
CleanStop(d, r) ==
    /\ reader[d].at = "clean" /\ r \in reader[d].loaded /\ req[r].timer
    /\ req' = [req EXCEPT ![r].timer = FALSE]
    /\ UNCHANGED <<pendings, reader, connected, signal, wg>> /\ ReaderUnchanged

\* ... and rejects and deletes it, once there is room in errCh.
CleanReject(d, r) ==
    /\ reader[d].at = "clean" /\ r \in reader[d].loaded /\ ~req[r].timer /\ req[r].errCh = 0
    /\ req' = [req EXCEPT ![r].errCh = 1]
    /\ pendings' = pendings \ {r}
    /\ reader' = [reader EXCEPT ![d].loaded = {}]
    /\ UNCHANGED <<connected, signal, wg>> /\ ReaderUnchanged

ReaderExits(d) ==
    /\ reader[d].at = "clean" /\ reader[d].visit = {} /\ reader[d].loaded = {}
    /\ reader' = [reader EXCEPT ![d].at = "exited"]
    /\ wg' = wg - 1
    /\ UNCHANGED <<req, pendings, connected, signal>> /\ ReaderUnchanged

-----------------------------------------------------------------------------
(* reconnectLoop, Disconnect, and the server that drops connections.       *)

LoopUnchanged == UNCHANGED <<req, pendings, writeCh, hanging, heartbeat>>

\* It is told to reconnect.
ReconnectTake ==
    /\ reconnect = "wait" /\ signal = 1
    /\ signal' = 0 /\ attempt' = 1
    /\ reconnect' = "try"
    /\ UNCHANGED <<dials, conn, alive, connected, reader, writers, wg>> /\ LoopUnchanged

\* doneCh is closed, or one of the tests of c.closed before a dial sees it.
ReconnectExits ==
    /\ reconnect \in {"wait", "try"} /\ closed
    /\ reconnect' = "exited" /\ wg' = wg - 1
    /\ UNCHANGED <<dials, conn, alive, connected, reader, writers, attempt, signal>>
    /\ LoopUnchanged

\* The last test of c.closed before doConnect.
ReconnectDial ==
    /\ reconnect = "try" /\ ~closed /\ dials < MaxDials
    /\ reconnect' = "dial"
    /\ UNCHANGED <<dials, conn, alive, connected, reader, writers, attempt, signal, wg>>
    /\ LoopUnchanged

DialFails ==
    /\ reconnect = "dial"
    /\ attempt' = attempt + 1
    /\ reconnect' = IF attempt < MaxAttempts THEN "try" ELSE "wait"
    /\ UNCHANGED <<dials, conn, alive, connected, reader, writers, signal, wg>> /\ LoopUnchanged

\* doConnect stores the connection, and two more loops are started.
DialSucceeds ==
    /\ reconnect = "dial"
    /\ dials' = dials + 1 /\ conn' = dials + 1 /\ alive' = alive \cup {dials + 1}
    /\ connected' = TRUE
    /\ reader' = [reader EXCEPT ![dials + 1].at = "top"]
    /\ writers' = writers + 1 /\ wg' = wg + 2
    /\ reconnect' = "wait"
    /\ UNCHANGED <<attempt, signal>> /\ LoopUnchanged

Drop(d) ==
    /\ d \in alive
    /\ alive' = alive \ {d}
    /\ UNCHANGED <<dials, conn, connected, reader, writers, reconnect, attempt, signal, wg>>
    /\ LoopUnchanged

\* closed, connected, doneCh.
Disconnect ==
    /\ hanging = "no"
    /\ hanging' = "marked" /\ connected' = FALSE
    /\ UNCHANGED <<req, pendings, writeCh, dials, conn, alive, reader, writers,
                   reconnect, attempt, signal, heartbeat, wg>>

\* The connection under connMu; then c.wg.Wait, which heartbeatLoop never allows
\* to return.
DisconnectConn ==
    /\ hanging = "marked"
    /\ hanging' = "waiting"
    /\ alive' = alive \ {conn} /\ conn' = 0
    /\ UNCHANGED <<req, pendings, writeCh, dials, connected, reader, writers,
                   reconnect, attempt, signal, heartbeat, wg>>

-----------------------------------------------------------------------------
CallerStep(r) == Enqueue(r) \/ Return(r)

ReaderStep(d) ==
    \/ ReadTop(d) \/ ReadFails(d) \/ ReaderExits(d)
    \/ \E r \in Requests : ReadAnswer(d, r) \/ CleanLoad(d, r) \/ CleanStop(d, r) \/ CleanReject(d, r)

LoopStep == ReconnectTake \/ ReconnectExits \/ ReconnectDial \/ DialFails \/ DialSucceeds

GoNext ==
    \/ \E r \in Requests : Request(r) \/ CallerStep(r) \/ Timeout(r)
    \/ Write \/ WriterExits \/ Beat \/ BeatExits
    \/ \E d \in Dials : ReaderStep(d) \/ Drop(d)
    \/ LoopStep \/ Disconnect \/ DisconnectConn

-----------------------------------------------------------------------------
\* Every request that was stored returns, whatever happens to the connection.
RequestsReturn == \A r \in Requests : req[r].at = "stored" ~> req[r].at = "returned"

\* Disconnect returns: all goroutines it waits for sign off.
DisconnectReturns == closed ~> wg = 0
=============================================================================
