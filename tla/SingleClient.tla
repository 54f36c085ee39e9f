---------------------------- MODULE SingleClient ----------------------------
(***************************************************************************)
(* singleClient of rpc/client.go: one connection shared by concurrent      *)
(* calls, a table of pending calls keyed by sequence number, the receive   *)
(* loop that completes them, and Close.                                    *)
(*                                                                         *)
(* A call is named by the sequence number atomic.AddUint64 gave it.  The   *)
(* steps are cut where c.mu is released, and around conn.Write: it runs    *)
(* under c.mu and has no deadline, so a peer that stops reading keeps the  *)
(* writer inside, and the mutex locked, for as long as it likes.  A packet *)
(* is received whole or not at all (a read that fails inside a packet      *)
(* counts as a failed read).                                               *)
(***************************************************************************)
EXTENDS Naturals, FiniteSets

CONSTANTS
    Calls,      \* sequence numbers of Invoke and Notify calls
    NilReply,   \* the calls that pass reply == nil (the forwarder does)
    MaxErrors   \* maxErrors in receiveLoop (3 in the code)

ASSUME SingleAssumption ==
    /\ NilReply \subseteq Calls
    /\ MaxErrors \in Nat \ {0}

VARIABLES
    pending,    \* keys of c.pending
    pc,         \* where each call is
    future,     \* the future's outcome: "open", "reply", "error", "lost", "closed"
    closes,     \* how many times close(future.done) ran
    server,     \* requests the server has received and not answered
    wire,       \* responses on their way: <<call, "reply" | "error">>
    rx,         \* receiveLoop: "top", "read", "handle", "failed", "swap", "notify", "exit"
    packet,     \* the response it has read and not handled: a set of at most one
    errorCount, \* consecutive failed reads
    taken,      \* futures notifyAllPending took out of the table
    closed,     \* c.closed
    cancelled,  \* c.ctx is done
    closer,     \* Close: "none", "called", "marked", "waiting", "failing", "done", "early"
    orphans     \* futures Close took out of the table

singleVars == <<pending, pc, future, closes, server, wire, rx, packet, errorCount, taken,
          closed, cancelled, closer, orphans>>

callVars == <<pc, server>>
futVars  == <<future, closes>>
rxVars   == <<rx, packet, errorCount, taken>>
clVars   == <<closed, cancelled, closer, orphans>>

SingleInit ==
    /\ pending = {}
    /\ pc = [c \in Calls |-> "idle"]
    /\ future = [c \in Calls |-> "open"]
    /\ closes = [c \in Calls |-> 0]
    /\ server = {}
    /\ wire = {}
    /\ rx = "top"
    /\ packet = {}
    /\ errorCount = 0
    /\ taken = {}
    /\ closed = FALSE
    /\ cancelled = FALSE
    /\ closer = "none"
    /\ orphans = {}

\* Calls in conn.Write: InvokeCtx holds c.mu, Notify holds it as a reader.
Writing   == {c \in Calls : pc[c] = "writing"}
Notifying == {c \in Calls : pc[c] = "notifying"}

\* c.mu can be locked.
MuFree == Writing \cup Notifying = {}

\* The future of call c is completed: future.err is set, then close(future.done).
Complete(c, outcome) ==
    /\ future' = [future EXCEPT ![c] = outcome]
    /\ closes' = [closes EXCEPT ![c] = @ + 1]

-----------------------------------------------------------------------------
\* InvokeCtx

\* The call takes its sequence number and registers its future.
Register(c) ==
    /\ pc[c] = "idle" /\ MuFree
    /\ pc' = [pc EXCEPT ![c] = "registered"]
    /\ pending' = pending \cup {c}
    /\ UNCHANGED <<server, wire, futVars, rxVars, clVars>>

\* An early return of InvokeCtx with an error: unregister first.
GiveUp(c) ==
    /\ pending' = pending \ {c}
    /\ pc' = [pc EXCEPT ![c] = "returned"]
    /\ UNCHANGED <<server, wire, futVars, rxVars, clVars>>

\* json.Marshal failed.
MarshalFails(c) ==
    /\ pc[c] = "registered" /\ MuFree
    /\ GiveUp(c)

\* The mutex is taken: a closed client refuses, else the write begins and keeps it.
Send(c) ==
    /\ pc[c] = "registered" /\ MuFree
    /\ IF closed
       THEN GiveUp(c)
       ELSE /\ pc' = [pc EXCEPT ![c] = "writing"]
            /\ UNCHANGED <<pending, server, wire, futVars, rxVars, clVars>>

\* The write has returned, and the mutex is released.
Sent(c) ==
    /\ pc[c] = "writing"
    /\ \/ /\ pc' = [pc EXCEPT ![c] = "waiting"]
          /\ server' = server \cup {c}
          /\ UNCHANGED <<pending, wire, futVars, rxVars, clVars>>
       \/ GiveUp(c)

\* select: future.done is closed; the future's outcome is returned.
TakeResult(c) ==
    /\ pc[c] = "waiting"
    /\ future[c] # "open"
    /\ pc' = [pc EXCEPT ![c] = "returned"]
    /\ UNCHANGED <<pending, server, wire, futVars, rxVars, clVars>>

\* Fault: no timer in the select.
AbandonNoTimer(c) ==
    /\ pc[c] = "waiting" /\ cancelled
    /\ pc' = [pc EXCEPT ![c] = "leaving"]
    /\ UNCHANGED <<pending, server, wire, futVars, rxVars, clVars>>

\* select: the client's context, the timer or the caller's context fires; the
\* mutex is not held yet.
Abandon(c) ==
    /\ pc[c] = "waiting"
    /\ pc' = [pc EXCEPT ![c] = "leaving"]
    /\ UNCHANGED <<pending, server, wire, futVars, rxVars, clVars>>

\* Fault: the abandoned call stays in the table.
LeaveEntry(c) ==
    /\ pc[c] = "leaving" /\ MuFree
    /\ pc' = [pc EXCEPT ![c] = "returned"]
    /\ UNCHANGED <<pending, server, wire, futVars, rxVars, clVars>>

\* ... then delete(c.pending, seq) under the mutex.
Leave(c) ==
    /\ pc[c] = "leaving" /\ MuFree
    /\ pending' = pending \ {c}
    /\ pc' = [pc EXCEPT ![c] = "returned"]
    /\ UNCHANGED <<server, wire, futVars, rxVars, clVars>>

\* Notify: nothing is registered.  json.Marshal fails, or the mutex is taken as a
\* reader: a closed client refuses, else the write begins.
Notify(c) ==
    /\ pc[c] = "idle"
    /\ \/ pc' = [pc EXCEPT ![c] = "returned"]
       \/ /\ Writing = {}
          /\ pc' = [pc EXCEPT ![c] = IF closed THEN "returned" ELSE "notifying"]
    /\ UNCHANGED <<pending, server, wire, futVars, rxVars, clVars>>

\* Its write has returned, without or with an error; the server answers a notify
\* like any request.
Notified(c) ==
    /\ pc[c] = "notifying"
    /\ pc' = [pc EXCEPT ![c] = "returned"]
    /\ server' \in {server, server \cup {c}}
    /\ UNCHANGED <<pending, wire, futVars, rxVars, clVars>>

\* The server answers a request; it may also never do so.
Answer(c, kind) ==
    /\ c \in server
    /\ server' = server \ {c}
    /\ wire' = wire \cup {<<c, kind>>}
    /\ UNCHANGED <<pending, pc, futVars, rxVars, clVars>>

-----------------------------------------------------------------------------
\* receiveLoop

\* readPacket returns a response.
ReadPacket(c, kind) ==
    /\ rx = "read" /\ <<c, kind>> \in wire
    /\ rx' = "handle" /\ packet' = {<<c, kind>>}
    /\ wire' = wire \ {<<c, kind>>}
    /\ errorCount' = 0
    /\ UNCHANGED <<callVars, pending, futVars, taken, clVars>>

\* What a future is completed with: a response's error is looked at only when the
\* caller passed a reply to fill.
Outcome(c, kind) == IF c \in NilReply THEN "reply" ELSE kind

\* Fault: the future is completed but stays in the table.
HandleKeeps(c, kind) ==
    /\ rx = "handle" /\ <<c, kind>> \in packet /\ MuFree
    /\ rx' = "top" /\ packet' = {}
    /\ IF c \in pending THEN Complete(c, Outcome(c, kind)) ELSE UNCHANGED futVars
    /\ UNCHANGED <<callVars, pending, wire, errorCount, taken, clVars>>

\* handleResponse, under the mutex: the future registered under the response's
\* sequence number is completed, if there is one.
HandleResponse(c, kind) ==
    /\ rx = "handle" /\ <<c, kind>> \in packet /\ MuFree
    /\ rx' = "top" /\ packet' = {}
    /\ pending' = pending \ {c}
    /\ IF c \in pending THEN Complete(c, Outcome(c, kind)) ELSE UNCHANGED futVars
    /\ UNCHANGED <<callVars, wire, errorCount, taken, clVars>>

\* The context is not done: the loop blocks in readPacket (and stays there
\* until its deadline when the context is cancelled meanwhile).
EnterRead ==
    /\ rx = "top" /\ ~cancelled
    /\ rx' = "read"
    /\ UNCHANGED <<callVars, pending, wire, futVars, packet, errorCount, taken, clVars>>

\* readPacket failed: the read deadline passed, or the connection is gone.
ReadFails ==
    /\ rx = "read"
    /\ rx' = "failed"
    /\ UNCHANGED <<callVars, pending, wire, futVars, packet, errorCount, taken, clVars>>

\* After a failed read: retry until MaxErrors failures in a row.
CountFailure ==
    /\ rx = "failed" /\ ~cancelled /\ ~closed
    /\ errorCount' = errorCount + 1
    /\ rx' = IF errorCount + 1 >= MaxErrors THEN "swap" ELSE "top"
    /\ UNCHANGED <<callVars, pending, wire, futVars, packet, taken, clVars>>

\* The context is done (top of the loop or after a failed read), or the client
\* was closed.
Exit ==
    /\ \/ rx \in {"top", "failed"} /\ cancelled
       \/ rx = "failed" /\ closed
    /\ rx' = "exit"
    /\ UNCHANGED <<callVars, pending, wire, futVars, packet, errorCount, taken, clVars>>

\* notifyAllPending, under the mutex: the whole table is taken.
SwapPending ==
    /\ rx = "swap" /\ MuFree
    /\ taken' = pending
    /\ pending' = {}
    /\ rx' = "notify"
    /\ UNCHANGED <<callVars, wire, futVars, packet, errorCount, clVars>>

\* notifyAllPending, after the unlock: one future after another.
FailTaken(c) ==
    /\ rx = "notify" /\ c \in taken
    /\ taken' = taken \ {c}
    /\ Complete(c, "lost")
    /\ UNCHANGED <<callVars, pending, wire, rx, packet, errorCount, clVars>>

\* Fault: this return path does not close doneCh.
MarkClosedSilent ==
    /\ rx = "notify" /\ taken = {}
    /\ closed' = TRUE
    /\ rx' = "gone"
    /\ UNCHANGED <<callVars, pending, wire, futVars, packet, errorCount, taken, cancelled, closer, orphans>>

\* c.closed.Store(true) and the loop ends.
MarkClosed ==
    /\ rx = "notify" /\ taken = {}
    /\ closed' = TRUE
    /\ rx' = "exit"
    /\ UNCHANGED <<callVars, pending, wire, futVars, packet, errorCount, taken, cancelled, closer, orphans>>

-----------------------------------------------------------------------------
\* Close

\* Close is called ...
CallClose ==
    /\ closer = "none" /\ closer' = "called"
    /\ UNCHANGED <<callVars, pending, wire, futVars, rxVars, closed, cancelled, orphans>>

\* ... the closed test and store, under the mutex.
Close ==
    /\ closer = "called" /\ MuFree
    /\ closer' = IF closed THEN "early" ELSE "marked"
    /\ closed' = TRUE
    /\ UNCHANGED <<callVars, pending, wire, futVars, rxVars, cancelled, orphans>>

\* c.cancel()
Cancel ==
    /\ closer = "marked"
    /\ cancelled' = TRUE
    /\ closer' = "waiting"
    /\ UNCHANGED <<callVars, pending, wire, futVars, rxVars, closed, orphans>>

\* <-c.doneCh, then the table is taken under the mutex.
TakeOrphans ==
    /\ closer = "waiting" /\ rx = "exit" /\ MuFree
    /\ orphans' = pending
    /\ pending' = {}
    /\ closer' = "failing"
    /\ UNCHANGED <<callVars, wire, futVars, rxVars, closed, cancelled>>

FailOrphan(c) ==
    /\ closer = "failing" /\ c \in orphans
    /\ orphans' = orphans \ {c}
    /\ Complete(c, "closed")
    /\ UNCHANGED <<callVars, pending, wire, rxVars, closed, cancelled, closer>>

\* c.conn.Close()
CloseConn ==
    /\ closer = "failing" /\ orphans = {}
    /\ closer' = "done"
    /\ UNCHANGED <<callVars, pending, wire, futVars, rxVars, closed, cancelled, orphans>>

-----------------------------------------------------------------------------
CallStep(c) ==
    \/ Register(c) \/ MarshalFails(c) \/ Send(c) \/ Sent(c)
    \/ TakeResult(c) \/ Abandon(c) \/ Leave(c)
    \/ Notify(c) \/ Notified(c)

RxStep ==
    \/ \E c \in Calls, kind \in {"reply", "error"} : ReadPacket(c, kind) \/ HandleResponse(c, kind)
    \/ EnterRead \/ ReadFails \/ CountFailure \/ Exit
    \/ SwapPending \/ MarkClosed
    \/ \E c \in Calls : FailTaken(c)

CloserStep ==
    \/ Close \/ Cancel \/ TakeOrphans \/ CloseConn
    \/ \E c \in Calls : FailOrphan(c)

SingleNext ==
    \/ \E c \in Calls : CallStep(c)
    \/ \E c \in Calls, kind \in {"reply", "error"} : Answer(c, kind)
    \/ RxStep
    \/ CallClose \/ CloserStep

SingleSpec == SingleInit /\ [][SingleNext]_singleVars

(***************************************************************************)
(* Fairness: every goroutine keeps running, the call's timer fires, and a  *)
(* blocked read ends at its deadline (so the receive loop always takes     *)
(* some step it can take).  A write need not return: nothing ends it once  *)
(* the peer has stopped reading.  The server is not obliged to answer, and *)
(* nobody is obliged to start a call or to call Close.                     *)
(***************************************************************************)
SingleFairness ==
    /\ \A c \in Calls :
          /\ WF_singleVars(MarshalFails(c) \/ Send(c))
          /\ WF_singleVars(TakeResult(c) \/ Abandon(c))
          /\ WF_singleVars(Leave(c))
    /\ WF_singleVars(RxStep)
    /\ WF_singleVars(CloserStep)

SingleFairSpec == SingleSpec /\ SingleFairness

-----------------------------------------------------------------------------
Outcomes == {"open", "reply", "error", "lost", "closed"}

\* Types of the client's fields and of the goroutines' local state.
SingleTypeOK ==
    /\ pending \subseteq Calls
    /\ pc \in [Calls -> {"idle", "registered", "writing", "waiting", "leaving",
                        "notifying", "returned"}]
    /\ future \in [Calls -> Outcomes]
    /\ closes \in [Calls -> Nat]
    /\ server \subseteq Calls
    /\ wire \subseteq Calls \X {"reply", "error"}
    /\ rx \in {"top", "read", "handle", "failed", "swap", "notify", "exit"}
    /\ packet \subseteq Calls \X {"reply", "error"}
    /\ errorCount \in 0..MaxErrors
    /\ taken \subseteq Calls
    /\ closed \in BOOLEAN
    /\ cancelled \in BOOLEAN
    /\ closer \in {"none", "called", "marked", "waiting", "failing", "done", "early"}
    /\ orphans \subseteq Calls

\* future.done is closed at most once (a second close panics), whichever of
\* handleResponse, notifyAllPending and Close gets to the future.
CompletedOnce == \A c \in Calls : closes[c] <= 1

\* Who owns an uncompleted future: the table, notifyAllPending or Close, never
\* two of them, and its done channel is still open.
OneOwner ==
    /\ pending \cap taken = {} /\ pending \cap orphans = {} /\ taken \cap orphans = {}
    /\ \A c \in pending \cup taken \cup orphans : closes[c] = 0 /\ future[c] = "open"

\* The pending table does not leak: it holds only calls that have not returned.
NoStaleEntry ==
    \A c \in pending : pc[c] \in {"registered", "writing", "waiting", "leaving"}

\* A future that a response completes is completed by the response to its own
\* request: with the response's outcome when the caller passed a reply, and as a
\* success whatever the response says, an error included, when it passed none.
OutcomeMatchesResponse ==
    [][\A c \in Calls :
          (future[c] = "open" /\ future'[c] \in {"reply", "error"}) =>
              IF c \in NilReply
              THEN future'[c] = "reply" /\ \E kind \in {"reply", "error"} : <<c, kind>> \in packet
              ELSE <<c, future'[c]>> \in packet]_singleVars

\* Every registered call returns, whatever the server and Close do, unless some write
\* never returns: conn.Write has no deadline and keeps c.mu, and the call's timer is
\* of no use to a caller that waits for the mutex.  (A behaviour has finitely many
\* writes: one is under way again and again only if it stays under way.)
CallsReturn ==
    []<>((\A c \in Calls : pc[c] \in {"idle", "returned"}) \/ ~MuFree)

\* Close has been called and has not returned.
SingleClosing == closer \notin {"none", "early", "done"}
=============================================================================
