----------------------------- MODULE Forwarder ------------------------------
(***************************************************************************)
(* forwarder of forward/forward.go for one backend address: Forward with   *)
(* getOrCreateClient and removeClient, the cleanup loop, and Stop.  The    *)
(* clients are numbered as they are created; 0 stands for none.  Entries   *)
(* of other addresses share nothing with this one but stopMu.  InvokeCtx   *)
(* and Close of a client may not return when the backend does not read     *)
(* (see SingleClient).                                                     *)
(***************************************************************************)
EXTENDS Integers

CONSTANTS
    Forwards,       \* calls of Forward, each made once
    NoForward,      \* stopMu is free
    MaxCleanups     \* bound: entries that cleanupStaleClients finds stale

ASSUME ForwarderAssumption == NoForward \notin Forwards /\ MaxCleanups \in Nat

VARIABLES
    fwd,        \* call -> "idle", "fast", "slow", "dial", "invoke", "remove", "closing", "done"
    entry,      \* the address's client in f.rpcClients
    made,       \* clients created so far
    openClients, \* clients whose Close nobody has called
    lost,       \* history: open clients no entry leads to any more, or made after Stop
    stopMu,     \* who holds f.stopMu: a call, "Stop" or NoForward
    stale,      \* the client cleanupStaleClients is about to close, 0 for none
    cleanups,   \* how many it has found
    cleanerUp,  \* cleanupLoop runs
    fwdStop     \* Stop: "running", "marked", "sweeping", "stopped"

fwdVars == <<fwd, entry, made, openClients, lost, stopMu, stale, cleanups,
             cleanerUp, fwdStop>>

FwdInit ==
    /\ fwd = [c \in Forwards |-> "idle"]
    /\ entry = 0 /\ made = 0 /\ openClients = {} /\ lost = {} /\ stopMu = NoForward
    /\ stale = 0 /\ cleanups = 0 /\ cleanerUp = TRUE /\ fwdStop = "running"

-----------------------------------------------------------------------------
FwdTo(c, at) == fwd' = [fwd EXCEPT ![c] = at]

\* The running test.
Forward(c) ==
    /\ fwd[c] = "idle" /\ FwdTo(c, IF fwdStop = "running" THEN "fast" ELSE "done")
    /\ UNCHANGED <<entry, made, openClients, lost, stopMu, stale, cleanups, cleanerUp, fwdStop>>

\* The fast path of getOrCreateClient.
LoadClient(c) ==
    /\ fwd[c] = "fast" /\ FwdTo(c, IF entry # 0 THEN "invoke" ELSE "slow")
    /\ UNCHANGED <<entry, made, openClients, lost, stopMu, stale, cleanups, cleanerUp, fwdStop>>

\* The slow path: stopMu, and the second look.
LockAndLoad(c) ==
    /\ fwd[c] = "slow" /\ stopMu = NoForward
    /\ IF entry # 0 THEN FwdTo(c, "invoke") /\ UNCHANGED stopMu
                    ELSE FwdTo(c, "dial") /\ stopMu' = c
    /\ UNCHANGED <<entry, made, openClients, lost, stale, cleanups, cleanerUp, fwdStop>>

\* rpc.NewClient succeeded: the entry is stored and stopMu released.  Nobody looks at
\* running again: a call that passed the test before Stop may store after it.
StoreClient(c) ==
    /\ fwd[c] = "dial" /\ FwdTo(c, "invoke")
    /\ made' = made + 1 /\ entry' = made + 1 /\ openClients' = openClients \cup {made + 1}
    /\ lost' = IF fwdStop = "stopped" THEN lost \cup {made + 1} ELSE lost
    /\ stopMu' = NoForward
    /\ UNCHANGED <<stale, cleanups, cleanerUp, fwdStop>>

\* rpc.NewClient failed.
DialError(c) ==
    /\ fwd[c] = "dial" /\ FwdTo(c, "done") /\ stopMu' = NoForward
    /\ UNCHANGED <<entry, made, openClients, lost, stale, cleanups, cleanerUp, fwdStop>>

\* The route is invalid, or InvokeCtx returns without or with an error.
Invoked(c) ==
    /\ fwd[c] = "invoke" /\ (FwdTo(c, "done") \/ FwdTo(c, "remove"))
    /\ UNCHANGED <<entry, made, openClients, lost, stopMu, stale, cleanups, cleanerUp, fwdStop>>

\* removeClient: LoadAndDelete takes the entry of now, whichever client failed.
RemoveClient(c) ==
    /\ fwd[c] = "remove" /\ FwdTo(c, IF entry # 0 THEN "closing" ELSE "done")
    /\ entry' = 0 /\ openClients' = openClients \ {entry} /\ lost' = lost \ {entry}
    /\ UNCHANGED <<made, stopMu, stale, cleanups, cleanerUp, fwdStop>>

\* Its client's Close has returned.
ClientClosed(c) ==
    /\ fwd[c] = "closing" /\ FwdTo(c, "done")
    /\ UNCHANGED <<entry, made, openClients, lost, stopMu, stale, cleanups, cleanerUp,
                   fwdStop>>

-----------------------------------------------------------------------------
\* cleanupStaleClients: Range yields an entry whose type has no server ...
FindStale ==
    /\ cleanerUp /\ stale = 0 /\ entry # 0 /\ cleanups < MaxCleanups
    /\ stale' = entry /\ cleanups' = cleanups + 1
    /\ UNCHANGED <<fwd, entry, made, openClients, lost, stopMu, cleanerUp, fwdStop>>

\* ... closes its client and deletes the key, whatever it holds by now.
DropStale ==
    /\ stale # 0
    /\ openClients' = openClients \ {stale} /\ entry' = 0 /\ stale' = 0
    /\ lost' = (lost \cup ({entry} \cap openClients)) \ {stale}
    /\ UNCHANGED <<fwd, made, stopMu, cleanups, cleanerUp, fwdStop>>

CleanerEnds ==
    /\ cleanerUp /\ stale = 0 /\ fwdStop # "running"
    /\ cleanerUp' = FALSE
    /\ UNCHANGED <<fwd, entry, made, openClients, lost, stopMu, stale, cleanups, fwdStop>>

StopForwarder ==
    /\ fwdStop = "running" /\ fwdStop' = "marked"
    /\ UNCHANGED <<fwd, entry, made, openClients, lost, stopMu, stale, cleanups, cleanerUp>>

\* Under stopMu ...
StopLocks ==
    /\ fwdStop = "marked" /\ stopMu = NoForward
    /\ fwdStop' = "sweeping" /\ stopMu' = "Stop"
    /\ UNCHANGED <<fwd, entry, made, openClients, lost, stale, cleanups, cleanerUp>>

\* Fault: the table is replaced and no client is closed.
SweepTableOnly ==
    /\ fwdStop = "sweeping" /\ fwdStop' = "stopped"
    /\ entry' = 0 /\ stopMu' = NoForward
    /\ UNCHANGED <<fwd, made, openClients, lost, stale, cleanups, cleanerUp>>

\* ... the clients are closed and the table is replaced.
SweepClients ==
    /\ fwdStop = "sweeping" /\ fwdStop' = "stopped"
    /\ openClients' = openClients \ {entry} /\ entry' = 0 /\ stopMu' = NoForward
    /\ UNCHANGED <<fwd, made, lost, stale, cleanups, cleanerUp>>

\* Steps that wait for nothing but stopMu.
ForwardStep(c) ==
    LoadClient(c) \/ LockAndLoad(c) \/ StoreClient(c) \/ DialError(c) \/ RemoveClient(c)

\* Steps in which a client's method returns.
ClientReturns(c) == Invoked(c) \/ ClientClosed(c)

FwdNext ==
    \/ \E c \in Forwards : Forward(c) \/ ForwardStep(c) \/ ClientReturns(c)
    \/ FindStale \/ DropStale \/ CleanerEnds \/ StopForwarder \/ StopLocks \/ SweepClients

-----------------------------------------------------------------------------
\* A Forward or Stop has begun and not ended.
ForwarderBusy ==
    fwdStop \in {"marked", "sweeping"} \/ \E c \in Forwards : fwd[c] \notin {"idle", "done"}

\* A method of a client is under way: InvokeCtx, or Close called by a Forward or Stop.
ClientCalled ==
    fwdStop = "sweeping" \/ \E c \in Forwards : fwd[c] \in {"invoke", "closing"}

\* Once Stop has returned and no Forward is under way, every client ever made has
\* been closed, but the one the cleanup is about to close and those in lost.
ForwarderCleared ==
    (fwdStop = "stopped" /\ ~ForwarderBusy) => openClients \subseteq lost \cup {stale}
=============================================================================
