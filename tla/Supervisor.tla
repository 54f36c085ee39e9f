----------------------------- MODULE Supervisor -----------------------------
(***************************************************************************)
(* The master as supervisor of server processes: localProcess and          *)
(* localProcessManager of master/process.go, and StartServers,             *)
(* watchProcessEvents, SpawnServer, StopServers and Stop of                *)
(* master/master.go.  Processes are numbered in the order they are         *)
(* started; the number stands for the PID.  A process that ends by itself  *)
(* or by SIGTERM ends well (status 0) or badly; a signal is a bad end.     *)
(***************************************************************************)
EXTENDS Integers, Sequences, FiniteSets

CONSTANTS
    AutoIds,    \* ids StartServers starts and watchProcessEvents restarts: those of the
                \* configured list, which names each id once, or of their instances
    ManualIds,  \* ids SpawnServer is called with
    NoId,       \* a number not used yet
    EventCap,   \* capacity of eventCh (10 in the code)
    MaxProcs    \* bound: processes started

ASSUME SupervisorAssumption ==
    /\ EventCap \in Nat \ {0} /\ MaxProcs \in Nat \ {0}
    /\ AutoIds \cap ManualIds = {} /\ NoId \notin AutoIds \cup ManualIds

Pids == 1..MaxProcs

VARIABLES
    owner,      \* process -> its server id
    life,       \* process -> "none", "up", "ok" (ended with status 0), "bad"
    spawning,   \* processes between cmd.Start and pm.mu.Lock in Spawn
    signalled,  \* processes localProcess.Stop was called for
    watcher,    \* process -> its Watch goroutine: "none", "wait", "send", "end"
    report,     \* process -> the event: "none", "stopped", "crashed"
    processes,  \* keys of pm.processes
    byID,       \* pm.byID: id -> process, 0 for none
    eventCh,    \* eventCh of StartServers, a sequence of processes
    sleeping,   \* crashed processes whose restart goroutine runs
    answered,   \* crashed processes that were started again, or could not be
    autoStart,  \* m.autoStart
    launched,   \* ids StartServers has come to
    eventLoop,  \* watchProcessEvents: "no", "runs", "ended"
    ctx         \* the master: "up", "cancelled", "closed" (processMgr.Close done)

procVars == <<owner, life, spawning, signalled, watcher, report, processes, byID, eventCh,
              sleeping, answered, autoStart, launched, eventLoop, ctx>>

osVars == <<owner, life, spawning, signalled>>
tableVars == <<processes, byID>>
watchVars == <<watcher, report, eventCh>>
restartVars == <<sleeping, answered, autoStart, launched, eventLoop, ctx>>

SupervisorInit ==
    /\ owner = [p \in Pids |-> NoId] /\ life = [p \in Pids |-> "none"]
    /\ spawning = {} /\ signalled = {}
    /\ watcher = [p \in Pids |-> "none"] /\ report = [p \in Pids |-> "none"]
    /\ processes = {} /\ byID = [i \in AutoIds \cup ManualIds |-> 0]
    /\ eventCh = <<>> /\ sleeping = {} /\ answered = {} /\ launched = {}
    /\ eventLoop = "no" /\ ctx = "up" /\ autoStart \in BOOLEAN

-----------------------------------------------------------------------------
Started == {p \in Pids : life[p] # "none"}
NewPid == Cardinality(Started) + 1

\* Spawn up to cmd.Start.
Begin(id) ==
    /\ NewPid \in Pids
    /\ owner' = [owner EXCEPT ![NewPid] = id]
    /\ life' = [life EXCEPT ![NewPid] = "up"]
    /\ spawning' = spawning \cup {NewPid}
    /\ UNCHANGED <<signalled, tableVars, watchVars>>

\* cmd.Start fails.
BeginFails == UNCHANGED <<osVars, tableVars, watchVars>>

\* The rest of Spawn, and Watch.
Track(p) ==
    /\ p \in spawning /\ spawning' = spawning \ {p}
    /\ processes' = processes \cup {p}
    /\ byID' = [byID EXCEPT ![owner[p]] = p]
    /\ watcher' = [watcher EXCEPT ![p] = "wait"]
    /\ UNCHANGED <<owner, life, signalled, report, eventCh, restartVars>>

\* StartServers for one id; a failed Spawn is skipped.  `started` is filled with the ids
\* of instances and looked up with the id of the list, so it would not skip an id with
\* several instances that the list names a second time: its instances would be started
\* twice.  AutoIds leaves out such a list.
StartServer(id) ==
    /\ autoStart /\ eventLoop = "no" /\ spawning = {} /\ id \in AutoIds \ launched
    /\ launched' = launched \cup {id}
    /\ Begin(id) \/ BeginFails
    /\ UNCHANGED <<sleeping, answered, autoStart, eventLoop, ctx>>

StartEventLoop ==
    /\ autoStart /\ eventLoop = "no" /\ launched = AutoIds /\ spawning = {}
    /\ eventLoop' = "runs"
    /\ UNCHANGED <<osVars, tableVars, watchVars, sleeping, answered, autoStart, launched, ctx>>

\* SpawnServer; here in a master that starts no servers by itself.
SpawnServer(id) == ~autoStart /\ Begin(id) /\ UNCHANGED restartVars

\* The process ends, by itself or because of SIGTERM.
Ends(p, how) ==
    /\ life[p] = "up" /\ life' = [life EXCEPT ![p] = how]
    /\ UNCHANGED <<owner, spawning, signalled, tableVars, watchVars, restartVars>>

\* What Wait returns to the watcher: after Stop, which waits for the command too,
\* either of the two gets an error instead of the status.
Verdicts(p) ==
    {IF life[p] = "ok" THEN "stopped" ELSE "crashed"}
        \cup (IF p \in signalled THEN {"crashed"} ELSE {})

\* Fault: the tables are cleared after the event was sent.
ReapLate(p) ==
    \/ /\ watcher[p] = "wait" /\ life[p] \in {"ok", "bad"}
       /\ owner[p] \in AutoIds /\ Len(eventCh) < EventCap
       /\ eventCh' = Append(eventCh, p)
       /\ \E v \in Verdicts(p) : report' = [report EXCEPT ![p] = v]
       /\ watcher' = [watcher EXCEPT ![p] = "clear"]
       /\ UNCHANGED <<osVars, tableVars, restartVars>>
    \/ /\ watcher[p] = "clear"
       /\ processes' = processes \ {p} /\ byID' = [byID EXCEPT ![owner[p]] = 0]
       /\ watcher' = [watcher EXCEPT ![p] = "end"]
       /\ UNCHANGED <<osVars, report, eventCh, restartVars>>

\* Watch: Wait returns and the tables are cleared, by id whichever process it names.
Reap(p) ==
    /\ watcher[p] = "wait" /\ life[p] \in {"ok", "bad"}
    /\ \E v \in Verdicts(p) : report' = [report EXCEPT ![p] = v]
    /\ processes' = processes \ {p} /\ byID' = [byID EXCEPT ![owner[p]] = 0]
    /\ watcher' = [watcher EXCEPT ![p] = "send"]
    /\ UNCHANGED <<osVars, eventCh, restartVars>>

\* Fault: the loop over the attempts is not left after a send.
SendAgain(p) ==
    /\ watcher[p] = "send" /\ owner[p] \in AutoIds /\ Len(eventCh) < EventCap
    /\ eventCh' = Append(eventCh, p)
    /\ watcher' = [watcher EXCEPT ![p] = "end"] \/ UNCHANGED watcher
    /\ UNCHANGED <<osVars, tableVars, report, restartVars>>

\* Watch: one of the ten attempts to send succeeds.
SendEvent(p) ==
    /\ watcher[p] = "send" /\ owner[p] \in AutoIds /\ Len(eventCh) < EventCap
    /\ eventCh' = Append(eventCh, p) /\ watcher' = [watcher EXCEPT ![p] = "end"]
    /\ UNCHANGED <<osVars, tableVars, report, restartVars>>

\* Fault: the event is dropped when the first attempt does not succeed at once.
DropEagerly(p) ==
    /\ watcher[p] = "send" /\ (owner[p] \in ManualIds \/ eventCh # <<>>)
    /\ watcher' = [watcher EXCEPT ![p] = "end"]
    /\ UNCHANGED <<osVars, tableVars, report, eventCh, restartVars>>

\* Watch: all of them find the channel full, or without a reader (SpawnServer's).
DropEvent(p) ==
    /\ watcher[p] = "send" /\ (owner[p] \in ManualIds \/ Len(eventCh) = EventCap)
    /\ watcher' = [watcher EXCEPT ![p] = "end"]
    /\ UNCHANGED <<osVars, tableVars, report, eventCh, restartVars>>

-----------------------------------------------------------------------------
\* watchProcessEvents receives an event; it may even when ctx is done.
TakeEvent ==
    /\ eventLoop = "runs" /\ eventCh # <<>>
    /\ eventCh' = Tail(eventCh)
    /\ sleeping' = IF report[Head(eventCh)] = "crashed" THEN sleeping \cup {Head(eventCh)}
                                                        ELSE sleeping
    /\ UNCHANGED <<osVars, tableVars, watcher, report, answered, autoStart, launched, eventLoop,
                   ctx>>

EventLoopEnds ==
    /\ eventLoop = "runs" /\ ctx # "up" /\ eventLoop' = "ended"
    /\ UNCHANGED <<osVars, tableVars, watchVars, sleeping, answered, autoStart, launched, ctx>>

\* restartDelay is over; ctx is not looked at.
Restart(p) ==
    /\ p \in sleeping /\ sleeping' = sleeping \ {p} /\ answered' = answered \cup {p}
    /\ Begin(owner[p]) \/ BeginFails
    /\ UNCHANGED <<autoStart, launched, eventLoop, ctx>>

\* localProcess.Stop: SIGTERM; a second call does nothing.
Signal(ps) == signalled' = signalled \cup ps

Kill(p) ==
    /\ p \in processes \ signalled /\ Signal({p})
    /\ UNCHANGED <<owner, life, spawning, tableVars, watchVars, restartVars>>

\* processMgr.Close: the tables are emptied and every process gets SIGTERM.
CloseProcesses ==
    /\ Signal(processes)
    /\ processes' = {} /\ byID' = [i \in DOMAIN byID |-> 0]
    /\ UNCHANGED <<owner, life, spawning, watchVars, sleeping, answered, autoStart, launched,
                   eventLoop>>

StopServers == processes # {} /\ CloseProcesses /\ UNCHANGED ctx

CancelMaster ==
    /\ ctx = "up" /\ (autoStart => eventLoop = "runs") /\ ctx' = "cancelled"
    /\ UNCHANGED <<osVars, tableVars, watchVars, sleeping, answered, autoStart, launched, eventLoop>>

CloseMaster == ctx = "cancelled" /\ ctx' = "closed" /\ CloseProcesses

WatchStep(p) == Track(p) \/ Reap(p) \/ SendEvent(p) \/ DropEvent(p)

SupervisorNext ==
    \/ \E id \in AutoIds : StartServer(id)
    \/ \E id \in ManualIds : SpawnServer(id)
    \/ \E p \in Pids : \/ WatchStep(p) \/ Kill(p) \/ Restart(p)
                       \/ \E how \in {"ok", "bad"} : Ends(p, how)
    \/ StartEventLoop \/ TakeEvent \/ EventLoopEnds
    \/ StopServers \/ CancelMaster \/ CloseMaster

-----------------------------------------------------------------------------
\* An id that the master starts has at most one process, through crashes, kills,
\* StopServers and restarts: two would fight for the same port.
OneProcess ==
    \A p, q \in Started :
        life[p] = "up" /\ life[q] = "up" /\ owner[p] = owner[q] /\ owner[p] \in AutoIds => p = q

\* A running process that nobody told to stop is found by its id and by its PID,
\* although the watcher of its predecessor clears the tables by id.
RunningFound ==
    \A p \in Started \ (spawning \cup signalled) :
        life[p] = "up" /\ owner[p] \in AutoIds => p \in processes /\ byID[owner[p]] = p

\* While the master runs, every crash of a server it started is answered by a
\* restart (or the attempt of one), as long as eventCh holds an event of each.
CrashAnswered ==
    \A p \in Pids :
        life[p] = "bad" /\ owner[p] \in AutoIds /\ eventLoop = "runs"
            ~> p \in answered \/ ctx # "up" \/ NewPid \notin Pids
=============================================================================
