----------------------------- MODULE ConnPools ------------------------------
(***************************************************************************)
(* The pools of pool/pool.go.  pool and RPCClientPool: a buffered channel  *)
(* of idle connections, a count and a mutex; the first dials under the     *)
(* mutex, the second without it.  WorkerPool: a channel of jobs read by    *)
(* workers.                                                                *)
(***************************************************************************)
EXTENDS Integers, Sequences, FiniteSets

CONSTANTS
    Takers,     \* goroutines that Get
    PoolMax,    \* maxConns
    PoolMin,    \* minConns
    Slack,      \* the channel holds maxConns + Slack (10 in the code)
    MaxWarm     \* bound on the connections Warmup makes

ASSUME ConnPoolsAssumption ==
    /\ IsFiniteSet(Takers)
    /\ PoolMax \in Nat \ {0} /\ PoolMin \in Nat /\ Slack \in Nat /\ MaxWarm \in Nat

VARIABLES
    unlocked,   \* TRUE: an RPCClientPool, which dials without the mutex
    idle,       \* connections in the channel
    held,       \* connections that callers have; one caller may have several
    dialing,    \* goroutines in createConn of RPCClientPool.Get
    total,      \* p.total, p.totalConns
    opened,     \* connections that are open
    warm,       \* connections made by Warmup
    lost,       \* those that did not get into the channel
    stuck,      \* a Warmup waits for room and holds the mutex
    poolClosed, \* p.closed
    rivals,     \* history: most goroutines that have dialled at the same time
    heldAtClose \* history: connections that callers had when Close was called

connPoolVars == <<unlocked, idle, held, dialing, total, opened, warm, lost, stuck, poolClosed,
                  rivals, heldAtClose>>

\* NewPool tries to make minConns connections, each dial may fail; it does not return
\* when they do not fit into the channel.
NewPool == ~unlocked /\ idle \in 0..PoolMin /\ idle <= PoolMax + Slack

\* NewRPCClientPool makes none.
NewRPCClientPool == unlocked /\ idle = 0

ConnPoolInit ==
    /\ unlocked \in BOOLEAN /\ idle \in 0..PoolMin /\ (NewPool \/ NewRPCClientPool)
    /\ total = idle /\ opened = idle
    /\ held = 0 /\ dialing = {} /\ warm = 0 /\ lost = 0 /\ stuck = FALSE /\ poolClosed = FALSE
    /\ rivals = 0 /\ heldAtClose = 0

\* Get of g can begin: g is not in another one, and the mutex is free.
CanGet(g) == g \notin dialing /\ ~stuck /\ ~poolClosed

\* Get finds an idle connection.
GetIdle(g) ==
    /\ CanGet(g) /\ idle > 0
    /\ idle' = idle - 1 /\ held' = held + 1
    /\ UNCHANGED <<unlocked, dialing, total, opened, warm, lost, stuck, poolClosed, rivals, heldAtClose>>

\* Fault: pool.Get makes one whatever the count is.
GetNewAlways(g) ==
    /\ ~unlocked /\ CanGet(g) /\ idle = 0
    /\ total' = total + 1 /\ opened' = opened + 1 /\ held' = held + 1
    /\ UNCHANGED <<unlocked, idle, dialing, warm, lost, stuck, poolClosed, rivals, heldAtClose>>

\* pool.Get makes one under the mutex (a failed dial changes nothing).
GetNew(g) ==
    /\ ~unlocked /\ CanGet(g) /\ idle = 0 /\ total < PoolMax
    /\ total' = total + 1 /\ opened' = opened + 1 /\ held' = held + 1
    /\ UNCHANGED <<unlocked, idle, dialing, warm, lost, stuck, poolClosed, rivals, heldAtClose>>

\* The goroutines that dial, and the most there have been.
Dialing(now) ==
    /\ dialing' = now
    /\ rivals' = IF Cardinality(now) > rivals THEN Cardinality(now) ELSE rivals

\* Fault: RPCClientPool.Get does not test the limit.
GetDialAlways(g) ==
    /\ unlocked /\ CanGet(g) /\ idle = 0 /\ Dialing(dialing \cup {g})
    /\ UNCHANGED <<unlocked, idle, held, total, opened, warm, lost, stuck, poolClosed, heldAtClose>>

\* RPCClientPool.Get tests the limit and releases the mutex.
GetDial(g) ==
    /\ unlocked /\ CanGet(g) /\ idle = 0 /\ total < PoolMax /\ Dialing(dialing \cup {g})
    /\ UNCHANGED <<unlocked, idle, held, total, opened, warm, lost, stuck, poolClosed, heldAtClose>>

\* Fault: p.closed is not tested again after the dial.
GetDialedLate(g) ==
    /\ g \in dialing /\ ~stuck /\ Dialing(dialing \ {g})
    /\ \/ UNCHANGED <<held, total, opened>>
       \/ total' = total + 1 /\ opened' = opened + 1 /\ held' = held + 1
    /\ UNCHANGED <<unlocked, idle, warm, lost, stuck, poolClosed, heldAtClose>>

\* The dial has failed, or succeeded, and the mutex is taken again; then the connection
\* is counted, or closed again if the pool has been closed.
GetDialed(g) ==
    /\ g \in dialing /\ ~stuck /\ Dialing(dialing \ {g})
    /\ \/ UNCHANGED <<held, total, opened>>
       \/ ~poolClosed /\ total' = total + 1 /\ opened' = opened + 1 /\ held' = held + 1
    /\ UNCHANGED <<unlocked, idle, warm, lost, stuck, poolClosed, heldAtClose>>

\* A caller brings a connection back.
BringBack == held > 0 /\ ~stuck /\ held' = held - 1

\* The connection goes back into the channel.
IntoChannel ==
    /\ ~poolClosed /\ idle < PoolMax + Slack
    /\ idle' = idle + 1 /\ UNCHANGED <<total, opened>>

\* It is closed because the channel is full or the pool closed.
NoRoom == poolClosed \/ idle = PoolMax + Slack

\* Fault: a connection that does not fit into the channel stays counted.
PutUncounted ==
    /\ ~unlocked /\ BringBack
    /\ \/ IntoChannel
       \/ NoRoom /\ opened' = opened - 1 /\ UNCHANGED <<idle, total>>
    /\ UNCHANGED <<unlocked, dialing, warm, lost, stuck, poolClosed, rivals, heldAtClose>>

\* pool.Put; a closed pool does not count down.
Put ==
    /\ ~unlocked /\ BringBack
    /\ \/ IntoChannel
       \/ /\ NoRoom /\ opened' = opened - 1 /\ UNCHANGED idle
          /\ total' = IF poolClosed THEN total ELSE total - 1
    /\ UNCHANGED <<unlocked, dialing, warm, lost, stuck, poolClosed, rivals, heldAtClose>>

\* RPCClientPool.Put.
PutRPC ==
    /\ unlocked /\ BringBack
    /\ \/ IntoChannel
       \/ NoRoom /\ opened' = opened - 1 /\ total' = total - 1 /\ UNCHANGED idle
    /\ UNCHANGED <<unlocked, dialing, warm, lost, stuck, poolClosed, rivals, heldAtClose>>

\* Warmup of either pool makes a connection; it tests neither the limit nor p.closed.
\* A full channel blocks it with the mutex held, which nobody else gets any more; a
\* closed one makes it panic, and the connection is lost.
Warmup ==
    /\ ~stuck /\ warm < MaxWarm /\ warm' = warm + 1 /\ opened' = opened + 1
    /\ \/ /\ ~poolClosed /\ idle < PoolMax + Slack
          /\ idle' = idle + 1 /\ total' = total + 1 /\ UNCHANGED <<lost, stuck>>
       \/ /\ ~poolClosed /\ idle = PoolMax + Slack
          /\ stuck' = TRUE /\ lost' = lost + 1 /\ UNCHANGED <<idle, total>>
       \/ poolClosed /\ lost' = lost + 1 /\ UNCHANGED <<idle, total, stuck>>
    /\ UNCHANGED <<unlocked, held, dialing, poolClosed, rivals, heldAtClose>>

\* Idle connections beyond minConns are closed.
Trim ==
    /\ ~stuck /\ ~poolClosed /\ idle > PoolMin
    /\ idle' = PoolMin
    /\ total' = total - (idle - PoolMin) /\ opened' = opened - (idle - PoolMin)
    /\ UNCHANGED <<unlocked, held, dialing, warm, lost, stuck, poolClosed, rivals, heldAtClose>>

\* cleanup and cleanupIdleConnections at a tick of their loops.
Cleanup == ~unlocked /\ Trim
CleanupIdleConnections == unlocked /\ Trim

\* pool.Close closes the idle connections.
ClosePool ==
    /\ ~unlocked /\ ~stuck /\ ~poolClosed /\ poolClosed' = TRUE /\ heldAtClose' = held
    /\ idle' = 0 /\ opened' = opened - idle
    /\ UNCHANGED <<unlocked, held, dialing, total, warm, lost, stuck, rivals>>

\* RPCClientPool.Close closes the channel and leaves them open.
CloseRPC ==
    /\ unlocked /\ ~stuck /\ ~poolClosed /\ poolClosed' = TRUE /\ heldAtClose' = held
    /\ UNCHANGED <<unlocked, idle, held, dialing, total, opened, warm, lost, stuck, rivals>>

ConnPoolNext ==
    \/ \E g \in Takers : GetIdle(g) \/ GetNew(g) \/ GetDial(g) \/ GetDialed(g)
    \/ Put \/ PutRPC
    \/ Warmup \/ Cleanup \/ CleanupIdleConnections \/ ClosePool \/ CloseRPC

\* The limit of a pool: NewPool does not ask whether minConns is within maxConns.
MostConns == IF unlocked \/ PoolMin <= PoolMax THEN PoolMax ELSE PoolMin

\* The books are right.  Every open connection is idle in the channel, held by a caller,
\* or lost by a Warmup that found the channel full or closed.  The count of an open
\* pool is the number of connections idle or held, and however many of them a caller
\* takes it passes maxConns (or minConns, if greater) by the connections of Warmup
\* and, for RPCClientPool, by the dials that ran at the same time, less one: a caller
\* alone never passes it.  A closed pool hands out nothing, not even to a goroutine
\* that was dialling when it was closed.
PoolAccounts ==
    /\ opened = idle + held + lost /\ (lost > 0 => stuck \/ poolClosed)
    /\ ~poolClosed => /\ total = idle + held
                      /\ total <= MostConns + warm + (IF rivals = 0 THEN 0 ELSE rivals - 1)
    /\ poolClosed => held <= heldAtClose

-----------------------------------------------------------------------------
(* WorkerPool.                                                             *)

CONSTANTS
    PoolJobs,       \* functions submitted
    PoolWorkers,    \* workers
    JobCap,         \* queueSize
    NoJob           \* "the worker runs nothing"

VARIABLES
    submit,     \* job -> Submit: "no", "sending", "in", "refused"
    jobQueue,   \* p.jobs
    runs,       \* worker -> the job it runs
    finished,   \* jobs that have run
    gone,       \* workers that have returned
    poolStop,   \* Close: "no", "closed", "done"
    crashed     \* a Submit sent on the closed channel: the process ends

workerPoolVars == <<submit, jobQueue, runs, finished, gone, poolStop, crashed>>

WorkerPoolInit ==
    /\ submit = [j \in PoolJobs |-> "no"] /\ jobQueue = <<>> /\ finished = {} /\ gone = {}
    /\ runs = [w \in PoolWorkers |-> NoJob] /\ poolStop = "no" /\ crashed = FALSE

\* Submit reads p.closed.
SubmitCheck(j) ==
    /\ submit[j] = "no" /\ ~crashed
    /\ submit' = [submit EXCEPT ![j] = IF poolStop = "no" THEN "sending" ELSE "refused"]
    /\ UNCHANGED <<jobQueue, runs, finished, gone, poolStop, crashed>>

\* Submit sends, waits up to five seconds for room, or panics on the closed channel.
SubmitSend(j) ==
    /\ submit[j] = "sending" /\ ~crashed
    /\ \/ /\ poolStop = "no" /\ Len(jobQueue) < JobCap
          /\ submit' = [submit EXCEPT ![j] = "in"] /\ jobQueue' = Append(jobQueue, j)
          /\ UNCHANGED crashed
       \/ /\ poolStop = "no" /\ Len(jobQueue) = JobCap
          /\ submit' = [submit EXCEPT ![j] = "refused"] /\ UNCHANGED <<jobQueue, crashed>>
       \/ poolStop # "no" /\ crashed' = TRUE /\ UNCHANGED <<submit, jobQueue>>
    /\ UNCHANGED <<runs, finished, gone, poolStop>>

\* A worker takes a job, runs it (done is closed for SubmitWithContext), or returns.
PoolWorks(w) ==
    /\ ~crashed
    /\ \/ /\ runs[w] = NoJob /\ jobQueue # <<>>
          /\ runs' = [runs EXCEPT ![w] = Head(jobQueue)] /\ jobQueue' = Tail(jobQueue)
          /\ UNCHANGED <<finished, gone>>
       \/ /\ runs[w] # NoJob /\ runs' = [runs EXCEPT ![w] = NoJob]
          /\ finished' = finished \cup {runs[w]} /\ UNCHANGED <<jobQueue, gone>>
       \/ /\ w \notin gone /\ runs[w] = NoJob /\ jobQueue = <<>> /\ poolStop = "closed"
          /\ gone' = gone \cup {w} /\ UNCHANGED <<runs, finished, jobQueue>>
    /\ UNCHANGED <<submit, poolStop, crashed>>


\* Close: the channel, then the workers.
CloseWorkers ==
    /\ ~crashed
    /\ \/ poolStop = "no" /\ poolStop' = "closed"
       \/ poolStop = "closed" /\ gone = PoolWorkers /\ poolStop' = "done"
    /\ UNCHANGED <<submit, jobQueue, runs, finished, gone, crashed>>

WorkerPoolNext ==
    \/ \E j \in PoolJobs : SubmitCheck(j) \/ SubmitSend(j)
    \/ \E w \in PoolWorkers : PoolWorks(w)
    \/ CloseWorkers

\* Jobs that were accepted and have not run.
JobsDue == \E j \in PoolJobs : submit[j] = "in" /\ j \notin finished

\* Close has been called and has not returned.
WorkersJoining == poolStop = "closed"
=============================================================================
