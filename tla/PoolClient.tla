----------------------------- MODULE PoolClient -----------------------------
(***************************************************************************)
(* The connection pool of rpc/client.go: newPoolClient, GetClient,         *)
(* returnClient, Close and the use of a borrowed connection.               *)
(*                                                                         *)
(* Every public operation runs under p.mu; GetClient keeps the mutex while *)
(* it dials and gives it up only inside p.cond.Wait().  An operation is    *)
(* therefore one action, except that GetClient is cut at cond.Wait (the    *)
(* caller sits in the condition's FIFO, is moved to "woken" by Signal or   *)
(* Broadcast, and resumes when it gets the mutex back) and that Close is   *)
(* cut where it waits for the calls in flight.                             *)
(***************************************************************************)
EXTENDS Integers, Sequences, FiniteSets

CONSTANTS
    Borrowers,    \* goroutines that call GetClient
    Proxies,    \* those that go through App.RPCTo / ServiceProxy, which never Close
    Conns,      \* identities of sockets (bounds the sockets open at once)
    NoConn,     \* "holds no connection"
    MinConns,   \* opts.MinConns
    MaxConns    \* opts.MaxConns; 0 means no limit

ASSUME PoolAssumption ==
    /\ Proxies \subseteq Borrowers
    /\ IsFiniteSet(Borrowers)
    /\ NoConn \notin Conns
    /\ MinConns \in Nat
    /\ MaxConns \in Nat

VARIABLES
    idle,       \* p.conns, a stack
    poolClosed,     \* p.closed
    total,      \* p.totalConns
    open,       \* sockets that are not closed
    poolPc,         \* where each caller is
    conn,       \* the connection inside the clientConn a caller holds
    expired,    \* the 30 s deadline of a waiting GetClient has passed
    waiters,    \* the condition variable's FIFO of sleeping callers
    closing,    \* idle connections Close took and has not closed yet
    drain,      \* Close: "none", "waiting" (inFlight.Wait), "timedout", "done"
    dropped     \* history: connections of clients that were never closed

poolVars == <<idle, poolClosed, total, open, poolPc, conn, expired, waiters, closing, drain, dropped>>

\* The elements of a sequence of connections or callers.
Elems(s) == {s[i] : i \in 1..Len(s)}

\* A sequence without repetitions.
Distinct(s) == \A i, j \in 1..Len(s) : s[i] = s[j] => i = j

Holders  == {c \in Borrowers : poolPc[c] \in {"held", "invoking"}}
Woken    == {c \in Borrowers : poolPc[c] = "woken"}
InFlight == {c \in Borrowers : poolPc[c] = "invoking"}

\* Connections referenced by a live clientConn.
Held == {conn[c] : c \in Holders}

-----------------------------------------------------------------------------
\* newPoolClient and warmup: each of the MinConns dials may fail.
PoolInit ==
    /\ \E k \in 0..MinConns :
          /\ idle \in [1..k -> Conns]
          /\ Distinct(idle)
          /\ total = k
    /\ poolClosed = FALSE
    /\ open = Elems(idle)
    /\ poolPc = [c \in Borrowers |-> "out"]
    /\ conn = [c \in Borrowers |-> NoConn]
    /\ expired = [c \in Borrowers |-> FALSE]
    /\ waiters = <<>>
    /\ closing = {}
    /\ drain = "none"
    /\ dropped = {}

\* Fault: the connection stays on the stack.
PopIdleKeeps(c) ==
    /\ idle # <<>>
    /\ poolPc' = [poolPc EXCEPT ![c] = "held"]
    /\ conn' = [conn EXCEPT ![c] = idle[Len(idle)]]
    /\ UNCHANGED <<idle, poolClosed, total, open, closing, drain, dropped>>

\* The caller leaves GetClient with a clientConn around the top of the stack.
PopIdle(c) ==
    /\ idle # <<>>
    /\ poolPc' = [poolPc EXCEPT ![c] = "held"]
    /\ conn' = [conn EXCEPT ![c] = idle[Len(idle)]]
    /\ idle' = SubSeq(idle, 1, Len(idle) - 1)
    /\ UNCHANGED <<poolClosed, total, open, closing, drain, dropped>>

\* The caller leaves GetClient with an error.
Fail(c) ==
    /\ poolPc' = [poolPc EXCEPT ![c] = "out"]
    /\ UNCHANGED <<idle, poolClosed, total, open, conn, closing, drain, dropped>>

\* p.maxConns > 0 && p.totalConns >= p.maxConns
AtCapacity == MaxConns > 0 /\ total >= MaxConns

\* cond.Wait(): release the mutex and join the condition's queue.
Sleep(c) ==
    /\ poolPc' = [poolPc EXCEPT ![c] = "waiting"]
    /\ waiters' = Append(waiters, c)
    /\ UNCHANGED <<idle, poolClosed, total, open, conn, closing, drain, dropped>>

\* net.DialTimeout under the mutex.
Dial(c) ==
    \/ \E n \in Conns \ open :
          /\ open' = open \cup {n}
          /\ total' = total + 1
          /\ poolPc' = [poolPc EXCEPT ![c] = "held"]
          /\ conn' = [conn EXCEPT ![c] = n]
          /\ UNCHANGED <<idle, poolClosed, closing, drain, dropped>>
    \/ Fail(c)

GetClient(c) ==
    /\ poolPc[c] = "out"
    /\ expired' = [expired EXCEPT ![c] = FALSE]
    /\ \/ poolClosed /\ Fail(c) /\ UNCHANGED waiters
       \/ ~poolClosed /\ PopIdle(c) /\ UNCHANGED waiters
       \/ ~poolClosed /\ idle = <<>> /\ AtCapacity /\ Sleep(c)
       \/ ~poolClosed /\ idle = <<>> /\ ~AtCapacity /\ Dial(c) /\ UNCHANGED waiters

\* A woken caller has the mutex again: cond.Wait() returned inside the loop.
Resume(c) ==
    /\ poolPc[c] = "woken"
    /\ UNCHANGED expired
    /\ \/ poolClosed /\ Fail(c) /\ UNCHANGED waiters
       \/ ~poolClosed /\ PopIdle(c) /\ UNCHANGED waiters
       \/ ~poolClosed /\ idle = <<>> /\ expired[c] /\ Fail(c) /\ UNCHANGED waiters
       \/ ~poolClosed /\ idle = <<>> /\ ~expired[c] /\ Sleep(c)

\* time.Now() passes the deadline; nothing wakes the caller for it.
DeadlinePasses(c) ==
    /\ poolPc[c] \in {"waiting", "woken"}
    /\ ~expired[c]
    /\ expired' = [expired EXCEPT ![c] = TRUE]
    /\ UNCHANGED <<idle, poolClosed, total, open, poolPc, conn, waiters, closing, drain, dropped>>

\* clientConn.InvokeCtx / Notify: inFlight.Add(1) ... inFlight.Done().
InvokeBegin(c) ==
    /\ poolPc[c] = "held"
    /\ poolPc' = [poolPc EXCEPT ![c] = "invoking"]
    /\ UNCHANGED <<idle, poolClosed, total, open, conn, expired, waiters, closing, drain, dropped>>

InvokeEnd(c) ==
    /\ poolPc[c] = "invoking"
    /\ poolPc' = [poolPc EXCEPT ![c] = "held"]
    /\ UNCHANGED <<idle, poolClosed, total, open, conn, expired, waiters, closing, drain, dropped>>

\* conn.Close(); p.totalConns.Add(-1)
Discard(n) ==
    /\ open' = open \ {n}
    /\ total' = total - 1
    /\ UNCHANGED idle

\* Fault: the connection is put back without a Signal.
LeaveSilently(c) ==
    /\ poolPc' = [poolPc EXCEPT ![c] = "out"]
    /\ UNCHANGED waiters

\* cond.Signal() after c left: the caller that has waited longest is woken.
LeaveAndSignal(c) ==
    IF waiters = <<>>
    THEN /\ poolPc' = [poolPc EXCEPT ![c] = "out"]
         /\ UNCHANGED waiters
    ELSE /\ poolPc' = [poolPc EXCEPT ![c] = "out", ![Head(waiters)] = "woken"]
         /\ waiters' = Tail(waiters)

\* Fault: no test of p.closed when a connection comes back.
ReturnIntoClosed(c) ==
    /\ poolPc[c] = "held"
    /\ c \notin Proxies
    /\ conn' = [conn EXCEPT ![c] = NoConn]
    /\ IF Len(idle) < MaxConns
       THEN /\ idle' = Append(idle, conn[c])
            /\ LeaveAndSignal(c)
            /\ UNCHANGED <<total, open>>
       ELSE /\ Discard(conn[c])
            /\ poolPc' = [poolPc EXCEPT ![c] = "out"]
            /\ UNCHANGED waiters
    /\ UNCHANGED <<poolClosed, expired, closing, drain, dropped>>

\* returnClient, called by clientConn.Close.
ReturnClient(c) ==
    /\ poolPc[c] = "held"
    /\ c \notin Proxies
    /\ conn' = [conn EXCEPT ![c] = NoConn]
    /\ IF ~poolClosed /\ Len(idle) < MaxConns
       THEN /\ idle' = Append(idle, conn[c])
            /\ LeaveAndSignal(c)
            /\ UNCHANGED <<total, open>>
       ELSE /\ Discard(conn[c])
            /\ poolPc' = [poolPc EXCEPT ![c] = "out"]
            /\ UNCHANGED waiters
    /\ UNCHANGED <<poolClosed, expired, closing, drain, dropped>>

\* App.RPCTo and ServiceProxy return without closing the client.
DropClient(c) ==
    /\ poolPc[c] = "held"
    /\ c \in Proxies
    /\ poolPc' = [poolPc EXCEPT ![c] = "out"]
    /\ conn' = [conn EXCEPT ![c] = NoConn]
    /\ dropped' = dropped \cup {conn[c]}
    /\ UNCHANGED <<idle, poolClosed, total, open, expired, waiters, closing, drain>>

\* Close, the part under the mutex: set closed, Broadcast, take the idle ones.
\* A second Close returns at once.
PoolClose ==
    /\ ~poolClosed
    /\ poolClosed' = TRUE
    /\ poolPc' = [c \in Borrowers |-> IF poolPc[c] = "waiting" THEN "woken" ELSE poolPc[c]]
    /\ waiters' = <<>>
    /\ closing' = Elems(idle)
    /\ idle' = <<>>
    /\ drain' = "waiting"
    /\ UNCHANGED <<total, open, conn, expired, dropped>>

\* The 10 s bound on waiting for the calls in flight.
DrainTimeout ==
    /\ drain = "waiting"
    /\ drain' = "timedout"
    /\ UNCHANGED <<idle, poolClosed, total, open, poolPc, conn, expired, waiters, closing, dropped>>

\* Close, after the wait: close the connections it took (total is not touched).
CloseFinish ==
    /\ \/ drain = "waiting" /\ InFlight = {}
       \/ drain = "timedout"
    /\ open' = open \ closing
    /\ closing' = {}
    /\ drain' = "done"
    /\ UNCHANGED <<idle, poolClosed, total, poolPc, conn, expired, waiters, dropped>>

BorrowerStep(c) ==
    \/ GetClient(c) \/ Resume(c) \/ DeadlinePasses(c)
    \/ InvokeBegin(c) \/ InvokeEnd(c) \/ ReturnClient(c) \/ DropClient(c)

PoolNext ==
    \/ \E c \in Borrowers : BorrowerStep(c)
    \/ PoolClose \/ DrainTimeout \/ CloseFinish

PoolSpec == PoolInit /\ [][PoolNext]_poolVars

(***************************************************************************)
(* Fairness: a goroutine that holds a client finishes its call and gives   *)
(* the client back or drops it; a woken goroutine gets the mutex; time     *)
(* passes.  Nobody is obliged to call GetClient, to start a call or to     *)
(* close the pool.                                                         *)
(***************************************************************************)
PoolFairness ==
    /\ \A c \in Borrowers :
          /\ WF_poolVars(Resume(c) \/ InvokeEnd(c))
          /\ WF_poolVars(DeadlinePasses(c))
          /\ SF_poolVars(ReturnClient(c) \/ DropClient(c))
    /\ WF_poolVars(DrainTimeout \/ CloseFinish)

PoolFairSpec == PoolSpec /\ PoolFairness

-----------------------------------------------------------------------------
PCs == {"out", "waiting", "woken", "held", "invoking"}

\* Types of the pool's fields and of the callers' local state.
PoolTypeOK ==
    /\ idle \in Seq(Conns)
    /\ poolClosed \in BOOLEAN
    /\ total \in Int
    /\ open \subseteq Conns
    /\ poolPc \in [Borrowers -> PCs]
    /\ conn \in [Borrowers -> Conns \cup {NoConn}]
    /\ expired \in [Borrowers -> BOOLEAN]
    /\ waiters \in Seq(Borrowers)
    /\ closing \subseteq Conns
    /\ drain \in {"none", "waiting", "timedout", "done"}

\* GetClient hands a connection to one caller at a time: two callers never hold
\* the same connection, no held connection is idle or about to be closed by
\* Close, and the idle stack has no duplicates.  The RPC framing of InvokeCtx
\* relies on it.
NoSharing ==
    /\ \A c, d \in Holders : conn[c] = conn[d] => c = d
    /\ Held \cap (Elems(idle) \cup closing) = {}
    /\ Distinct(idle)

\* Until Close, totalConns is exactly the number of sockets the pool has open
\* (idle, held, or dropped by a proxy): GetClient's capacity test is about the
\* real number of sockets.
TotalIsOpen == ~poolClosed => total = Cardinality(open)

\* totalConns never passes the configured maximum (or the warm-up's MinConns
\* when that is larger).
PoolBounded ==
    MaxConns > 0 => total <= (IF MinConns > MaxConns THEN MinConns ELSE MaxConns)

\* No wake-up is lost: while some caller sleeps, every idle connection has a
\* woken caller on its way to it.
NoLostWakeup ==
    waiters # <<>> => Len(idle) <= Cardinality(Woken)

\* A sleeping caller is in the condition's queue exactly once, and nobody
\* sleeps in a closed pool.
WaitersAsleep ==
    /\ Elems(waiters) = {c \in Borrowers : poolPc[c] = "waiting"}
    /\ Distinct(waiters)
    /\ poolClosed => waiters = <<>>

\* Close leaks no socket: once it has returned, every socket still open is held
\* by a caller, or was by one that never closed its client.
NoLeakAfterClose == drain = "done" => open \subseteq Held \cup dropped

\* The connection a caller holds, as the borrower sees it.
Lease == [c \in Borrowers |-> IF c \in Holders THEN conn[c] ELSE NoConn]

Promised == INSTANCE ConnLease WITH lease <- Lease, ended <- poolClosed, lost <- dropped

\* The pool with its stack, its condition variable and its Close implements
\* exclusive leases: waiting, waking, dialling and draining are invisible, a
\* connection is lent to one caller at a time, none after Close, and none that
\* RPCTo or ServiceProxy dropped.
ImplementsLease == Promised!LeaseSpec

\* A connection is never closed while a caller holds it.
NeverClosesHeld ==
    [][\A c \in Borrowers :
          (c \in Holders /\ c \in Holders') => conn[c] \in open']_poolVars

\* A caller that waits for a connection gets one, or is told that the pool is
\* closed or that the 30 s wait timed out ("pool timeout: no available
\* connections after 30s").
WaiterReturns ==
    \A c \in Borrowers : poolPc[c] = "waiting" ~> poolPc[c] \notin {"waiting", "woken"}

\* The same, as long as nobody has left its client unclosed.
WaiterServed ==
    \A c \in Borrowers : (poolPc[c] = "waiting" /\ dropped = {})
                       ~> (poolPc[c] \notin {"waiting", "woken"} \/ dropped # {})

\* Close has been called and has not returned.
PoolClosing == poolClosed /\ drain # "done"
=============================================================================
