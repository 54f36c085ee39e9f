-------------------------------- MODULE Rpc ---------------------------------
(***************************************************************************)
(* The RPC side of the framework: the connection pool, the single client,  *)
(* one pooled connection from end to end, the server around its            *)
(* connections, the circuit breaker, and what chooses and keeps clients.   *)
(* The components share no state; a behaviour exercises one of them,       *)
(* chosen initially.                                                       *)
(***************************************************************************)
EXTENDS PoolClient, SingleClient, RpcStream, CircuitBreaker, RpcServer, Forwarder, ClientManager,
        Selector

VARIABLE part   \* the component this behaviour is about

vars == <<part, poolVars, singleVars, streamVars, breakerVars, srvVars, fwdVars, mgrVars, lbVars,
          ringVars>>

Parts == {"pool", "single", "stream", "breaker", "server", "forwarder", "manager", "balancer",
          "ring"}

\* A component that the behaviour is not about starts in one way only.
Init ==
    /\ part \in Parts
    /\ PoolInit /\ SingleInit /\ StreamInit /\ BreakerInit /\ SrvInit /\ FwdInit /\ MgrInit /\ SelInit
    /\ part # "pool" => idle = <<>>

\* The components that the behaviour is not about rest.
Others(name) ==
    /\ UNCHANGED part
    /\ IF name = "pool" THEN TRUE ELSE UNCHANGED poolVars
    /\ IF name = "single" THEN TRUE ELSE UNCHANGED singleVars
    /\ IF name = "stream" THEN TRUE ELSE UNCHANGED streamVars
    /\ IF name = "breaker" THEN TRUE ELSE UNCHANGED breakerVars
    /\ IF name = "server" THEN TRUE ELSE UNCHANGED srvVars
    /\ IF name = "forwarder" THEN TRUE ELSE UNCHANGED fwdVars
    /\ IF name = "manager" THEN TRUE ELSE UNCHANGED mgrVars
    /\ IF name \in {"balancer", "ring"} THEN TRUE ELSE UNCHANGED <<lbVars, ringVars>>

Part(name, A) == part = name /\ A /\ Others(name)

Next ==
    \/ Part("pool", PoolNext) \/ Part("single", SingleNext) \/ Part("stream", StreamNext)
    \/ Part("breaker", BreakerNext) \/ Part("server", SrvNext) \/ Part("forwarder", FwdNext)
    \/ Part("manager", MgrNext) \/ Part("balancer", LbNext) \/ Part("ring", RingNext)

Spec == Init /\ [][Next]_vars

(***************************************************************************)
(* Fairness: goroutines run on, deadlines pass, handlers return.  A write  *)
(* without a deadline need not return: nothing is assumed of Sent,         *)
(* Notified, SrvResponded and, in the forwarder, of ClientReturns and      *)
(* SweepClients.  See PoolFairness, SingleFairness and BreakerFairness.    *)
(***************************************************************************)
FairSpec ==
    /\ Spec
    /\ \A c \in Borrowers :
          /\ WF_vars(Part("pool", Resume(c) \/ InvokeEnd(c)))
          /\ WF_vars(Part("pool", DeadlinePasses(c)))
          /\ SF_vars(Part("pool", ReturnClient(c) \/ DropClient(c)))
    /\ WF_vars(Part("pool", DrainTimeout \/ CloseFinish))
    /\ \A c \in Calls :
          /\ WF_vars(Part("single", MarshalFails(c) \/ Send(c)))
          /\ WF_vars(Part("single", TakeResult(c) \/ Abandon(c)))
          /\ WF_vars(Part("single", Leave(c)))
    /\ WF_vars(Part("single", RxStep))
    /\ WF_vars(Part("single", CloserStep))
    /\ WF_vars(Part("breaker", BreakerTick))
    /\ \A c \in BreakerCalls : /\ WF_vars(Part("breaker", Allow(c)))
                              /\ WF_vars(Part("breaker", RecordSuccess(c)))
    /\ \A c \in Peers : WF_vars(Part("server", PeerStep(c)))
    /\ WF_vars(Part("server", SrvStopStep))
    /\ \A c \in Forwards : WF_vars(Part("forwarder", ForwardStep(c)))
    /\ WF_vars(Part("forwarder", StopLocks))

\* Hashes of the replicas; some collide.
MCHashOf(s, i) ==
    CASE s = "s1" -> 2 * i [] s = "s2" -> 2 * i + 1 [] OTHER -> 3 * i

-----------------------------------------------------------------------------
\* Every Close, Stop and Forward ends: Close of the pool although calls may still be
\* in flight, Close of the single client, which waits for its receive loop, Stop of
\* the server, however many connections wait for a slot, and the forwarder, where
\* nobody keeps stopMu.  The exception is a write that never returns: the single
\* client and the server write without a deadline, neither Close nor Stop gets as far
\* as closing that connection, and the forwarder waits for its clients.  And when the
\* forwarder has stopped, no client is left open but those ForwarderCleared names.
RpcStopReturns ==
    LET busy == PoolClosing \/ SingleClosing \/ ServerStopping \/ ForwarderBusy
        writing == ~MuFree \/ Responding \/ ClientCalled
    IN  []<>(~busy \/ writing) /\ []ForwarderCleared
=============================================================================
