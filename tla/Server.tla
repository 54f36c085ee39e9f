------------------------------- MODULE Server -------------------------------
(***************************************************************************)
(* What a server process is built from beside its connectors and its RPC   *)
(* side: the handler pipeline, sessions, broadcasts, the life cycle and    *)
(* the shutdown, schedulers, pools, limits, configuration and the list of  *)
(* servers.  The services share no state; a behaviour exercises one of     *)
(* them, chosen initially.                                                 *)
(***************************************************************************)
EXTENDS Pipeline, SessionManager, Broadcast, Lifecycle, Shutdown, Scheduler, Cron, ConnPools,
        Limits, Reload, ServerList, Dictionary, HandlerLoader, Connections

VARIABLE part   \* the service this behaviour is about

vars == <<part, pipelineVars, sessionVars, queueVars, memberVars, lifecycleVars, shutdownVars,
          schedulerVars, priorityVars, cronVars, connPoolVars, workerPoolVars, limitVars,
          filterVars, reloadVars, saveVars, serverListVars, dictionaryVars, schemaVars,
          loaderVars, connectionVars, channelVars>>

Parts == {"pipeline", "sessions", "queue", "members", "lifecycle", "shutdown", "scheduler",
          "priority", "cron", "pool", "workers", "limit", "filter", "reload", "save", "servers",
          "dictionary", "schema", "loader", "conns", "channels"}

\* A service that the behaviour is not about starts in one way only.
Init ==
    /\ part \in Parts
    /\ PipelineInit /\ SessionInit /\ QueueInit /\ MembersInit /\ LifecycleInit /\ ShutdownInit
    /\ SchedulerInit /\ PriorityInit /\ CronInit /\ ConnPoolInit /\ WorkerPoolInit /\ LimitInit
    /\ FilterInit /\ ReloadInit /\ SaveInit /\ ServerListInit /\ DictionaryInit
    /\ SchemaInit /\ LoaderInit /\ ConnectionsInit /\ ChannelInit
    /\ part # "lifecycle" => manager
    /\ part # "shutdown" => graceful
    /\ part # "scheduler" => handler
    /\ part # "pool" => unlocked

\* The services that the behaviour is not about rest.
Others(name) ==
    /\ UNCHANGED part
    /\ IF name = "pipeline" THEN TRUE ELSE UNCHANGED pipelineVars
    /\ IF name = "sessions" THEN TRUE ELSE UNCHANGED sessionVars
    /\ IF name = "queue" THEN TRUE ELSE UNCHANGED queueVars
    /\ IF name = "members" THEN TRUE ELSE UNCHANGED memberVars
    /\ IF name = "lifecycle" THEN TRUE ELSE UNCHANGED lifecycleVars
    /\ IF name = "shutdown" THEN TRUE ELSE UNCHANGED shutdownVars
    /\ IF name = "scheduler" THEN TRUE ELSE UNCHANGED schedulerVars
    /\ IF name = "priority" THEN TRUE ELSE UNCHANGED priorityVars
    /\ IF name = "cron" THEN TRUE ELSE UNCHANGED cronVars
    /\ IF name = "pool" THEN TRUE ELSE UNCHANGED connPoolVars
    /\ IF name = "workers" THEN TRUE ELSE UNCHANGED workerPoolVars
    /\ IF name = "limit" THEN TRUE ELSE UNCHANGED limitVars
    /\ IF name = "filter" THEN TRUE ELSE UNCHANGED filterVars
    /\ IF name = "reload" THEN TRUE ELSE UNCHANGED reloadVars
    /\ IF name = "save" THEN TRUE ELSE UNCHANGED saveVars
    /\ IF name = "servers" THEN TRUE ELSE UNCHANGED serverListVars
    /\ IF name = "dictionary" THEN TRUE ELSE UNCHANGED dictionaryVars
    /\ IF name = "schema" THEN TRUE ELSE UNCHANGED schemaVars
    /\ IF name = "loader" THEN TRUE ELSE UNCHANGED loaderVars
    /\ IF name = "conns" THEN TRUE ELSE UNCHANGED connectionVars
    /\ IF name = "channels" THEN TRUE ELSE UNCHANGED channelVars

Part(name, A) == part = name /\ A /\ Others(name)

Next ==
    \/ Part("pipeline", PipelineNext) \/ Part("sessions", SessionNext)
    \/ Part("queue", QueueNext) \/ Part("members", MembersNext)
    \/ Part("lifecycle", LifecycleNext) \/ Part("shutdown", ShutdownNext)
    \/ Part("scheduler", SchedulerNext) \/ Part("priority", PriorityNext)
    \/ Part("cron", CronNext)
    \/ Part("pool", ConnPoolNext) \/ Part("workers", WorkerPoolNext)
    \/ Part("limit", LimitNext) \/ Part("filter", FilterNext)
    \/ Part("reload", ReloadNext) \/ Part("save", SaveNext)
    \/ Part("servers", ServerListNext)
    \/ Part("dictionary", DictionaryNext) \/ Part("schema", SchemaNext)
    \/ Part("loader", LoaderNext)
    \/ Part("conns", ConnectionsNext) \/ Part("channels", ChannelNext)

Spec == Init /\ [][Next]_vars

(***************************************************************************)
(* Fairness: goroutines run on, tickers fire, timeouts pass; components,   *)
(* hooks, tasks and jobs return.  A call that has begun goes on; none has  *)
(* to be made.  A push of a broadcast need not end: its writes have no     *)
(* deadline.                                                               *)
(***************************************************************************)
FairSpec ==
    /\ Spec
    /\ \A w \in Workers : WF_vars(Part("queue", WorkerStep(w)))
    /\ WF_vars(Part("queue", CloseBegin))
    /\ WF_vars(Part("lifecycle", LifecycleStep))
    /\ WF_vars(Part("shutdown", Expire)) /\ WF_vars(Part("shutdown", ShutdownStep))
    /\ \A w \in SchedWorkers : /\ WF_vars(Part("scheduler", SchedulerWorks(w)))
                               /\ WF_vars(Part("priority", PriorityWorks(w)))
    /\ WF_vars(Part("scheduler", halt # "no" /\ SchedulerStop))
    /\ WF_vars(Part("priority", phalt # "no" /\ PriorityStop))
    /\ \A w \in PoolWorkers : WF_vars(Part("workers", PoolWorks(w)))
    /\ WF_vars(Part("workers", poolStop # "no" /\ CloseWorkers))
    /\ WF_vars(Part("reload", PollStat)) /\ WF_vars(Part("reload", PollReload))
    /\ WF_vars(Part("reload", \E l \in loops : LoopEnds(l)))

-----------------------------------------------------------------------------
\* Every Start, Stop, Close and shutdown returns: App.Start and Stop unless a plugin
\* is installed or removed while a phase of the hooks holds the read lock once,
\* WaitAndShutdown and Run, Stop of both schedulers, the loops of a stopped
\* reloader, and Close of the worker pool unless a Submit has crashed the process.
AllReturn ==
    LET busy == LifecycleBusy \/ Active \/ SchedulersStopping \/ WorkersJoining
                \/ (done /\ loops # {})
    IN  busy ~> ~busy \/ blocked \/ crashed


\* No limiter lets more through than its rate, its burst and its table allow.
RatesKept == RateKept /\ KeyRateKept

\* Tables that name the same things agree: the servers by id and by type, the
\* members of a broadcast by user and by connection, routes and their ids,
\* connections and their sessions.
TablesAgree ==
    OfferedExactly /\ IdsAreMembers /\ DictionariesInvert /\ SchemasInvert /\ SessionsOfConns

\* What was saved or loaded is complete: the configuration file after any crash, the
\* tables of handlers after any overlap of Load and Reload.
LoadsWhole == FileWhole /\ TablesWhole

\* No publication is lost or repeated: an accepted task of the broadcast service is
\* queued, collected or pushed, once; a Push over a channel deals with each of the
\* members it has copied once.  (How many copies a session gets of one task is a matter
\* of the member tables, which list a session as often as it was added.)
DeliveredOnce == PushedOnce /\ ChannelPushedOnce

\* The components of the shutdown runs, in the order they were added.
MCHooks == <<"h1", "h2">>

\* Two server types to load: one with two filters, one with a handler and a remote.
MCLoadTypes == <<"connector", "gate">>
MCFuncs ==
    [c \in {"connector", "gate"} \X {"handlers", "remotes", "filters", "crons"} |->
        IF c = <<"connector", "filters">> THEN <<"n1", "n2">>
        ELSE IF c \in {<<"gate", "handlers">>, <<"gate", "remotes">>} THEN <<"n1">> ELSE <<>>]
=============================================================================
