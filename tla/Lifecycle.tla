----------------------------- MODULE Lifecycle ------------------------------
(***************************************************************************)
(* Start and Stop of App (lib/app.go) with the hooks of its plugins        *)
(* (plugin/plugin.go), and StartAll and StopAll of LifecycleManager        *)
(* (lib/lifecycle.go).  Components start in parallel goroutines; a start   *)
(* that fails or times out stops the components that are up.  Components   *)
(* and plugins are external: Start and the hooks succeed or fail, Stop     *)
(* ends a component that is up.                                            *)
(***************************************************************************)
EXTENDS Integers, Sequences, FiniteSets, SequencesExt

CONSTANTS
    Comps,      \* components
    Plugins,    \* plugins
    MaxStarts   \* bound on the calls of App.Start

ASSUME LifecycleAssumption == MaxStarts \in Nat

Inited == 1
Starting == 2
Running == 3
Stopped == 4

VARIABLES
    manager,    \* TRUE: a LifecycleManager, without plugins and timeouts
    appState,   \* a.state
    loaded,     \* a.loaded
    up,         \* components whose Start succeeded and that were not stopped since
    starter,    \* where Start is: "no", "BeforeStart", "components", "undo", "undoAgain",
                \* "AfterStart", "announce", "ok", "err"
    wanted,     \* components Start copied from a.loaded
    starting,   \* those whose goroutine has not returned
    started,    \* the slice started
    firstErr,   \* firstErr # nil
    stray,      \* components still starting when their startComponents returned
    starts,     \* calls of Start
    stopper,    \* where Stop is: "no", "BeforeStop", "components", "AfterStop", "done"
    stopping,   \* components whose Stop has not returned
    plugins,    \* keys of m.plugins
    hook,       \* "start", "stop" -> the phase that Start or Stop waits for
    blocked,    \* a writer waits for m.mu while a phase holds it for reading
    disturbed   \* history: a timeout, or Stop called while Start was running

lifecycleVars == <<manager, appState, loaded, up, starter, wanted, starting, started, firstErr,
                   stray, starts, stopper, stopping, plugins, hook, blocked, disturbed>>

startVars == <<starter, wanted, starting, started, firstErr, stray, starts>>
stopVars == <<stopper, stopping>>
pluginVars == <<plugins, hook, blocked>>

NoHook == [step |-> "none", todo |-> {}, failed |-> FALSE]

LifecycleInit ==
    /\ manager \in BOOLEAN
    /\ appState = Inited /\ loaded = <<>> /\ up = {}
    /\ starter = "no" /\ wanted = {} /\ starting = {} /\ started = {} /\ firstErr = FALSE
    /\ stray = {} /\ starts = 0
    /\ stopper = "no" /\ stopping = {}
    /\ plugins = {} /\ hook = [g \in {"start", "stop"} |-> NoHook] /\ blocked = FALSE
    /\ disturbed = FALSE

StartBusy == starter \notin {"no", "ok", "err"}

\* Load; a name that is taken is ignored.
Load(c) ==
    /\ c \notin Range(loaded)
    /\ loaded' = Append(loaded, c)
    /\ UNCHANGED <<manager, appState, up, startVars, stopVars, pluginVars, disturbed>>

-----------------------------------------------------------------------------
(* A phase of the plugin hooks, as Start ("start") or Stop ("stop") sees it. *)

HookBegin(g) == hook' = [hook EXCEPT ![g] = [NoHook EXCEPT !.step = "lock"]]
HookDone(g) == hook[g].step = "run" /\ hook[g].todo = {}

\* m.mu.RLock of the phase.
HookLock(g) ==
    /\ hook[g].step = "lock" /\ ~blocked
    /\ hook' = [hook EXCEPT ![g].step = "snapshot"]
    /\ UNCHANGED <<manager, appState, loaded, up, startVars, stopVars, plugins, blocked, disturbed>>

\* GetAll, which takes the read lock again: not behind a waiting writer.
GetAll(g) ==
    /\ hook[g].step = "snapshot" /\ ~blocked
    /\ hook' = [hook EXCEPT ![g].step = "run", ![g].todo = plugins]
    /\ UNCHANGED <<manager, appState, loaded, up, startVars, stopVars, plugins, blocked, disturbed>>

\* The goroutine of one plugin sends its result.
HookResult(g, p) ==
    /\ hook[g].step = "run" /\ p \in hook[g].todo
    /\ \E failed \in {hook[g].failed, TRUE} :
           hook' = [hook EXCEPT ![g].todo = @ \ {p}, ![g].failed = failed]
    /\ UNCHANGED <<manager, appState, loaded, up, startVars, stopVars, plugins, blocked, disturbed>>

\* BeforeStart, AfterStart, BeforeStop and AfterStop: the four phases work alike.
HookStep(g) == HookLock(g) \/ GetAll(g) \/ \E p \in Plugins : HookResult(g, p)

\* A write of the plugin table; it waits for a phase that holds the read lock.
PluginWrite(ps) ==
    /\ ~manager /\ ~blocked
    /\ IF \E g \in DOMAIN hook : hook[g].step = "snapshot"
         THEN blocked' = TRUE /\ UNCHANGED plugins
         ELSE plugins' = ps /\ UNCHANGED blocked
    /\ UNCHANGED <<manager, appState, loaded, up, startVars, stopVars, hook, disturbed>>

Install(p) == p \notin plugins /\ PluginWrite(plugins \cup {p})
Uninstall(p) == p \in plugins /\ PluginWrite(plugins \ {p})

-----------------------------------------------------------------------------
\* startComponents copies the list and starts one goroutine per component.
LaunchAll ==
    /\ wanted' = Range(loaded) /\ starting' = Range(loaded)
    /\ started' = {} /\ firstErr' = FALSE
    /\ starter' = "components"
    /\ UNCHANGED stray

\* App.Start; after a failed start it may be called again.
Start ==
    /\ ~manager /\ ~StartBusy /\ appState = Inited /\ starts < MaxStarts
    /\ starts' = starts + 1 /\ starter' = "BeforeStart" /\ HookBegin("start")
    /\ UNCHANGED <<manager, appState, loaded, up, wanted, starting, started, firstErr, stray,
                   stopVars, plugins, blocked, disturbed>>

\* BeforeStart returns.
StartComponents ==
    /\ starter = "BeforeStart" /\ HookDone("start")
    /\ IF hook["start"].failed
         THEN starter' = "err" /\ UNCHANGED <<wanted, starting, started, firstErr, stray>>
         ELSE LaunchAll
    /\ UNCHANGED <<manager, appState, loaded, up, starts, stopVars, pluginVars, disturbed>>

\* LifecycleManager.StartAll, called once and before StopAll.
StartAll ==
    /\ manager /\ starter = "no" /\ stopper = "no" /\ LaunchAll
    /\ UNCHANGED <<manager, appState, loaded, up, starts, stopVars, pluginVars, disturbed>>

\* comp.Start returns, well or with an error.
ComponentStarts(c) ==
    /\ c \in starting /\ starting' = starting \ {c}
    /\ \/ up' = up \cup {c} /\ started' = started \cup {c} /\ UNCHANGED firstErr
       \/ firstErr' = TRUE /\ UNCHANGED <<up, started>>
    /\ UNCHANGED <<manager, appState, loaded, starter, wanted, stray, starts, stopVars, pluginVars,
                   disturbed>>

\* The same for a goroutine of a startComponents that has returned.
StrayStarts(c) ==
    /\ c \in stray /\ stray' = stray \ {c}
    /\ up' \in {up, up \cup {c}}
    /\ UNCHANGED <<manager, appState, loaded, starter, wanted, starting, started, firstErr, starts,
                   stopVars, pluginVars, disturbed>>

\* Fault: an error of one component is only noticed when no other one started.
StartsJoinedBlindly ==
    /\ starter = "components" /\ starting = {}
    /\ starter' = (IF firstErr /\ started = {} THEN "undoAgain"
                   ELSE IF manager THEN "ok" ELSE "AfterStart")
    /\ IF starter' = "AfterStart" THEN appState' = Starting /\ HookBegin("start")
                                  ELSE UNCHANGED <<appState, hook>>
    /\ UNCHANGED <<manager, loaded, up, wanted, starting, started, firstErr, stray, starts,
                   stopVars, plugins, blocked, disturbed>>

\* wg.Wait returns: undo, or go on; App.Start sets a.state without a.mu.
StartsJoined ==
    /\ starter = "components" /\ starting = {}
    /\ starter' = (IF firstErr THEN "undoAgain" ELSE IF manager THEN "ok" ELSE "AfterStart")
    /\ IF starter' = "AfterStart" THEN appState' = Starting /\ HookBegin("start")
                                  ELSE UNCHANGED <<appState, hook>>
    /\ UNCHANGED <<manager, loaded, up, wanted, starting, started, firstErr, stray, starts,
                   stopVars, plugins, blocked, disturbed>>

\* startTimeout is over first.
StartTimeout ==
    /\ starter = "components" /\ ~manager
    /\ firstErr' = TRUE /\ starter' = "undo" /\ disturbed' = TRUE
    /\ UNCHANGED <<manager, appState, loaded, up, wanted, starting, started, stray, starts,
                   stopVars, pluginVars>>

\* The components in started are stopped: once after a timeout, then once after any
\* error.  A goroutine that is still starting its component stays behind.
Undo ==
    /\ starter \in {"undo", "undoAgain"} /\ up' = up \ started
    /\ IF starter = "undo"
         THEN starter' = "undoAgain" /\ UNCHANGED <<starting, stray>>
         ELSE starter' = "err" /\ stray' = stray \cup starting /\ starting' = {}
    /\ UNCHANGED <<manager, appState, loaded, wanted, started, firstErr, starts, stopVars,
                   pluginVars, disturbed>>

\* AfterStart returns; a failure leaves the components up.
AfterStart ==
    /\ starter = "AfterStart" /\ HookDone("start")
    /\ starter' = IF hook["start"].failed THEN "err" ELSE "announce"
    /\ UNCHANGED <<manager, appState, loaded, up, wanted, starting, started, firstErr, stray,
                   starts, stopVars, pluginVars, disturbed>>

\* afterStart, whatever Stop did meanwhile.
Announce ==
    /\ starter = "announce" /\ starter' = "ok" /\ appState' = Running
    /\ UNCHANGED <<manager, loaded, up, wanted, starting, started, firstErr, stray, starts,
                   stopVars, pluginVars, disturbed>>

-----------------------------------------------------------------------------
\* App.Stop; it does not ask whether Start is still running.
Stop ==
    /\ ~manager /\ stopper = "no" /\ appState <= Running
    /\ appState' = Stopped /\ stopper' = "BeforeStop" /\ stopping' = Range(loaded)
    /\ HookBegin("stop")
    /\ disturbed' = (disturbed \/ StartBusy)
    /\ UNCHANGED <<manager, loaded, up, startVars, plugins, blocked>>

\* BeforeStop returns; an error is only remembered.
StopComponents ==
    /\ stopper = "BeforeStop" /\ HookDone("stop") /\ stopper' = "components"
    /\ UNCHANGED <<manager, appState, loaded, up, startVars, stopping, pluginVars, disturbed>>

\* LifecycleManager.StopAll.
StopAll ==
    /\ manager /\ stopper = "no"
    /\ stopper' = "components" /\ stopping' = Range(loaded)
    /\ disturbed' = StartBusy
    /\ UNCHANGED <<manager, appState, loaded, up, startVars, pluginVars>>

\* c is the last of the components not stopped yet.
IsLast(c) == \A d \in stopping : IndexFirstSubSeq(<<d>>, loaded) <= IndexFirstSubSeq(<<c>>, loaded)

\* comp.Stop returns: App stops them in parallel, the manager from last to first.
ComponentStops(c) ==
    /\ stopper \notin {"no", "BeforeStop"} /\ c \in stopping /\ (manager => IsLast(c))
    /\ stopping' = stopping \ {c} /\ up' = up \ {c}
    /\ UNCHANGED <<manager, appState, loaded, startVars, stopper, pluginVars, disturbed>>

\* Fault: Stop goes on when the first component has stopped.
StopsHasty ==
    /\ stopper = "components" /\ (stopping # Range(loaded) \/ loaded = <<>>)
    /\ IF manager THEN stopper' = "done" /\ UNCHANGED hook
                  ELSE stopper' = "AfterStop" /\ HookBegin("stop")
    /\ UNCHANGED <<manager, appState, loaded, up, startVars, stopping, plugins, blocked, disturbed>>

\* All have stopped.
StopsJoined ==
    /\ stopper = "components" /\ stopping = {}
    /\ IF manager THEN stopper' = "done" /\ UNCHANGED hook
                  ELSE stopper' = "AfterStop" /\ HookBegin("stop")
    /\ UNCHANGED <<manager, appState, loaded, up, startVars, stopping, plugins, blocked, disturbed>>

\* stopTimeout is over; the goroutines go on.
StopTimeout ==
    /\ stopper = "components" /\ ~manager
    /\ stopper' = "AfterStop" /\ HookBegin("stop") /\ disturbed' = TRUE
    /\ UNCHANGED <<manager, appState, loaded, up, startVars, stopping, plugins, blocked>>

AfterStop ==
    /\ stopper = "AfterStop" /\ HookDone("stop") /\ stopper' = "done"
    /\ UNCHANGED <<manager, appState, loaded, up, startVars, stopping, pluginVars, disturbed>>

-----------------------------------------------------------------------------
\* What runs on by itself, given that components and plugins return.
LifecycleStep ==
    \/ \E g \in DOMAIN hook : HookStep(g)
    \/ StartComponents \/ StartsJoined \/ Undo \/ AfterStart \/ Announce
    \/ StopComponents \/ StopsJoined \/ AfterStop
    \/ \E c \in Comps : ComponentStarts(c) \/ StrayStarts(c) \/ ComponentStops(c)

LifecycleNext ==
    \/ LifecycleStep
    \/ \E c \in Comps : Load(c)
    \/ \E p \in Plugins : Install(p) \/ Uninstall(p)
    \/ Start \/ StartAll \/ StartTimeout
    \/ Stop \/ StopAll \/ StopTimeout

-----------------------------------------------------------------------------
\* Unless a timeout or a Stop during Start came in between: a start that reports
\* success has every component up, one whose components failed leaves none up,
\* and after Stop none of the components is up.
Settled ==
    ~disturbed =>
        /\ starter = "ok" /\ stopper = "no" => up = wanted
        /\ starter = "err" /\ firstErr => up = {}
        /\ stopper = "done" /\ ~StartBusy => up = {}

\* Start or Stop has been called and has not returned.
LifecycleBusy == StartBusy \/ stopper \notin {"no", "done"}
=============================================================================
