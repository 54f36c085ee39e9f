----------------------------- MODULE Scheduler ------------------------------
(***************************************************************************)
(* Scheduler and PriorityScheduler of scheduler/scheduler.go (Dispatcher   *)
(* calls the first).  Scheduler: a bounded channel read by workers.        *)
(* PriorityScheduler: a heap under a mutex, with workers that sleep on a   *)
(* condition variable.                                                     *)
(***************************************************************************)
EXTENDS Integers, Sequences, FiniteSets

CONSTANTS
    Pushes,         \* tasks pushed
    SchedWorkers,   \* worker goroutines
    QueueCap,       \* capacity of p.tasks
    Idle,           \* "the worker has no task"
    Urgent          \* the tasks of high priority; the others have a lower one

ASSUME SchedulerAssumption ==
    /\ QueueCap \in Nat \ {0} /\ SchedWorkers # {}
    /\ Idle \notin Pushes /\ Urgent \subseteq Pushes

VARIABLES
    push,       \* task -> Push: "no", "sending", "in", "dropped"
    tasks,      \* p.tasks
    hand,       \* worker -> the task it dispatches
    quit,       \* workers that have returned
    handled,    \* task -> calls of the handler
    handler,    \* p.handler # nil
    halt        \* Stop: "no", "flag" (p.closed), "closed" (the channel too), "done"

schedulerVars == <<push, tasks, hand, quit, handled, handler, halt>>

SchedulerInit ==
    /\ push = [t \in Pushes |-> "no"] /\ tasks = <<>>
    /\ hand = [w \in SchedWorkers |-> Idle] /\ quit = {}
    /\ handled = [t \in Pushes |-> 0] /\ handler \in BOOLEAN /\ halt = "no"

\* SetHandler.
SetHandler ==
    /\ ~handler /\ handler' = TRUE
    /\ UNCHANGED <<push, tasks, hand, quit, handled, halt>>

\* Push reads p.closed.
PushCheck(t) ==
    /\ push[t] = "no"
    /\ push' = [push EXCEPT ![t] = IF halt = "no" THEN "sending" ELSE "dropped"]
    /\ UNCHANGED <<tasks, hand, quit, handled, handler, halt>>

\* Push sends: a full channel drops the task; on a closed one the send panics, and
\* the panic is recovered.
PushSend(t) ==
    /\ push[t] = "sending"
    /\ IF halt \in {"no", "flag"} /\ Len(tasks) < QueueCap
         THEN push' = [push EXCEPT ![t] = "in"] /\ tasks' = Append(tasks, t)
         ELSE push' = [push EXCEPT ![t] = "dropped"] /\ UNCHANGED tasks
    /\ UNCHANGED <<hand, quit, handled, handler, halt>>

\* A worker receives a task.
WorkerTakes(w) ==
    /\ w \notin quit /\ hand[w] = Idle /\ tasks # <<>>
    /\ hand' = [hand EXCEPT ![w] = Head(tasks)] /\ tasks' = Tail(tasks)
    /\ UNCHANGED <<push, quit, handled, handler, halt>>

\* dispatch; without a handler the task is lost.
Dispatch(w) ==
    /\ hand[w] # Idle /\ hand' = [hand EXCEPT ![w] = Idle]
    /\ handled' = IF handler THEN [handled EXCEPT ![hand[w]] = @ + 1] ELSE handled
    /\ UNCHANGED <<push, tasks, quit, handler, halt>>

\* Fault: the worker leaves when the flag is set, whatever the channel holds.
WorkerLeaves(w) ==
    /\ w \notin quit /\ hand[w] = Idle /\ halt # "no"
    /\ quit' = quit \cup {w}
    /\ UNCHANGED <<push, tasks, hand, handled, handler, halt>>

\* The channel is closed and empty: the worker returns.
WorkerQuits(w) ==
    /\ w \notin quit /\ hand[w] = Idle /\ halt = "closed" /\ tasks = <<>>
    /\ quit' = quit \cup {w}
    /\ UNCHANGED <<push, tasks, hand, handled, handler, halt>>

\* Stop: the flag under the lock, then the channel, then the workers.
SchedulerStop ==
    /\ \/ halt = "no" /\ halt' = "flag"
       \/ halt = "flag" /\ halt' = "closed"
       \/ halt = "closed" /\ quit = SchedWorkers /\ halt' = "done"
    /\ UNCHANGED <<push, tasks, hand, quit, handled, handler>>

SchedulerWorks(w) == WorkerTakes(w) \/ Dispatch(w) \/ WorkerQuits(w)

SchedulerNext ==
    \/ SetHandler \/ SchedulerStop
    \/ \E t \in Pushes : PushCheck(t) \/ PushSend(t)
    \/ \E w \in SchedWorkers : SchedulerWorks(w)

\* Places where task t waits.
Waiting(t) == {i \in DOMAIN tasks : tasks[i] = t} \cup {w \in SchedWorkers : hand[w] = t}

\* An accepted task is handled once, or lost because no handler was set; when Stop
\* returns none is left, also of those pushed between its two steps.
TasksHandled ==
    /\ \A t \in Pushes : handled[t] + Cardinality(Waiting(t)) <= (IF push[t] = "in" THEN 1 ELSE 0)
    /\ halt = "done" => \A t \in Pushes : Waiting(t) = {}

-----------------------------------------------------------------------------
(* PriorityScheduler.                                                      *)

VARIABLES
    heap,       \* p.tasks, as a set
    added,      \* tasks Add was called for
    early,      \* history: those before Stop
    processed,  \* tasks processTask was called for
    stale,      \* tasks whose ExpireTime is over
    pw,         \* worker -> "ready" (about to lock), "wait", "work", "end"
    working,    \* worker -> the task it works on
    phalt       \* Stop: "no", "flag", "sent" (Broadcast done), "done"

priorityVars == <<heap, added, early, processed, stale, pw, working, phalt>>

PriorityInit ==
    /\ heap = {} /\ added = {} /\ early = {} /\ processed = {} /\ stale = {} /\ phalt = "no"
    /\ pw = [w \in SchedWorkers |-> "ready"] /\ working = [w \in SchedWorkers |-> Idle]

\* cond.Signal: one of the sleeping workers, if there is one, is woken.
Wake(p) ==
    IF \E w \in SchedWorkers : p[w] = "wait"
      THEN {[p EXCEPT ![w] = "ready"] : w \in {v \in SchedWorkers : p[v] = "wait"}}
      ELSE {p}

\* Add; it does not look at p.closed.
Add(t) ==
    /\ t \notin added /\ added' = added \cup {t} /\ heap' = heap \cup {t}
    /\ early' = IF phalt = "no" THEN early \cup {t} ELSE early
    /\ pw' \in Wake(pw)
    /\ UNCHANGED <<processed, stale, working, phalt>>

\* Five minutes pass for a task.
ExpireTask(t) ==
    /\ t \in heap \ stale /\ stale' = stale \cup {t}
    /\ UNCHANGED <<heap, added, early, processed, pw, working, phalt>>

\* p.tasks[0]: no waiting task has a higher priority.
IsTop(t) == t \in heap /\ (t \in Urgent \/ heap \cap Urgent = {})

\* The worker finds nothing to do and sleeps.
WorkerWaits(w) ==
    /\ pw[w] = "ready" /\ heap = {} /\ phalt = "no"
    /\ pw' = [pw EXCEPT ![w] = "wait"]
    /\ UNCHANGED <<heap, added, early, processed, stale, working, phalt>>

\* The worker pops the first task; it works on it unless it has expired.
WorkerPops(w, t) ==
    /\ pw[w] = "ready" /\ phalt = "no" /\ IsTop(t)
    /\ heap' = heap \ {t}
    /\ IF t \in stale THEN UNCHANGED <<pw, working>>
                      ELSE /\ pw' = [pw EXCEPT ![w] = "work"]
                           /\ working' = [working EXCEPT ![w] = t]
    /\ UNCHANGED <<added, early, processed, stale, phalt>>

\* processTask, without the lock.
WorkerProcesses(w) ==
    /\ pw[w] = "work" /\ pw' = [pw EXCEPT ![w] = "ready"]
    /\ processed' = processed \cup {working[w]}
    /\ working' = [working EXCEPT ![w] = Idle]
    /\ UNCHANGED <<heap, added, early, stale, phalt>>

\* p.closed: the worker processes what is left, holding the lock, and returns.
WorkerDrains(w) ==
    /\ pw[w] = "ready" /\ phalt # "no"
    /\ processed' = processed \cup (heap \ stale) /\ heap' = {}
    /\ pw' = [pw EXCEPT ![w] = "end"]
    /\ UNCHANGED <<added, early, stale, working, phalt>>

\* Fault: Stop wakes one worker.
PriorityStopSignals ==
    /\ \/ phalt = "no" /\ phalt' = "flag" /\ UNCHANGED pw
       \/ phalt = "flag" /\ phalt' = "sent" /\ pw' \in Wake(pw)
       \/ phalt = "sent" /\ (\A w \in SchedWorkers : pw[w] = "end") /\ phalt' = "done" /\ UNCHANGED pw
    /\ UNCHANGED <<heap, added, early, processed, stale, working>>

\* Stop: the flag under the lock, Broadcast after it, then the workers.
PriorityStop ==
    /\ \/ phalt = "no" /\ phalt' = "flag" /\ UNCHANGED pw
       \/ /\ phalt = "flag" /\ phalt' = "sent"
          /\ pw' = [w \in SchedWorkers |-> IF pw[w] = "wait" THEN "ready" ELSE pw[w]]
       \/ phalt = "sent" /\ (\A w \in SchedWorkers : pw[w] = "end") /\ phalt' = "done" /\ UNCHANGED pw
    /\ UNCHANGED <<heap, added, early, processed, stale, working>>

PriorityWorks(w) ==
    WorkerWaits(w) \/ WorkerProcesses(w) \/ WorkerDrains(w) \/ \E t \in Pushes : WorkerPops(w, t)

PriorityNext ==
    \/ \E t \in Pushes : Add(t) \/ ExpireTask(t)
    \/ \E w \in SchedWorkers : PriorityWorks(w)
    \/ PriorityStop

\* Tasks that were added before Stop and are neither processed nor expired.
TasksDue == ~(early \subseteq processed \cup stale)

\* Stop of either scheduler has been called and has not returned.
SchedulersStopping == halt \in {"flag", "closed"} \/ phalt \in {"flag", "sent"}
=============================================================================
