-------------------------------- MODULE Cron --------------------------------
(***************************************************************************)
(* CronScheduler of scheduler/cron.go over the cron library, of which      *)
(* this much is used: entries that fire while the runner is started, jobs  *)
(* in goroutines of their own, and a Stop whose context ends when the jobs *)
(* have.  Task ids are distinct and the configuration is loaded once, as   *)
(* CronManager.StartAll does.                                              *)
(***************************************************************************)
EXTENDS Integers, FiniteSets

CONSTANTS
    CronIds,    \* ids of the tasks configured for this server type
    Mine,       \* those for this server id
    Usable,     \* those with a registered action and a valid time
    MaxEntries  \* bound on the entries made

ASSUME CronAssumption ==
    MaxEntries \in Nat /\ Mine \subseteq CronIds /\ Usable \subseteq CronIds

EntryIds == 1..MaxEntries

VARIABLES
    cronTasks,      \* cs.tasks
    methods,        \* cs.methods has been filled
    initialized,    \* cs.initialized
    ticking,        \* the cron runner is started
    entries,        \* entries of the cron library, as pairs <<entry, task>>
    made,           \* entries made so far
    taskEntries,    \* cs.taskEntries, as pairs <<task, entry>>
    cancelledCtx,   \* cs.stopCtx is done
    job,            \* entry -> its job: "no", "launched", "runs"
    stopCron        \* Stop: "no", "waits" (cs.mu held), "done", "timeout"

cronVars == <<cronTasks, methods, initialized, ticking, entries, made, taskEntries, cancelledCtx,
              job, stopCron>>

CronInit ==
    /\ cronTasks = {} /\ methods = FALSE /\ initialized = FALSE /\ ticking = FALSE
    /\ entries = {} /\ made = 0 /\ taskEntries = {} /\ cancelledCtx = FALSE
    /\ job = [e \in EntryIds |-> "no"] /\ stopCron = "no"

CronLocked == stopCron = "waits"

\* LoadConfig: the tasks without a server id or with this one.
LoadConfig ==
    /\ ~CronLocked /\ cronTasks = {} /\ cronTasks' = Mine
    /\ UNCHANGED <<methods, initialized, ticking, entries, made, taskEntries, cancelledCtx, job,
                   stopCron>>

\* RegisterMethods.
RegisterMethods ==
    /\ ~CronLocked /\ ~methods /\ methods' = TRUE
    /\ UNCHANGED <<cronTasks, initialized, ticking, entries, made, taskEntries, cancelledCtx, job,
                   stopCron>>

\* Fault: the entry is added and not remembered.
AddEntriesBlindly(ids) ==
    /\ made' = made + Cardinality(ids)
    /\ \E f \in [ids -> (made + 1)..made'] :
           /\ \A i, j \in ids : i # j => f[i] # f[j]
           /\ entries' = entries \cup {<<f[i], i>> : i \in ids}
           /\ taskEntries' \in {taskEntries, {p \in taskEntries : p[1] \notin ids} \cup {<<i, f[i]>> : i \in ids}}

\* One entry per task, remembered under the task's id.
AddEntries(ids) ==
    /\ made' = made + Cardinality(ids)
    /\ \E f \in [ids -> (made + 1)..made'] :
           /\ \A i, j \in ids : i # j => f[i] # f[j]
           /\ entries' = entries \cup {<<f[i], i>> : i \in ids}
           /\ taskEntries' = {p \in taskEntries : p[1] \notin ids} \cup {<<i, f[i]>> : i \in ids}

\* Start: tasks without a registered action or a valid time are skipped.
CronStart ==
    LET ids == IF methods THEN cronTasks \cap Usable ELSE {}
    IN  /\ ~CronLocked /\ ~initialized /\ made + Cardinality(ids) <= MaxEntries
        /\ initialized' = TRUE /\ ticking' = TRUE
        /\ AddEntries(ids)
        /\ UNCHANGED <<cronTasks, methods, cancelledCtx, job, stopCron>>

\* The library launches the job of an entry whose time has come.
Fire(e) ==
    /\ ticking /\ job[e] = "no" /\ \E i \in CronIds : <<e, i>> \in entries
    /\ job' = [job EXCEPT ![e] = "launched"]
    /\ UNCHANGED <<cronTasks, methods, initialized, ticking, entries, made, taskEntries,
                   cancelledCtx, stopCron>>

\* Fault: the job does not look at stopCtx.
JobBodyUnchecked(e) ==
    /\ \/ job[e] = "launched" /\ job' = [job EXCEPT ![e] = "runs"]
       \/ job[e] = "runs" /\ job' = [job EXCEPT ![e] = "no"]
    /\ UNCHANGED <<cronTasks, methods, initialized, ticking, entries, made, taskEntries,
                   cancelledCtx, stopCron>>

\* The job: nothing once stopCtx is done, else the method, which ends or panics.
JobBody(e) ==
    /\ \/ job[e] = "launched" /\ job' = [job EXCEPT ![e] = IF cancelledCtx THEN "no" ELSE "runs"]
       \/ job[e] = "runs" /\ job' = [job EXCEPT ![e] = "no"]
    /\ UNCHANGED <<cronTasks, methods, initialized, ticking, entries, made, taskEntries,
                   cancelledCtx, stopCron>>

\* Stop takes the lock, cancels stopCtx for good and stops the runner.
CronStop ==
    /\ ~CronLocked /\ stopCron' = "waits" /\ cancelledCtx' = TRUE /\ ticking' = FALSE
    /\ UNCHANGED <<cronTasks, methods, initialized, entries, made, taskEntries, job>>

\* Stop returns when the jobs have ended, or after five seconds; the entries stay in
\* the library.
CronStopped ==
    /\ CronLocked
    /\ stopCron' \in (IF \A e \in EntryIds : job[e] = "no" THEN {"done", "timeout"} ELSE {"timeout"})
    /\ initialized' = FALSE /\ taskEntries' = {}
    /\ UNCHANGED <<cronTasks, methods, ticking, entries, made, cancelledCtx, job>>

\* Cancel.
Cancel(i) ==
    /\ ~CronLocked
    /\ \E e \in EntryIds : /\ <<i, e>> \in taskEntries
                           /\ entries' = {p \in entries : p[1] # e}
                           /\ taskEntries' = taskEntries \ {<<i, e>>}
    /\ UNCHANGED <<cronTasks, methods, initialized, ticking, made, cancelledCtx, job, stopCron>>

CronNext ==
    \/ LoadConfig \/ RegisterMethods \/ CronStart \/ CronStop \/ CronStopped
    \/ \E e \in EntryIds : Fire(e) \/ JobBody(e)
    \/ \E i \in CronIds : Cancel(i)

-----------------------------------------------------------------------------
\* A method that can still be begun can be cancelled: until Stop, every entry in
\* the library is the one taskEntries names; and from a Stop that did not time
\* out on, no method runs, also after a later Start.
CronControlled ==
    /\ ~cancelledCtx => \A p \in entries : <<p[2], p[1]>> \in taskEntries
    /\ stopCron = "done" => \A e \in EntryIds : job[e] # "runs"
=============================================================================
