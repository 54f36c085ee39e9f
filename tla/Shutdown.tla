------------------------------ MODULE Shutdown ------------------------------
(***************************************************************************)
(* GracefulShutdown and ShutdownManager of lib/shutdown.go.  The first     *)
(* runs a callback and then stops its components one after the other; the  *)
(* second runs cleanup functions and Stop of its hooks in parallel.  Both  *)
(* start at a signal and give up after a timeout.                          *)
(***************************************************************************)
EXTENDS Integers, Sequences, FiniteSets

CONSTANTS
    Hooks,      \* components in the order they were added, a sequence
    Cleanups    \* cleanup functions

VARIABLES
    graceful,   \* TRUE: GracefulShutdown, FALSE: ShutdownManager
    signal,     \* the process: "runs", "shutting", "expired", or how it ended: "exit0",
                \* "exit1", "nil", "error", "deadline"
    callback,   \* onShutdown: "no", "ok", "failed"
    stoppedTo,  \* GracefulShutdown: components stopped so far
    jobs,       \* ShutdownManager: goroutines that have not returned
    errCh,      \* errors in the channel
    errs        \* errors received

shutdownVars == <<graceful, signal, callback, stoppedTo, jobs, errCh, errs>>

ShutdownInit ==
    /\ graceful \in BOOLEAN /\ signal = "runs" /\ callback = "no" /\ stoppedTo = 0
    /\ jobs = {} /\ errCh = 0 /\ errs = 0

Jobs == Cleanups \cup {Hooks[i] : i \in DOMAIN Hooks}

\* SIGINT or SIGTERM.
Signalled ==
    /\ signal = "runs" /\ signal' = "shutting"
    /\ jobs' = IF graceful THEN {} ELSE Jobs
    /\ UNCHANGED <<graceful, callback, stoppedTo, errCh, errs>>

\* The shutdown has begun and not ended.
Active == signal \in {"shutting", "expired"}

\* shutdown: onShutdown returns.
OnShutdown ==
    /\ graceful /\ Active /\ callback = "no"
    /\ callback' \in {"ok", "failed"}
    /\ UNCHANGED <<graceful, signal, stoppedTo, jobs, errCh, errs>>

\* shutdown: the next component stops; ctx is not looked at.
StopNext ==
    /\ graceful /\ Active /\ callback = "ok" /\ stoppedTo < Len(Hooks)
    /\ stoppedTo' = stoppedTo + 1
    /\ UNCHANGED <<graceful, signal, callback, jobs, errCh, errs>>

\* shutdown has returned: with an error if onShutdown failed.
ShutdownDone == callback = "failed" \/ (callback = "ok" /\ stoppedTo = Len(Hooks))

\* WaitAndShutdown receives from done.
Exit ==
    /\ graceful /\ Active /\ ShutdownDone
    /\ signal' = IF callback = "ok" THEN "exit0" ELSE "exit1"
    /\ UNCHANGED <<graceful, callback, stoppedTo, jobs, errCh, errs>>

\* The timeout is over, once.
Expire ==
    /\ signal = "shutting" /\ signal' = "expired"
    /\ UNCHANGED <<graceful, callback, stoppedTo, jobs, errCh, errs>>

\* WaitAndShutdown or Run notices.
GiveUp ==
    /\ signal = "expired" /\ signal' = IF graceful THEN "exit1" ELSE "deadline"
    /\ UNCHANGED <<graceful, callback, stoppedTo, jobs, errCh, errs>>

\* Run: a goroutine returns; a cleanup function may report an error.
JobReturns(j) ==
    /\ j \in jobs /\ Active
    /\ errCh' \in {errCh} \cup (IF j \in Cleanups THEN {errCh + 1} ELSE {})
    /\ jobs' = jobs \ {j}
    /\ UNCHANGED <<graceful, signal, callback, stoppedTo, errs>>

\* Run receives an error.
TakeError ==
    /\ ~graceful /\ Active /\ errCh > 0
    /\ errCh' = errCh - 1 /\ errs' = errs + 1
    /\ UNCHANGED <<graceful, signal, callback, stoppedTo, jobs>>

\* Run receives from done; errors still in the channel are not looked at.
RunReturns ==
    /\ ~graceful /\ Active /\ jobs = {}
    /\ signal' = IF errs > 0 THEN "error" ELSE "nil"
    /\ UNCHANGED <<graceful, callback, stoppedTo, jobs, errCh, errs>>

ShutdownStep == Exit \/ GiveUp \/ RunReturns

ShutdownNext ==
    \/ Signalled \/ OnShutdown \/ StopNext \/ Expire \/ TakeError
    \/ \E j \in Jobs : JobReturns(j)
    \/ ShutdownStep
=============================================================================
