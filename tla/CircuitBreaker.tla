--------------------------- MODULE CircuitBreaker ---------------------------
(***************************************************************************)
(* CircuitBreaker of lib/circuitbreaker.go.  A call is admitted under the  *)
(* mutex, runs fn without it, and reports its outcome under the mutex      *)
(* again; meanwhile other calls may have changed the breaker's state.      *)
(* Time is the age of lastFailure, which stops counting at opts.Timeout.   *)
(***************************************************************************)
EXTENDS Integers

CONSTANTS
    BreakerCalls,        \* goroutines that go through Call / CallWithFallback
    MaxFailures,  \* opts.MaxFailures
    HalfOpenMax,  \* opts.HalfOpenMax
    BreakerTimeout, \* opts.Timeout, in ticks
    MaxCount      \* bound on the failures counter, which nothing resets while open

ASSUME BreakerAssumption ==
    /\ MaxFailures \in Nat \ {0}
    /\ HalfOpenMax \in Nat \ {0}
    /\ BreakerTimeout \in Nat
    /\ MaxCount \in Nat

VARIABLES
    state,      \* cb.state
    failures,   \* cb.failures
    hos,        \* cb.halfOpenSuccesses
    age,        \* time since cb.lastFailure, at most BreakerTimeout
    running,    \* calls that were admitted and whose fn has not returned
    healthy,    \* the callee has recovered for good (fn does not fail any more)
    streak,     \* history: failures recorded since the last success while closed,
                \* or since the breaker last closed, counted up to MaxFailures
    probes      \* history: successes recorded since the breaker went half-open,
                \* counted up to HalfOpenMax

breakerVars == <<state, failures, hos, age, running, healthy, streak, probes>>

BreakerInit ==
    /\ state = "closed" /\ failures = 0 /\ hos = 0
    /\ age = BreakerTimeout          \* lastFailure is the zero time
    /\ running = {}
    /\ healthy = FALSE
    /\ streak = 0 /\ probes = 0

-----------------------------------------------------------------------------
\* Fault: an open breaker never lets a call try again.
HalfOpenNever == FALSE /\ UNCHANGED <<state, hos, probes>>

\* allowRequest on an open breaker whose timeout has passed.
HalfOpen ==
    /\ state = "open" /\ age >= BreakerTimeout
    /\ state' = "half-open" /\ hos' = 0
    /\ probes' = 0

\* allowRequest returning true.
Allow(c) ==
    /\ c \notin running
    /\ \/ state \in {"closed", "half-open"} /\ UNCHANGED <<state, hos, probes>>
       \/ HalfOpen
    /\ running' = running \cup {c}
    /\ UNCHANGED <<failures, age, healthy, streak>>

\* allowRequest returning false: ErrCircuitOpen (or the fallback); no change.
Reject(c) ==
    /\ c \notin running
    /\ state = "open" /\ age < BreakerTimeout
    /\ UNCHANGED breakerVars

\* Does the n-th counted failure open the breaker?
Trips(n) == state = "half-open" \/ (state = "closed" /\ n >= MaxFailures)

\* The age of lastFailure after cb.lastFailure = time.Now().
Stamp == 0

\* fn returned an error: recordFailure.
RecordFailure(c) ==
    /\ c \in running /\ ~healthy /\ failures < MaxCount
    /\ running' = running \ {c}
    /\ age' = Stamp
    /\ failures' = failures + 1
    /\ state' = IF Trips(failures + 1) THEN "open" ELSE state
    /\ streak' = IF streak < MaxFailures THEN streak + 1 ELSE streak
    /\ UNCHANGED <<hos, healthy, probes>>

\* Fault: a success does not forget earlier failures.
ForgetNothing == failures

\* The failure count after a success while closed.
Forget == 0

\* fn returned nil: recordSuccess.
RecordSuccess(c) ==
    /\ c \in running
    /\ running' = running \ {c}
    /\ probes' = IF state = "half-open" /\ probes < HalfOpenMax THEN probes + 1 ELSE probes
    /\ \/ /\ state = "closed"
          /\ failures' = Forget /\ streak' = 0
          /\ UNCHANGED <<state, hos>>
       \/ /\ state = "half-open"
          /\ IF hos + 1 >= HalfOpenMax
             THEN state' = "closed" /\ failures' = 0 /\ hos' = 0 /\ streak' = 0
             ELSE hos' = hos + 1 /\ UNCHANGED <<state, failures, streak>>
       \/ /\ state = "open"
          /\ UNCHANGED <<state, failures, hos, streak>>
    /\ UNCHANGED <<age, healthy>>

\* fn panicked: Call has no recover, so nothing is recorded.
Panic(c) ==
    /\ c \in running /\ ~healthy
    /\ running' = running \ {c}
    /\ UNCHANGED <<state, failures, hos, age, healthy, streak, probes>>

\* Reset, also through CircuitBreakerGroup.Reset and ResetAll.
BreakerReset ==
    /\ state' = "closed" /\ failures' = 0 /\ hos' = 0
    /\ streak' = 0
    /\ UNCHANGED <<age, running, healthy, probes>>

BreakerTick ==
    /\ age < BreakerTimeout
    /\ age' = age + 1
    /\ UNCHANGED <<state, failures, hos, running, healthy, streak, probes>>

\* The callee recovers (environment).
Heal ==
    /\ ~healthy
    /\ healthy' = TRUE
    /\ UNCHANGED <<state, failures, hos, age, running, streak, probes>>

BreakerNext ==
    \/ \E c \in BreakerCalls : \/ Allow(c) \/ Reject(c) \/ RecordFailure(c)
                        \/ RecordSuccess(c) \/ Panic(c)
    \/ BreakerReset \/ BreakerTick \/ Heal

BreakerSpec == BreakerInit /\ [][BreakerNext]_breakerVars

(***************************************************************************)
(* Fairness: time passes, callers keep calling, and fn returns.  Nobody    *)
(* needs to call Reset.                                                    *)
(***************************************************************************)
BreakerFairness ==
    /\ WF_breakerVars(BreakerTick)
    /\ \A c \in BreakerCalls : WF_breakerVars(Allow(c)) /\ WF_breakerVars(RecordSuccess(c))

BreakerFairSpec == BreakerSpec /\ BreakerFairness

-----------------------------------------------------------------------------
\* Types of the breaker's fields.
BreakerTypeOK ==
    /\ state \in {"closed", "half-open", "open"}
    /\ failures \in 0..MaxCount
    /\ hos \in Nat
    /\ age \in 0..BreakerTimeout
    /\ running \subseteq BreakerCalls
    /\ healthy \in BOOLEAN
    /\ streak \in Nat /\ probes \in Nat

\* The counters stay below the thresholds that would have changed the state,
\* although calls admitted in one state report in another: a closed breaker is
\* never one failure late, a half-open one never one success late.
BelowThresholds ==
    /\ state = "closed" => failures < MaxFailures
    /\ state = "half-open" => hos < HalfOpenMax

\* A closed breaker opens only after MaxFailures failures in a row, not counting
\* failures from before its last success, its last recovery or a Reset.
TripJustified ==
    [][(state = "closed" /\ state' = "open") => streak + 1 >= MaxFailures]_breakerVars

\* A half-open breaker closes only after HalfOpenMax successes recorded since it
\* went half-open, unless it is Reset.
RecoveryJustified ==
    [][(state = "half-open" /\ state' = "closed" /\ running' # running)
         => probes + 1 >= HalfOpenMax]_breakerVars

\* Once the callee works again the breaker closes, whatever calls were in
\* flight when it recovered.
Recovers == healthy ~> state = "closed"
=============================================================================
