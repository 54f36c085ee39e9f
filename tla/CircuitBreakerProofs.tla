------------------------ MODULE CircuitBreakerProofs ------------------------
(***************************************************************************)
(* Proofs about CircuitBreaker, for any number of concurrent calls and any *)
(* thresholds.  The inductive invariant ties the breaker's counters to the *)
(* history: what it counts was really recorded since the last reset of the *)
(* count, so a trip and a recovery are justified.                          *)
(***************************************************************************)
EXTENDS CircuitBreaker, TLAPS

\* The breaker never counts more than what was recorded.
CountsJustified ==
    /\ state = "closed" => failures <= streak
    /\ state = "half-open" => hos <= probes

IInv == BreakerTypeOK /\ BelowThresholds /\ CountsJustified

\* NewCircuitBreaker establishes the invariant.
LEMMA InitInv == BreakerInit => IInv
<1> SUFFICES ASSUME BreakerInit PROVE IInv
  OBVIOUS
<1>1. healthy \in BOOLEAN /\ running \subseteq BreakerCalls
  BY Zenon DEF BreakerInit
<1>2. failures \in 0..MaxCount /\ age \in 0..BreakerTimeout
  BY BreakerAssumption DEF BreakerInit
<1> QED
  BY <1>1, <1>2, BreakerAssumption DEF BreakerInit, IInv, BreakerTypeOK, BelowThresholds, CountsJustified

\* Every step of every call keeps the invariant.
LEMMA NextInv == IInv /\ [BreakerNext]_breakerVars => IInv'
<1> SUFFICES ASSUME IInv, [BreakerNext]_breakerVars PROVE IInv'
  OBVIOUS
<1> USE DEF IInv, BreakerTypeOK, BelowThresholds, CountsJustified
<1>1. ASSUME NEW c \in BreakerCalls, Allow(c) PROVE IInv'
  BY <1>1, BreakerAssumption DEF Allow, HalfOpen
<1>2. ASSUME NEW c \in BreakerCalls, Reject(c) PROVE IInv'
  BY <1>2 DEF Reject, breakerVars
<1>3. ASSUME NEW c \in BreakerCalls, RecordFailure(c) PROVE IInv'
  BY <1>3, BreakerAssumption DEF RecordFailure, Trips, Stamp
<1>4. ASSUME NEW c \in BreakerCalls, RecordSuccess(c) PROVE IInv'
  BY <1>4, BreakerAssumption DEF RecordSuccess, Forget
<1>5. ASSUME NEW c \in BreakerCalls, Panic(c) PROVE IInv'
  BY <1>5 DEF Panic
<1>6. CASE BreakerReset
  BY <1>6, BreakerAssumption DEF BreakerReset
<1>7. CASE BreakerTick
  BY <1>7, BreakerAssumption DEF BreakerTick
<1>8. CASE Heal
  BY <1>8 DEF Heal
<1>9. CASE UNCHANGED breakerVars
  BY <1>9 DEF breakerVars
<1> QED
  BY <1>1, <1>2, <1>3, <1>4, <1>5, <1>6, <1>7, <1>8, <1>9 DEF BreakerNext

\* The invariant holds in every reachable state.
THEOREM Invariance == BreakerSpec => []IInv
<1>1. BreakerInit => IInv  BY InitInv
<1>2. IInv /\ [BreakerNext]_breakerVars => IInv'  BY NextInv
<1> QED  BY <1>1, <1>2, PTL DEF BreakerSpec

\* A closed breaker is never one failure late and a half-open one never one
\* success late, whatever calls report in a state other than the one that
\* admitted them.
THEOREM NeverLate == BreakerSpec => []BelowThresholds
<1>1. IInv => BelowThresholds  BY DEF IInv
<1> QED  BY <1>1, Invariance, PTL

\* A closed breaker opens only after MaxFailures failures in a row.
THEOREM TripsJustified == BreakerSpec => TripJustified
<1>1. IInv /\ [BreakerNext]_breakerVars =>
        [(state = "closed" /\ state' = "open") => streak + 1 >= MaxFailures]_breakerVars
  <2> SUFFICES ASSUME IInv, BreakerNext, state = "closed", state' = "open"
               PROVE  streak + 1 >= MaxFailures
    OBVIOUS
  <2>1. PICK c \in BreakerCalls : RecordFailure(c)
    BY DEF BreakerNext, Allow, HalfOpen, Reject, RecordSuccess, Panic, BreakerReset, BreakerTick, Heal, breakerVars
  <2>2. failures + 1 >= MaxFailures
    BY <2>1, BreakerAssumption DEF RecordFailure, Trips
  <2> QED
    BY <2>2, BreakerAssumption DEF IInv, BreakerTypeOK, CountsJustified
<1> QED  BY <1>1, Invariance, PTL DEF BreakerSpec, TripJustified

\* A half-open breaker closes only after HalfOpenMax successes since it went
\* half-open, unless somebody resets it.
THEOREM RecoversJustified == BreakerSpec => RecoveryJustified
<1>1. IInv /\ [BreakerNext]_breakerVars =>
        [(state = "half-open" /\ state' = "closed" /\ running' # running)
             => probes + 1 >= HalfOpenMax]_breakerVars
  <2> SUFFICES ASSUME IInv, BreakerNext, state = "half-open", state' = "closed",
                      running' # running
               PROVE  probes + 1 >= HalfOpenMax
    OBVIOUS
  <2>1. PICK c \in BreakerCalls : RecordSuccess(c)
    BY DEF BreakerNext, Allow, HalfOpen, Reject, RecordFailure, Panic, BreakerReset, BreakerTick, Heal, breakerVars
  <2>2. hos + 1 >= HalfOpenMax
    BY <2>1, BreakerAssumption DEF RecordSuccess
  <2> QED
    BY <2>2, BreakerAssumption DEF IInv, BreakerTypeOK, CountsJustified
<1> QED  BY <1>1, Invariance, PTL DEF BreakerSpec, RecoveryJustified
=============================================================================
