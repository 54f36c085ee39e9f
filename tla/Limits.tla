------------------------------- MODULE Limits -------------------------------
(***************************************************************************)
(* RateLimiter, TokenBucket and ConnectionLimiter of lib/ratelimit.go, and *)
(* RateLimiter of filter/ratelimit.go.  Tokens are counted in parts: one is *)
(* TokenParts of them, RefillParts come back in one tick of the clock.     *)
(***************************************************************************)
EXTENDS Integers, Sequences, FiniteSets, FiniteSetsExt

CONSTANTS
    Burst,          \* burst, capacity: tokens of a full bucket
    TokenParts,     \* parts of a token
    RefillParts,    \* parts that come back per tick
    MaxTicks        \* bound on the clock

ASSUME LimitsAssumption ==
    /\ Burst \in Nat /\ TokenParts \in Nat \ {0} /\ RefillParts \in Nat /\ MaxTicks \in Nat

Full == Burst * TokenParts

\* Fault: the refill forgets the cap.
RefilledUncapped(tokens, last, now) == tokens + (now - last) * RefillParts

\* refill, and the same lines of the filter's Allow.
Refilled(tokens, last, now) ==
    LET sum == tokens + (now - last) * RefillParts IN IF sum > Full THEN Full ELSE sum

-----------------------------------------------------------------------------
(* RateLimiter.Allow, AllowN, Wait and ConnectionLimiter on top of it.     *)

CONSTANTS
    Acquirers,  \* goroutines that acquire and release a connection
    ConnLimit   \* cl.maxConns

ASSUME ConnLimitAssumption == ConnLimit \in Nat

VARIABLES
    clock,      \* time.Now in ticks
    tokens,     \* rl.tokens
    lastUpdate, \* rl.lastUpdate
    granted,    \* history: tokens granted
    before,     \* history: tick -> tokens granted before it
    sleeping,   \* a goroutine sleeps in Wait
    acquire,    \* goroutine -> Acquire: [at, seen, tries]
    active      \* cl.activeConns

limitVars == <<clock, tokens, lastUpdate, granted, before, sleeping, acquire, active>>

LimitInit ==
    /\ clock = 0 /\ tokens = Full /\ lastUpdate = 0
    /\ granted = 0 /\ before = [t \in 0..MaxTicks |-> 0] /\ sleeping = FALSE
    /\ acquire = [g \in Acquirers |-> [at |-> "no", seen |-> 0, tries |-> 0]] /\ active = 0

TimePasses ==
    /\ clock < MaxTicks /\ clock' = clock + 1 /\ before' = [before EXCEPT ![clock'] = granted]
    /\ UNCHANGED <<tokens, lastUpdate, granted, sleeping, acquire, active>>

\* TokenBucket.Take, and the same lines of Allow and AllowN: refill and the test; n
\* tokens are taken if they are there.
Take(n) ==
    LET now == Refilled(tokens, lastUpdate, clock)
    IN  /\ now >= n * TokenParts
        /\ tokens' = now - n * TokenParts /\ lastUpdate' = clock
        /\ granted' = granted + n

\* refill and the test; they are not.
TakeFails(n) ==
    LET now == Refilled(tokens, lastUpdate, clock)
    IN  /\ now < n * TokenParts
        /\ tokens' = now /\ lastUpdate' = clock /\ UNCHANGED granted

\* AllowN.
AllowN(n) ==
    /\ Take(n) \/ TakeFails(n)
    /\ UNCHANGED <<clock, before, sleeping, acquire, active>>

\* Wait: a token, or sleep; also after a wakeup.
WaitToken ==
    /\ ~sleeping
    /\ \/ Take(1) /\ UNCHANGED sleeping
       \/ TakeFails(1) /\ sleeping' = TRUE
    /\ UNCHANGED <<clock, before, acquire, active>>

\* Signal, Broadcast; refill does not call them.
SignalWaiter ==
    /\ sleeping /\ sleeping' = FALSE
    /\ UNCHANGED <<clock, tokens, lastUpdate, granted, before, acquire, active>>

\* Acquire asks the rate limiter first; the token is gone whatever follows.
AcquireToken(g) ==
    /\ acquire[g].at = "no"
    /\ \/ Take(1) /\ acquire' = [acquire EXCEPT ![g] = [at |-> "load", seen |-> 0, tries |-> 0]]
       \/ TakeFails(1) /\ UNCHANGED acquire
    /\ UNCHANGED <<clock, before, sleeping, active>>

\* Fault: the count is not compared with the limit.
AcquireLoadAny(g) ==
    /\ acquire[g].at = "load"
    /\ acquire' = [acquire EXCEPT ![g] = [@ EXCEPT !.at = "swap", !.seen = active]]
    /\ UNCHANGED <<clock, tokens, lastUpdate, granted, before, sleeping, active>>

\* It loads the count.
AcquireLoad(g) ==
    /\ acquire[g].at = "load"
    /\ acquire' = [acquire EXCEPT ![g] = IF active >= ConnLimit
                                           THEN [@ EXCEPT !.at = "no"]
                                           ELSE [@ EXCEPT !.at = "swap", !.seen = active]]
    /\ UNCHANGED <<clock, tokens, lastUpdate, granted, before, sleeping, active>>

\* Fault: the count is stored without comparing.
AcquireStore(g) ==
    /\ acquire[g].at = "swap"
    /\ active' = acquire[g].seen + 1 /\ acquire' = [acquire EXCEPT ![g].at = "held"]
    /\ UNCHANGED <<clock, tokens, lastUpdate, granted, before, sleeping>>

\* It compares and swaps, three times at most.
AcquireSwap(g) ==
    /\ acquire[g].at = "swap"
    /\ IF active = acquire[g].seen
         THEN active' = active + 1 /\ acquire' = [acquire EXCEPT ![g].at = "held"]
         ELSE /\ acquire' = [acquire EXCEPT ![g].tries = @ + 1,
                                            ![g].at = IF acquire[g].tries = 2 THEN "no" ELSE "load"]
              /\ UNCHANGED active
    /\ UNCHANGED <<clock, tokens, lastUpdate, granted, before, sleeping>>

\* Release.
Release(g) ==
    /\ acquire[g].at = "held"
    /\ acquire' = [acquire EXCEPT ![g].at = "no"] /\ active' = active - 1
    /\ UNCHANGED <<clock, tokens, lastUpdate, granted, before, sleeping>>

LimitNext ==
    \/ TimePasses \/ WaitToken \/ SignalWaiter
    \/ \E n \in 1..Burst : AllowN(n)
    \/ \E g \in Acquirers : AcquireToken(g) \/ AcquireLoad(g) \/ AcquireSwap(g) \/ Release(g)

\* In every interval the tokens granted are at most a full bucket and what came
\* back meanwhile; and the connections held are counted and within the limit.
RateKept ==
    /\ \A from \in 0..clock :
           TokenParts * (granted - before[from]) <= Full + RefillParts * (clock - from)
    /\ active = Cardinality({g \in Acquirers : acquire[g].at = "held"}) /\ active <= ConnLimit

-----------------------------------------------------------------------------
(* RateLimiter of filter/ratelimit.go: a bucket per key, found or made     *)
(* under the lock and used after it; too many buckets are thrown away.     *)

CONSTANTS
    LimitKeys,      \* keys of the limiter
    Filters,        \* goroutines in Process
    Gate,           \* capacity of bucketLimiter (100 in the code)
    BucketMax,      \* buckets that trigger cleanupOldBuckets (10000 in the code)
    BucketKeep,     \* and how many it keeps (5000)
    MaxBuckets      \* bound on the buckets made

ASSUME FilterAssumption == BucketMax \in Nat /\ MaxBuckets \in Nat

Buckets == 1..MaxBuckets

VARIABLES
    ftime,      \* time.Now in ticks
    bucketOf,   \* r.buckets: key -> bucket, 0 for none
    keyOf,      \* bucket -> key it was made for (a bucket not made yet is not in the domain)
    level,      \* bucket -> tokens
    lastTime,   \* bucket -> lastTime
    filter,     \* goroutine -> [at, key, bucket]: "no", "gate" (past bucketLimiter),
                \* "make" (missed under the read lock), "take" (has its bucket)
    allowed,    \* history: bucket -> calls of Allow that it let through
    cleanups    \* history: calls of cleanupOldBuckets

filterVars == <<ftime, bucketOf, keyOf, level, lastTime, filter, allowed, cleanups>>

OutOfProcess == [at |-> "no", bucket |-> 0, key |-> CHOOSE k \in LimitKeys : TRUE]

FilterInit ==
    /\ ftime = 0 /\ bucketOf = [k \in LimitKeys |-> 0] /\ keyOf = <<>>
    /\ level = [b \in Buckets |-> 0] /\ lastTime = [b \in Buckets |-> 0]
    /\ filter = [g \in Filters |-> OutOfProcess]
    /\ allowed = [b \in Buckets |-> 0] /\ cleanups = 0

FilterTick ==
    /\ ftime < MaxTicks /\ ftime' = ftime + 1
    /\ UNCHANGED <<bucketOf, keyOf, level, lastTime, filter, allowed, cleanups>>

InGate == {g \in Filters : filter[g].at \in {"gate", "make"}}

\* getBucket enters bucketLimiter; when it is full Allow returns false.
EnterGate(g, k) ==
    /\ filter[g].at = "no" /\ Cardinality(InGate) < Gate
    /\ filter' = [filter EXCEPT ![g] = [at |-> "gate", key |-> k, bucket |-> 0]]
    /\ UNCHANGED <<ftime, bucketOf, keyOf, level, lastTime, allowed, cleanups>>

\* It looks for the bucket under the read lock.
FindBucket(g) ==
    /\ filter[g].at = "gate"
    /\ LET b == bucketOf[filter[g].key]
       IN filter' = [filter EXCEPT ![g].at = IF b = 0 THEN "make" ELSE "take", ![g].bucket = b]
    /\ UNCHANGED <<ftime, bucketOf, keyOf, level, lastTime, allowed, cleanups>>

Present(map) == {k \in LimitKeys : map[k] # 0}

\* cleanupOldBuckets: any buckets go until BucketKeep are left.
Evicted(map) ==
    IF Cardinality(Present(map)) <= BucketMax THEN {map}
    ELSE {[k \in LimitKeys |-> IF k \in keep THEN map[k] ELSE 0] :
              keep \in kSubset(BucketKeep, Present(map))}

\* Fault: the second look under the write lock is missing.
MakeBucketAgain(g) ==
    /\ filter[g].at = "make"
    /\ LET k == filter[g].key
           b == Len(keyOf) + 1
       IN /\ b \in Buckets /\ keyOf' = Append(keyOf, k)
          /\ level' = [level EXCEPT ![b] = Full] /\ lastTime' = [lastTime EXCEPT ![b] = ftime]
          /\ bucketOf' \in Evicted([bucketOf EXCEPT ![k] = b])
          /\ cleanups' = IF Cardinality(Present([bucketOf EXCEPT ![k] = b])) > BucketMax
                           THEN cleanups + 1 ELSE cleanups
          /\ filter' = [filter EXCEPT ![g].at = "take", ![g].bucket = b]
    /\ UNCHANGED <<ftime, allowed>>

\* Under the write lock it looks again, else makes a full bucket, and cleans up.
MakeBucket(g) ==
    /\ filter[g].at = "make"
    /\ LET k == filter[g].key
           b == Len(keyOf) + 1
       IN IF bucketOf[k] # 0
            THEN /\ filter' = [filter EXCEPT ![g].at = "take", ![g].bucket = bucketOf[k]]
                 /\ UNCHANGED <<bucketOf, keyOf, level, lastTime, cleanups>>
            ELSE /\ b \in Buckets /\ keyOf' = Append(keyOf, k)
                 /\ level' = [level EXCEPT ![b] = Full] /\ lastTime' = [lastTime EXCEPT ![b] = ftime]
                 /\ bucketOf' \in Evicted([bucketOf EXCEPT ![k] = b])
                 /\ cleanups' = IF Cardinality(Present(bucketOf)) + 1 > BucketMax THEN cleanups + 1
                                                                              ELSE cleanups
                 /\ filter' = [filter EXCEPT ![g].at = "take", ![g].bucket = b]
    /\ UNCHANGED <<ftime, allowed>>

\* Allow takes a token from the bucket it was given, evicted or not.
FilterAllow(g) ==
    /\ filter[g].at = "take" /\ filter' = [filter EXCEPT ![g] = OutOfProcess]
    /\ LET b == filter[g].bucket
           now == Refilled(level[b], lastTime[b], ftime)
       IN /\ lastTime' = [lastTime EXCEPT ![b] = ftime]
          /\ IF now >= TokenParts
               THEN /\ level' = [level EXCEPT ![b] = now - TokenParts]
                    /\ allowed' = [allowed EXCEPT ![b] = @ + 1]
               ELSE level' = [level EXCEPT ![b] = now] /\ UNCHANGED allowed
    /\ UNCHANGED <<ftime, bucketOf, keyOf, cleanups>>

FilterNext ==
    \/ FilterTick
    \/ \E g \in Filters : \/ FindBucket(g) \/ MakeBucket(g) \/ FilterAllow(g)
                          \/ \E k \in LimitKeys : EnterGate(g, k)

\* A key gets more than its rate only through cleanups, each of which may give it
\* one more full bucket: goroutines that race to make its bucket give it none, every
\* goroutine uses a bucket of its own key, and none lets through more than its rate.
KeyRateKept ==
    /\ \A k \in LimitKeys : Cardinality({b \in DOMAIN keyOf : keyOf[b] = k}) <= cleanups + 1
    /\ \A g \in Filters : filter[g].at = "take" => /\ filter[g].bucket \in DOMAIN keyOf
                                                  /\ keyOf[filter[g].bucket] = filter[g].key
    /\ \A b \in DOMAIN keyOf : TokenParts * allowed[b] <= Full + RefillParts * ftime
=============================================================================
