------------------------------ MODULE Pipeline ------------------------------
(***************************************************************************)
(* Pipeline of lib/router.go: middlewares, handlers per route and a cache  *)
(* of the chains built from them, filled by a double-checked read.  A      *)
(* chain is what it runs: how many of the route's handlers and how many    *)
(* middlewares (both only grow, at the end).                               *)
(***************************************************************************)
EXTENDS Integers

CONSTANTS
    Routes,         \* message routes
    Callers,        \* goroutines that call Invoke
    EmptyRoute,     \* the route "", whose chain is built even without handlers
    NoEntry,        \* "the cache has no entry"
    MaxHandlers,    \* bound on the handlers of one route
    MaxMiddlewares  \* bound on the middlewares

ASSUME PipelineAssumption == MaxHandlers \in Nat /\ MaxMiddlewares \in Nat

VARIABLES
    middlewares,    \* len(p.middlewares)
    handlers,       \* route -> len(p.handlers[route])
    generation,     \* p.generation
    cache,          \* route -> cacheEntry or NoEntry
    missed,         \* caller -> routes it missed under RLock and will look up under Lock
    ran             \* caller -> the chain its last Invoke ran

pipelineVars == <<middlewares, handlers, generation, cache, missed, ran>>

Nothing == [h |-> 0, m |-> 0]

PipelineInit ==
    /\ middlewares = 0
    /\ handlers = [r \in Routes |-> 0]
    /\ generation = 0
    /\ cache = [r \in Routes |-> NoEntry]
    /\ missed = [c \in Callers |-> {}]
    /\ ran = [c \in Callers |-> Nothing]

\* What GetHandlers builds for r: a route without handlers runs nothing, not
\* even the middlewares.
Chain(r) ==
    IF handlers[r] = 0 /\ r # EmptyRoute THEN Nothing ELSE [h |-> handlers[r], m |-> middlewares]

Entry(r) == [chain |-> Chain(r), generation |-> generation]

\* The cache has an entry of the current generation.
Hit(r) == cache[r] # NoEntry /\ cache[r].generation = generation

\* Fault: a new middleware does not make the cached chains stale.
UseSilently ==
    /\ middlewares < MaxMiddlewares
    /\ middlewares' = middlewares + 1
    /\ UNCHANGED <<handlers, generation, cache, missed, ran>>

\* Use.
Use ==
    /\ middlewares < MaxMiddlewares
    /\ middlewares' = middlewares + 1
    /\ generation' = generation + 1
    /\ UNCHANGED <<handlers, cache, missed, ran>>

\* On.
On(r) ==
    /\ handlers[r] < MaxHandlers
    /\ handlers' = [handlers EXCEPT ![r] = @ + 1]
    /\ cache' = [cache EXCEPT ![r] = NoEntry]
    /\ UNCHANGED <<middlewares, generation, missed, ran>>

\* GetHandlers under the read lock finds the chain, and Invoke runs it.
InvokeHit(c, r) ==
    /\ missed[c] = {} /\ Hit(r)
    /\ ran' = [ran EXCEPT ![c] = cache[r].chain]
    /\ UNCHANGED <<middlewares, handlers, generation, cache, missed>>

\* GetHandlers under the read lock does not find it and lets go of the lock.
InvokeMiss(c, r) ==
    /\ missed[c] = {} /\ ~Hit(r)
    /\ missed' = [missed EXCEPT ![c] = {r}]
    /\ UNCHANGED <<middlewares, handlers, generation, cache, ran>>

\* GetHandlers under the write lock looks again, else builds and stores the chain.
InvokeBuild(c, r) ==
    /\ r \in missed[c]
    /\ missed' = [missed EXCEPT ![c] = {}]
    /\ cache' = IF Hit(r) THEN cache ELSE [cache EXCEPT ![r] = Entry(r)]
    /\ ran' = [ran EXCEPT ![c] = cache'[r].chain]
    /\ UNCHANGED <<middlewares, handlers, generation>>

PipelineNext ==
    \/ Use
    \/ \E r \in Routes : On(r)
    \/ \E c \in Callers, r \in Routes : InvokeHit(c, r) \/ InvokeMiss(c, r) \/ InvokeBuild(c, r)

PipelineSpec == PipelineInit /\ [][PipelineNext]_pipelineVars

-----------------------------------------------------------------------------
\* Types of the pipeline's fields.
PipelineTypeOK ==
    /\ middlewares \in 0..MaxMiddlewares
    /\ handlers \in [Routes -> 0..MaxHandlers]
    /\ generation \in Nat
    /\ \A r \in Routes : cache[r] = NoEntry \/ cache[r].generation \in 0..generation
    /\ \A c \in Callers : missed[c] \subseteq Routes

\* A cached chain that GetHandlers would serve is the one it would build now:
\* no middleware and no handler registered since is left out.
CacheFresh == \A r \in Routes : Hit(r) => cache[r].chain = Chain(r)
=============================================================================
