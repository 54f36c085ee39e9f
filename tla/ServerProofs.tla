---------------------------- MODULE ServerProofs ----------------------------
(***************************************************************************)
(* Proofs about the services of a server process, for any routes, callers, *)
(* sessions, users, tasks, workers, pools, rates, components, server types *)
(* and connections.  A theorem about one service rests on the steps of     *)
(* that service alone: every other step of the process leaves its          *)
(* variables as they are.                                                  *)
(***************************************************************************)
EXTENDS Server, FiniteSetTheorems, SequenceTheorems, TLAPS

-----------------------------------------------------------------------------
(* Pipeline: an entry is never of a later generation than the pipeline, and *)
(* one of the current generation was built from what is registered now.     *)

PipelineInv ==
    /\ generation \in Nat /\ middlewares \in Nat
    /\ handlers \in [Routes -> Nat]
    /\ cache = [r \in Routes |-> cache[r]]
    /\ \A r \in Routes : cache[r] # NoEntry => cache[r].generation \in 0..generation
    /\ CacheFresh

\* Use makes every entry stale.
LEMMA UseFresh == ASSUME PipelineInv, Use PROVE PipelineInv'
<1>1. \A r \in Routes : ~Hit(r)'
  BY DEF PipelineInv, Use, Hit
<1> QED  BY <1>1 DEF PipelineInv, Use, CacheFresh

\* On removes the route's entry and touches no other.
LEMMA OnFresh == ASSUME PipelineInv, NEW r \in Routes, On(r) PROVE PipelineInv'
<1>1. ~Hit(r)'  BY DEF PipelineInv, On, Hit
<1>2. \A q \in Routes \ {r} : cache'[q] = cache[q] /\ handlers'[q] = handlers[q]
  BY DEF PipelineInv, On
<1>3. \A q \in Routes \ {r} : Hit(q)' => cache'[q].chain = Chain(q)'
  BY <1>2 DEF PipelineInv, On, CacheFresh, Hit, Chain, Nothing
<1>4. handlers' \in [Routes -> Nat] /\ cache' = [q \in Routes |-> cache'[q]]
  BY DEF PipelineInv, On
<1>5. \A q \in Routes : cache'[q] # NoEntry => cache'[q].generation \in 0..generation'
  BY DEF PipelineInv, On
<1> QED  BY <1>1, <1>3, <1>4, <1>5 DEF PipelineInv, On, CacheFresh

\* The write-locked half of GetHandlers stores an entry built there and then.
LEMMA BuildFresh ==
    ASSUME PipelineInv, NEW c \in Callers, NEW r \in Routes, InvokeBuild(c, r)
    PROVE  PipelineInv'
<1>1. CASE Hit(r)
  BY <1>1 DEF PipelineInv, InvokeBuild, CacheFresh, Hit, Chain, Nothing
<1>2. CASE ~Hit(r)
  <2>1. cache' = [cache EXCEPT ![r] = Entry(r)]
    BY <1>2 DEF InvokeBuild
  <2>2. cache'[r] = Entry(r) /\ \A q \in Routes \ {r} : cache'[q] = cache[q]
    BY <2>1 DEF PipelineInv
  <2>3. Entry(r).chain = Chain(r) /\ Entry(r).generation = generation
    BY DEF Entry
  <2>4. UNCHANGED <<generation, middlewares, handlers>>
    BY DEF InvokeBuild
  <2>5. \A q \in Routes : Chain(q)' = Chain(q)
    BY <2>4 DEF Chain, Nothing
  <2>6. cache' = [q \in Routes |-> cache'[q]]
    BY <2>1 DEF PipelineInv
  <2>7. \A q \in Routes : cache'[q] # NoEntry => cache'[q].generation \in 0..generation'
    BY <2>2, <2>3, <2>4 DEF PipelineInv
  <2>8. CacheFresh'
    BY <2>2, <2>3, <2>4, <2>5 DEF PipelineInv, CacheFresh, Hit
  <2> QED  BY <2>4, <2>6, <2>7, <2>8 DEF PipelineInv
<1> QED  BY <1>1, <1>2

\* Every step of the pipeline, and the steps that leave it alone.
LEMMA PipelineKeeps ==
    ASSUME PipelineInv, PipelineNext \/ UNCHANGED pipelineVars PROVE PipelineInv'
<1>1. CASE UNCHANGED pipelineVars
  BY <1>1 DEF pipelineVars, PipelineInv, CacheFresh, Hit, Chain, Nothing
<1>2. ASSUME NEW c \in Callers, NEW r \in Routes, InvokeHit(c, r) \/ InvokeMiss(c, r)
      PROVE  PipelineInv'
  BY <1>2 DEF InvokeHit, InvokeMiss, PipelineInv, CacheFresh, Hit, Chain, Nothing
<1> QED  BY <1>1, <1>2, UseFresh, OnFresh, BuildFresh DEF PipelineNext

\* GetHandlers serves the chain it would build: after Use or On has returned no
\* message is handled without the middleware or handler.
THEOREM ServesFresh == PipelineSpec => []CacheFresh
<1>1. PipelineInit => PipelineInv
  BY PipelineAssumption DEF PipelineInit, PipelineInv, CacheFresh, Hit
<1>2. PipelineInv /\ [PipelineNext]_pipelineVars => PipelineInv'
  BY PipelineKeeps
<1>3. PipelineInv => CacheFresh  BY DEF PipelineInv
<1> QED  BY <1>1, <1>2, <1>3, PTL DEF PipelineSpec

-----------------------------------------------------------------------------
(* SessionManager.                                                         *)

SessionInv == SessionTypeOK /\ LookupHonest /\ SoleOwnerFound

\* Bind, the one operation that may give a user to a second session.
LEMMA BindKeeps ==
    ASSUME SessionInv, NEW s \in Sids, NEW u \in Uids, Bind(s, u) PROVE SessionInv'
<1> USE SessionAssumption
<1> USE DEF SessionInv, SessionTypeOK, LookupHonest, SoleOwnerFound, Bind, Forget
<1>1. SessionTypeOK'  OBVIOUS
<1>2. uidMap'[u] = s /\ uid'[s] = u  OBVIOUS
<1>3. \A v \in Uids \ {u} : uidMap'[v] = IF v = uid[s] THEN NoSid ELSE uidMap[v]
  OBVIOUS
<1>4. \A t \in Sids \ {s} : uid'[t] = uid[t]  OBVIOUS
<1>5. LookupHonest'
  BY <1>2, <1>3, <1>4
<1>6. ASSUME NEW t \in live', uid'[t] \in Uids \ shared' PROVE uidMap'[uid'[t]] = t
  <2>1. CASE t = s  BY <2>1, <1>2
  <2>2. CASE t # s
    <3>1. uid'[t] = uid[t] /\ t \in live /\ uid[t] \in Uids \ shared
      BY <2>2, <1>4, <1>6
    <3>2. uid[t] # u
      BY <2>2, <3>1, <1>6
    <3>3. uidMap[uid[t]] = t
      BY <3>1
    <3>4. uid[t] # uid[s]
      BY <2>2, <3>1, <3>3
    <3> QED  BY <3>1, <3>2, <3>3, <3>4, <1>3
  <2> QED  BY <2>1, <2>2
<1> QED  BY <1>1, <1>5, <1>6

\* Every step of the session manager, and the steps that leave it alone.
LEMMA SessionsKeep ==
    ASSUME SessionInv, SessionNext \/ UNCHANGED sessionVars PROVE SessionInv'
<1> USE SessionAssumption
<1> USE DEF SessionInv, SessionTypeOK, LookupHonest, SoleOwnerFound
<1>1. CASE UNCHANGED sessionVars  BY <1>1 DEF sessionVars
<1>2. ASSUME NEW s \in Sids, CreateSession(s) PROVE SessionInv'
  BY <1>2 DEF CreateSession
<1>3. ASSUME NEW s \in Sids, RemoveSession(s) PROVE SessionInv'
  BY <1>3 DEF RemoveSession, Forget
<1>4. ASSUME NEW u \in Uids, Unbind(u) PROVE SessionInv'
  BY <1>4 DEF Unbind
<1>5. CASE ClearSessions  BY <1>5 DEF ClearSessions
<1> QED  BY <1>1, <1>2, <1>3, <1>4, <1>5, BindKeeps DEF SessionNext

\* Bind, Unbind and Remove: GetByUID leads only to a live session that is bound
\* to the user asked for.
THEOREM LookupsHonest == SessionSpec => []LookupHonest
<1>1. SessionInit => SessionInv
  BY SessionAssumption DEF SessionInit, SessionInv, SessionTypeOK, LookupHonest,
                           SoleOwnerFound
<1>2. SessionInv /\ [SessionNext]_sessionVars => SessionInv'
  BY SessionsKeep
<1>3. SessionInv => LookupHonest  BY DEF SessionInv
<1> QED  BY <1>1, <1>2, <1>3, PTL DEF SessionSpec

\* The same tables: a session bound to a user that no second session was bound
\* to is found by GetByUID.
THEOREM OwnersFound == SessionSpec => []SoleOwnerFound
<1>1. SessionInit => SessionInv
  BY SessionAssumption DEF SessionInit, SessionInv, SessionTypeOK, LookupHonest,
                           SoleOwnerFound
<1>2. SessionInv /\ [SessionNext]_sessionVars => SessionInv'
  BY SessionsKeep
<1>3. SessionInv => SoleOwnerFound  BY DEF SessionInv
<1> QED  BY <1>1, <1>2, <1>3, PTL DEF SessionSpec

-----------------------------------------------------------------------------
(* ConnPools: the count and the goroutines that dial without the mutex are *)
(* bounded together, since each of them stands for a connection to come:   *)
(* the last one that passed the test found fewer than maxConns connections. *)

\* The goroutines that dial, before and after one of them begins or ends.
LEMMA Dialers ==
    ASSUME NEW D \in SUBSET Takers, NEW g \in Takers
    PROVE  /\ Cardinality(D) \in Nat /\ Cardinality(D \cup {g}) \in Nat
           /\ Cardinality(D \cup {g}) >= 1
           /\ g \in D => Cardinality(D \ {g}) = Cardinality(D) - 1
<1>1. IsFiniteSet(Takers)  BY ConnPoolsAssumption
<1>2. IsFiniteSet(D) /\ IsFiniteSet(D \cup {g})  BY <1>1, FS_Subset
<1>3. Cardinality(D) \in Nat /\ Cardinality(D \cup {g}) \in Nat  BY <1>2, FS_CardinalityType
<1>4. Cardinality(D \cup {g}) # 0  BY <1>2, FS_EmptySet
<1>5. g \in D => Cardinality(D \ {g}) = Cardinality(D) - 1  BY <1>2, FS_RemoveElement
<1> QED  BY <1>3, <1>4, <1>5

PoolTypes ==
    /\ dialing \in SUBSET Takers /\ (~unlocked => dialing = {})
    /\ idle \in Nat /\ held \in Nat /\ warm \in Nat /\ lost \in Nat /\ rivals \in Nat
    /\ total \in Int /\ opened \in Int /\ heldAtClose \in Nat

PoolBooks ==
    /\ opened = idle + held + lost /\ (lost > 0 => stuck \/ poolClosed)
    /\ IF poolClosed THEN held <= heldAtClose ELSE total = idle + held

PoolLimit ==
    /\ Cardinality(dialing) <= rivals
    /\ ~poolClosed =>
          total + Cardinality(dialing) <= MostConns + warm + (IF rivals = 0 THEN 0 ELSE rivals - 1)

PoolIInv == PoolTypes /\ PoolBooks /\ PoolLimit

\* The steps of a goroutine that gets a connection.
LEMMA TakerStep ==
    ASSUME PoolIInv, NEW g \in Takers,
           GetIdle(g) \/ GetNew(g) \/ GetDial(g) \/ GetDialed(g)
    PROVE  PoolIInv'
<1> USE ConnPoolsAssumption DEF MostConns, CanGet
<1>1. PICK d \in Nat : d = Cardinality(dialing)  BY Dialers DEF PoolIInv, PoolTypes
<1>2. PICK e \in Nat : e = Cardinality(dialing \cup {g}) /\ e >= 1
  BY Dialers DEF PoolIInv, PoolTypes
<1>3. g \in dialing => Cardinality(dialing \ {g}) = d - 1
  BY <1>1, Dialers DEF PoolIInv, PoolTypes
<1>4. Cardinality({}) = 0  BY FS_EmptySet
<1> USE DEF PoolIInv, PoolTypes, PoolBooks, PoolLimit
<1>a. CASE GetIdle(g)  BY <1>1, <1>a DEF GetIdle
<1>b. CASE GetNew(g)  BY <1>1, <1>4, <1>b DEF GetNew
<1>c. CASE GetDial(g)
  <2>1. dialing' = dialing \cup {g} /\ Cardinality(dialing') = e  BY <1>2, <1>c DEF GetDial, Dialing
  <2>2. rivals' = IF e > rivals THEN e ELSE rivals  BY <1>2, <1>c DEF GetDial, Dialing
  <2>3. unlocked /\ total < PoolMax /\ ~poolClosed
    BY <1>c DEF GetDial
  <2>4. UNCHANGED <<unlocked, idle, held, total, opened, warm, lost, stuck, poolClosed, heldAtClose>>
    BY <1>c DEF GetDial
  <2>5. PoolTypes' /\ PoolBooks'  BY <1>2, <2>1, <2>2, <2>3, <2>4
  <2>6. PoolLimit'  BY <1>2, <2>1, <2>2, <2>3, <2>4
  <2> QED  BY <2>5, <2>6
<1>d. CASE GetDialed(g)
  <2>1. g \in dialing /\ unlocked  BY <1>d DEF GetDialed
  <2>2. dialing' = dialing \ {g} /\ Cardinality(dialing') = d - 1
    BY <1>3, <2>1, <1>d DEF GetDialed, Dialing
  <2>3. UNCHANGED <<unlocked, idle, warm, lost, stuck, poolClosed, heldAtClose>>
    BY <1>d DEF GetDialed
  <2>4. rivals' = rivals  BY <1>1, <1>3, <2>1, <1>d DEF GetDialed, Dialing
  <2>5. CASE UNCHANGED <<held, total, opened>>
    BY <1>1, <2>1, <2>2, <2>3, <2>4, <2>5
  <2>6. CASE ~poolClosed /\ total' = total + 1 /\ opened' = opened + 1 /\ held' = held + 1
    BY <1>1, <2>1, <2>2, <2>3, <2>4, <2>6
  <2> QED  BY <2>5, <2>6, <1>d DEF GetDialed
<1> QED  BY <1>a, <1>b, <1>c, <1>d

\* Every step of a pool, and the steps that leave it alone.
LEMMA PoolKeeps ==
    ASSUME PoolIInv, ConnPoolNext \/ UNCHANGED connPoolVars PROVE PoolIInv'
<1> USE ConnPoolsAssumption DEF MostConns
<1>d. PICK d \in Nat : d = Cardinality(dialing)
  BY FS_Subset, FS_CardinalityType DEF PoolIInv, PoolTypes
<1> USE <1>d DEF PoolIInv, PoolTypes, PoolBooks, PoolLimit
<1>1. CASE UNCHANGED connPoolVars  BY <1>1 DEF connPoolVars
<1>2. CASE Warmup  BY <1>2 DEF Warmup
<1>3. CASE Cleanup  BY <1>3 DEF Cleanup, Trim
<1>4. CASE CleanupIdleConnections  BY <1>4 DEF CleanupIdleConnections, Trim
<1>5. CASE ClosePool  BY <1>5 DEF ClosePool
<1>6. CASE CloseRPC  BY <1>6 DEF CloseRPC
<1>7. CASE Put  BY <1>7 DEF Put, BringBack, IntoChannel, NoRoom
<1>8. CASE PutRPC  BY <1>8 DEF PutRPC, BringBack, IntoChannel, NoRoom
<1> HIDE DEF PoolIInv
<1> QED  BY <1>1, <1>2, <1>3, <1>4, <1>5, <1>6, <1>7, <1>8, TakerStep DEF ConnPoolNext

\* Get, Put, Warmup, cleanup and Close of both pools, for any number of goroutines and
\* of connections each of them takes: every open connection is idle, held or lost by a
\* Warmup that found the channel full or closed, an open pool's count is the number
\* idle or held, it passes the limit at most by what Warmup made and by the dials that
\* ran at the same time, less one, and a closed pool hands out nothing.
THEOREM ConnectionsCounted == Spec => []PoolAccounts
<1>1. Init => PoolIInv
  <2> SUFFICES ASSUME ConnPoolInit PROVE PoolIInv  BY DEF Init
  <2>1. Cardinality({}) = 0  BY FS_EmptySet
  <2> QED  BY <2>1, ConnPoolsAssumption
           DEF ConnPoolInit, NewPool, NewRPCClientPool, PoolIInv, PoolTypes, PoolBooks,
               PoolLimit, MostConns
<1>2. [Next]_vars => ConnPoolNext \/ UNCHANGED connPoolVars
  BY DEF Next, Part, Others, vars
<1>3. PoolIInv /\ [Next]_vars => PoolIInv'
  BY <1>2, PoolKeeps
<1>4. PoolIInv => PoolAccounts
  <2> SUFFICES ASSUME PoolIInv PROVE PoolAccounts  OBVIOUS
  <2>1. Cardinality(dialing) \in Nat
    BY ConnPoolsAssumption, FS_Subset, FS_CardinalityType DEF PoolIInv, PoolTypes
  <2> QED  BY <2>1, ConnPoolsAssumption
           DEF PoolIInv, PoolTypes, PoolBooks, PoolLimit, PoolAccounts, MostConns
<1> QED  BY <1>1, <1>3, <1>4, PTL DEF Spec

-----------------------------------------------------------------------------
(* Cron: before the first Stop only one Start has made entries, and from   *)
(* the first Stop on stopCtx is done for good.                             *)

CronIInv ==
    /\ job = [e \in EntryIds |-> job[e]]
    /\ stopCron # "no" => cancelledCtx
    /\ ~cancelledCtx => initialized \/ entries = {}
    /\ CronControlled

\* Every step of the cron scheduler, and the steps that leave it alone.
LEMMA CronKeeps ==
    ASSUME CronIInv, CronNext \/ UNCHANGED cronVars PROVE CronIInv'
<1> USE DEF CronIInv, CronControlled
<1>1. CASE UNCHANGED cronVars  BY <1>1 DEF cronVars
<1>2. CASE LoadConfig \/ RegisterMethods  BY <1>2 DEF LoadConfig, RegisterMethods
<1>3. CASE CronStart
  <2>1. PICK ids : AddEntries(ids)  BY <1>3 DEF CronStart
  <2>2. PICK f \in [ids -> (made + 1)..made'] :
            /\ entries' = entries \cup {<<f[i], i>> : i \in ids}
            /\ taskEntries' = {p \in taskEntries : p[1] \notin ids} \cup {<<i, f[i]>> : i \in ids}
    BY <2>1 DEF AddEntries
  <2>3. ~initialized /\ initialized' /\ UNCHANGED <<cancelledCtx, job, stopCron>>
    BY <1>3 DEF CronStart
  <2>4. ASSUME ~cancelledCtx, NEW p \in entries' PROVE <<p[2], p[1]>> \in taskEntries'
    <3>1. entries = {}  BY <2>3, <2>4
    <3>2. PICK i \in ids : p = <<f[i], i>>  BY <2>2, <3>1
    <3> QED  BY <2>2, <3>2
  <2> QED  BY <2>3, <2>4
<1>4. CASE CronStop  BY <1>4 DEF CronStop
<1>5. CASE CronStopped  BY <1>5 DEF CronStopped, CronLocked
<1>6. ASSUME NEW e \in EntryIds, Fire(e) \/ JobBody(e) PROVE CronIInv'
  <2>1. UNCHANGED <<initialized, entries, taskEntries, cancelledCtx, stopCron>>
    BY <1>6 DEF Fire, JobBody
  <2>2. job' = [d \in EntryIds |-> job'[d]]
    BY <1>6 DEF Fire, JobBody
  <2>3. stopCron = "done" => \A d \in EntryIds : job'[d] # "runs"
    BY <1>6 DEF Fire, JobBody
  <2> QED  BY <2>1, <2>2, <2>3
<1>7. ASSUME NEW i \in CronIds, Cancel(i) PROVE CronIInv'
  <2>1. PICK e \in EntryIds : /\ entries' = {p \in entries : p[1] # e}
                              /\ taskEntries' = taskEntries \ {<<i, e>>}
    BY <1>7 DEF Cancel
  <2>2. UNCHANGED <<initialized, cancelledCtx, job, stopCron>>  BY <1>7 DEF Cancel
  <2>3. ~cancelledCtx => \A p \in entries' : <<p[2], p[1]>> \in taskEntries'
    BY <2>1
  <2> QED  BY <2>1, <2>2, <2>3
<1> QED  BY <1>1, <1>2, <1>3, <1>4, <1>5, <1>6, <1>7 DEF CronNext

\* CronScheduler's Start, Stop and Cancel, for any tasks: what the library may still
\* fire can be cancelled by its task's id, and no method runs on after a Stop that
\* returned in time, even if the scheduler is started again.
THEOREM CronIsControlled == Spec => []CronControlled
<1>1. Init => CronIInv
  BY DEF Init, CronInit, CronIInv, CronControlled
<1>2. [Next]_vars => CronNext \/ UNCHANGED cronVars
  BY DEF Next, Part, Others, vars
<1>3. CronIInv /\ [Next]_vars => CronIInv'  BY <1>2, CronKeeps
<1>4. CronIInv => CronControlled  BY DEF CronIInv
<1> QED  BY <1>1, <1>3, <1>4, PTL DEF Spec

-----------------------------------------------------------------------------
(* Scheduler: an accepted task is in one place of the channel or in one    *)
(* worker's hands, and in none once it was handled.                        *)

\* A set without two different elements.
LEMMA AtMostOne ==
    ASSUME NEW S, \A x, y \in S : x = y
    PROVE  IsFiniteSet(S) /\ Cardinality(S) = IF S = {} THEN 0 ELSE 1
<1>1. CASE S = {}  BY <1>1, FS_EmptySet
<1>2. CASE S # {}
  <2>1. PICK x : S = {x}  BY <1>2
  <2> QED  BY <2>1, <1>2, FS_Singleton
<1> QED  BY <1>1, <1>2

SchedulerTypes ==
    /\ push = [t \in Pushes |-> push[t]] /\ handled \in [Pushes -> Nat]
    /\ tasks \in Seq(Pushes) /\ hand \in [SchedWorkers -> Pushes \cup {Idle}]

\* A place in the channel or in a worker's hands is one of a task's own.
OnePlace ==
    /\ \A i, j \in DOMAIN tasks : tasks[i] = tasks[j] => i = j
    /\ \A i \in DOMAIN tasks, w \in SchedWorkers : tasks[i] # hand[w]
    /\ \A v, w \in SchedWorkers : hand[v] = hand[w] /\ hand[v] # Idle => v = w

\* What is in a place was accepted and has not been handled.
Unhandled(t) == push[t] = "in" /\ handled[t] = 0

WaitingUnhandled ==
    /\ \A i \in DOMAIN tasks : Unhandled(tasks[i])
    /\ \A w \in SchedWorkers : hand[w] # Idle => Unhandled(hand[w])
    /\ \A t \in Pushes : handled[t] <= 1 /\ (push[t] # "in" => handled[t] = 0)

\* A worker returns from an empty channel that nobody can send to any more.
QuitWhenEmpty ==
    /\ quit # {} => halt \in {"closed", "done"} /\ tasks = <<>>
    /\ \A w \in quit : hand[w] = Idle
    /\ quit \subseteq SchedWorkers /\ (halt = "done" => quit = SchedWorkers)

SchedulerIInv == SchedulerTypes /\ OnePlace /\ WaitingUnhandled /\ QuitWhenEmpty

\* Push sends a task that is in no place yet.
LEMMA PushSends ==
    ASSUME SchedulerIInv, NEW t \in Pushes, PushSend(t) PROVE SchedulerIInv'
<1> USE SchedulerAssumption
<1>0. UNCHANGED <<hand, quit, handled, halt>> /\ push[t] = "sending"  BY DEF PushSend
<1>1. CASE push' = [push EXCEPT ![t] = "dropped"] /\ UNCHANGED tasks
  <2>1. \A p \in Pushes : Unhandled(p) => Unhandled(p)'
    BY <1>0, <1>1 DEF SchedulerIInv, SchedulerTypes, Unhandled
  <2>2. SchedulerTypes'  BY <1>0, <1>1 DEF SchedulerIInv, SchedulerTypes
  <2>3. OnePlace' /\ QuitWhenEmpty'
    BY <1>0, <1>1 DEF SchedulerIInv, OnePlace, QuitWhenEmpty
  <2>4. \A i \in DOMAIN tasks : tasks[i] \in Pushes
    BY DEF SchedulerIInv, SchedulerTypes
  <2>5. WaitingUnhandled'
    BY <1>0, <1>1, <2>1, <2>4 DEF SchedulerIInv, WaitingUnhandled, SchedulerTypes
  <2> QED  BY <2>2, <2>3, <2>5 DEF SchedulerIInv
<1>2. CASE /\ halt \in {"no", "flag"}
           /\ push' = [push EXCEPT ![t] = "in"] /\ tasks' = Append(tasks, t)
  <2>1. /\ \A i \in DOMAIN tasks : tasks[i] # t
        /\ \A w \in SchedWorkers : hand[w] # t
        /\ handled[t] = 0
    BY <1>0 DEF SchedulerIInv, SchedulerTypes, WaitingUnhandled, Unhandled
  <2>2. SchedulerTypes'
    <3>1. tasks' \in Seq(Pushes)  BY <1>2 DEF SchedulerIInv, SchedulerTypes
    <3>2. push' = [p \in Pushes |-> push'[p]]  BY <1>2 DEF SchedulerIInv, SchedulerTypes
    <3> QED  BY <1>0, <3>1, <3>2 DEF SchedulerIInv, SchedulerTypes
  <2>3. PICK n \in Nat : n = Len(tasks) /\ DOMAIN tasks = 1..n
    BY DEF SchedulerIInv, SchedulerTypes
  <2>4. /\ DOMAIN tasks' = 1..(n + 1) /\ tasks'[n + 1] = t
        /\ \A i \in 1..n : tasks'[i] = tasks[i] /\ tasks[i] \in Pushes
    BY <1>2, <2>3 DEF SchedulerIInv, SchedulerTypes
  <2>5. \A i \in 1..(n + 1) : i \in 1..n \/ i = n + 1  OBVIOUS
  <2>6. OnePlace'
    BY <1>0, <2>1, <2>3, <2>4, <2>5 DEF SchedulerIInv, OnePlace
  <2>7. QuitWhenEmpty'  BY <1>0, <1>2 DEF SchedulerIInv, QuitWhenEmpty
  <2>8. Unhandled(t)' /\ \A p \in Pushes : Unhandled(p) => Unhandled(p)'
    BY <1>0, <1>2, <2>1 DEF SchedulerIInv, SchedulerTypes, Unhandled
  <2>9. WaitingUnhandled'
    BY <1>0, <1>2, <2>1, <2>3, <2>4, <2>5, <2>8
       DEF SchedulerIInv, SchedulerTypes, WaitingUnhandled
  <2> QED  BY <2>2, <2>6, <2>7, <2>9 DEF SchedulerIInv
<1> QED  BY <1>1, <1>2 DEF PushSend

\* A worker takes the first task out of the channel.
LEMMA WorkerTakesOne ==
    ASSUME SchedulerIInv, NEW w \in SchedWorkers, WorkerTakes(w) PROVE SchedulerIInv'
<1> USE SchedulerAssumption DEF SchedulerIInv
<1>0. /\ UNCHANGED <<push, quit, handled, halt>> /\ w \notin quit /\ hand[w] = Idle
      /\ tasks # <<>> /\ hand' = [hand EXCEPT ![w] = Head(tasks)] /\ tasks' = Tail(tasks)
  BY DEF WorkerTakes
<1>1. SchedulerTypes'  BY <1>0 DEF SchedulerTypes
<1>2. PICK n \in Nat : n = Len(tasks) /\ DOMAIN tasks = 1..n /\ n >= 1
  BY <1>0 DEF SchedulerTypes
<1>3. DOMAIN tasks' = 1..(n - 1) /\ \A i \in 1..(n - 1) : tasks'[i] = tasks[i + 1]
  BY <1>0, <1>2 DEF SchedulerTypes
<1>4. /\ hand'[w] = tasks[1] /\ tasks[1] \in Pushes
      /\ \A v \in SchedWorkers \ {w} : hand'[v] = hand[v]
  BY <1>0, <1>2 DEF SchedulerTypes
<1>5. \A i \in 1..(n - 1) : i + 1 \in 1..n /\ i + 1 # 1 /\ \A j \in 1..(n - 1) : i + 1 = j + 1 => i = j
  BY <1>2
<1>6. OnePlace'
  <2>1. \A i, j \in DOMAIN tasks' : tasks'[i] = tasks'[j] => i = j
    <3> SUFFICES ASSUME NEW i \in 1..(n - 1), NEW j \in 1..(n - 1), tasks'[i] = tasks'[j]
                 PROVE  i = j
      BY <1>3
    <3>1. tasks[i + 1] = tasks[j + 1] /\ i + 1 \in 1..n /\ j + 1 \in 1..n  BY <1>3, <1>5
    <3>2. i + 1 = j + 1  BY <1>2, <3>1 DEF OnePlace
    <3> QED  BY <3>2
  <2>2. \A i \in DOMAIN tasks', v \in SchedWorkers : tasks'[i] # hand'[v]
    BY <1>2, <1>3, <1>4, <1>5 DEF OnePlace
  <2>3. \A u, v \in SchedWorkers : hand'[u] = hand'[v] /\ hand'[u] # Idle => u = v
    BY <1>2, <1>4 DEF OnePlace
  <2> QED  BY <2>1, <2>2, <2>3 DEF OnePlace
<1>7. \A p \in Pushes : Unhandled(p)' = Unhandled(p)  BY <1>0 DEF Unhandled
<1>8. \A i \in 1..n : tasks[i] \in Pushes  BY <1>2 DEF SchedulerTypes
<1>9. WaitingUnhandled'
  BY <1>0, <1>2, <1>3, <1>4, <1>5, <1>7, <1>8 DEF WaitingUnhandled, SchedulerTypes
<1>10. QuitWhenEmpty'  BY <1>0, <1>4 DEF QuitWhenEmpty
<1> QED  BY <1>1, <1>6, <1>9, <1>10

\* A worker dispatches its task, with or without a handler.
LEMMA DispatchesOne ==
    ASSUME SchedulerIInv, NEW w \in SchedWorkers, Dispatch(w) PROVE SchedulerIInv'
<1> USE SchedulerAssumption DEF SchedulerIInv
<1>0. /\ UNCHANGED <<push, tasks, quit, halt>> /\ hand[w] # Idle
      /\ hand' = [hand EXCEPT ![w] = Idle]
  BY DEF Dispatch
<1>1. hand[w] \in Pushes /\ Unhandled(hand[w])
  BY <1>0 DEF SchedulerTypes, WaitingUnhandled
<1>2. handled' = handled \/ handled' = [handled EXCEPT ![hand[w]] = handled[hand[w]] + 1]
  BY DEF Dispatch
<1>3. SchedulerTypes'  BY <1>0, <1>1, <1>2 DEF SchedulerTypes
<1>4. hand'[w] = Idle /\ \A v \in SchedWorkers \ {w} : hand'[v] = hand[v]
  BY <1>0 DEF SchedulerTypes
<1>5. \A i \in DOMAIN tasks : tasks[i] \in Pushes  BY DEF SchedulerTypes
<1>6. OnePlace'  BY <1>0, <1>4, <1>5 DEF OnePlace
<1>7. \A p \in Pushes \ {hand[w]} : handled'[p] = handled[p] /\ (Unhandled(p) => Unhandled(p)')
  BY <1>0, <1>1, <1>2 DEF SchedulerTypes, Unhandled
<1>8. handled'[hand[w]] \in {0, 1}  BY <1>1, <1>2 DEF SchedulerTypes, Unhandled
<1>9. WaitingUnhandled'
  <2>1. \A i \in DOMAIN tasks' : Unhandled(tasks[i])'
    BY <1>0, <1>5, <1>7 DEF WaitingUnhandled, OnePlace
  <2>2. \A v \in SchedWorkers : hand'[v] # Idle => Unhandled(hand[v])'
    BY <1>0, <1>4, <1>7 DEF WaitingUnhandled, OnePlace, SchedulerTypes
  <2>3. \A p \in Pushes : handled'[p] <= 1 /\ (push'[p] # "in" => handled'[p] = 0)
    BY <1>0, <1>1, <1>7, <1>8 DEF WaitingUnhandled, Unhandled
  <2> QED  BY <1>0, <1>4, <2>1, <2>2, <2>3 DEF WaitingUnhandled, Unhandled
<1>10. QuitWhenEmpty'  BY <1>0, <1>4 DEF QuitWhenEmpty
<1> QED  BY <1>3, <1>6, <1>9, <1>10

\* Every step of the scheduler, and the steps that leave it alone.
LEMMA SchedulerKeeps ==
    ASSUME SchedulerIInv, SchedulerNext \/ UNCHANGED schedulerVars PROVE SchedulerIInv'
<1> USE SchedulerAssumption
<1>1. CASE UNCHANGED <<push, tasks, hand, quit, handled, halt>>
  BY <1>1 DEF SchedulerIInv, SchedulerTypes, OnePlace, WaitingUnhandled, Unhandled, QuitWhenEmpty
<1>2. ASSUME NEW t \in Pushes, PushCheck(t) PROVE SchedulerIInv'
  <2>1. UNCHANGED <<tasks, hand, quit, handled, halt>> /\ push[t] = "no"
    BY <1>2 DEF PushCheck
  <2>2. PICK s : s # "in" /\ push' = [push EXCEPT ![t] = s]  BY <1>2 DEF PushCheck
  <2>3. \A p \in Pushes : Unhandled(p) => Unhandled(p)'
    BY <2>1, <2>2 DEF SchedulerIInv, SchedulerTypes, Unhandled
  <2>4. SchedulerTypes'  BY <2>1, <2>2 DEF SchedulerIInv, SchedulerTypes
  <2>5. OnePlace' /\ QuitWhenEmpty'  BY <2>1 DEF SchedulerIInv, OnePlace, QuitWhenEmpty
  <2>6. \A i \in DOMAIN tasks : tasks[i] \in Pushes  BY DEF SchedulerIInv, SchedulerTypes
  <2>7. WaitingUnhandled'
    BY <2>1, <2>2, <2>3, <2>6 DEF SchedulerIInv, WaitingUnhandled, SchedulerTypes
  <2> QED  BY <2>4, <2>5, <2>7 DEF SchedulerIInv
<1>3. ASSUME NEW w \in SchedWorkers, WorkerQuits(w) PROVE SchedulerIInv'
  BY <1>3 DEF WorkerQuits, SchedulerIInv, SchedulerTypes, OnePlace, WaitingUnhandled, Unhandled,
              QuitWhenEmpty
<1>4. CASE SchedulerStop
  BY <1>4 DEF SchedulerStop, SchedulerIInv, SchedulerTypes, OnePlace, WaitingUnhandled, Unhandled,
              QuitWhenEmpty
<1>5. CASE SchedulerNext
  BY <1>1, <1>2, <1>3, <1>4, <1>5, PushSends, WorkerTakesOne, DispatchesOne
     DEF SchedulerNext, SchedulerWorks, SetHandler
<1> QED  BY <1>1, <1>5 DEF schedulerVars

\* Push, the workers and Stop of the scheduler, for any tasks and any workers: an
\* accepted task is handled at most once and is in one place until then, and Stop
\* returns only when none is left, not even one sent between its two steps.
THEOREM TasksAreHandled == Spec => []TasksHandled
<1>1. Init => SchedulerIInv
  BY SchedulerAssumption
     DEF Init, SchedulerInit, SchedulerIInv, SchedulerTypes, OnePlace, WaitingUnhandled,
         QuitWhenEmpty
<1>2. [Next]_vars => SchedulerNext \/ UNCHANGED schedulerVars
  BY DEF Next, Part, Others, vars
<1>3. SchedulerIInv /\ [Next]_vars => SchedulerIInv'  BY <1>2, SchedulerKeeps
<1>4. SchedulerIInv => TasksHandled
  <2> SUFFICES ASSUME SchedulerIInv PROVE TasksHandled  OBVIOUS
  <2>1. ASSUME NEW t \in Pushes
        PROVE  handled[t] + Cardinality(Waiting(t)) <= (IF push[t] = "in" THEN 1 ELSE 0)
    <3>1. \A x, y \in Waiting(t) : x = y
      BY SchedulerAssumption DEF Waiting, SchedulerIInv, OnePlace
    <3>2. Cardinality(Waiting(t)) = IF Waiting(t) = {} THEN 0 ELSE 1  BY <3>1, AtMostOne
    <3>3. Waiting(t) # {} => Unhandled(t)
      BY SchedulerAssumption DEF Waiting, SchedulerIInv, WaitingUnhandled
    <3> QED  BY <3>2, <3>3 DEF SchedulerIInv, SchedulerTypes, WaitingUnhandled, Unhandled
  <2>2. halt = "done" => \A t \in Pushes : Waiting(t) = {}
    BY SchedulerAssumption DEF Waiting, SchedulerIInv, QuitWhenEmpty
  <2> QED  BY <2>1, <2>2 DEF TasksHandled
<1> QED  BY <1>1, <1>3, <1>4, PTL DEF Spec

-----------------------------------------------------------------------------
(* Broadcast: the channel and the batches hold different tasks, those that *)
(* were accepted and have not been pushed.                                 *)

\* Receiving the first element of a sequence without duplicates.
LEMMA TailOnce ==
    ASSUME NEW S, NEW s \in Seq(S), s # <<>>, IsInjective(s)
    PROVE  /\ Tail(s) \in Seq(S) /\ IsInjective(Tail(s))
           /\ Head(s) \in S /\ Head(s) \in Range(s)
           /\ Range(Tail(s)) = Range(s) \ {Head(s)}
<1>1. PICK n \in Nat : n = Len(s) /\ DOMAIN s = 1..n /\ n >= 1  OBVIOUS
<1>2. /\ Tail(s) \in Seq(S) /\ DOMAIN Tail(s) = 1..(n - 1)
      /\ \A i \in 1..(n - 1) : Tail(s)[i] = s[i + 1]
  BY <1>1
<1>3. Head(s) = s[1] /\ 1 \in 1..n /\ s[1] \in S  BY <1>1
<1>4. \A i \in 1..(n - 1) : i + 1 \in 1..n /\ i + 1 # 1  BY <1>1
<1>5. \A i \in 1..n : i # 1 => i - 1 \in 1..(n - 1) /\ Tail(s)[i - 1] = s[i]
  <2> SUFFICES ASSUME NEW i \in 1..n, i # 1
               PROVE  i - 1 \in 1..(n - 1) /\ Tail(s)[i - 1] = s[i]
    OBVIOUS
  <2>1. PICK j \in 1..(n - 1) : j = i - 1 /\ j + 1 = i  BY <1>1
  <2> QED  BY <2>1, <1>2
<1>6. ASSUME NEW i \in 1..(n - 1), NEW j \in 1..(n - 1), Tail(s)[i] = Tail(s)[j] PROVE i = j
  <2>1. s[i + 1] = s[j + 1] /\ i + 1 \in 1..n /\ j + 1 \in 1..n  BY <1>2, <1>4, <1>6
  <2>2. i + 1 = j + 1  BY <2>1, <1>1 DEF IsInjective
  <2> QED  BY <2>2
<1>7. IsInjective(Tail(s))  BY <1>2, <1>6 DEF IsInjective
<1>8. \A x \in Range(Tail(s)) : x \in Range(s) /\ x # Head(s)
  <2> SUFFICES ASSUME NEW i \in 1..(n - 1) PROVE s[i + 1] \in Range(s) /\ s[i + 1] # s[1]
    BY <1>2, <1>3 DEF Range
  <2> QED  BY <1>1, <1>3, <1>4 DEF IsInjective, Range
<1>9. \A x \in Range(s) : x # Head(s) => x \in Range(Tail(s))
  <2> SUFFICES ASSUME NEW i \in 1..n, s[i] # s[1] PROVE s[i] \in Range(Tail(s))
    BY <1>1, <1>3 DEF Range
  <2>1. PICK j \in 1..(n - 1) : j = i - 1 /\ Tail(s)[j] = s[i]  BY <1>5
  <2> QED  BY <2>1, <1>2 DEF Range
<1>10. Head(s) \in Range(s)  BY <1>1, <1>3 DEF Range
<1> QED  BY <1>2, <1>3, <1>7, <1>8, <1>9, <1>10

\* Sending an element.
LEMMA AppendOne ==
    ASSUME NEW S, NEW s \in Seq(S), NEW x \in S
    PROVE  Append(s, x) \in Seq(S) /\ Range(Append(s, x)) = Range(s) \cup {x}
<1>1. PICK n \in Nat : n = Len(s) /\ DOMAIN s = 1..n  OBVIOUS
<1>2. /\ Append(s, x) \in Seq(S) /\ DOMAIN Append(s, x) = 1..(n + 1)
      /\ Append(s, x)[n + 1] = x /\ \A i \in 1..n : Append(s, x)[i] = s[i]
  BY <1>1
<1>3. \A i \in 1..(n + 1) : i \in 1..n \/ i = n + 1  OBVIOUS
<1>4. \A i \in 1..n : i \in 1..(n + 1)  OBVIOUS
<1>5. ASSUME NEW y \in Range(Append(s, x)) PROVE y \in Range(s) \cup {x}
  BY <1>5, <1>1, <1>2, <1>3 DEF Range
<1>6. ASSUME NEW y \in Range(s) PROVE y \in Range(Append(s, x))
  BY <1>6, <1>1, <1>2, <1>4 DEF Range
<1>7. x \in Range(Append(s, x))
  BY <1>2 DEF Range
<1> QED  BY <1>2, <1>5, <1>6, <1>7

\* Sending an element that a sequence without duplicates does not hold.
LEMMA AppendOnce ==
    ASSUME NEW S, NEW s \in Seq(S), IsInjective(s), NEW x \in S, x \notin Range(s)
    PROVE  /\ Append(s, x) \in Seq(S) /\ IsInjective(Append(s, x))
           /\ Range(Append(s, x)) = Range(s) \cup {x}
<1>1. PICK n \in Nat : n = Len(s) /\ DOMAIN s = 1..n  OBVIOUS
<1>2. /\ DOMAIN Append(s, x) = 1..(n + 1)
      /\ Append(s, x)[n + 1] = x /\ \A i \in 1..n : Append(s, x)[i] = s[i]
  BY <1>1
<1>3. \A i \in 1..(n + 1) : i \in 1..n \/ i = n + 1  OBVIOUS
<1>4. \A i \in 1..n : s[i] # x  BY <1>1 DEF Range
<1>5. IsInjective(Append(s, x))
  BY <1>1, <1>2, <1>3, <1>4 DEF IsInjective
<1> QED  BY <1>5, AppendOne

\* An empty sequence.
LEMMA NothingInIt == IsInjective(<<>>) /\ Range(<<>>) = {} /\ \A S : <<>> \in Seq(S)
  BY DEF IsInjective, Range

InBatch(t) == \E w \in Workers : t \in Range(batch[w])

QueueShape ==
    /\ call = [t \in Tasks |-> call[t]] /\ pushes \in [Tasks -> Nat]
    /\ pending \in Seq(Tasks) /\ IsInjective(pending)
    /\ batch = [w \in Workers |-> batch[w]]
    /\ \A w \in Workers : batch[w] \in Seq(Tasks) /\ IsInjective(batch[w])

QueueApart ==
    /\ \A w \in Workers : Range(pending) \cap Range(batch[w]) = {}
    /\ \A v, w \in Workers : v # w => Range(batch[v]) \cap Range(batch[w]) = {}

QueueCounts ==
    \A t \in Tasks :
        /\ t \in Range(pending) \/ InBatch(t) => call[t] = "accepted"
        /\ pushes[t] = IF call[t] = "accepted" /\ t \notin Range(pending) /\ ~InBatch(t)
                         THEN 1 ELSE 0

\* A worker in flushBatch has tasks left.
QueueBusy ==
    /\ work = [w \in Workers |-> work[w]]
    /\ \A w \in Workers : work[w] \in {"flush", "push"} => batch[w] # <<>>

QueueIInv == QueueShape /\ QueueApart /\ QueueCounts /\ QueueBusy

\* A push has ended: its task leaves the batch.
LEMMA PushedKeeps ==
    ASSUME QueueIInv, NEW w \in Workers, Pushed(w) PROVE QueueIInv'
<1> USE DEF QueueIInv
<1>0. /\ batch[w] # <<>> /\ batch[w] \in Seq(Tasks) /\ IsInjective(batch[w])
      /\ UNCHANGED <<call, pending>>
  BY DEF Pushed, QueueBusy, QueueShape
<1>1. PICK h : h = Head(batch[w])  OBVIOUS
<1>2. PICK b : b = Tail(batch[w])  OBVIOUS
<1>3. /\ h \in Tasks /\ h \in Range(batch[w]) /\ b \in Seq(Tasks) /\ IsInjective(b)
      /\ Range(b) = Range(batch[w]) \ {h}
  BY <1>0, <1>1, <1>2, TailOnce
<1>4. batch' = [batch EXCEPT ![w] = b] /\ pushes' = [pushes EXCEPT ![h] = @ + 1]
  BY <1>1, <1>2 DEF Pushed, QueueShape
<1>5. batch'[w] = b /\ \A v \in Workers \ {w} : batch'[v] = batch[v]  BY <1>4 DEF QueueShape
<1>6. QueueShape'
  <2>1. batch' = [v \in Workers |-> batch'[v]]  BY <1>4 DEF QueueShape
  <2>2. \A v \in Workers : batch'[v] \in Seq(Tasks) /\ IsInjective(batch'[v])
    BY <1>3, <1>5 DEF QueueShape
  <2>3. pushes' \in [Tasks -> Nat]  BY <1>3, <1>4 DEF QueueShape
  <2> QED  BY <1>0, <2>1, <2>2, <2>3 DEF QueueShape
<1>7. QueueApart'
  <2>1. \A v \in Workers : Range(batch'[v]) \subseteq Range(batch[v])  BY <1>3, <1>5
  <2> QED  BY <1>0, <2>1 DEF QueueApart
<1>8. InBatch(h) /\ h \notin Range(pending) /\ ~InBatch(h)'
  <2>1. \A v \in Workers \ {w} : h \notin Range(batch[v])  BY <1>3 DEF QueueApart
  <2>2. \A v \in Workers : h \notin Range(batch'[v])  BY <1>3, <1>5, <2>1
  <2> QED  BY <1>3, <2>2 DEF InBatch, QueueApart
<1>9. \A t \in Tasks \ {h} : InBatch(t)' <=> InBatch(t)
  <2>1. \A t \in Tasks \ {h} : \A v \in Workers : t \in Range(batch'[v]) <=> t \in Range(batch[v])
    BY <1>3, <1>5
  <2> QED  BY <2>1 DEF InBatch
<1>10. QueueCounts'
  <2>1. pushes[h] = 0 /\ call[h] = "accepted"  BY <1>3, <1>8 DEF QueueCounts
  <2>2. pushes'[h] = 1  BY <1>3, <1>4, <2>1 DEF QueueShape
  <2>3. \A t \in Tasks \ {h} : pushes'[t] = pushes[t]  BY <1>3, <1>4 DEF QueueShape
  <2> QED  BY <1>0, <1>8, <1>9, <2>1, <2>2, <2>3 DEF QueueCounts
<1>11. QueueBusy'
  <2>1. /\ work' = [work EXCEPT ![w] = IF Len(batch[w]) = 1 THEN "collect" ELSE "flush"]
    BY DEF Pushed
  <2>2. Len(batch[w]) # 1 => b # <<>>
    <3>1. Len(b) = Len(batch[w]) - 1 /\ Len(batch[w]) \in Nat  BY <1>0, <1>2
    <3>2. b = <<>> => Len(b) = 0  OBVIOUS
    <3> QED  BY <3>1, <3>2
  <2> QED  BY <1>5, <2>1, <2>2 DEF QueueBusy
<1> QED  BY <1>6, <1>7, <1>10, <1>11

\* A worker receives a task.
LEMMA ReceiveKeeps ==
    ASSUME QueueIInv, NEW w \in Workers, WorkerReceive(w) PROVE QueueIInv'
<1> USE DEF QueueIInv
<1>0. pending # <<>> /\ pending' = Tail(pending) /\ UNCHANGED <<call, pushes>>
  BY DEF WorkerReceive
<1>1. PICK h : h = Head(pending)  OBVIOUS
<1>2. /\ h \in Tasks /\ h \in Range(pending)
      /\ pending' \in Seq(Tasks) /\ IsInjective(pending') /\ Range(pending') = Range(pending) \ {h}
  BY <1>0, <1>1, TailOnce DEF QueueShape
<1>3. PICK b : b = Append(batch[w], h)  OBVIOUS
<1>4. h \notin Range(batch[w])  BY <1>2 DEF QueueApart
<1>5. b \in Seq(Tasks) /\ IsInjective(b) /\ Range(b) = Range(batch[w]) \cup {h}
  BY <1>2, <1>3, <1>4, AppendOnce DEF QueueShape
<1>6. batch' = [batch EXCEPT ![w] = b]  BY <1>1, <1>3 DEF WorkerReceive, QueueShape
<1>7. batch'[w] = b /\ \A v \in Workers \ {w} : batch'[v] = batch[v]
  BY <1>6 DEF QueueShape
<1>8. QueueShape'
  <2>1. batch' = [v \in Workers |-> batch'[v]]  BY <1>6 DEF QueueShape
  <2>2. \A v \in Workers : batch'[v] \in Seq(Tasks) /\ IsInjective(batch'[v])
    BY <1>5, <1>7 DEF QueueShape
  <2> QED  BY <1>0, <1>2, <2>1, <2>2 DEF QueueShape
<1>9. QueueApart'
  <2>1. \A v \in Workers \ {w} : /\ Range(batch'[v]) = Range(batch[v])
                                 /\ h \notin Range(batch[v])
    BY <1>2, <1>7 DEF QueueApart
  <2>2. Range(batch'[w]) = Range(batch[w]) \cup {h}  BY <1>5, <1>7
  <2>3. \A v \in Workers : Range(pending') \cap Range(batch'[v]) = {}
    BY <1>2, <2>1, <2>2 DEF QueueApart
  <2>4. \A v \in Workers \ {w} : Range(batch'[v]) \cap Range(batch'[w]) = {}
    BY <2>1, <2>2 DEF QueueApart
  <2>5. \A u, v \in Workers \ {w} : u # v => Range(batch'[u]) \cap Range(batch'[v]) = {}
    BY <2>1 DEF QueueApart
  <2> QED  BY <2>3, <2>4, <2>5 DEF QueueApart
<1>10. QueueCounts'
  <2>1. \A t \in Tasks : InBatch(t)' <=> InBatch(t) \/ t = h
    BY <1>5, <1>7 DEF InBatch
  <2> QED  BY <1>0, <1>2, <2>1 DEF QueueCounts, QueueShape
<1>11. QueueBusy'
  <2>1. b # <<>>  BY <1>5, NothingInIt
  <2>2. PICK x : work' = [work EXCEPT ![w] = x]  BY DEF WorkerReceive
  <2> QED  BY <1>7, <2>1, <2>2 DEF QueueBusy
<1> QED  BY <1>8, <1>9, <1>10, <1>11

\* A worker begins or ends something else, which leaves the tasks where they are.
LEMMA WorkerKeeps ==
    ASSUME QueueIInv, NEW w \in Workers, WorkerFlush(w) \/ WorkerExit(w) \/ PushBegin(w)
    PROVE  QueueIInv'
<1> USE DEF QueueIInv
<1>1. UNCHANGED <<call, pending, batch, pushes>>  BY DEF WorkerFlush, WorkerExit, PushBegin
<1>2. QueueShape' /\ QueueApart' /\ QueueCounts'
  BY <1>1 DEF QueueShape, QueueApart, QueueCounts, InBatch
<1>3. QueueBusy'  BY <1>1 DEF QueueBusy, WorkerFlush, WorkerExit, PushBegin
<1> QED  BY <1>2, <1>3

\* A publisher sends its task, or gives up.
LEMMA PublishKeeps ==
    ASSUME QueueIInv, NEW t \in Tasks, PublishCheck(t) \/ PublishSend(t) PROVE QueueIInv'
<1> USE DEF QueueIInv
<1>0. call[t] # "accepted" /\ UNCHANGED <<batch, pushes, work>>  BY DEF PublishCheck, PublishSend
<1>b. QueueBusy'  BY <1>0 DEF QueueBusy
<1>1. t \notin Range(pending) /\ ~InBatch(t)  BY <1>0 DEF QueueCounts
<1>2. ASSUME NEW s, s # "accepted", call' = [call EXCEPT ![t] = s], UNCHANGED pending
      PROVE  QueueIInv'
  <2>1. QueueShape'  BY <1>0, <1>2 DEF QueueShape
  <2>2. QueueApart' /\ \A p \in Tasks : InBatch(p)' = InBatch(p)
    BY <1>0, <1>2 DEF QueueApart, InBatch
  <2>3. QueueCounts'  BY <1>0, <1>1, <1>2, <2>2 DEF QueueCounts, QueueShape
  <2> QED  BY <1>b, <2>1, <2>2, <2>3
<1>3. CASE pending' = Append(pending, t) /\ call' = [call EXCEPT ![t] = "accepted"]
  <2>1. pending' \in Seq(Tasks) /\ IsInjective(pending') /\ Range(pending') = Range(pending) \cup {t}
    BY <1>1, <1>3, AppendOnce DEF QueueShape
  <2>2. QueueShape'  BY <1>0, <1>3, <2>1 DEF QueueShape
  <2>3. \A p \in Tasks : InBatch(p)' = InBatch(p)  BY <1>0 DEF InBatch
  <2>4. QueueApart'  BY <1>0, <1>1, <2>1 DEF QueueApart, InBatch
  <2>5. QueueCounts'  BY <1>0, <1>1, <1>3, <2>1, <2>3 DEF QueueCounts, QueueShape
  <2> QED  BY <1>b, <2>2, <2>4, <2>5
<1>4. CASE PublishCheck(t)  BY <1>2, <1>4 DEF PublishCheck
<1>5. CASE PublishSend(t)  BY <1>2, <1>3, <1>5 DEF PublishSend
<1> QED  BY <1>4, <1>5

\* Every step of the queue, and the steps that leave it alone.
LEMMA QueueKeeps ==
    ASSUME QueueIInv, QueueNext \/ UNCHANGED queueVars PROVE QueueIInv'
<1>1. CASE UNCHANGED <<call, pending, batch, work, pushes>>
  BY <1>1 DEF QueueIInv, QueueShape, QueueApart, QueueCounts, QueueBusy, InBatch
<1>2. CASE QueueNext
  <2>1. CASE \E t \in Tasks : PublishCheck(t) \/ PublishSend(t)  BY <2>1, PublishKeeps
  <2>2. CASE \E t \in Tasks : PublishPanics(t)  BY <2>2, <1>1 DEF PublishPanics
  <2>3. CASE \E w \in Workers : WorkerStep(w) \/ Pushed(w)
    BY <2>3, ReceiveKeeps, WorkerKeeps, PushedKeeps DEF WorkerStep
  <2>4. CASE CloseLock \/ CloseBegin \/ CloseReturn
    BY <2>4, <1>1 DEF CloseLock, CloseBegin, CloseReturn
  <2> QED  BY <1>2, <2>1, <2>2, <2>3, <2>4 DEF QueueNext
<1> QED  BY <1>1, <1>2 DEF queueVars

\* The invariant says where a task is; the property counts its places and pushes.
LEMMA QueuePushesOnce == ASSUME QueueIInv PROVE PushedOnce
<1> SUFFICES ASSUME NEW t \in Tasks
             PROVE  Cardinality(Held(t)) + pushes[t] = (IF call[t] = "accepted" THEN 1 ELSE 0)
  BY DEF PushedOnce
<1>1. Held(t) # {} <=> t \in Range(pending) \/ InBatch(t)
  <2>1. ASSUME NEW x \in Held(t) PROVE t \in Range(pending) \/ InBatch(t)
    BY <2>1 DEF Held, InBatch, Range
  <2>2. ASSUME NEW i \in DOMAIN pending, pending[i] = t PROVE <<"pending", i>> \in Held(t)
    BY <2>2 DEF Held
  <2>3. ASSUME NEW w \in Workers, NEW i \in DOMAIN batch[w], batch[w][i] = t
        PROVE  <<w, i>> \in Held(t)
    BY <2>3 DEF Held
  <2> QED  BY <2>1, <2>2, <2>3 DEF InBatch, Range
<1>2. ASSUME NEW x \in Held(t), NEW y \in Held(t) PROVE x = y
  <2>1. CASE t \in Range(pending)
    <3>1. ~InBatch(t)  BY <2>1 DEF QueueIInv, QueueApart, InBatch
    <3>2. PICK i \in DOMAIN pending : pending[i] = t /\ x = <<"pending", i>>
      BY <3>1 DEF Held, InBatch, Range
    <3>3. PICK j \in DOMAIN pending : pending[j] = t /\ y = <<"pending", j>>
      BY <3>1 DEF Held, InBatch, Range
    <3> QED  BY <3>2, <3>3 DEF QueueIInv, QueueShape, IsInjective
  <2>2. CASE t \notin Range(pending)
    <3>1. PICK v \in Workers : \E i \in DOMAIN batch[v] : batch[v][i] = t /\ x = <<v, i>>
      BY <2>2 DEF Held, Range
    <3>2. PICK w \in Workers : \E i \in DOMAIN batch[w] : batch[w][i] = t /\ y = <<w, i>>
      BY <2>2 DEF Held, Range
    <3>3. v = w  BY <3>1, <3>2 DEF QueueIInv, QueueApart, Range
    <3> QED  BY <3>1, <3>2, <3>3 DEF QueueIInv, QueueShape, IsInjective
  <2> QED  BY <2>1, <2>2
<1>3. Cardinality(Held(t)) = IF Held(t) = {} THEN 0 ELSE 1  BY <1>2, AtMostOne
<1> QED  BY <1>1, <1>3 DEF QueueIInv, QueueCounts

-----------------------------------------------------------------------------
(* Connections, channels: a Push has sent nothing to the members it has    *)
(* still to deal with.                                                     *)

PushFields == {"at", "left", "trying", "attempt", "copied"}

PushShape ==
    /\ pushing = [g \in Pushers |-> pushing[g]]
    /\ \A g \in Pushers : pushing[g] = [k \in PushFields |-> pushing[g][k]]
    /\ got \in [Pushers -> [Joiners -> {0, 1}]]

PushState ==
    \A g \in Pushers :
        /\ pushing[g].left \subseteq pushing[g].copied
        /\ pushing[g].at = 0 => pushing[g].copied = {} /\ \A s \in Joiners : got[g][s] = 0
        /\ \A s \in Joiners :
               /\ got[g][s] = 1 => s \in pushing[g].copied \ pushing[g].left
               /\ s \in pushing[g].copied \ pushing[g].left => got[g][s] = 1 \/ s \in broken

ChannelIInv == PushShape /\ PushState

\* An attempt to send to a member.
LEMMA SendKeeps ==
    ASSUME ChannelIInv, NEW g \in Pushers, NEW s \in Joiners, ChannelSend(g, s)
    PROVE  ChannelIInv'
<1> USE DEF ChannelIInv
<1>0. s \in pushing[g].left /\ UNCHANGED broken  BY DEF ChannelSend
<1>1. PICK over \in BOOLEAN :
          /\ over = (s \notin broken \/ pushing[g].attempt = 2)
          /\ pushing' = [pushing EXCEPT ![g] = Attempted(pushing[g], s, over)]
  BY DEF ChannelSend
<1>2. got[g][s] = 0  BY <1>0 DEF PushState, PushShape
<1>3. got' = [got EXCEPT ![g][s] = IF s \in broken THEN got[g][s] ELSE got[g][s] + 1]
  BY DEF ChannelSend
<1>4. /\ got' \in [Pushers -> [Joiners -> {0, 1}]]
      /\ got'[g][s] = IF s \in broken THEN 0 ELSE 1
      /\ \A r \in Joiners \ {s} : got'[g][r] = got[g][r]
      /\ \A h \in Pushers \ {g} : got'[h] = got[h]
  BY <1>2, <1>3 DEF PushShape
<1>5. pushing[g] = [k \in PushFields |-> pushing[g][k]]  BY DEF PushShape
<1>6. /\ pushing'[g] = Attempted(pushing[g], s, over)
      /\ \A h \in Pushers \ {g} : pushing'[h] = pushing[h]
      /\ pushing' = [h \in Pushers |-> pushing'[h]]
  BY <1>1 DEF PushShape
<1>7. /\ pushing'[g] = [k \in PushFields |-> pushing'[g][k]]
      /\ pushing'[g].at = pushing[g].at /\ pushing'[g].copied = pushing[g].copied
      /\ pushing'[g].left = IF over THEN pushing[g].left \ {s} ELSE pushing[g].left
  <2>1. PICK p : p = pushing[g] /\ p = [k \in PushFields |-> p[k]]  BY <1>5
  <2>2. PICK q : q = Attempted(p, s, over)  OBVIOUS
  <2>3. /\ q = [k \in PushFields |-> q[k]] /\ q.at = p.at /\ q.copied = p.copied
        /\ q.left = IF over THEN p.left \ {s} ELSE p.left
    BY <2>1, <2>2 DEF Attempted, PushFields
  <2> QED  BY <2>1, <2>2, <2>3, <1>6
<1>8. PushShape'  BY <1>4, <1>6, <1>7 DEF PushShape
<1>9. pushing[g].at # 0  BY <1>0 DEF PushState
<1>10. over \/ s \in broken  BY <1>1
<1>11. s \in pushing[g].copied  BY <1>0 DEF PushState
<1>12. s \notin broken => over  BY <1>1
<1>13. PushState'
  <2> SUFFICES ASSUME NEW h \in Pushers
               PROVE  /\ pushing'[h].left \subseteq pushing'[h].copied
                      /\ pushing'[h].at = 0 =>
                             pushing'[h].copied = {} /\ \A r \in Joiners : got'[h][r] = 0
                      /\ \A r \in Joiners :
                             /\ got'[h][r] = 1 => r \in pushing'[h].copied \ pushing'[h].left
                             /\ r \in pushing'[h].copied \ pushing'[h].left =>
                                    got'[h][r] = 1 \/ r \in broken
    BY <1>0 DEF PushState
  <2>1. CASE h # g  BY <2>1, <1>4, <1>6 DEF PushState
  <2>2. CASE h = g
    <3>1. pushing'[g].left \subseteq pushing'[g].copied  BY <1>7 DEF PushState
    <3>2. ASSUME NEW r \in Joiners
          PROVE  /\ got'[g][r] = 1 => r \in pushing'[g].copied \ pushing'[g].left
                 /\ r \in pushing'[g].copied \ pushing'[g].left => got'[g][r] = 1 \/ r \in broken
      <4>1. CASE r = s  BY <4>1, <1>4, <1>7, <1>11, <1>12
      <4>2. CASE r # s  BY <4>2, <1>4, <1>7 DEF PushState
      <4> QED  BY <4>1, <4>2
    <3> QED  BY <2>2, <3>1, <3>2, <1>7, <1>9
  <2> QED  BY <2>1, <2>2
<1> QED  BY <1>8, <1>13

\* Every step of the channels, and the steps that leave them alone.
LEMMA ChannelKeeps ==
    ASSUME ChannelIInv, ChannelNext \/ UNCHANGED channelVars PROVE ChannelIInv'
<1> USE ChannelAssumption DEF ChannelIInv
<1>1. CASE UNCHANGED <<broken, pushing, got>>  BY <1>1 DEF PushShape, PushState
<1>2. ASSUME NEW s \in Joiners, BreakSession(s) PROVE ChannelIInv'
  BY <1>2 DEF BreakSession, PushShape, PushState
<1>3. ASSUME NEW g \in Pushers, NEW c \in Channels, ChannelPush(g, c) PROVE ChannelIInv'
  <2>1. pushing[g].at = 0 /\ c # 0 /\ UNCHANGED <<broken, got>>
    BY <1>3 DEF ChannelPush, Channels
  <2>2. pushing' = [pushing EXCEPT ![g] = [at |-> c, left |-> group[c], trying |-> {},
                                           attempt |-> 0, copied |-> group[c]]]
    BY <1>3 DEF ChannelPush
  <2>3. /\ pushing'[g] = [at |-> c, left |-> group[c], trying |-> {}, attempt |-> 0,
                          copied |-> group[c]]
        /\ \A h \in Pushers \ {g} : pushing'[h] = pushing[h]
        /\ pushing' = [h \in Pushers |-> pushing'[h]]
    BY <2>2 DEF PushShape
  <2>4. /\ pushing'[g] = [k \in PushFields |-> pushing'[g][k]] /\ pushing'[g].at = c
        /\ pushing'[g].left = group[c] /\ pushing'[g].copied = group[c]
    BY <2>3 DEF PushFields
  <2>5. PushShape'  BY <2>1, <2>3, <2>4 DEF PushShape
  <2>6. \A s \in Joiners : got'[g][s] = 0  BY <2>1 DEF PushState
  <2>7. PushState'  BY <2>1, <2>3, <2>4, <2>6 DEF PushState
  <2> QED  BY <2>5, <2>7
<1>4. ASSUME NEW g \in Pushers, ChannelPushEnd(g) PROVE ChannelIInv'
  <2>1. /\ pushing' = [pushing EXCEPT ![g] = NoPush] /\ UNCHANGED broken
        /\ got' = [got EXCEPT ![g] = NoneGot]
    BY <1>4 DEF ChannelPushEnd
  <2>2. /\ pushing'[g] = NoPush /\ \A h \in Pushers \ {g} : pushing'[h] = pushing[h]
        /\ pushing' = [h \in Pushers |-> pushing'[h]]
    BY <2>1 DEF PushShape
  <2>3. /\ got' \in [Pushers -> [Joiners -> {0, 1}]]
        /\ \A s \in Joiners : got'[g][s] = 0
        /\ \A h \in Pushers \ {g} : got'[h] = got[h]
    BY <2>1 DEF PushShape, NoneGot
  <2>4. /\ NoPush = [k \in PushFields |-> NoPush[k]] /\ NoPush.at = 0 /\ NoPush.left = {}
        /\ NoPush.copied = {}
    BY DEF NoPush, PushFields
  <2>5. PushShape'
    <3>1. \A h \in Pushers : pushing'[h] = [k \in PushFields |-> pushing'[h][k]]
      BY <2>2, <2>4, Zenon DEF PushShape
    <3> QED  BY <2>2, <2>3, <3>1 DEF PushShape
  <2>6. /\ pushing'[g].at = 0 /\ pushing'[g].left = {} /\ pushing'[g].copied = {}
    BY <2>2, <2>4
  <2>7. PushState'  BY <2>1, <2>2, <2>3, <2>6 DEF PushState
  <2> QED  BY <2>5, <2>7
<1>5. CASE ChannelNext
  <2> HIDE DEF ChannelIInv
  <2>1. CASE CreateChannel \/ DropChannel  BY <2>1, <1>1 DEF CreateChannel, DropChannel
  <2>2. CASE \E c \in Channels : ClearChannel(c) \/ \E s \in Joiners : Join(c, s) \/ Leave(c, s)
    BY <2>2, <1>1 DEF ClearChannel, Join, Leave, Regroup
  <2> QED  BY <1>2, <1>3, <1>4, <1>5, <2>1, <2>2, SendKeeps DEF ChannelNext
<1> QED  BY <1>1, <1>5 DEF channelVars

\* The broadcast service's workers and Close, and a Channel's Push, for any tasks,
\* workers and members: every accepted task is queued or collected until it is pushed,
\* exactly once, also while pushes never end and Close waits for them; and a Push sends
\* once to each member it has dealt with, unless that one's connection failed.
THEOREM EachDeliveredOnce == Spec => []DeliveredOnce
<1>1. Init => QueueIInv
  <2> SUFFICES ASSUME QueueInit PROVE QueueIInv  BY DEF Init
  <2>1. \A w \in Workers : Range(batch[w]) = {}  BY NothingInIt DEF QueueInit
  <2> QED  BY <2>1, NothingInIt
           DEF QueueInit, QueueIInv, QueueShape, QueueApart, QueueCounts, QueueBusy, InBatch
<1>2. Init => ChannelIInv
  <2> SUFFICES ASSUME ChannelInit PROVE ChannelIInv  BY DEF Init
  <2>1. /\ NoPush = [k \in PushFields |-> NoPush[k]] /\ NoPush.at = 0 /\ NoPush.left = {}
        /\ NoPush.copied = {}
    BY DEF NoPush, PushFields
  <2>2. /\ \A g \in Pushers : pushing[g] = NoPush
        /\ \A g \in Pushers, s \in Joiners : got[g][s] = 0
    BY DEF ChannelInit, NoneGot
  <2>3. PushShape  BY <2>1, <2>2 DEF ChannelInit, NoneGot, PushShape
  <2>4. PushState  BY <2>1, <2>2 DEF PushState
  <2> QED  BY <2>3, <2>4 DEF ChannelIInv
<1>3. [Next]_vars => /\ QueueNext \/ UNCHANGED queueVars
                     /\ ChannelNext \/ UNCHANGED channelVars
  BY DEF Next, Part, Others, vars
<1>4. QueueIInv /\ [Next]_vars => QueueIInv'  BY <1>3, QueueKeeps
<1>5. ChannelIInv /\ [Next]_vars => ChannelIInv'  BY <1>3, ChannelKeeps
<1>6. QueueIInv /\ ChannelIInv => DeliveredOnce
  <2>1. ChannelIInv => ChannelPushedOnce
    BY DEF ChannelIInv, PushShape, PushState, ChannelPushedOnce
  <2> QED  BY <2>1, QueuePushesOnce DEF DeliveredOnce
<1> QED  BY <1>1, <1>2, <1>4, <1>5, <1>6, PTL DEF Spec

-----------------------------------------------------------------------------
(* Dictionary, compressors: as long as ids are left, the ids in use are    *)
(* the numbers up to nextID, one for each route.                           *)

CompressorOK(c) ==
    /\ IsFiniteSet(DOMAIN c.routes) /\ c.nextID \in Nat
    /\ Cardinality(DOMAIN c.routes) < IdSpace =>
           /\ c.nextID = Cardinality(DOMAIN c.routes) /\ DOMAIN c.ids = 1..c.nextID
           /\ \A r \in DOMAIN c.routes : c.routes[r] \in DOMAIN c.ids /\ c.ids[c.routes[r]] = r

\* Register, for a route that is known or new.
LEMMA RegisterKeeps ==
    ASSUME NEW c, CompressorOK(c), NEW r
    PROVE  CompressorOK(Register(c, r)) /\ DOMAIN Register(c, r).routes = DOMAIN c.routes \cup {r}
<1>1. CASE r \in DOMAIN c.routes  BY <1>1 DEF Register
<1>2. CASE r \notin DOMAIN c.routes
  <2>1. PICK id : id = (c.nextID + 1) % IdSpace  OBVIOUS
  <2>2. PICK d : d = [routes |-> Entered(c.routes, r, id), ids |-> Entered(c.ids, id, r),
                      nextID |-> id]
    OBVIOUS
  <2>3. Register(c, r) = d  BY <1>2, <2>1, <2>2 DEF Register
  <2>4. /\ d.routes = [z \in DOMAIN c.routes \cup {r} |-> IF z = r THEN id ELSE c.routes[z]]
        /\ d.ids = [z \in DOMAIN c.ids \cup {id} |-> IF z = id THEN r ELSE c.ids[z]]
        /\ d.nextID = id
    BY <2>2 DEF Entered
  <2>5. id \in Nat  BY <2>1, DictionaryAssumption DEF CompressorOK
  <2>6. PICK n \in Nat : n = Cardinality(DOMAIN c.routes)  BY FS_CardinalityType DEF CompressorOK
  <2>7. IsFiniteSet(DOMAIN d.routes) /\ Cardinality(DOMAIN d.routes) = n + 1
    BY <1>2, <2>4, <2>6, FS_AddElement DEF CompressorOK
  <2>8. ASSUME n + 1 < IdSpace
        PROVE  /\ d.nextID = n + 1 /\ DOMAIN d.ids = 1..d.nextID
               /\ \A q \in DOMAIN d.routes : d.routes[q] \in DOMAIN d.ids /\ d.ids[d.routes[q]] = q
    <3>1. c.nextID = n /\ DOMAIN c.ids = 1..n
      BY <2>6, <2>8, DictionaryAssumption DEF CompressorOK
    <3>2. id = n + 1  BY <2>1, <2>8, <3>1, DictionaryAssumption
    <3>3. DOMAIN d.ids = 1..(n + 1)  BY <2>4, <3>1, <3>2
    <3>4. ASSUME NEW q \in DOMAIN c.routes
          PROVE  d.routes[q] \in DOMAIN d.ids /\ d.ids[d.routes[q]] = q
      <4>1. c.routes[q] \in 1..n /\ c.ids[c.routes[q]] = q
        BY <2>6, <2>8, <3>1, DictionaryAssumption DEF CompressorOK
      <4>2. d.routes[q] = c.routes[q]  BY <1>2, <2>4
      <4>3. c.routes[q] # id  BY <3>2, <4>1
      <4> QED  BY <2>4, <3>1, <4>1, <4>2, <4>3
    <3>5. d.routes[r] \in DOMAIN d.ids /\ d.ids[d.routes[r]] = r  BY <2>4
    <3> QED  BY <2>4, <3>2, <3>3, <3>4, <3>5
  <2>9. CompressorOK(d)  BY <2>4, <2>5, <2>7, <2>8 DEF CompressorOK
  <2> QED  BY <2>3, <2>4, <2>9
<1> QED  BY <1>1, <1>2

\* A compressor without routes.
LEMMA EmptyCompressorOK == CompressorOK(EmptyCompressor)
<1>1. DOMAIN EmptyCompressor.routes = {} /\ DOMAIN EmptyCompressor.ids = {}
  BY DEF EmptyCompressor
<1>2. EmptyCompressor.nextID = 0  BY DEF EmptyCompressor
<1> QED  BY <1>1, <1>2, FS_EmptySet, DictionaryAssumption DEF CompressorOK

TableOK(t) ==
    CompressorOK(t.compressor) /\ t.handlers \subseteq DOMAIN t.compressor.routes

DictionaryIInv ==
    /\ CompressorOK(compressor)
    /\ tables = [type \in DOMAIN tables |-> tables[type]]
    /\ \A type \in DOMAIN tables : /\ {"compressor", "handlers"} \subseteq DOMAIN tables[type]
                                   /\ TableOK(tables[type])

\* Every step of the dictionaries, and the steps that leave them alone.
LEMMA DictionaryKeeps ==
    ASSUME DictionaryIInv, DictionaryNext \/ UNCHANGED dictionaryVars PROVE DictionaryIInv'
<1>1. CASE UNCHANGED dictionaryVars
  BY <1>1 DEF dictionaryVars, DictionaryIInv, CompressorOK, TableOK
<1>2. ASSUME NEW r, CompressRoute(r) PROVE DictionaryIInv'
  BY <1>2, RegisterKeeps DEF CompressRoute, DictionaryIInv
<1>3. CASE ClearCompressor
  BY <1>3, EmptyCompressorOK DEF ClearCompressor, DictionaryIInv
<1>4. ASSUME NEW type, NEW r, RegisterHandler(type, r) PROVE DictionaryIInv'
  <2>1. PICK old : old = TableFor(type)  OBVIOUS
  <2>2. TableOK(old)
    <3>1. CASE type \in DOMAIN tables  BY <2>1, <3>1 DEF TableFor, DictionaryIInv
    <3>2. CASE type \notin DOMAIN tables
      <4>1. old.compressor = EmptyCompressor /\ old.handlers = {}  BY <2>1, <3>2 DEF TableFor
      <4> QED  BY <4>1, EmptyCompressorOK DEF TableOK
    <3> QED  BY <3>1, <3>2
  <2>3. PICK d : d = Register(old.compressor, r)  OBVIOUS
  <2>4. CompressorOK(d) /\ DOMAIN d.routes = DOMAIN old.compressor.routes \cup {r}
    BY <2>2, <2>3, RegisterKeeps DEF TableOK
  <2>5. PICK t : t = [compressor |-> d, handlers |-> old.handlers \cup {r}]  OBVIOUS
  <2>6. /\ tables' = [z \in DOMAIN tables \cup {type} |-> IF z = type THEN t ELSE tables[z]]
        /\ UNCHANGED compressor
    BY <1>4, <2>1, <2>3, <2>5 DEF RegisterHandler, Entered
  <2>7. {"compressor", "handlers"} \subseteq DOMAIN t /\ TableOK(t)
    BY <2>2, <2>4, <2>5 DEF TableOK
  <2>8. tables' = [z \in DOMAIN tables' |-> tables'[z]]  BY <2>6
  <2> QED  BY <2>6, <2>7, <2>8 DEF DictionaryIInv
<1>5. ASSUME NEW type, NEW r, CompressFor(type, r) PROVE DictionaryIInv'
  <2>1. type \in DOMAIN tables /\ UNCHANGED compressor
    BY <1>5 DEF CompressFor
  <2>2. PICK d : d = Register(tables[type].compressor, r)  OBVIOUS
  <2>3. CompressorOK(d) /\ DOMAIN d.routes = DOMAIN tables[type].compressor.routes \cup {r}
    BY <2>1, <2>2, RegisterKeeps DEF DictionaryIInv, TableOK
  <2>4. PICK t : t = [tables[type] EXCEPT !.compressor = d]  OBVIOUS
  <2>5. tables' = [tables EXCEPT ![type] = t]
    BY <1>5, <2>2, <2>4 DEF CompressFor
  <2>6. /\ DOMAIN t = DOMAIN tables[type] /\ t.compressor = d
        /\ t.handlers = tables[type].handlers
    BY <2>1, <2>4 DEF DictionaryIInv
  <2>7. {"compressor", "handlers"} \subseteq DOMAIN t /\ TableOK(t)
    BY <2>1, <2>3, <2>6 DEF DictionaryIInv, TableOK
  <2>8. /\ DOMAIN tables' = DOMAIN tables /\ tables'[type] = t
        /\ \A z \in DOMAIN tables \ {type} : tables'[z] = tables[z]
        /\ tables' = [z \in DOMAIN tables' |-> tables'[z]]
    BY <2>1, <2>5 DEF DictionaryIInv
  <2> QED  BY <2>1, <2>7, <2>8 DEF DictionaryIInv
<1> QED  BY <1>1, <1>2, <1>3, <1>4, <1>5 DEF DictionaryNext

\* What the invariant says of ids and routes.
LEMMA DictionaryAgrees == ASSUME DictionaryIInv PROVE DictionariesInvert
<1>1. ASSUME NEW c, CompressorOK(c) PROVE RoundTrip(c)
  BY <1>1 DEF CompressorOK, RoundTrip, RouteOf, RouteID
<1>2. ASSUME NEW type \in DOMAIN tables,
             Cardinality(DOMAIN tables[type].compressor.routes) < IdSpace,
             NEW r \in tables[type].handlers
      PROVE  HandlerByID(tables[type], RouteID(tables[type].compressor, r)) = {r}
  <2>1. PICK t : t = tables[type]  OBVIOUS
  <2>2. r \in DOMAIN t.compressor.routes /\ r \in t.handlers
    BY <1>2, <2>1 DEF DictionaryIInv, TableOK
  <2>3. /\ t.compressor.routes[r] \in DOMAIN t.compressor.ids
        /\ t.compressor.ids[t.compressor.routes[r]] = r
    BY <1>2, <2>1, <2>2 DEF DictionaryIInv, TableOK, CompressorOK
  <2> QED  BY <2>1, <2>2, <2>3 DEF HandlerByID, RouteOf, RouteID
<1>3. \A type \in DOMAIN tables : /\ RoundTrip(tables[type].compressor)
                                  /\ tables[type].handlers \subseteq DOMAIN tables[type].compressor.routes
  BY <1>1 DEF DictionaryIInv, TableOK
<1> QED  BY <1>1, <1>2, <1>3 DEF DictionariesInvert, DictionaryIInv

-----------------------------------------------------------------------------
(* Dictionary, schemas: each map leads only to keys of the other.          *)

SchemaOK(s) ==
    /\ \A r \in DOMAIN s.routes : s.routes[r] # 0 /\ s.routes[r] \in DOMAIN s.routeIDs
    /\ \A id \in DOMAIN s.routeIDs : s.routeIDs[id] \in DOMAIN s.routes
    /\ \A r \in DOMAIN s.routes, id \in DOMAIN s.routeIDs : s.routes[r] = id <=> s.routeIDs[id] = r

\* RegisterRoute, accepted or refused.
LEMMA RegisterRouteKeeps ==
    ASSUME NEW s, SchemaOK(s), NEW r, NEW id PROVE SchemaOK(RegisterRoute(s, r, id))
<1>1. CASE ~Accepts(s, r, id)  BY <1>1 DEF RegisterRoute
<1>2. CASE Accepts(s, r, id)
  <2>1. PICK d : d = [routes |-> Entered(s.routes, r, id), routeIDs |-> Entered(s.routeIDs, id, r)]
    OBVIOUS
  <2>2. RegisterRoute(s, r, id) = d  BY <1>2, <2>1 DEF RegisterRoute
  <2>3. /\ d.routes = [z \in DOMAIN s.routes \cup {r} |-> IF z = r THEN id ELSE s.routes[z]]
        /\ d.routeIDs = [z \in DOMAIN s.routeIDs \cup {id} |-> IF z = id THEN r ELSE s.routeIDs[z]]
    BY <2>1 DEF Entered
  <2>4. id # 0 /\ r \notin DOMAIN s.routes /\ id \notin DOMAIN s.routeIDs
    BY <1>2 DEF Accepts
  <2>5. SchemaOK(d)  BY <2>3, <2>4 DEF SchemaOK
  <2> QED  BY <2>2, <2>5
<1> QED  BY <1>1, <1>2

\* A manager without routes.
LEMMA NoSchemaOK == SchemaOK(NoSchema)
<1>1. DOMAIN NoSchema.routes = {} /\ DOMAIN NoSchema.routeIDs = {}  BY DEF NoSchema
<1> QED  BY <1>1 DEF SchemaOK

\* Merge adds the routes and ids that are both new, and nothing else.
LEMMA MergeKeeps == ASSUME SchemaOK(mine), SchemaOK(other), Merge PROVE SchemaOK(mine')
<1>1. PICK new : new = {r \in DOMAIN other.routes : Accepts(mine, r, other.routes[r])}  OBVIOUS
<1>2. PICK ids : ids = {other.routes[r] : r \in new}  OBVIOUS
<1>3. mine' = [routes |-> Joined(mine.routes, Restrict(other.routes, new)),
               routeIDs |-> Joined(mine.routeIDs, Restrict(other.routeIDs, ids))]
  BY <1>1, <1>2 DEF Merge
<1>4. /\ DOMAIN mine'.routes = DOMAIN mine.routes \cup new
      /\ DOMAIN mine'.routeIDs = DOMAIN mine.routeIDs \cup ids
      /\ \A r \in new : mine'.routes[r] = other.routes[r]
      /\ \A r \in DOMAIN mine.routes \ new : mine'.routes[r] = mine.routes[r]
      /\ \A id \in ids : mine'.routeIDs[id] = other.routeIDs[id]
      /\ \A id \in DOMAIN mine.routeIDs \ ids : mine'.routeIDs[id] = mine.routeIDs[id]
  BY <1>3 DEF Joined, Restrict
<1>5. \A r \in new : /\ r \in DOMAIN other.routes /\ r \notin DOMAIN mine.routes
                     /\ other.routes[r] # 0 /\ other.routes[r] \in ids
                     /\ other.routes[r] \notin DOMAIN mine.routeIDs
  BY <1>1, <1>2 DEF Accepts
<1>6. \A id \in ids : /\ id \in DOMAIN other.routeIDs /\ id \notin DOMAIN mine.routeIDs
                      /\ other.routeIDs[id] \in new
  <2> SUFFICES ASSUME NEW r \in new
               PROVE  /\ other.routes[r] \in DOMAIN other.routeIDs
                      /\ other.routes[r] \notin DOMAIN mine.routeIDs
                      /\ other.routeIDs[other.routes[r]] \in new
    BY <1>2
  <2> QED  BY <1>5 DEF SchemaOK
<1>7. \A r \in DOMAIN mine'.routes : mine'.routes[r] # 0 /\ mine'.routes[r] \in DOMAIN mine'.routeIDs
  BY <1>4, <1>5 DEF SchemaOK
<1>8. \A id \in DOMAIN mine'.routeIDs : mine'.routeIDs[id] \in DOMAIN mine'.routes
  BY <1>4, <1>6 DEF SchemaOK
<1>9. ASSUME NEW r \in DOMAIN mine'.routes, NEW id \in DOMAIN mine'.routeIDs
      PROVE  mine'.routes[r] = id <=> mine'.routeIDs[id] = r
  <2>1. CASE r \in new /\ id \in ids  BY <2>1, <1>4, <1>5, <1>6 DEF SchemaOK
  <2>2. CASE r \in new /\ id \notin ids
    <3>1. id \in DOMAIN mine.routeIDs /\ mine'.routeIDs[id] = mine.routeIDs[id]
      BY <1>4, <2>2
    <3> QED  BY <2>2, <3>1, <1>4, <1>5 DEF SchemaOK
  <2>3. CASE r \notin new /\ id \in ids
    <3>1. r \in DOMAIN mine.routes /\ mine'.routes[r] = mine.routes[r]  BY <1>4, <2>3
    <3> QED  BY <2>3, <3>1, <1>4, <1>6 DEF SchemaOK
  <2>4. CASE r \notin new /\ id \notin ids  BY <2>4, <1>4 DEF SchemaOK
  <2> QED  BY <2>1, <2>2, <2>3, <2>4
<1> QED  BY <1>7, <1>8, <1>9 DEF SchemaOK

\* Every step of the schemas, and the steps that leave them alone.
LEMMA SchemaKeeps ==
    ASSUME SchemaOK(mine), SchemaOK(other), SchemaNext \/ UNCHANGED schemaVars
    PROVE  SchemaOK(mine') /\ SchemaOK(other')
<1>1. CASE UNCHANGED schemaVars  BY <1>1 DEF schemaVars
<1>2. ASSUME NEW r, NEW id, RegisterMine(r, id) \/ RegisterOther(r, id)
      PROVE  SchemaOK(mine') /\ SchemaOK(other')
  BY <1>2, RegisterRouteKeeps DEF RegisterMine, RegisterOther
<1>3. ASSUME NEW r1, NEW id1, NEW r2, NEW id2, RegisterFromServerSchema(r1, id1, r2, id2)
      PROVE  SchemaOK(mine') /\ SchemaOK(other')
  BY <1>3, RegisterRouteKeeps DEF RegisterFromServerSchema
<1>4. CASE ClearSchema
  BY <1>4, NoSchemaOK DEF ClearSchema
<1>5. CASE Merge  BY <1>5, MergeKeeps DEF Merge
<1> QED  BY <1>1, <1>2, <1>3, <1>4, <1>5 DEF SchemaNext

-----------------------------------------------------------------------------
(* Broadcast, the member tables, and ConnectionManager.                    *)

MembersIInv == IdsAreMembers

\* Every step of the member tables, and the steps that leave them alone.
LEMMA MembersKeep ==
    ASSUME MembersIInv, MembersNext \/ UNCHANGED memberVars PROVE MembersIInv'
<1> USE DEF MembersIInv, IdsAreMembers
<1>1. CASE UNCHANGED memberVars  BY <1>1 DEF memberVars
<1>2. ASSUME NEW u, NEW s, AddSession(u, s) PROVE MembersIInv'
  BY <1>2 DEF AddSession
<1>3. ASSUME NEW u \in Users, RemoveUser(u) PROVE MembersIInv'
  <2>1. \A e \in byID' : e \in members /\ e[1] # u  BY <1>3 DEF RemoveUser
  <2> QED  BY <1>3, <2>1 DEF RemoveUser
<1>4. CASE ClearMembers  BY <1>4 DEF ClearMembers
<1> QED  BY <1>1, <1>2, <1>3, <1>4 DEF MembersNext, AddUser

\* Every step of ConnectionManager, and the steps that leave it alone.
LEMMA ConnectionsKeep ==
    ASSUME SessionsOfConns, ConnectionsNext \/ UNCHANGED connectionVars PROVE SessionsOfConns'
  BY DEF SessionsOfConns, ConnectionsNext, connectionVars, AddConnection, StoreSession,
         RemoveConnection, CloseConnection, CloseAll

-----------------------------------------------------------------------------
(* ServerList: a list holds at most one entry of an id, all of its type.   *)

\* A list without its element at place r.
LEMMA RemovedAt ==
    ASSUME NEW s \in Seq(Items), NEW n \in Nat, n = Len(s), NEW r \in 1..n
    PROVE  /\ RemoveAt(s, r) \in Seq(Items) /\ Len(RemoveAt(s, r)) = n - 1
           /\ \A i \in 1..(n - 1) : /\ i < r => RemoveAt(s, r)[i] = s[i]
                                    /\ i >= r => RemoveAt(s, r)[i] = s[i + 1]
<1>1. PICK left, right : /\ left = SubSeq(s, 1, r - 1) /\ right = SubSeq(s, r + 1, n)
                         /\ RemoveAt(s, r) = left \o right
  BY DEF RemoveAt
<1>2. /\ left \in Seq(Items) /\ Len(left) = r - 1
      /\ \A i \in 1..(r - 1) : left[i] = s[i]
  BY <1>1
<1>3. /\ right \in Seq(Items) /\ Len(right) = n - r
      /\ \A i \in 1..(n - r) : right[i] = s[r + i]
  <2>1. PICK low \in Int : low = r + 1  OBVIOUS
  <2>2. \A i \in low..n : s[i] \in Items  BY <2>1
  <2>3. /\ SubSeq(s, low, n) \in Seq(Items)
        /\ Len(SubSeq(s, low, n)) = IF low <= n THEN n - low + 1 ELSE 0
        /\ \A i \in 1..(n - low + 1) : SubSeq(s, low, n)[i] = s[low + i - 1]
    BY <2>1, <2>2, SubSeqProperties
  <2>4. right = SubSeq(s, low, n)  BY <1>1, <2>1
  <2>5. right \in Seq(Items) /\ Len(right) = n - r  BY <2>1, <2>3, <2>4
  <2>6. ASSUME NEW i \in 1..(n - r) PROVE right[i] = s[r + i]
    <3>1. i \in 1..(n - low + 1) /\ low + i - 1 = r + i  BY <2>1
    <3> QED  BY <2>3, <2>4, <3>1
  <2> QED  BY <2>5, <2>6
<1>4. PICK both : both = left \o right  OBVIOUS
<1>5. /\ both \in Seq(Items) /\ Len(both) = n - 1
      /\ \A i \in 1..(n - 1) :
             both[i] = IF i <= r - 1 THEN left[i] ELSE right[i - (r - 1)]
  <2>1. /\ left \o right \in Seq(Items) /\ Len(left \o right) = Len(left) + Len(right)
        /\ \A i \in 1..(Len(left) + Len(right)) :
               (left \o right)[i] = IF i <= Len(left) THEN left[i] ELSE right[i - Len(left)]
    BY <1>2, <1>3, ConcatProperties
  <2>2. Len(left) + Len(right) = n - 1  BY <1>2, <1>3
  <2> QED  BY <1>2, <1>4, <2>1, <2>2
<1>6. ASSUME NEW i \in 1..(n - 1) PROVE (i < r => both[i] = s[i]) /\ (i >= r => both[i] = s[i + 1])
  <2>1. CASE i < r  BY <1>2, <1>5, <2>1
  <2>2. CASE i >= r
    <3>0. i - (r - 1) \in 1..(n - r) /\ ~(i <= r - 1)  BY <2>2
    <3>1. both[i] = right[i - (r - 1)] /\ i - (r - 1) \in 1..(n - r)
      BY <1>5, <3>0
    <3>2. right[i - (r - 1)] = s[r + (i - (r - 1))] /\ r + (i - (r - 1)) = i + 1
      BY <1>3, <3>1
    <3> QED  BY <2>2, <3>1, <3>2
  <2> QED  BY <2>1, <2>2
<1> QED  BY <1>1, <1>4, <1>5, <1>6

ListOK(list, t) ==
    /\ list \in Seq(Items)
    /\ \A k \in DOMAIN list : list[k].serverType = t
    /\ \A j, k \in DOMAIN list : list[j].id = list[k].id => j = k

\* The index that replaceServer and removeServer find is the only one.
LEMMA FoundIndex ==
    ASSUME NEW list, NEW t, ListOK(list, t), NEW i, HasId(list, i),
           NEW I, \A j : j \in I <=> j \in 1..Len(list) /\ list[j].id = i
    PROVE  \E k \in DOMAIN list : list[k].id = i /\ I = {k} /\ Min(I) = k
<1>1. PICK k \in DOMAIN list : list[k].id = i  BY DEF HasId
<1>2. DOMAIN list = 1..Len(list)  BY DEF ListOK
<1>3. I = {k}  BY <1>1, <1>2 DEF ListOK
<1>4. k \in Int  BY <1>1, <1>2
<1>5. Min({k}) = k  BY <1>4 DEF Min
<1> QED  BY <1>1, <1>3, <1>5

\* replaceServer.
LEMMA ReplaceServerKeeps ==
    ASSUME NEW list, NEW t, ListOK(list, t), NEW item \in Items, item.serverType = t
    PROVE  /\ ListOK(ReplaceServer(list, item), t)
           /\ Range(ReplaceServer(list, item)) = {s \in Range(list) : s.id # item.id} \cup {item}
<1>0. PICK n \in Nat : n = Len(list) /\ DOMAIN list = 1..n  BY DEF ListOK
<1>1. CASE HasId(list, item.id)
  <2>0. PICK I : I = {j \in 1..Len(list) : list[j].id = item.id}  OBVIOUS
  <2>1. PICK k \in 1..n : list[k].id = item.id /\ I = {k} /\ Min(I) = k
    <3>1. \A j : j \in I <=> j \in 1..Len(list) /\ list[j].id = item.id  BY <2>0
    <3> QED  BY <1>0, <1>1, <3>1, FoundIndex
  <2>2. PICK new : new = [list EXCEPT ![k] = item]  OBVIOUS
  <2>3. ReplaceServer(list, item) = new  BY <1>1, <2>0, <2>1, <2>2 DEF ReplaceServer, SelectInSeq
  <2>4. /\ new \in Seq(Items) /\ DOMAIN new = 1..n /\ new[k] = item
        /\ \A j \in 1..n : j # k => new[j] = list[j] /\ list[j].id # item.id
    BY <1>0, <2>1, <2>2 DEF ListOK
  <2>5. ListOK(new, t)  BY <1>0, <2>1, <2>4 DEF ListOK
  <2>6. \A s : s \in Range(new) <=> s = item \/ (s \in Range(list) /\ s.id # item.id)
    <3>1. ASSUME NEW j \in 1..n PROVE new[j] = item \/ (new[j] \in Range(list) /\ new[j].id # item.id)
      BY <1>0, <2>4 DEF Range
    <3>2. item \in Range(new)  BY <2>4 DEF Range
    <3>3. ASSUME NEW j \in 1..n, list[j].id # item.id PROVE list[j] \in Range(new)
      BY <2>1, <2>4, <3>3 DEF Range
    <3> QED  BY <1>0, <2>4, <3>1, <3>2, <3>3 DEF Range
  <2> QED  BY <2>3, <2>5, <2>6
<1>2. CASE ~HasId(list, item.id)
  <2>1. PICK new : new = Append(list, item)  OBVIOUS
  <2>2. ReplaceServer(list, item) = new  BY <1>2, <2>1 DEF ReplaceServer
  <2>3. /\ new \in Seq(Items) /\ DOMAIN new = 1..(n + 1) /\ new[n + 1] = item
        /\ \A j \in 1..n : new[j] = list[j]
    BY <1>0, <2>1 DEF ListOK
  <2>4. \A j \in 1..n : list[j].id # item.id  BY <1>0, <1>2 DEF HasId
  <2>5. \A j \in 1..(n + 1) : j \in 1..n \/ j = n + 1  OBVIOUS
  <2>6. ListOK(new, t)  BY <1>0, <2>3, <2>4, <2>5 DEF ListOK
  <2>7. \A s : s \in Range(new) <=> s = item \/ (s \in Range(list) /\ s.id # item.id)
    <3>1. ASSUME NEW j \in 1..(n + 1)
          PROVE  new[j] = item \/ (new[j] \in Range(list) /\ new[j].id # item.id)
      BY <1>0, <2>3, <2>4, <2>5 DEF Range
    <3>2. item \in Range(new)  BY <2>3 DEF Range
    <3>3. ASSUME NEW j \in 1..n PROVE list[j] \in Range(new)
      <4>1. j \in 1..(n + 1)  OBVIOUS
      <4> QED  BY <2>3, <4>1 DEF Range
    <3> QED  BY <1>0, <2>3, <3>1, <3>2, <3>3 DEF Range
  <2> QED  BY <2>2, <2>6, <2>7
<1> QED  BY <1>1, <1>2

\* removeServer.
LEMMA RemoveServerKeeps ==
    ASSUME NEW list, NEW t, ListOK(list, t), NEW i
    PROVE  /\ ListOK(RemoveServer(list, i), t)
           /\ Range(RemoveServer(list, i)) = {s \in Range(list) : s.id # i}
<1>0. PICK n \in Nat : n = Len(list) /\ DOMAIN list = 1..n  BY DEF ListOK
<1>1. CASE HasId(list, i)
  <2>0. PICK I : I = {j \in 1..Len(list) : list[j].id = i}  OBVIOUS
  <2>1. PICK k \in 1..n : list[k].id = i /\ I = {k} /\ Min(I) = k
    <3>1. \A j : j \in I <=> j \in 1..Len(list) /\ list[j].id = i  BY <2>0
    <3> QED  BY <1>0, <1>1, <3>1, FoundIndex
  <2>2. PICK new : new = RemoveAt(list, k)  OBVIOUS
  <2>3. RemoveServer(list, i) = new
    BY <1>0, <2>0, <2>1, <2>2 DEF RemoveServer, RemoveFirstMatch, SelectInSeq
  <2>4. /\ new \in Seq(Items) /\ Len(new) = n - 1
        /\ \A j \in 1..(n - 1) : /\ j < k => new[j] = list[j]
                                 /\ j >= k => new[j] = list[j + 1]
    <3>1. list \in Seq(Items)  BY DEF ListOK
    <3>2. n \in Nat /\ n = Len(list) /\ k \in 1..n  BY <1>0, <2>1
    <3>3. /\ RemoveAt(list, k) \in Seq(Items) /\ Len(RemoveAt(list, k)) = n - 1
          /\ \A j \in 1..(n - 1) : /\ j < k => RemoveAt(list, k)[j] = list[j]
                                   /\ j >= k => RemoveAt(list, k)[j] = list[j + 1]
      BY <3>1, <3>2, RemovedAt
    <3> QED  BY <2>2, <3>3
  <2>5. DOMAIN new = 1..(n - 1)  BY <2>4
  <2>6. ASSUME NEW j \in 1..(n - 1)
        PROVE  \E m \in 1..n : m # k /\ m = (IF j < k THEN j ELSE j + 1) /\ new[j] = list[m]
    BY <2>4
  <2>7. ASSUME NEW m \in 1..n, m # k PROVE \E j \in 1..(n - 1) : new[j] = list[m]
    <3>1. CASE m < k  BY <2>4, <2>7, <3>1
    <3>2. CASE m > k
      <4>1. PICK j \in 1..(n - 1) : j = m - 1 /\ j >= k /\ j + 1 = m  BY <3>2
      <4> QED  BY <2>4, <4>1
    <3> QED  BY <2>7, <3>1, <3>2
  <2>8. \A m \in 1..n : m # k <=> list[m].id # i  BY <1>0, <2>1 DEF ListOK
  <2>9. ListOK(new, t)
    <3>1. \A j \in 1..(n - 1) : new[j].serverType = t  BY <1>0, <2>6 DEF ListOK
    <3>2. ASSUME NEW h \in 1..(n - 1), NEW j \in 1..(n - 1), new[h].id = new[j].id PROVE h = j
      <4>1. PICK l \in 1..n : l = (IF h < k THEN h ELSE h + 1) /\ new[h] = list[l]  BY <2>6
      <4>2. PICK m \in 1..n : m = (IF j < k THEN j ELSE j + 1) /\ new[j] = list[m]  BY <2>6
      <4>3. l = m  BY <1>0, <3>2, <4>1, <4>2 DEF ListOK
      <4> QED  BY <4>1, <4>2, <4>3
    <3> QED  BY <2>4, <2>5, <3>1, <3>2 DEF ListOK
  <2>10. \A s : s \in Range(new) <=> s \in Range(list) /\ s.id # i
    <3>1. ASSUME NEW j \in 1..(n - 1) PROVE new[j] \in Range(list) /\ new[j].id # i
      <4>1. PICK m \in 1..n : m # k /\ new[j] = list[m]  BY <2>6
      <4> QED  BY <1>0, <2>8, <4>1 DEF Range
    <3>2. ASSUME NEW m \in 1..n, list[m].id # i PROVE list[m] \in Range(new)
      <4>1. PICK j \in 1..(n - 1) : new[j] = list[m]  BY <2>7, <2>8, <3>2
      <4> QED  BY <2>5, <4>1 DEF Range
    <3> QED  BY <1>0, <2>5, <3>1, <3>2 DEF Range
  <2> QED  BY <2>3, <2>9, <2>10
<1>2. CASE ~HasId(list, i)
  <2>1. RemoveServer(list, i) = list
    BY <1>0, <1>2 DEF RemoveServer, RemoveFirstMatch, HasId
  <2>2. \A s \in Range(list) : s.id # i  BY <1>2 DEF HasId, Range
  <2> QED  BY <2>1, <2>2
<1> QED  BY <1>1, <1>2

ServersOK ==
    /\ servers \in [ServerIds -> Items \cup {NoServer}]
    /\ \A i \in ServerIds : Known(i) => servers[i].id = i

ListsOK ==
    /\ serverTypeMaps = [t \in ServerTypes |-> serverTypeMaps[t]]
    /\ \A t \in ServerTypes : ListOK(serverTypeMaps[t], t)

KnownListed == \A i \in ServerIds : Known(i) => servers[i] \in Range(serverTypeMaps[servers[i].serverType])

ListedKnown ==
    /\ \A t \in ServerTypes : \A s \in Range(serverTypeMaps[t]) : s.id \notin moved => servers[s.id] = s
    /\ \A t \in ServerTypes : serverTypeMaps[t] # <<>> => t \in serverTypes

ServerListIInv == ServersOK /\ ListsOK /\ KnownListed /\ ListedKnown

\* What is in a list.
LEMMA ListEntries ==
    ASSUME NEW list, NEW t, ListOK(list, t), NEW s \in Range(list)
    PROVE  /\ s \in Items /\ s.id \in ServerIds /\ s.serverType = t
           /\ \A r \in Range(list) : r.id = s.id => r = s
<1>1. s \in Items /\ s.serverType = t  BY DEF ListOK, Range
<1>2. s.id \in ServerIds  BY <1>1 DEF Items
<1>3. \A r \in Range(list) : r.id = s.id => r = s  BY DEF ListOK, Range
<1> QED  BY <1>1, <1>2, <1>3

\* AddServers.
LEMMA AddServersKeeps ==
    ASSUME ServerListIInv, NEW item \in Items, AddServers(item) PROVE ServerListIInv'
<1> USE ServerListAssumption DEF ServerListIInv
<1>1. PICK y \in ServerTypes : y = item.serverType  BY DEF Items
<1>2. PICK i \in ServerIds : i = item.id  BY DEF Items
<1>3. /\ servers' = [servers EXCEPT ![i] = item]
      /\ serverTypeMaps' = [serverTypeMaps EXCEPT ![y] = ReplaceServer(serverTypeMaps[y], item)]
      /\ serverTypes' = serverTypes \cup {y}
  BY <1>1, <1>2 DEF AddServers
<1>4. /\ moved \subseteq moved'
      /\ Known(i) /\ servers[i].serverType # y => i \in moved'
  BY <1>1, <1>2 DEF AddServers
<1>5. /\ servers'[i] = item /\ \A j \in ServerIds \ {i} : servers'[j] = servers[j]
      /\ servers' \in [ServerIds -> Items \cup {NoServer}]
  BY <1>3 DEF ServersOK
<1>6. PICK list : list = ReplaceServer(serverTypeMaps[y], item)  OBVIOUS
<1>7. /\ ListOK(list, y)
      /\ Range(list) = {s \in Range(serverTypeMaps[y]) : s.id # i} \cup {item}
  BY <1>1, <1>2, <1>6, ReplaceServerKeeps DEF ListsOK
<1>8. /\ serverTypeMaps'[y] = list
      /\ \A t \in ServerTypes \ {y} : serverTypeMaps'[t] = serverTypeMaps[t]
      /\ serverTypeMaps' = [t \in ServerTypes |-> serverTypeMaps'[t]]
  BY <1>3, <1>6 DEF ListsOK
<1>9. ServersOK'  BY <1>2, <1>5 DEF ServersOK, Known
<1>10. ListsOK'  BY <1>7, <1>8 DEF ListsOK
<1>11. KnownListed'
  <2> SUFFICES ASSUME NEW j \in ServerIds, servers'[j] # NoServer
               PROVE  servers'[j] \in Range(serverTypeMaps'[servers'[j].serverType])
    BY DEF KnownListed, Known
  <2>1. CASE j = i  BY <2>1, <1>1, <1>5, <1>7, <1>8
  <2>2. CASE j # i
    <3>1. servers'[j] = servers[j] /\ Known(j) /\ servers[j].id # i /\ servers[j] \in Items
      BY <2>2, <1>5 DEF ServersOK, Known
    <3>2. servers[j] \in Range(serverTypeMaps[servers[j].serverType])
      BY <3>1 DEF KnownListed
    <3>3. servers[j].serverType \in ServerTypes  BY <3>1 DEF Items
    <3> QED  BY <3>1, <3>2, <3>3, <1>7, <1>8
  <2> QED  BY <2>1, <2>2
<1>12. ListedKnown'
  <2>1. ASSUME NEW t \in ServerTypes, NEW s \in Range(serverTypeMaps'[t]), s.id \notin moved'
        PROVE  servers'[s.id] = s
    <3>1. CASE s = item  BY <3>1, <1>2, <1>5
    <3>2. CASE s # item
      <4>1. s \in Range(serverTypeMaps[t])  BY <2>1, <3>2, <1>7, <1>8
      <4>2. s.id \notin moved  BY <2>1, <1>4
      <4>3. servers[s.id] = s  BY <4>1, <4>2 DEF ListedKnown
      <4>4. s \in Items /\ s.id \in ServerIds /\ s.serverType = t
        BY <4>1, ListEntries DEF ListsOK
      <4>5. s.id # i
        <5> SUFFICES ASSUME s.id = i PROVE FALSE  OBVIOUS
        <5>1. Known(i) /\ servers[i].serverType = t  BY <4>3, <4>4 DEF Known
        <5>2. t = y  BY <5>1, <2>1, <1>4
        <5> QED  BY <5>2, <2>1, <3>2, <1>7, <1>8
      <4> QED  BY <4>3, <4>4, <4>5, <1>5
    <3> QED  BY <3>1, <3>2
  <2>2. \A t \in ServerTypes : serverTypeMaps'[t] # <<>> => t \in serverTypes'
    BY <1>3, <1>8 DEF ListedKnown
  <2> QED  BY <2>1, <2>2 DEF ListedKnown
<1> QED  BY <1>9, <1>10, <1>11, <1>12

\* RemoveServers.
LEMMA RemoveServersKeeps ==
    ASSUME ServerListIInv, NEW i \in ServerIds, RemoveServers(i) PROVE ServerListIInv'
<1> USE ServerListAssumption DEF ServerListIInv
<1>0. Known(i) /\ UNCHANGED <<serverTypes, moved>>  BY DEF RemoveServers
<1>1. PICK y \in ServerTypes : y = servers[i].serverType
  <2>1. servers[i] \in Items  BY <1>0 DEF ServersOK, Known
  <2> QED  BY <2>1 DEF Items
<1>2. /\ servers' = [servers EXCEPT ![i] = NoServer]
      /\ serverTypeMaps' = [serverTypeMaps EXCEPT ![y] = RemoveServer(serverTypeMaps[y], i)]
  BY <1>1 DEF RemoveServers
<1>3. /\ servers'[i] = NoServer /\ \A j \in ServerIds \ {i} : servers'[j] = servers[j]
      /\ servers' \in [ServerIds -> Items \cup {NoServer}]
  BY <1>2 DEF ServersOK
<1>4. PICK list : list = RemoveServer(serverTypeMaps[y], i)  OBVIOUS
<1>5. ListOK(list, y) /\ Range(list) = {s \in Range(serverTypeMaps[y]) : s.id # i}
  BY <1>1, <1>4, RemoveServerKeeps DEF ListsOK
<1>6. /\ serverTypeMaps'[y] = list
      /\ \A t \in ServerTypes \ {y} : serverTypeMaps'[t] = serverTypeMaps[t]
      /\ serverTypeMaps' = [t \in ServerTypes |-> serverTypeMaps'[t]]
  BY <1>2, <1>4 DEF ListsOK
<1>7. ServersOK'  BY <1>3 DEF ServersOK, Known
<1>8. ListsOK'  BY <1>5, <1>6 DEF ListsOK
<1>9. KnownListed'
  <2> SUFFICES ASSUME NEW j \in ServerIds, servers'[j] # NoServer
               PROVE  servers'[j] \in Range(serverTypeMaps'[servers'[j].serverType])
    BY DEF KnownListed, Known
  <2>1. j # i /\ servers'[j] = servers[j] /\ Known(j)  BY <1>3 DEF Known
  <2>2. servers[j].id # i /\ servers[j] \in Items  BY <2>1 DEF ServersOK, Known
  <2>3. servers[j].serverType \in ServerTypes  BY <2>2 DEF Items
  <2>4. servers[j] \in Range(serverTypeMaps[servers[j].serverType])  BY <2>1 DEF KnownListed
  <2> QED  BY <2>1, <2>2, <2>3, <2>4, <1>5, <1>6
<1>10. ListedKnown'
  <2>1. ASSUME NEW t \in ServerTypes, NEW s \in Range(serverTypeMaps'[t]), s.id \notin moved'
        PROVE  servers'[s.id] = s
    <3>1. s \in Range(serverTypeMaps[t]) /\ (t = y => s.id # i)  BY <2>1, <1>5, <1>6
    <3>2. servers[s.id] = s  BY <3>1, <2>1, <1>0 DEF ListedKnown
    <3>3. s.id \in ServerIds /\ s.serverType = t  BY <3>1, ListEntries DEF ListsOK
    <3>4. s.id # i  BY <3>1, <3>2, <3>3, <1>1
    <3> QED  BY <3>2, <3>3, <3>4, <1>3
  <2>2. ASSUME NEW t \in ServerTypes, serverTypeMaps'[t] # <<>> PROVE t \in serverTypes'
    <3>1. CASE t # y  BY <2>2, <3>1, <1>0, <1>6 DEF ListedKnown
    <3>2. CASE t = y
      <4>1. servers[i] \in Range(serverTypeMaps[y])  BY <1>0, <1>1 DEF KnownListed
      <4>2. serverTypeMaps[y] # <<>>  BY <4>1, NothingInIt
      <4> QED  BY <3>2, <4>2, <1>0 DEF ListedKnown
    <3> QED  BY <3>1, <3>2
  <2> QED  BY <2>1, <2>2 DEF ListedKnown
<1> QED  BY <1>7, <1>8, <1>9, <1>10

\* SetServers and ReplaceServers.
LEMMA ReplaceServersKeeps ==
    ASSUME ServerListIInv, NEW new \in Announced, ReplaceServers(new) PROVE ServerListIInv'
<1> USE ServerListAssumption
<1>1. /\ servers' = new /\ new \in [ServerIds -> Items \cup {NoServer}]
      /\ \A i \in ServerIds : new[i] # NoServer => new[i].id = i /\ new[i] \in Items
  BY DEF ReplaceServers, Announced
<1>2. /\ serverTypeMaps' \in [ServerTypes -> UNION {[1..n -> {new[i] : i \in ServerIds} \ {NoServer}] :
                                                      n \in 0..Cardinality(ServerIds)}]
      /\ \A t \in ServerTypes :
             /\ Range(serverTypeMaps'[t]) =
                    {new[i] : i \in {j \in ServerIds : new[j] # NoServer /\ new[j].serverType = t}}
             /\ IsInjective(serverTypeMaps'[t])
  BY DEF ReplaceServers
<1>3. /\ serverTypes' = {new[i].serverType : i \in {j \in ServerIds : new[j] # NoServer}}
      /\ moved' = {}
  BY DEF ReplaceServers
<1>4. ASSUME NEW t \in ServerTypes, NEW s \in Range(serverTypeMaps'[t])
      PROVE  s \in Items /\ s.serverType = t /\ s.id \in ServerIds /\ new[s.id] = s
  <2>1. PICK i \in ServerIds : new[i] # NoServer /\ new[i].serverType = t /\ s = new[i]
    BY <1>2
  <2> QED  BY <2>1, <1>1
<1>5. ASSUME NEW t \in ServerTypes PROVE ListOK(serverTypeMaps'[t], t)
  <2>1. PICK list : list = serverTypeMaps'[t]  OBVIOUS
  <2>2. PICK n \in 0..Cardinality(ServerIds) :
            list \in [1..n -> {new[i] : i \in ServerIds} \ {NoServer}]
    BY <1>2, <2>1
  <2>3. n \in Nat /\ DOMAIN list = 1..n  BY <2>2
  <2>4. \A k \in 1..n : list[k] \in Range(serverTypeMaps'[t])  BY <2>1, <2>3 DEF Range
  <2>5. \A k \in 1..n : list[k] \in Items /\ list[k].serverType = t /\ new[list[k].id] = list[k]
    BY <1>4, <2>4
  <2>6. list \in [1..n -> Items]  BY <2>2, <2>5
  <2>7. list \in Seq(Items)  BY <2>3, <2>6
  <2>8. \A j, k \in 1..n : list[j].id = list[k].id => j = k
    BY <1>2, <2>1, <2>3, <2>5 DEF IsInjective
  <2> QED  BY <2>1, <2>3, <2>5, <2>7, <2>8 DEF ListOK
<1>6. ServersOK'  BY <1>1 DEF ServersOK, Known
<1>7. serverTypeMaps' = [t \in ServerTypes |-> serverTypeMaps'[t]]  BY <1>2
<1>8. ListsOK'  BY <1>5, <1>7 DEF ListsOK
<1>9. KnownListed'
  <2> SUFFICES ASSUME NEW i \in ServerIds, new[i] # NoServer
               PROVE  new[i] \in Range(serverTypeMaps'[new[i].serverType])
    BY <1>1 DEF KnownListed, Known
  <2>1. new[i] \in Items  BY <1>1
  <2>2. PICK t \in ServerTypes : t = new[i].serverType  BY <2>1 DEF Items
  <2>3. new[i] \in Range(serverTypeMaps'[t])  BY <1>2, <2>2
  <2> QED  BY <2>2, <2>3
<1>10. ListedKnown'
  <2>1. \A t \in ServerTypes : \A s \in Range(serverTypeMaps'[t]) : servers'[s.id] = s
    BY <1>1, <1>4
  <2>2. ASSUME NEW t \in ServerTypes, serverTypeMaps'[t] # <<>> PROVE t \in serverTypes'
    <3>1. PICK list : list = serverTypeMaps'[t]  OBVIOUS
    <3>2. PICK k : k \in DOMAIN list
      <4>1. list \in Seq(Items) /\ list # <<>>  BY <1>5, <2>2, <3>1 DEF ListOK
      <4>2. 1 \in DOMAIN list  BY <4>1
      <4> QED  BY <4>2
    <3>3. list[k] \in Range(serverTypeMaps'[t])  BY <3>1, <3>2 DEF Range
    <3>4. PICK i \in ServerIds : new[i] # NoServer /\ new[i].serverType = t  BY <1>2, <3>3
    <3> QED  BY <1>3, <3>4
  <2> QED  BY <2>1, <2>2 DEF ListedKnown
<1> QED  BY <1>6, <1>8, <1>9, <1>10 DEF ServerListIInv

\* Every step of the server list, and the steps that leave it alone.
LEMMA ServerListKeeps ==
    ASSUME ServerListIInv, ServerListNext \/ UNCHANGED serverListVars PROVE ServerListIInv'
<1>1. CASE UNCHANGED serverListVars
  BY <1>1 DEF serverListVars, ServerListIInv, ServersOK, ListsOK, KnownListed, ListedKnown, Known
<1> QED  BY <1>1, AddServersKeeps, RemoveServersKeeps, ReplaceServersKeeps DEF ServerListNext

\* What the invariant says of GetServerById and GetServersByType.
LEMMA ServersOffered == ASSUME ServerListIInv PROVE OfferedExactly
<1>1. ASSUME NEW i \in ServerIds, Known(i)
      PROVE  /\ Cardinality({k \in DOMAIN serverTypeMaps[servers[i].serverType] :
                                 serverTypeMaps[servers[i].serverType][k].id = i}) = 1
             /\ servers[i] \in Range(serverTypeMaps[servers[i].serverType])
  <2>1. servers[i] \in Items /\ servers[i].id = i
    BY <1>1 DEF ServerListIInv, ServersOK, Known
  <2>2. PICK t \in ServerTypes : t = servers[i].serverType  BY <2>1 DEF Items
  <2>3. servers[i] \in Range(serverTypeMaps[t])
    BY <1>1, <2>2 DEF ServerListIInv, KnownListed
  <2>4. PICK S : S = {k \in DOMAIN serverTypeMaps[t] : serverTypeMaps[t][k].id = i}  OBVIOUS
  <2>5. S # {}  BY <2>1, <2>3, <2>4 DEF Range
  <2>6. \A j, k \in S : j = k  BY <2>4 DEF ServerListIInv, ListsOK, ListOK
  <2>7. Cardinality(S) = 1  BY <2>5, <2>6, AtMostOne
  <2> QED  BY <2>2, <2>3, <2>4, <2>7
<1> QED  BY <1>1 DEF OfferedExactly, GetServersByType, ServerListIInv, ListedKnown

-----------------------------------------------------------------------------
\* The tables of the server list, of the broadcast's members, of the dictionaries and
\* of the connections, for any servers, users, routes and connections: they name the
\* same things, after any calls of the operations that keep them.
THEOREM TablesDoAgree == Spec => []TablesAgree
<1>1. Init => ServerListIInv /\ MembersIInv /\ DictionaryIInv
              /\ SchemaOK(mine) /\ SchemaOK(other) /\ SessionsOfConns
  <2>1. ServerListInit => ServerListIInv
    <3> SUFFICES ASSUME ServerListInit PROVE ServerListIInv  OBVIOUS
    <3>1. \A t \in ServerTypes : serverTypeMaps[t] = <<>>  BY DEF ServerListInit
    <3>2. \A t : ListOK(<<>>, t)  BY DEF ListOK
    <3>3. ListsOK  BY <3>1, <3>2 DEF ServerListInit, ListsOK
    <3>4. ListedKnown  BY <3>1, NothingInIt DEF ListedKnown
    <3>5. ServersOK /\ KnownListed  BY DEF ServerListInit, ServersOK, KnownListed, Known
    <3> QED  BY <3>3, <3>4, <3>5 DEF ServerListIInv
  <2>2. MembersInit => MembersIInv  BY DEF MembersInit, MembersIInv, IdsAreMembers
  <2>3. DictionaryInit => DictionaryIInv
    <3> SUFFICES ASSUME DictionaryInit PROVE DictionaryIInv  OBVIOUS
    <3>1. tables = <<>> /\ DOMAIN tables = {}  BY DEF DictionaryInit
    <3> QED  BY <3>1, EmptyCompressorOK DEF DictionaryInit, DictionaryIInv
  <2>4. SchemaInit => SchemaOK(mine) /\ SchemaOK(other)  BY NoSchemaOK DEF SchemaInit
  <2>5. ConnectionsInit => SessionsOfConns  BY DEF ConnectionsInit, SessionsOfConns
  <2> QED  BY <2>1, <2>2, <2>3, <2>4, <2>5 DEF Init
<1>2. [Next]_vars => /\ ServerListNext \/ UNCHANGED serverListVars
                     /\ MembersNext \/ UNCHANGED memberVars
                     /\ DictionaryNext \/ UNCHANGED dictionaryVars
                     /\ SchemaNext \/ UNCHANGED schemaVars
                     /\ ConnectionsNext \/ UNCHANGED connectionVars
  BY DEF Next, Part, Others, vars
<1>3. ServerListIInv /\ [Next]_vars => ServerListIInv'  BY <1>2, ServerListKeeps
<1>4. MembersIInv /\ [Next]_vars => MembersIInv'  BY <1>2, MembersKeep
<1>5. DictionaryIInv /\ [Next]_vars => DictionaryIInv'  BY <1>2, DictionaryKeeps
<1>6. (SchemaOK(mine) /\ SchemaOK(other)) /\ [Next]_vars => (SchemaOK(mine) /\ SchemaOK(other))'
  BY <1>2, SchemaKeeps
<1>7. SessionsOfConns /\ [Next]_vars => SessionsOfConns'  BY <1>2, ConnectionsKeep
<1>8. ServerListIInv /\ MembersIInv /\ DictionaryIInv
        /\ (SchemaOK(mine) /\ SchemaOK(other)) /\ SessionsOfConns => TablesAgree
  <2>1. SchemaOK(mine) /\ SchemaOK(other) => SchemasInvert  BY DEF SchemaOK, SchemasInvert
  <2>2. MembersIInv => IdsAreMembers  BY DEF MembersIInv
  <2> QED  BY <2>1, <2>2, ServersOffered, DictionaryAgrees DEF TablesAgree
<1> QED  BY <1>1, <1>3, <1>4, <1>5, <1>6, <1>7, <1>8, PTL DEF Spec

-----------------------------------------------------------------------------
(* Reload, JSONConfig.Save: as long as no two Saves overlapped, what a     *)
(* Save is about to rename is complete.                                    *)

SaveIInv ==
    /\ saving = [g \in Savers |-> saving[g]]
    /\ setting \in Nat \ {0} /\ tmpFile \in Int /\ jsonFile \in Int
    /\ ~overlap => /\ jsonFile > 0
                   /\ \A g, h \in Savers : saving[g] # "no" /\ saving[h] # "no" => g = h
                   /\ \A g \in Savers : saving[g] = "written" => tmpFile > 0

\* Every step of JSONConfig, and the steps that leave it alone.
LEMMA SaveKeeps ==
    ASSUME SaveIInv, SaveNext \/ UNCHANGED saveVars PROVE SaveIInv'
<1> USE DEF SaveIInv
<1>1. CASE UNCHANGED saveVars  BY <1>1 DEF saveVars
<1>2. CASE SetKey  BY <1>2 DEF SetKey
<1>3. CASE Crash  BY <1>3 DEF Crash
<1>4. CASE ReloadJSON  BY <1>4 DEF ReloadJSON
<1>5. ASSUME NEW g \in Savers, SaveBegin(g) PROVE SaveIInv'
  <2>1. /\ saving' = [saving EXCEPT ![g] = "begun"] /\ tmpFile' = 0
        /\ UNCHANGED <<jsonFile, setting>>
    BY <1>5 DEF SaveBegin
  <2>2. ~overlap' => ~overlap /\ \A h \in Savers : saving[h] = "no"  BY <1>5 DEF SaveBegin
  <2>3. saving'[g] = "begun" /\ \A h \in Savers \ {g} : saving'[h] = saving[h]  BY <2>1
  <2>4. saving' = [h \in Savers |-> saving'[h]]  BY <2>1
  <2> QED  BY <2>1, <2>2, <2>3, <2>4
<1>6. ASSUME NEW g \in Savers, SaveWritten(g) PROVE SaveIInv'
  <2>1. saving[g] = "begun" /\ UNCHANGED <<jsonFile, setting, overlap>>  BY <1>6 DEF SaveWritten
  <2>2. CASE saving' = [saving EXCEPT ![g] = "written"] /\ tmpFile' = setting
    BY <2>1, <2>2
  <2>3. CASE saving' = [saving EXCEPT ![g] = "no"] /\ UNCHANGED tmpFile
    BY <2>1, <2>3
  <2> QED  BY <1>6, <2>2, <2>3 DEF SaveWritten
<1>7. ASSUME NEW g \in Savers, SaveRename(g) PROVE SaveIInv'
  BY <1>7 DEF SaveRename
<1> QED  BY <1>1, <1>2, <1>3, <1>4, <1>5, <1>6, <1>7 DEF SaveNext

-----------------------------------------------------------------------------
(* HandlerLoader: once l.loaded is set, a name that is missing from its    *)
(* table is one that some call of Load has still to register.              *)

LoadFields == {"at", "stage", "left"}

InLoad(g) == loading[g].at \in {"stage", "calls"}

LoaderShape ==
    /\ loading = [g \in Reloaders |-> loading[g]]
    /\ \A g \in Reloaders : /\ loading[g] = [k \in LoadFields |-> loading[g][k]]
                            /\ InLoad(g) => loading[g].stage \in 1..Stages
    /\ registered = [c \in Cells |-> registered[c]]
    /\ \A c \in Cells : registered[c] \in Seq(Range(Funcs[c]))
    /\ \A g \in Reloaders : loading[g].at = "calls" =>
           /\ loading[g].left \in Seq(Range(Funcs[Cell(loading[g].stage)]))
           /\ loading[g].left # <<>> /\ IsInjective(loading[g].left)

LoaderOnce ==
    /\ \A c \in Cells : c[2] # "filters" \/ ~overlapped => IsInjective(registered[c])
    /\ ~overlapped =>
           /\ \A g, h \in Reloaders : InLoad(g) /\ InLoad(h) => g = h
           /\ \A g \in Reloaders : loading[g].at = "calls" =>
                  Range(loading[g].left) \cap Range(registered[Cell(loading[g].stage)]) = {}

\* A call of Load has still to register name n of cell c.
Coming(p, c, n) ==
    \/ /\ p.at \in {"stage", "calls"}
       /\ \E s \in 1..Stages : Cell(s) = c /\ (s > p.stage \/ (s = p.stage /\ p.at = "stage"))
    \/ p.at = "calls" /\ Cell(p.stage) = c /\ n \in Range(p.left)

LoaderComplete ==
    isLoaded => \A c \in Cells : \A n \in Range(Funcs[c]) :
                    n \in Range(registered[c]) \/ \E g \in Reloaders : Coming(loading[g], c, n)

LoaderIInv == LoaderShape /\ LoaderOnce /\ LoaderComplete

\* The stages are the cells: each stage has one, and each cell a stage.
LEMMA StagesAreCells ==
    /\ Stages \in Nat /\ \A s \in 1..Stages : Cell(s) \in Cells
    /\ \A c \in Cells : \E s \in 1..Stages : Cell(s) = c
<1>1. PICK n \in Nat : n = Len(LoadTypes) /\ DOMAIN LoadTypes = 1..n
  BY HandlerLoaderAssumption
<1>2. DOMAIN Kinds = 1..4  BY DEF Kinds
<1>3. Stages = 4 * n /\ Stages \in Nat  BY <1>1 DEF Stages
<1>4. ASSUME NEW s \in 1..Stages PROVE Cell(s) \in Cells
  <2>1. (s - 1) \div 4 + 1 \in 1..n /\ ((s - 1) % 4) + 1 \in 1..4  BY <1>3
  <2> QED  BY <1>1, <1>2, <2>1 DEF Cells, Cell
<1>5. ASSUME NEW c \in Cells PROVE \E s \in 1..Stages : Cell(s) = c
  <2>1. PICK t \in 1..n, k \in 1..4 : c = <<LoadTypes[t], Kinds[k]>>
    BY <1>1, <1>2 DEF Cells
  <2>2. PICK s \in Int : s = 4 * (t - 1) + k  OBVIOUS
  <2>3. s \in 1..Stages /\ (s - 1) \div 4 + 1 = t /\ ((s - 1) % 4) + 1 = k
    BY <1>3, <2>2
  <2> QED  BY <2>1, <2>3 DEF Cell
<1> QED  BY <1>3, <1>4, <1>5

\* What After leads to.
LEMMA AfterFields ==
    ASSUME NEW s \in 0..Stages
    PROVE  /\ After(s) = [k \in LoadFields |-> After(s)[k]]
           /\ After(s).at \in {"no", "stage"} /\ (s < Stages => After(s).at = "stage")
           /\ After(s).at = "stage" => s < Stages /\ After(s).stage = s + 1
           /\ \A c, n : \A r \in 1..Stages : r > s /\ Cell(r) = c => Coming(After(s), c, n)
<1>1. Stages \in Nat  BY StagesAreCells
<1>2. CASE s = Stages
  <2>1. After(s) = [at |-> "no", stage |-> 0, left |-> <<>>]  BY <1>2 DEF After, NotLoading
  <2> QED  BY <1>1, <1>2, <2>1 DEF LoadFields
<1>3. CASE s # Stages
  <2>1. After(s) = [at |-> "stage", stage |-> s + 1, left |-> <<>>]  BY <1>3 DEF After
  <2>2. PICK p : p = After(s)  OBVIOUS
  <2>3. p = [k \in LoadFields |-> p[k]] /\ p.at = "stage" /\ p.stage = s + 1 /\ s < Stages
    BY <1>1, <1>3, <2>1, <2>2 DEF LoadFields
  <2>4. \A c, n : \A r \in 1..Stages : r > s /\ Cell(r) = c => Coming(p, c, n)
    BY <1>1, <2>3 DEF Coming
  <2> QED  BY <2>2, <2>3, <2>4
<1> QED  BY <1>2, <1>3

\* A name that goes into a table: what is in it afterwards.
LEMMA RegisteredOne ==
    ASSUME NEW S, NEW list \in Seq(S), NEW kind, NEW n \in S
    PROVE  /\ Registered(list, kind, n) \in Seq(S)
           /\ Range(Registered(list, kind, n)) = Range(list) \cup {n}
           /\ IsInjective(list) /\ (kind # "filters" \/ n \notin Range(list)) =>
                  IsInjective(Registered(list, kind, n))
<1>1. (\E k \in DOMAIN list : list[k] = n) <=> n \in Range(list)  BY DEF Range
<1>2. CASE kind # "filters" /\ n \in Range(list)
  BY <1>1, <1>2 DEF Registered
<1>3. CASE ~(kind # "filters" /\ n \in Range(list))
  <2>1. Registered(list, kind, n) = Append(list, n)  BY <1>1, <1>3 DEF Registered
  <2> QED  BY <1>3, <2>1, AppendOne, AppendOnce
<1> QED  BY <1>2, <1>3

\* Reload: no table holds anything, and l.loaded is not set.
LEMMA ReloadKeeps ==
    ASSUME LoaderIInv, NEW g \in Reloaders, Reload(g) PROVE LoaderIInv'
<1> USE DEF LoadFields
<1>1. /\ loading' = [loading EXCEPT ![g].at = "cleared"] /\ isLoaded' = FALSE
      /\ registered' = [c \in Cells |-> <<>>] /\ overlapped' = overlapped
      /\ loading[g].at = "no"
  BY DEF Reload
<1>2. /\ loading' = [h \in Reloaders |-> loading'[h]]
      /\ \A h \in Reloaders \ {g} : loading'[h] = loading[h]
      /\ loading'[g] = [loading[g] EXCEPT !.at = "cleared"]
  BY <1>1 DEF LoaderIInv, LoaderShape
<1>3. loading[g] = [k \in LoadFields |-> loading[g][k]]  BY DEF LoaderIInv, LoaderShape
<1>4. loading'[g] = [k \in LoadFields |-> loading'[g][k]] /\ loading'[g].at = "cleared"
  <2>1. PICK p : p = loading[g]  OBVIOUS
  <2>2. p = [k \in LoadFields |-> p[k]]  BY <1>3, <2>1
  <2> QED  BY <1>2, <2>1, <2>2
<1>5. \A c \in Cells : registered'[c] = <<>>  BY <1>1
<1>6. LoaderShape'
  <2>1. \A h \in Reloaders : h # g => loading'[h] = loading[h]  BY <1>2
  <2>2. \A h \in Reloaders : /\ loading'[h] = [k \in LoadFields |-> loading'[h][k]]
                             /\ InLoad(h)' => loading'[h].stage \in 1..Stages
    BY <1>4, <2>1 DEF LoaderIInv, LoaderShape, InLoad
  <2>3. \A c \in Cells : registered'[c] \in Seq(Range(Funcs[c]))  BY <1>5, NothingInIt
  <2>4. \A h \in Reloaders : loading'[h].at = "calls" => loading'[h] = loading[h]
    BY <1>4, <2>1
  <2>5. registered' = [c \in Cells |-> registered'[c]]  BY <1>1
  <2> QED  BY <1>2, <2>2, <2>3, <2>4, <2>5 DEF LoaderIInv, LoaderShape
<1>7. ASSUME NEW c \in Cells PROVE IsInjective(registered'[c]) /\ Range(registered'[c]) = {}
  BY <1>5 DEF IsInjective, Range
<1>8. LoaderOnce'
  <2>1. \A h \in Reloaders : loading'[h].at = "calls" => Cell(loading'[h].stage) \in Cells
    BY <1>6, StagesAreCells DEF LoaderShape, InLoad
  <2> QED  BY <1>1, <1>2, <1>4, <1>7, <2>1 DEF LoaderIInv, LoaderOnce, InLoad
<1> QED  BY <1>1, <1>6, <1>8 DEF LoaderIInv, LoaderComplete

\* Load: it returns, or it has every stage before it.
LEMMA LoadAllKeeps ==
    ASSUME LoaderIInv, NEW g \in Reloaders, LoadAll(g) PROVE LoaderIInv'
<1> DEFINE q == IF isLoaded THEN NotLoading ELSE After(0)
<1>1. /\ loading' = [loading EXCEPT ![g] = q] /\ isLoaded' = TRUE /\ registered' = registered
      /\ loading[g].at \in {"no", "cleared"}
  BY DEF LoadAll
<1>2. /\ loading' = [h \in Reloaders |-> loading'[h]] /\ loading'[g] = q
      /\ \A h \in Reloaders \ {g} : loading'[h] = loading[h]
  BY <1>1 DEF LoaderIInv, LoaderShape
<1>3. Stages \in Nat /\ 0 \in 0..Stages  BY StagesAreCells
<1>4. /\ q = [k \in LoadFields |-> q[k]] /\ q.at \in {"no", "stage"}
      /\ q.at = "stage" => ~isLoaded /\ q.stage \in 1..Stages
  <2>1. CASE isLoaded  BY <2>1 DEF NotLoading, LoadFields
  <2>2. CASE ~isLoaded  BY <1>3, <2>2, AfterFields
  <2> QED  BY <2>1, <2>2
<1> HIDE DEF q
<1>5. LoaderShape'
  BY <1>1, <1>2, <1>4 DEF LoaderIInv, LoaderShape, InLoad
<1>6. LoaderOnce'
  <2>1. overlapped => overlapped'  BY DEF LoadAll
  <2>2. ~overlapped' => (q.at = "stage" => \A h \in Reloaders : ~InLoad(h))
    BY <1>4 DEF LoadAll, InLoad
  <2>3. \A h \in Reloaders : InLoad(h)' => (h = g /\ q.at = "stage") \/ (h # g /\ InLoad(h))
    BY <1>2, <1>4 DEF InLoad
  <2> QED  BY <1>1, <1>2, <1>4, <2>1, <2>2, <2>3 DEF LoaderIInv, LoaderOnce
<1>7. LoaderComplete'
  <2>1. CASE isLoaded
    <3>1. \A c, n : ~Coming(loading[g], c, n)  BY <1>1 DEF Coming
    <3> QED  BY <1>1, <1>2, <2>1, <3>1 DEF LoaderIInv, LoaderComplete
  <2>2. CASE ~isLoaded
    <3>1. loading'[g] = After(0)  BY <1>2, <2>2 DEF q
    <3>2. \A c \in Cells : \A n : Coming(loading'[g], c, n)
      BY <1>3, <3>1, StagesAreCells, AfterFields
    <3> QED  BY <3>2 DEF LoaderComplete
  <2> QED  BY <2>1, <2>2
<1> QED  BY <1>5, <1>6, <1>7 DEF LoaderIInv

\* loadHandlers and the like: a stage without functions is passed over, or its table
\* is reset and everything that belongs into it is still to be registered.
LEMMA LoadStageKeeps ==
    ASSUME LoaderIInv, NEW g \in Reloaders, LoadStage(g) PROVE LoaderIInv'
<1>1. PICK s \in 1..Stages : s = loading[g].stage /\ loading[g].at = "stage"
  BY DEF LoadStage, LoaderIInv, LoaderShape, InLoad
<1>2. PICK c \in Cells : c = Cell(s)  BY StagesAreCells
<1>3. /\ Stages \in Nat /\ s \in 0..Stages /\ InLoad(g)
      /\ UNCHANGED <<isLoaded, overlapped>>
  BY <1>1, StagesAreCells DEF LoadStage, InLoad
<1>4. /\ Funcs[c] \in Seq(Range(Funcs[c])) /\ IsInjective(Funcs[c])
  BY HandlerLoaderAssumption
<1>5. CASE Funcs[c] = <<>>
  <2>1. loading' = [loading EXCEPT ![g] = After(s)] /\ registered' = registered
    BY <1>1, <1>2, <1>5 DEF LoadStage
  <2>2. PICK q : q = After(s)  OBVIOUS
  <2>3. /\ loading' = [h \in Reloaders |-> loading'[h]] /\ loading'[g] = q
        /\ \A h \in Reloaders : h # g => loading'[h] = loading[h]
    BY <2>1, <2>2 DEF LoaderIInv, LoaderShape
  <2>4. /\ q = [k \in LoadFields |-> q[k]] /\ q.at \in {"no", "stage"}
        /\ q.at = "stage" => q.stage \in 1..Stages
    BY <1>3, <2>2, AfterFields
  <2>5. LoaderShape'
    BY <2>1, <2>3, <2>4 DEF LoaderIInv, LoaderShape, InLoad
  <2>6. LoaderOnce'
    <3>1. \A h \in Reloaders : InLoad(h)' => InLoad(h)  BY <1>3, <2>3 DEF InLoad
    <3>2. \A h \in Reloaders : loading'[h].at = "calls" => loading'[h] = loading[h]
      BY <2>3, <2>4
    <3> QED  BY <1>3, <2>1, <3>1, <3>2 DEF LoaderIInv, LoaderOnce
  <2>7. ASSUME NEW d \in Cells, NEW n \in Range(Funcs[d]), Coming(loading[g], d, n)
        PROVE  Coming(q, d, n)
    <3>1. PICK r \in 1..Stages : Cell(r) = d /\ (r > s \/ r = s)  BY <1>1, <2>7 DEF Coming
    <3>2. r # s  BY <1>2, <1>5, <3>1, NothingInIt
    <3> QED  BY <1>3, <2>2, <3>1, <3>2, AfterFields
  <2>8. LoaderComplete'
    <3>1. \A d \in Cells : \A n \in Range(Funcs[d]) : \A h \in Reloaders :
              Coming(loading[h], d, n) => Coming(loading'[h], d, n)
      BY <2>3, <2>7
    <3> QED  BY <1>3, <2>1, <3>1 DEF LoaderIInv, LoaderComplete
  <2> QED  BY <2>5, <2>6, <2>8 DEF LoaderIInv
<1>6. CASE Funcs[c] # <<>>
  <2>1. PICK q : q = [at |-> "calls", stage |-> s, left |-> Funcs[c]]  OBVIOUS
  <2>2. loading' = [loading EXCEPT ![g] = q] /\ registered' = [registered EXCEPT ![c] = <<>>]
    BY <1>1, <1>2, <1>6, <2>1 DEF LoadStage
  <2>3. /\ loading' = [h \in Reloaders |-> loading'[h]] /\ loading'[g] = q
        /\ \A h \in Reloaders : h # g => loading'[h] = loading[h]
    BY <2>2 DEF LoaderIInv, LoaderShape
  <2>4. /\ registered' = [d \in Cells |-> registered'[d]] /\ registered'[c] = <<>>
        /\ \A d \in Cells : d # c => registered'[d] = registered[d]
    BY <2>2 DEF LoaderIInv, LoaderShape
  <2>5. /\ q = [k \in LoadFields |-> q[k]] /\ q.at = "calls" /\ q.stage = s
        /\ q.left = Funcs[c]
    BY <2>1 DEF LoadFields
  <2>6. LoaderShape'
    <3>1. \A h \in Reloaders : /\ loading'[h] = [k \in LoadFields |-> loading'[h][k]]
                               /\ InLoad(h)' => loading'[h].stage \in 1..Stages
      BY <2>3, <2>5 DEF LoaderIInv, LoaderShape, InLoad
    <3>2. \A d \in Cells : registered'[d] \in Seq(Range(Funcs[d]))
      BY <2>4, NothingInIt DEF LoaderIInv, LoaderShape
    <3>3. \A h \in Reloaders : loading'[h].at = "calls" =>
              /\ loading'[h].left \in Seq(Range(Funcs[Cell(loading'[h].stage)]))
              /\ loading'[h].left # <<>> /\ IsInjective(loading'[h].left)
      BY <1>2, <1>4, <1>6, <2>3, <2>5 DEF LoaderIInv, LoaderShape
    <3> QED  BY <2>3, <2>4, <3>1, <3>2, <3>3 DEF LoaderShape
  <2>7. LoaderOnce'
    <3>1. \A h \in Reloaders : InLoad(h)' => InLoad(h)  BY <1>3, <2>3 DEF InLoad
    <3>2. \A d \in Cells : d[2] # "filters" \/ ~overlapped' => IsInjective(registered'[d])
      BY <1>3, <2>4, NothingInIt DEF LoaderIInv, LoaderOnce
    <3>3. ASSUME ~overlapped, NEW h \in Reloaders, loading'[h].at = "calls"
          PROVE  Range(loading'[h].left) \cap Range(registered'[Cell(loading'[h].stage)]) = {}
      <4>1. h = g  BY <1>3, <3>1, <3>3 DEF LoaderIInv, LoaderOnce, InLoad
      <4> QED  BY <1>2, <2>3, <2>4, <2>5, <4>1, NothingInIt
    <3> QED  BY <1>3, <3>1, <3>2, <3>3 DEF LoaderIInv, LoaderOnce
  <2>8. LoaderComplete'
    <3> SUFFICES ASSUME isLoaded, NEW d \in Cells, NEW n \in Range(Funcs[d])
                 PROVE  n \in Range(registered'[d]) \/ \E h \in Reloaders : Coming(loading'[h], d, n)
      BY <1>3 DEF LoaderComplete
    <3>1. CASE d = c
      <4>1. Coming(q, d, n)  BY <1>2, <2>5, <3>1 DEF Coming
      <4> QED  BY <2>3, <4>1
    <3>2. CASE d # c
      <4>1. Coming(loading[g], d, n) => Coming(q, d, n)
        BY <1>1, <1>2, <2>5, <3>2 DEF Coming
      <4> QED  BY <2>3, <2>4, <3>2, <4>1 DEF LoaderIInv, LoaderComplete
    <3> QED  BY <3>1, <3>2
  <2> QED  BY <2>6, <2>7, <2>8 DEF LoaderIInv
<1> QED  BY <1>5, <1>6

\* A registration: the name goes from what is left into the table.
LEMMA CallFuncKeeps ==
    ASSUME LoaderIInv, NEW g \in Reloaders, CallFunc(g) PROVE LoaderIInv'
<1>1. PICK s \in 1..Stages : s = loading[g].stage /\ loading[g].at = "calls"
  BY DEF CallFunc, LoaderIInv, LoaderShape, InLoad
<1>2. PICK c \in Cells : c = Cell(s)  BY StagesAreCells
<1>3. /\ Stages \in Nat /\ s \in 0..Stages /\ InLoad(g)
      /\ UNCHANGED <<isLoaded, overlapped>>
  BY <1>1, StagesAreCells DEF CallFunc, InLoad
<1>4. PICK S : S = Range(Funcs[c])  OBVIOUS
<1>5. PICK left \in Seq(S) : left = loading[g].left /\ left # <<>> /\ IsInjective(left)
  BY <1>1, <1>2, <1>4 DEF LoaderIInv, LoaderShape
<1>6. PICK m \in S, rest \in Seq(S) :
          /\ m = Head(left) /\ rest = Tail(left) /\ IsInjective(rest)
          /\ m \in Range(left) /\ Range(rest) = Range(left) \ {m}
  BY <1>5, TailOnce
<1>7. PICK list \in Seq(S) : list = registered[c]  BY <1>4 DEF LoaderIInv, LoaderShape
<1>8. PICK new \in Seq(S) :
          /\ new = Registered(list, c[2], m) /\ Range(new) = Range(list) \cup {m}
          /\ IsInjective(list) /\ (c[2] # "filters" \/ m \notin Range(list)) => IsInjective(new)
  BY <1>6, <1>7, RegisteredOne
<1>9. /\ registered' = [registered EXCEPT ![c] = new]
  BY <1>1, <1>2, <1>5, <1>6, <1>7, <1>8 DEF CallFunc
<1>10. PICK q : q = IF rest = <<>> THEN After(s) ELSE [loading[g] EXCEPT !.left = rest]
  OBVIOUS
<1>11. loading' = [loading EXCEPT ![g] = q]
  BY <1>1, <1>5, <1>6, <1>10 DEF CallFunc
<1>12. /\ loading' = [h \in Reloaders |-> loading'[h]] /\ loading'[g] = q
       /\ \A h \in Reloaders : h # g => loading'[h] = loading[h]
  BY <1>11 DEF LoaderIInv, LoaderShape
<1>13. /\ registered' = [d \in Cells |-> registered'[d]] /\ registered'[c] = new
       /\ \A d \in Cells : d # c => registered'[d] = registered[d]
  BY <1>9 DEF LoaderIInv, LoaderShape
<1>14. /\ q = [k \in LoadFields |-> q[k]]
       /\ q.at \in {"no", "stage", "calls"}
       /\ q.at = "stage" => q.stage \in 1..Stages
       /\ q.at = "calls" => q.stage = s /\ q.left = rest /\ rest # <<>>
       /\ rest # <<>> => q.at = "calls"
  <2>1. CASE rest = <<>>  BY <1>3, <1>10, <2>1, AfterFields
  <2>2. CASE rest # <<>>
    <3>1. PICK p : p = loading[g]  OBVIOUS
    <3>2. p = [k \in LoadFields |-> p[k]] /\ p.at = "calls" /\ p.stage = s
      BY <1>1, <3>1 DEF LoaderIInv, LoaderShape
    <3>3. q = [p EXCEPT !.left = rest]  BY <1>10, <2>2, <3>1
    <3> QED  BY <2>2, <3>2, <3>3 DEF LoadFields
  <2> QED  BY <2>1, <2>2
<1>15. LoaderShape'
  <2>1. \A h \in Reloaders : /\ loading'[h] = [k \in LoadFields |-> loading'[h][k]]
                             /\ InLoad(h)' => loading'[h].stage \in 1..Stages
    BY <1>12, <1>14 DEF LoaderIInv, LoaderShape, InLoad
  <2>2. \A d \in Cells : registered'[d] \in Seq(Range(Funcs[d]))
    BY <1>4, <1>8, <1>13 DEF LoaderIInv, LoaderShape
  <2>3. \A h \in Reloaders : loading'[h].at = "calls" =>
            /\ loading'[h].left \in Seq(Range(Funcs[Cell(loading'[h].stage)]))
            /\ loading'[h].left # <<>> /\ IsInjective(loading'[h].left)
    BY <1>2, <1>4, <1>6, <1>12, <1>14 DEF LoaderIInv, LoaderShape
  <2> QED  BY <1>12, <1>13, <2>1, <2>2, <2>3 DEF LoaderShape
<1>16. LoaderOnce'
  <2>1. \A h \in Reloaders : InLoad(h)' => InLoad(h)  BY <1>3, <1>12 DEF InLoad
  <2>2. ~overlapped => Range(left) \cap Range(list) = {}
    BY <1>1, <1>2, <1>5, <1>7 DEF LoaderIInv, LoaderOnce
  <2>3. c[2] # "filters" \/ ~overlapped => IsInjective(new)
    BY <1>6, <1>7, <1>8, <2>2 DEF LoaderIInv, LoaderOnce
  <2>4. \A d \in Cells : d[2] # "filters" \/ ~overlapped' => IsInjective(registered'[d])
    BY <1>3, <1>13, <2>3 DEF LoaderIInv, LoaderOnce
  <2>5. ASSUME ~overlapped, NEW h \in Reloaders, loading'[h].at = "calls"
        PROVE  Range(loading'[h].left) \cap Range(registered'[Cell(loading'[h].stage)]) = {}
    <3>1. h = g  BY <1>3, <2>1, <2>5 DEF LoaderIInv, LoaderOnce, InLoad
    <3>2. loading'[h].left = rest /\ registered'[Cell(loading'[h].stage)] = new
      BY <1>2, <1>12, <1>13, <1>14, <2>5, <3>1
    <3>3. Range(rest) \cap Range(new) = {}  BY <1>6, <1>8, <2>2, <2>5
    <3> QED  BY <3>2, <3>3
  <2> QED  BY <1>3, <2>1, <2>4, <2>5 DEF LoaderIInv, LoaderOnce
<1>17. ASSUME NEW d \in Cells, NEW n, Coming(loading[g], d, n)
       PROVE  Coming(q, d, n) \/ (d = c /\ n = m)
  <2>1. CASE \E r \in 1..Stages : Cell(r) = d /\ r > s
    <3>1. CASE rest = <<>>  BY <1>3, <1>10, <2>1, <3>1, AfterFields
    <3>2. CASE rest # <<>>  BY <1>14, <2>1, <3>2 DEF Coming
    <3> QED  BY <3>1, <3>2
  <2>2. CASE d = c /\ n \in Range(left)
    <3>1. n = m \/ n \in Range(rest)  BY <1>6, <2>2
    <3>2. n \in Range(rest) => rest # <<>>  BY NothingInIt
    <3> QED  BY <1>2, <1>14, <2>2, <3>1, <3>2 DEF Coming
  <2> QED  BY <1>1, <1>2, <1>5, <1>17, <2>1, <2>2 DEF Coming
<1>18. LoaderComplete'
  <2> SUFFICES ASSUME isLoaded, NEW d \in Cells, NEW n \in Range(Funcs[d])
               PROVE  n \in Range(registered'[d]) \/ \E h \in Reloaders : Coming(loading'[h], d, n)
    BY <1>3 DEF LoaderComplete
  <2>1. Range(registered[d]) \subseteq Range(registered'[d])  BY <1>7, <1>8, <1>13
  <2>2. d = c /\ n = m => n \in Range(registered'[d])  BY <1>8, <1>13
  <2> QED  BY <1>12, <1>17, <2>1, <2>2 DEF LoaderIInv, LoaderComplete
<1> QED  BY <1>15, <1>16, <1>18 DEF LoaderIInv

\* Every step of the loader, and the steps that leave it alone.
LEMMA LoaderKeeps ==
    ASSUME LoaderIInv, LoaderNext \/ UNCHANGED loaderVars PROVE LoaderIInv'
<1>1. CASE LoaderNext
  BY <1>1, ReloadKeeps, LoadAllKeeps, LoadStageKeeps, CallFuncKeeps DEF LoaderNext
<1>2. CASE UNCHANGED loaderVars
  BY <1>2 DEF loaderVars, LoaderIInv, LoaderShape, LoaderOnce, LoaderComplete, InLoad
<1> QED  BY <1>1, <1>2

\* How often a name is found: at least once when it is registered, and once when
\* nothing is registered twice.
LEMMA FoundCounts ==
    ASSUME LoaderShape, NEW c \in Cells, NEW n \in Range(registered[c])
    PROVE  Found(c, n) >= 1 /\ (IsInjective(registered[c]) => Found(c, n) = 1)
<1>1. PICK list \in Seq(Range(Funcs[c])) : list = registered[c]  BY DEF LoaderShape
<1>2. PICK len \in Nat : DOMAIN list = 1..len  BY <1>1
<1>3. PICK F : F = {k \in DOMAIN list : list[k] = n}  OBVIOUS
<1>4. Found(c, n) = Cardinality(F)  BY <1>1, <1>3 DEF Found
<1>5. F # {}  BY <1>1, <1>3 DEF Range
<1>6. IsFiniteSet(1..len)  BY <1>2, FS_Interval
<1>7. IsFiniteSet(F)  BY <1>2, <1>3, <1>6, FS_Subset
<1>8. Cardinality(F) \in Nat /\ Cardinality(F) # 0  BY <1>5, <1>7, FS_CardinalityType, FS_EmptySet
<1>9. ASSUME IsInjective(list) PROVE Cardinality(F) = 1
  <2>1. \A x, y \in F : x = y  BY <1>3, <1>9 DEF IsInjective
  <2> QED  BY <1>5, <2>1, AtMostOne
<1> QED  BY <1>1, <1>4, <1>8, <1>9

\* The configuration file after any crashes, for any savers, and the tables of the
\* loader, for any server types, functions and goroutines: JSONConfig.Save never
\* leaves a file half written when no two Saves overlapped, and once every Load has
\* returned all is registered, however the calls of Load and Reload overlapped.
THEOREM LoadsAreWhole == Spec => []LoadsWhole
<1>1. Init => SaveIInv /\ LoaderIInv
  <2>1. SaveInit => SaveIInv  BY DEF SaveInit, SaveIInv
  <2>2. LoaderInit => LoaderIInv
    <3> SUFFICES ASSUME LoaderInit PROVE LoaderIInv  OBVIOUS
    <3>1. /\ loading = [g \in Reloaders |-> NotLoading] /\ isLoaded = FALSE
          /\ registered = [c \in Cells |-> <<>>]
      BY DEF LoaderInit
    <3>2. \A g \in Reloaders : loading[g] = NotLoading  BY <3>1
    <3>3. NotLoading = [k \in LoadFields |-> NotLoading[k]] /\ NotLoading.at = "no"
      BY DEF NotLoading, LoadFields
    <3>4. \A c \in Cells : registered[c] = <<>>  BY <3>1
    <3>5. LoaderShape
      BY <3>1, <3>2, <3>3, <3>4, NothingInIt DEF LoaderShape, InLoad
    <3>6. LoaderOnce  BY <3>2, <3>3, <3>4, NothingInIt DEF LoaderOnce, InLoad
    <3> QED  BY <3>1, <3>5, <3>6 DEF LoaderIInv, LoaderComplete
  <2> QED  BY <2>1, <2>2 DEF Init
<1>2. [Next]_vars => /\ SaveNext \/ UNCHANGED saveVars
                     /\ LoaderNext \/ UNCHANGED loaderVars
  BY DEF Next, Part, Others, vars
<1>3. SaveIInv /\ [Next]_vars => SaveIInv'  BY <1>2, SaveKeeps
<1>4. LoaderIInv /\ [Next]_vars => LoaderIInv'  BY <1>2, LoaderKeeps
<1>5. LoaderIInv => TablesWhole
  <2> SUFFICES ASSUME LoaderIInv, isLoaded, \A g \in Reloaders : loading[g].at = "no",
                      NEW c \in Cells, NEW k \in DOMAIN Funcs[c]
               PROVE  /\ Found(c, Funcs[c][k]) >= 1
                      /\ Found(c, Funcs[c][k]) = 1 \/ (c[2] = "filters" /\ overlapped)
    BY DEF TablesWhole
  <2>1. PICK n : n = Funcs[c][k]  OBVIOUS
  <2>2. n \in Range(Funcs[c])  BY <2>1 DEF Range
  <2>3. \A g \in Reloaders : ~Coming(loading[g], c, n)  BY DEF Coming
  <2>4. n \in Range(registered[c])  BY <2>2, <2>3 DEF LoaderIInv, LoaderComplete
  <2>5. Found(c, n) >= 1 /\ (IsInjective(registered[c]) => Found(c, n) = 1)
    BY <2>4, FoundCounts DEF LoaderIInv
  <2> QED  BY <2>1, <2>5 DEF LoaderIInv, LoaderOnce
<1>6. SaveIInv /\ LoaderIInv => LoadsWhole  BY <1>5 DEF SaveIInv, FileWhole, LoadsWhole
<1> QED  BY <1>1, <1>3, <1>4, <1>6, PTL DEF Spec

-----------------------------------------------------------------------------
(* Lifecycle: without a timeout and without a Stop during Start, what is   *)
(* up follows the slice started while components start, what Start wanted  *)
(* once it has succeeded, and what Stop has still to stop after that.      *)

StartOrder ==
    /\ starter \in {"no", "BeforeStart", "components", "undoAgain", "AfterStart", "announce",
                    "ok", "err"}
    /\ StartBusy => stopper = "no"
    /\ starter # "components" => starting = {}
    /\ stray = {}
    /\ starter \in {"AfterStart", "announce"} => ~manager /\ appState = Starting
    /\ starter = "ok" /\ ~manager => appState \in {Running, Stopped}
    /\ stopper # "no" /\ ~manager => appState = Stopped

UpDuringStart ==
    /\ starter \in {"no", "BeforeStart"} => up = {}
    /\ starter = "components" =>
           /\ up = started /\ starting \cup started \subseteq wanted
           /\ firstErr \/ wanted \subseteq starting \cup started
    /\ starter = "undoAgain" => firstErr /\ up = started
    /\ starter \in {"AfterStart", "announce"} => ~firstErr /\ up = wanted
    /\ starter = "ok" /\ stopper = "no" => up = wanted
    /\ starter = "err" /\ (firstErr \/ (appState = Inited /\ ~manager)) => up = {}

UpDuringStop ==
    /\ wanted \subseteq Range(loaded) /\ up \subseteq Range(loaded)
    /\ stopper # "no" => up \subseteq stopping
    /\ stopper \in {"AfterStop", "done"} => stopping = {}

LifecycleIInv ==
    /\ loaded \in Seq(Comps)
    /\ manager /\ disturbed => stopper # "no"
    /\ ~disturbed => StartOrder /\ UpDuringStart /\ UpDuringStop

\* Actions that leave the components and the calls of Start and Stop alone.
LEMMA HooksKeep ==
    ASSUME LifecycleIInv,
           UNCHANGED <<manager, appState, loaded, up, startVars, stopVars, disturbed>>
    PROVE  LifecycleIInv'
BY DEF LifecycleIInv, StartOrder, UpDuringStart, UpDuringStop, StartBusy, startVars, stopVars

\* The steps of Start.
LEMMA StartKeeps ==
    ASSUME LifecycleIInv,
           Start \/ StartComponents \/ StartAll \/ StartsJoined \/ StartTimeout \/ Undo
             \/ AfterStart \/ Announce
    PROVE  LifecycleIInv'
<1> USE DEF LifecycleIInv, StartOrder, UpDuringStart, UpDuringStop, StartBusy, stopVars,
            Inited, Starting, Running, Stopped
<1>1. CASE Start  BY <1>1 DEF Start
<1>2. CASE StartComponents  BY <1>2 DEF StartComponents, LaunchAll
<1>3. CASE StartAll  BY <1>3 DEF StartAll, LaunchAll
<1>4. CASE StartsJoined  BY <1>4 DEF StartsJoined
<1>5. CASE StartTimeout  BY <1>5 DEF StartTimeout
<1>6. CASE Undo  BY <1>6 DEF Undo
<1>7. CASE AfterStart  BY <1>7 DEF AfterStart
<1>8. CASE Announce  BY <1>8 DEF Announce
<1> QED  BY <1>1, <1>2, <1>3, <1>4, <1>5, <1>6, <1>7, <1>8

\* The steps of Stop.
LEMMA StopKeeps ==
    ASSUME LifecycleIInv,
           Stop \/ StopComponents \/ StopAll \/ StopsJoined \/ StopTimeout \/ AfterStop
    PROVE  LifecycleIInv'
<1> USE DEF LifecycleIInv, StartOrder, UpDuringStart, UpDuringStop, StartBusy, startVars,
            Inited, Starting, Running, Stopped
<1>1. CASE Stop
  <2>1. /\ ~manager /\ stopper = "no" /\ appState' = Stopped /\ stopper' = "BeforeStop"
        /\ stopping' = Range(loaded) /\ UNCHANGED <<manager, loaded, up, startVars>>
    BY <1>1 DEF Stop
  <2>2. ~disturbed' => ~disturbed /\ ~StartBusy  BY <1>1 DEF Stop
  <2> QED  BY <2>1, <2>2
<1>2. CASE StopComponents  BY <1>2 DEF StopComponents
<1>3. CASE StopAll  BY <1>3 DEF StopAll
<1>4. CASE StopsJoined  BY <1>4 DEF StopsJoined
<1>5. CASE StopTimeout  BY <1>5 DEF StopTimeout
<1>6. CASE AfterStop  BY <1>6 DEF AfterStop
<1> QED  BY <1>1, <1>2, <1>3, <1>4, <1>5, <1>6

\* The steps of a component.
LEMMA ComponentKeeps ==
    ASSUME LifecycleIInv, NEW c \in Comps,
           Load(c) \/ ComponentStarts(c) \/ StrayStarts(c) \/ ComponentStops(c)
    PROVE  LifecycleIInv'
<1> USE DEF StartOrder, UpDuringStart, UpDuringStop, StartBusy, startVars, stopVars
<1>1. CASE Load(c)
  <2>1. /\ loaded \in Seq(Comps) /\ loaded' = Append(loaded, c)
        /\ UNCHANGED <<manager, appState, up, startVars, stopVars, disturbed>>
    BY <1>1 DEF Load, LifecycleIInv
  <2>2. loaded' \in Seq(Comps) /\ Range(loaded) \subseteq Range(loaded')
    BY <2>1, AppendOne
  <2> QED  BY <2>1, <2>2 DEF LifecycleIInv
<1>2. CASE ComponentStarts(c)
  <2>1. /\ c \in starting /\ starting' = starting \ {c}
        /\ UNCHANGED <<manager, appState, loaded, starter, wanted, stray, stopper, stopping,
                       disturbed>>
    BY <1>2 DEF ComponentStarts
  <2>2. ~disturbed => starter = "components" /\ stopper = "no"  BY <2>1 DEF LifecycleIInv
  <2>3. CASE up' = up \cup {c} /\ started' = started \cup {c} /\ UNCHANGED firstErr
    BY <2>1, <2>2, <2>3 DEF LifecycleIInv
  <2>4. CASE firstErr' = TRUE /\ UNCHANGED <<up, started>>
    BY <2>1, <2>2, <2>4 DEF LifecycleIInv
  <2> QED  BY <1>2, <2>3, <2>4 DEF ComponentStarts
<1>3. CASE StrayStarts(c)  BY <1>3 DEF StrayStarts, LifecycleIInv
<1>4. CASE ComponentStops(c)  BY <1>4 DEF ComponentStops, LifecycleIInv
<1> QED  BY <1>1, <1>2, <1>3, <1>4

\* App.Start and Stop and the life cycle manager, for any components and plugins and
\* any number of starts: a start that succeeds has every component up, one whose
\* components failed leaves none up, and after Stop none is up, unless a timeout or a
\* Stop during Start came in between.
THEOREM StartsAndStopsSettle == Spec => []Settled
<1>1. Init => LifecycleIInv
  <2>1. LifecycleInit => LifecycleIInv
    BY DEF LifecycleInit, LifecycleIInv, StartOrder, UpDuringStart, UpDuringStop, StartBusy
  <2> QED  BY <2>1 DEF Init
<1>2. LifecycleIInv /\ [Next]_vars => LifecycleIInv'
  <2> SUFFICES ASSUME LifecycleIInv, LifecycleNext \/ UNCHANGED lifecycleVars
               PROVE  LifecycleIInv'
    BY DEF Next, Part, Others, vars
  <2>1. CASE UNCHANGED lifecycleVars
    BY <2>1, HooksKeep DEF lifecycleVars, startVars, stopVars
  <2>2. ASSUME NEW g \in DOMAIN hook, HookStep(g) PROVE LifecycleIInv'
    BY <2>2, HooksKeep DEF HookStep, HookLock, GetAll, HookResult
  <2>3. ASSUME NEW p \in Plugins, Install(p) \/ Uninstall(p) PROVE LifecycleIInv'
    BY <2>3, HooksKeep DEF Install, Uninstall, PluginWrite
  <2> QED  BY <2>1, <2>2, <2>3, StartKeeps, StopKeeps, ComponentKeeps
           DEF LifecycleNext, LifecycleStep
<1>3. LifecycleIInv => Settled
  BY DEF LifecycleIInv, StartOrder, UpDuringStart, UpDuringStop, StartBusy, Settled
<1> QED  BY <1>1, <1>2, <1>3, PTL DEF Spec

-----------------------------------------------------------------------------
(* Limits: what a bucket has let through since a tick and what it holds    *)
(* are at most a full bucket and what came back since.                     *)

\* Products, as the steps below need them.
LEMMA Products ==
    /\ \A a, b \in Nat : a * b \in Nat
    /\ \A a, b, c \in Int : a * (b + c) = a * b + a * c /\ a * (b - c) = a * b - a * c
  OBVIOUS

\* refill: never more than a full bucket, never more than what came back.
LEMMA RefillBounds ==
    ASSUME NEW level0 \in Nat, level0 <= Full, NEW last \in Nat, NEW now \in Nat, last <= now
    PROVE  /\ Refilled(level0, last, now) \in Nat /\ Refilled(level0, last, now) <= Full
           /\ Refilled(level0, last, now) <= level0 + RefillParts * (now - last)
           /\ Full \in Nat
<1>1. PICK d \in Nat : d = now - last  OBVIOUS
<1>2. PICK back \in Nat : back = RefillParts * d /\ back = d * RefillParts
  BY Products, LimitsAssumption
<1>3. Full \in Nat  BY Products, LimitsAssumption DEF Full
<1>4. Refilled(level0, last, now) = IF level0 + back > Full THEN Full ELSE level0 + back
  BY <1>1, <1>2 DEF Refilled
<1> QED  BY <1>1, <1>2, <1>3, <1>4

\* One bucket that is refilled and gives m tokens: the account of what it has let
\* through since some tick stays in balance.
LEMMA GivesInBalance ==
    ASSUME NEW out \in Nat, NEW level0 \in Nat, level0 <= Full, NEW m \in Nat,
           NEW from \in Nat, NEW last \in Nat, NEW now \in Nat, from <= last, last <= now,
           TokenParts * out + level0 <= Full + RefillParts * (last - from)
    PROVE  TokenParts * (out + m) + (Refilled(level0, last, now) - m * TokenParts)
               <= Full + RefillParts * (now - from)
<1>1. PICK r \in Nat : r = Refilled(level0, last, now) /\ r <= level0 + RefillParts * (now - last)
  BY RefillBounds
<1>2. PICK x, y \in Nat : /\ x = TokenParts * out /\ y = TokenParts * m /\ y = m * TokenParts
                          /\ TokenParts * (out + m) = x + y
  BY Products, LimitsAssumption
<1>3. PICK p, q \in Nat : p = RefillParts * (last - from) /\ q = RefillParts * (now - last)
  <2>1. last - from \in Nat /\ now - last \in Nat  OBVIOUS
  <2> QED  BY <2>1, Products, LimitsAssumption
<1>4. RefillParts * (now - from) = p + q
  <2>1. now - from = (last - from) + (now - last) /\ last - from \in Int /\ now - last \in Int
    OBVIOUS
  <2> QED  BY <1>3, <2>1, Products, LimitsAssumption
<1>5. Full \in Nat  BY Products, LimitsAssumption DEF Full
<1> QED  BY <1>1, <1>2, <1>3, <1>4, <1>5

LimitTypes ==
    /\ clock \in 0..MaxTicks /\ lastUpdate \in Nat /\ lastUpdate <= clock
    /\ tokens \in Nat /\ tokens <= Full /\ granted \in Nat
    /\ before \in [0..MaxTicks -> Nat]

LimitBalance ==
    \A from \in 0..clock :
        /\ before[from] <= granted
        /\ IF from > lastUpdate THEN before[from] = granted
           ELSE TokenParts * (granted - before[from]) + tokens
                    <= Full + RefillParts * (lastUpdate - from)

HeldConns == {g \in Acquirers : acquire[g].at = "held"}
AcquireFields == {"at", "seen", "tries"}

HeldCounted ==
    /\ acquire = [g \in Acquirers |-> acquire[g]]
    /\ \A g \in Acquirers :
           /\ acquire[g] = [k \in AcquireFields |-> acquire[g][k]]
           /\ acquire[g].at = "swap" => acquire[g].seen \in Nat /\ acquire[g].seen < ConnLimit
    /\ IsFiniteSet(HeldConns) /\ active = Cardinality(HeldConns) /\ active <= ConnLimit

\* Refill and the test, of Take, Allow, AllowN, Wait and Acquire alike.
LEMMA TakeKeeps ==
    ASSUME LimitTypes, LimitBalance, NEW n \in Nat, Take(n) \/ TakeFails(n),
           clock' = clock, before' = before
    PROVE  LimitTypes' /\ LimitBalance'
<1>1. PICK r \in Nat : /\ r = Refilled(tokens, lastUpdate, clock) /\ r <= Full /\ Full \in Nat
                       /\ clock \in Nat
  <2>1. /\ clock \in Nat /\ lastUpdate \in Nat /\ lastUpdate <= clock
        /\ tokens \in Nat /\ tokens <= Full
    BY LimitsAssumption DEF LimitTypes
  <2> QED  BY <2>1, RefillBounds
<1>2. PICK m \in Nat : /\ r >= m * TokenParts /\ tokens' = r - m * TokenParts
                       /\ lastUpdate' = clock /\ granted' = granted + m
  <2>1. CASE Take(n)  BY <1>1, <2>1 DEF Take
  <2>2. CASE TakeFails(n)
    <3>1. 0 * TokenParts = 0  BY LimitsAssumption
    <3>2. /\ tokens' = r - 0 * TokenParts /\ r >= 0 * TokenParts /\ lastUpdate' = clock
          /\ granted' = granted + 0
      BY <1>1, <2>2, <3>1 DEF TakeFails, LimitTypes
    <3> QED  BY <3>2
  <2> QED  BY <2>1, <2>2
<1>3. m * TokenParts \in Nat  BY Products, LimitsAssumption
<1>4. LimitTypes'  BY <1>1, <1>2, <1>3 DEF LimitTypes
<1>5. LimitBalance'
  <2> SUFFICES ASSUME NEW from \in 0..clock
               PROVE  /\ before[from] <= granted'
                      /\ TokenParts * (granted' - before[from]) + tokens'
                             <= Full + RefillParts * (clock - from)
    BY <1>2 DEF LimitBalance, LimitTypes
  <2>1. /\ from \in Nat /\ from \in 0..MaxTicks /\ before[from] \in Nat /\ granted \in Nat
        /\ lastUpdate \in Nat /\ tokens \in Nat /\ lastUpdate <= clock /\ tokens <= Full
    BY LimitsAssumption DEF LimitTypes
  <2>2. PICK out \in Nat : out = granted - before[from]
    BY <2>1 DEF LimitBalance
  <2>3. granted' - before[from] = out + m  BY <1>2, <2>1, <2>2
  <2>4. CASE from <= lastUpdate
    <3>1. TokenParts * out + tokens <= Full + RefillParts * (lastUpdate - from)
      BY <2>1, <2>2, <2>4 DEF LimitBalance
    <3>2. TokenParts * (out + m) + (Refilled(tokens, lastUpdate, clock) - m * TokenParts)
              <= Full + RefillParts * (clock - from)
      BY <1>1, <2>1, <2>4, <3>1, GivesInBalance
    <3> QED  BY <1>1, <1>2, <2>1, <2>2, <2>3, <3>2
  <2>5. CASE from > lastUpdate
    <3>1. out = 0  BY <2>1, <2>2, <2>5 DEF LimitBalance
    <3>2. TokenParts * (out + m) = m * TokenParts  BY <3>1, LimitsAssumption
    <3>3. PICK back \in Nat : back = RefillParts * (clock - from)
      <4>1. clock - from \in Nat  BY <1>1
      <4> QED  BY <4>1, Products, LimitsAssumption
    <3> QED  BY <1>1, <1>2, <1>3, <2>1, <2>2, <2>3, <3>2, <3>3
  <2> QED  BY <1>1, <2>1, <2>4, <2>5
<1> QED  BY <1>4, <1>5

\* A tick.
LEMMA TickKeeps ==
    ASSUME LimitTypes, LimitBalance, TimePasses PROVE LimitTypes' /\ LimitBalance'
<1>1. /\ clock' = clock + 1 /\ clock + 1 \in 0..MaxTicks /\ clock \in Nat
      /\ before' = [before EXCEPT ![clock + 1] = granted]
      /\ UNCHANGED <<tokens, lastUpdate, granted>>
  BY LimitsAssumption DEF TimePasses, LimitTypes
<1>2. /\ before'[clock + 1] = granted /\ before' \in [0..MaxTicks -> Nat]
      /\ \A t \in 0..clock : before'[t] = before[t]
  BY <1>1 DEF LimitTypes
<1>3. LimitTypes'  BY <1>1, <1>2 DEF LimitTypes
<1>4. lastUpdate < clock + 1 /\ granted \in Nat  BY <1>1 DEF LimitTypes
<1>5. 0..(clock + 1) = (0..clock) \cup {clock + 1}  BY <1>1
<1>6. LimitBalance'  BY <1>1, <1>2, <1>4, <1>5 DEF LimitBalance, LimitTypes
<1> QED  BY <1>3, <1>6

\* The steps of ConnectionLimiter: the count moves with what is held, and a swap
\* that succeeds has read a count below the limit.
LEMMA HeldKeeps ==
    ASSUME HeldCounted, NEW g \in Acquirers,
           \/ AcquireToken(g) \/ AcquireLoad(g) \/ AcquireSwap(g) \/ Release(g)
    PROVE  HeldCounted'
<1> USE DEF AcquireFields
<1>1. PICK p : p = acquire[g]  OBVIOUS
<1>2. /\ p = [k \in AcquireFields |-> p[k]] /\ active \in Nat /\ ConnLimit \in Nat
      /\ p.at = "swap" => p.seen \in Nat /\ p.seen < ConnLimit
  BY <1>1, FS_CardinalityType, ConnLimitAssumption DEF HeldCounted
<1>3. ASSUME NEW q, acquire' = [acquire EXCEPT ![g] = q], q = [k \in AcquireFields |-> q[k]],
             q.at = "swap" => q.seen \in Nat /\ q.seen < ConnLimit,
             \/ (p.at = "held") = (q.at = "held") /\ active' = active
             \/ p.at # "held" /\ q.at = "held" /\ active' = active + 1 /\ active < ConnLimit
             \/ p.at = "held" /\ q.at # "held" /\ active' = active - 1
      PROVE  HeldCounted'
  <2>1. /\ acquire' = [h \in Acquirers |-> acquire'[h]] /\ acquire'[g] = q
        /\ \A h \in Acquirers : h # g => acquire'[h] = acquire[h]
    BY <1>3 DEF HeldCounted
  <2>2. PICK H : H = HeldConns /\ IsFiniteSet(H) /\ active = Cardinality(H) /\ active <= ConnLimit
    BY DEF HeldCounted
  <2>3. g \in H <=> p.at = "held"  BY <1>1, <2>2 DEF HeldConns
  <2>4. HeldConns' = IF q.at = "held" THEN H \cup {g} ELSE H \ {g}
    BY <2>1, <2>2 DEF HeldConns
  <2>5. IsFiniteSet(HeldConns') /\ active' = Cardinality(HeldConns') /\ active' <= ConnLimit
    <3>1. CASE (p.at = "held") = (q.at = "held") /\ active' = active
      <4>1. HeldConns' = H  BY <2>3, <2>4, <3>1
      <4> QED  BY <2>2, <3>1, <4>1
    <3>2. CASE p.at # "held" /\ q.at = "held" /\ active' = active + 1 /\ active < ConnLimit
      <4>1. HeldConns' = H \cup {g} /\ g \notin H  BY <2>3, <2>4, <3>2
      <4>2. IsFiniteSet(HeldConns') /\ Cardinality(HeldConns') = Cardinality(H) + 1
        BY <2>2, <4>1, FS_AddElement
      <4> QED  BY <1>2, <2>2, <3>2, <4>2
    <3>3. CASE p.at = "held" /\ q.at # "held" /\ active' = active - 1
      <4>1. HeldConns' = H \ {g} /\ g \in H  BY <2>3, <2>4, <3>3
      <4>2. IsFiniteSet(HeldConns') /\ Cardinality(HeldConns') = Cardinality(H) - 1
        BY <2>2, <4>1, FS_RemoveElement
      <4> QED  BY <1>2, <2>2, <3>3, <4>2
    <3> QED  BY <1>3, <3>1, <3>2, <3>3
  <2>6. \A h \in Acquirers :
           /\ acquire'[h] = [k \in AcquireFields |-> acquire'[h][k]]
           /\ acquire'[h].at = "swap" => acquire'[h].seen \in Nat /\ acquire'[h].seen < ConnLimit
    BY <1>3, <2>1 DEF HeldCounted
  <2> QED  BY <2>1, <2>5, <2>6 DEF HeldCounted
<1>4. CASE AcquireToken(g)
  <2>1. CASE UNCHANGED <<acquire, active>>  BY <2>1 DEF HeldCounted, HeldConns
  <2>2. CASE ~UNCHANGED <<acquire, active>>
    <3>1. PICK q : q = [at |-> "load", seen |-> 0, tries |-> 0]  OBVIOUS
    <3>2. acquire' = [acquire EXCEPT ![g] = q] /\ p.at = "no" /\ active' = active
      BY <1>1, <1>4, <2>2, <3>1 DEF AcquireToken
    <3> QED  BY <1>3, <3>1, <3>2
  <2> QED  BY <2>1, <2>2
<1>5. CASE AcquireLoad(g)
  <2>1. PICK q : q = IF active >= ConnLimit THEN [p EXCEPT !.at = "no"]
                     ELSE [p EXCEPT !.at = "swap", !.seen = active]
    OBVIOUS
  <2>2. acquire' = [acquire EXCEPT ![g] = q] /\ p.at = "load" /\ active' = active
    BY <1>1, <1>5, <2>1 DEF AcquireLoad
  <2>3. /\ q = [k \in AcquireFields |-> q[k]] /\ q.at \in {"no", "swap"}
        /\ q.at = "swap" => q.seen = active /\ ~(active >= ConnLimit)
    BY <1>2, <2>1
  <2> QED  BY <1>2, <1>3, <2>2, <2>3
<1>6. CASE AcquireSwap(g)
  <2>1. CASE active = p.seen
    <3>1. PICK q : q = [p EXCEPT !.at = "held"]  OBVIOUS
    <3>2. /\ acquire' = [acquire EXCEPT ![g] = q] /\ p.at = "swap" /\ active' = active + 1
      BY <1>1, <1>6, <2>1, <3>1 DEF AcquireSwap
    <3>3. q = [k \in AcquireFields |-> q[k]] /\ q.at = "held"  BY <1>2, <3>1
    <3> QED  BY <1>2, <1>3, <2>1, <3>2, <3>3
  <2>2. CASE active # p.seen
    <3>1. PICK a \in {"no", "load"} : a = IF p.tries = 2 THEN "no" ELSE "load"  OBVIOUS
    <3>2. PICK q : q = [p EXCEPT !.tries = p.tries + 1, !.at = a]  OBVIOUS
    <3>3. /\ acquire' = [acquire EXCEPT ![g] = q] /\ p.at = "swap" /\ active' = active
      BY <1>1, <1>6, <2>2, <3>1, <3>2 DEF AcquireSwap
    <3>4. q = [k \in AcquireFields |-> q[k]] /\ q.at = a  BY <1>2, <3>2
    <3> QED  BY <1>3, <3>1, <3>3, <3>4
  <2> QED  BY <2>1, <2>2
<1>7. CASE Release(g)
  <2>1. PICK q : q = [p EXCEPT !.at = "no"]  OBVIOUS
  <2>2. /\ acquire' = [acquire EXCEPT ![g] = q] /\ p.at = "held" /\ active' = active - 1
    BY <1>1, <1>7, <2>1 DEF Release
  <2>3. q = [k \in AcquireFields |-> q[k]] /\ q.at = "no"  BY <1>2, <2>1
  <2> QED  BY <1>3, <2>2, <2>3
<1> QED  BY <1>4, <1>5, <1>6, <1>7

LimitIInv == LimitTypes /\ LimitBalance /\ HeldCounted

\* Every step of the limiters of lib, and the steps that leave them alone.
LEMMA LimitKeeps ==
    ASSUME LimitIInv, LimitNext \/ UNCHANGED limitVars PROVE LimitIInv'
<1> USE DEF LimitIInv
<1>1. CASE UNCHANGED limitVars
  BY <1>1 DEF limitVars, LimitTypes, LimitBalance, HeldCounted, HeldConns
<1>2. CASE TimePasses
  <2>1. HeldCounted'  BY <1>2 DEF TimePasses, HeldCounted, HeldConns
  <2> QED  BY <1>2, <2>1, TickKeeps
<1>3. CASE WaitToken
  <2>1. HeldCounted'  BY <1>3 DEF WaitToken, HeldCounted, HeldConns
  <2>2. (Take(1) \/ TakeFails(1)) /\ clock' = clock /\ before' = before
    BY <1>3 DEF WaitToken
  <2> QED  BY <2>1, <2>2, TakeKeeps
<1>4. CASE SignalWaiter
  BY <1>4 DEF SignalWaiter, LimitTypes, LimitBalance, HeldCounted, HeldConns
<1>5. ASSUME NEW n \in 1..Burst, AllowN(n) PROVE LimitIInv'
  <2>1. HeldCounted'  BY <1>5 DEF AllowN, HeldCounted, HeldConns
  <2>2. (Take(n) \/ TakeFails(n)) /\ clock' = clock /\ before' = before /\ n \in Nat
    BY <1>5 DEF AllowN
  <2> QED  BY <2>1, <2>2, TakeKeeps
<1>6. ASSUME NEW g \in Acquirers,
             AcquireToken(g) \/ AcquireLoad(g) \/ AcquireSwap(g) \/ Release(g)
      PROVE  LimitIInv'
  <2>1. HeldCounted'  BY <1>6, HeldKeeps
  <2>2. CASE AcquireToken(g)
    <3>1. (Take(1) \/ TakeFails(1)) /\ clock' = clock /\ before' = before
      BY <2>2 DEF AcquireToken
    <3> QED  BY <2>1, <3>1, TakeKeeps
  <2>3. CASE UNCHANGED <<clock, tokens, lastUpdate, granted, before>>
    BY <2>1, <2>3 DEF LimitTypes, LimitBalance
  <2> QED  BY <1>6, <2>2, <2>3 DEF AcquireLoad, AcquireSwap, Release
<1> QED  BY <1>1, <1>2, <1>3, <1>4, <1>5, <1>6 DEF LimitNext

\* What the invariant says of an interval.
LEMMA LimitRates == ASSUME LimitIInv PROVE RateKept
<1>1. ASSUME NEW from \in 0..clock
      PROVE  TokenParts * (granted - before[from]) <= Full + RefillParts * (clock - from)
  <2>1. /\ clock \in Nat /\ from \in 0..MaxTicks /\ before[from] \in Nat /\ granted \in Nat
        /\ lastUpdate \in Nat /\ lastUpdate <= clock /\ tokens \in Nat /\ from \in Nat
    BY LimitsAssumption DEF LimitIInv, LimitTypes
  <2>2. Full \in Nat  BY Products, LimitsAssumption DEF Full
  <2>3. PICK out \in Nat : out = granted - before[from]
    BY <2>1 DEF LimitIInv, LimitBalance
  <2>4. TokenParts * out \in Nat  BY Products, LimitsAssumption
  <2>5. PICK back \in Nat : back = RefillParts * (clock - from)
    <3>1. clock - from \in Nat  BY <2>1
    <3> QED  BY <3>1, Products, LimitsAssumption
  <2>6. CASE from > lastUpdate
    <3>1. TokenParts * out = 0  BY <2>1, <2>3, <2>6, LimitsAssumption DEF LimitIInv, LimitBalance
    <3> QED  BY <2>2, <2>3, <2>5, <3>1
  <2>7. CASE from <= lastUpdate
    <3>1. TokenParts * out + tokens <= Full + RefillParts * (lastUpdate - from)
      BY <2>1, <2>3, <2>7 DEF LimitIInv, LimitBalance
    <3>2. PICK p, q \in Nat : /\ p = RefillParts * (lastUpdate - from)
                              /\ q = RefillParts * (clock - lastUpdate)
      <4>1. lastUpdate - from \in Nat /\ clock - lastUpdate \in Nat  BY <2>1, <2>7
      <4> QED  BY <4>1, Products, LimitsAssumption
    <3>3. back = p + q
      <4>1. /\ clock - from = (lastUpdate - from) + (clock - lastUpdate)
            /\ lastUpdate - from \in Int /\ clock - lastUpdate \in Int
        BY <2>1
      <4> QED  BY <2>5, <3>2, <4>1, Products, LimitsAssumption
    <3> QED  BY <2>1, <2>2, <2>3, <2>4, <2>5, <3>1, <3>2, <3>3
  <2> QED  BY <2>1, <2>6, <2>7
<1> QED  BY <1>1 DEF RateKept, LimitIInv, HeldCounted, HeldConns

-----------------------------------------------------------------------------
(* Limits, the filter: a key has one bucket per cleanup and one more while *)
(* the table holds it; each bucket is in balance.                          *)

FilterFields == {"at", "key", "bucket"}

FilterTypes ==
    /\ ftime \in Nat /\ cleanups \in Nat
    /\ bucketOf \in [LimitKeys -> Nat]
    /\ keyOf \in Seq(LimitKeys)
    /\ level \in [Buckets -> Nat] /\ lastTime \in [Buckets -> Nat] /\ allowed \in [Buckets -> Nat]
    /\ filter = [g \in Filters |-> filter[g]]
    /\ \A g \in Filters : /\ filter[g] = [k \in FilterFields |-> filter[g][k]]
                          /\ filter[g].at # "no" => filter[g].key \in LimitKeys

BucketsOwn ==
    /\ DOMAIN keyOf \subseteq Buckets
    /\ \A k \in LimitKeys : bucketOf[k] # 0 => bucketOf[k] \in DOMAIN keyOf /\ keyOf[bucketOf[k]] = k
    /\ \A g \in Filters : filter[g].at = "take" => /\ filter[g].bucket \in DOMAIN keyOf
                                                   /\ keyOf[filter[g].bucket] = filter[g].key

BucketsBalance ==
    \A b \in Buckets : /\ level[b] <= Full /\ lastTime[b] <= ftime
                       /\ b \notin DOMAIN keyOf => allowed[b] = 0
                       /\ TokenParts * allowed[b] + level[b] <= Full + RefillParts * lastTime[b]

Made(k) == {b \in DOMAIN keyOf : keyOf[b] = k}

BucketsFew ==
    /\ IsFiniteSet(Present(bucketOf))
    /\ \A k \in LimitKeys : /\ IsFiniteSet(Made(k)) /\ Cardinality(Made(k)) <= cleanups + 1
                            /\ bucketOf[k] = 0 => Cardinality(Made(k)) <= cleanups

FilterIInv == FilterTypes /\ BucketsOwn /\ BucketsBalance /\ BucketsFew

\* cleanupOldBuckets only takes buckets out of the table.
LEMMA EvictedLess ==
    ASSUME NEW map \in [LimitKeys -> Nat], NEW new \in Evicted(map)
    PROVE  /\ new \in [LimitKeys -> Nat] /\ \A k \in LimitKeys : new[k] \in {map[k], 0}
           /\ Present(new) \subseteq Present(map)
           /\ Cardinality(Present(map)) <= BucketMax => new = map
<1>1. CASE new = map  BY <1>1
<1>2. CASE ~(Cardinality(Present(map)) <= BucketMax)
  <2>1. PICK keep : new = [k \in LimitKeys |-> IF k \in keep THEN map[k] ELSE 0]
    BY <1>2 DEF Evicted
  <2> QED  BY <1>2, <2>1 DEF Present
<1> QED  BY <1>1, <1>2 DEF Evicted

\* A step of the filter that gives goroutine g the record q and changes no table.
LEMMA FilterMoves ==
    ASSUME FilterIInv, NEW g \in Filters, NEW q, filter' = [filter EXCEPT ![g] = q],
           q = [k \in FilterFields |-> q[k]], q.at # "no" => q.key \in LimitKeys,
           q.at = "take" => q.bucket \in DOMAIN keyOf /\ keyOf[q.bucket] = q.key,
           UNCHANGED <<ftime, bucketOf, keyOf, level, lastTime, allowed, cleanups>>
    PROVE  FilterIInv'
<1>1. /\ filter' = [h \in Filters |-> filter'[h]] /\ filter'[g] = q
      /\ \A h \in Filters : h # g => filter'[h] = filter[h]
  BY DEF FilterIInv, FilterTypes
<1>2. FilterTypes'  BY <1>1 DEF FilterIInv, FilterTypes
<1>3. BucketsOwn'  BY <1>1 DEF FilterIInv, BucketsOwn
<1>4. BucketsBalance' /\ BucketsFew'
  BY DEF FilterIInv, BucketsBalance, BucketsFew, Made, Present
<1> QED  BY <1>2, <1>3, <1>4 DEF FilterIInv

\* getBucket up to the write lock.
LEMMA GateKeeps ==
    ASSUME FilterIInv, NEW g \in Filters,
           FindBucket(g) \/ \E k \in LimitKeys : EnterGate(g, k)
    PROVE  FilterIInv'
<1> USE DEF FilterFields
<1>1. ASSUME NEW k \in LimitKeys, EnterGate(g, k) PROVE FilterIInv'
  <2>1. PICK q : q = [at |-> "gate", key |-> k, bucket |-> 0]  OBVIOUS
  <2>2. /\ filter' = [filter EXCEPT ![g] = q]
        /\ UNCHANGED <<ftime, bucketOf, keyOf, level, lastTime, allowed, cleanups>>
    BY <1>1, <2>1 DEF EnterGate
  <2>3. q = [f \in FilterFields |-> q[f]] /\ q.at = "gate" /\ q.key \in LimitKeys  BY <2>1
  <2> QED  BY <2>2, <2>3, FilterMoves
<1>2. ASSUME FindBucket(g) PROVE FilterIInv'
  <2>1. PICK p : p = filter[g]  OBVIOUS
  <2>2. p = [f \in FilterFields |-> p[f]] /\ p.at = "gate" /\ p.key \in LimitKeys
    BY <1>2, <2>1 DEF FindBucket, FilterIInv, FilterTypes
  <2>3. PICK b : b = bucketOf[p.key]  OBVIOUS
  <2>4. b # 0 => b \in DOMAIN keyOf /\ keyOf[b] = p.key
    BY <2>2, <2>3 DEF FilterIInv, BucketsOwn
  <2>5. PICK a : a = IF b = 0 THEN "make" ELSE "take"  OBVIOUS
  <2>6. PICK q : q = [p EXCEPT !.at = a, !.bucket = b]  OBVIOUS
  <2>7. /\ filter' = [filter EXCEPT ![g] = q]
        /\ UNCHANGED <<ftime, bucketOf, keyOf, level, lastTime, allowed, cleanups>>
    BY <1>2, <2>1, <2>3, <2>5, <2>6 DEF FindBucket
  <2>8. q = [f \in FilterFields |-> q[f]] /\ q.at = a /\ q.key = p.key /\ q.bucket = b
    BY <2>2, <2>6
  <2> QED  BY <2>2, <2>4, <2>5, <2>7, <2>8, FilterMoves
<1> QED  BY <1>1, <1>2

\* getBucket under the write lock.
LEMMA MakeBucketKeeps ==
    ASSUME FilterIInv, NEW g \in Filters, MakeBucket(g) PROVE FilterIInv'
<1> USE DEF FilterFields
<1>1. PICK p : p = filter[g]  OBVIOUS
<1>2. p = [f \in FilterFields |-> p[f]] /\ p.at = "make" /\ p.key \in LimitKeys
  BY <1>1 DEF MakeBucket, FilterIInv, FilterTypes
<1>3. PICK k \in LimitKeys : k = p.key  BY <1>2
<1>4. CASE bucketOf[k] # 0
  <2>1. PICK q : q = [p EXCEPT !.at = "take", !.bucket = bucketOf[k]]  OBVIOUS
  <2>2. /\ filter' = [filter EXCEPT ![g] = q]
        /\ UNCHANGED <<ftime, bucketOf, keyOf, level, lastTime, allowed, cleanups>>
    BY <1>1, <1>3, <1>4, <2>1 DEF MakeBucket
  <2>3. /\ q = [f \in FilterFields |-> q[f]] /\ q.at = "take" /\ q.key = k
        /\ q.bucket = bucketOf[k]
    BY <1>2, <1>3, <2>1
  <2>4. bucketOf[k] \in DOMAIN keyOf /\ keyOf[bucketOf[k]] = k
    BY <1>4 DEF FilterIInv, BucketsOwn
  <2> QED  BY <2>2, <2>3, <2>4, FilterMoves
<1>5. CASE bucketOf[k] = 0
  <2>1. PICK n \in Nat : n = Len(keyOf) /\ DOMAIN keyOf = 1..n
    <3>1. keyOf \in Seq(LimitKeys)  BY DEF FilterIInv, FilterTypes
    <3> QED  BY <3>1
  <2>2. PICK b \in Buckets : b = n + 1
    BY <1>1, <1>3, <1>5, <2>1 DEF MakeBucket
  <2>3. PICK q : q = [p EXCEPT !.at = "take", !.bucket = b]  OBVIOUS
  <2>4. PICK map : map = [bucketOf EXCEPT ![k] = b]  OBVIOUS
  <2>5. /\ keyOf' = Append(keyOf, k) /\ level' = [level EXCEPT ![b] = Full]
        /\ lastTime' = [lastTime EXCEPT ![b] = ftime] /\ bucketOf' \in Evicted(map)
        /\ cleanups' = IF Cardinality(Present(bucketOf)) + 1 > BucketMax THEN cleanups + 1
                       ELSE cleanups
        /\ filter' = [filter EXCEPT ![g] = q] /\ UNCHANGED <<ftime, allowed>>
    BY <1>1, <1>3, <1>5, <2>1, <2>2, <2>3, <2>4 DEF MakeBucket
  <2>6. /\ filter' = [h \in Filters |-> filter'[h]] /\ filter'[g] = q
        /\ \A h \in Filters : h # g => filter'[h] = filter[h]
    BY <2>5 DEF FilterIInv, FilterTypes
  <2>7. q = [f \in FilterFields |-> q[f]] /\ q.at = "take" /\ q.key = k /\ q.bucket = b
    BY <1>2, <1>3, <2>3
  <2>8. /\ keyOf' \in Seq(LimitKeys) /\ DOMAIN keyOf' = 1..(n + 1) /\ keyOf'[b] = k
        /\ \A i \in 1..n : keyOf'[i] = keyOf[i]
    BY <2>1, <2>2, <2>5 DEF FilterIInv, FilterTypes
  <2>9. 1..(n + 1) = (1..n) \cup {b} /\ b \notin 1..n  BY <2>1, <2>2
  <2>10. /\ map \in [LimitKeys -> Nat] /\ map[k] = b /\ b \in Nat \ {0}
         /\ \A j \in LimitKeys : j # k => map[j] = bucketOf[j]
    BY <2>1, <2>2, <2>4 DEF FilterIInv, FilterTypes
  <2>11. PICK new : new = bucketOf'  OBVIOUS
  <2>12. /\ new \in [LimitKeys -> Nat] /\ \A j \in LimitKeys : new[j] \in {map[j], 0}
         /\ Present(new) \subseteq Present(map)
         /\ Cardinality(Present(map)) <= BucketMax => new = map
    BY <2>5, <2>10, <2>11, EvictedLess
  <2>13. FilterTypes'
    <3>1. Full \in Nat  BY Products, LimitsAssumption DEF Full
    <3>2. level' \in [Buckets -> Nat] /\ lastTime' \in [Buckets -> Nat] /\ cleanups' \in Nat
      BY <2>5, <3>1 DEF FilterIInv, FilterTypes
    <3>3. \A h \in Filters : /\ filter'[h] = [f \in FilterFields |-> filter'[h][f]]
                             /\ filter'[h].at # "no" => filter'[h].key \in LimitKeys
      BY <2>6, <2>7 DEF FilterIInv, FilterTypes
    <3> QED  BY <2>5, <2>6, <2>8, <2>11, <2>12, <3>2, <3>3 DEF FilterIInv, FilterTypes
  <2>14. BucketsOwn'
    <3>1. DOMAIN keyOf' \subseteq Buckets
      BY <2>1, <2>8, <2>9 DEF FilterIInv, BucketsOwn
    <3>2. \A j \in LimitKeys : new[j] # 0 => new[j] \in DOMAIN keyOf' /\ keyOf'[new[j]] = j
      BY <2>1, <2>8, <2>9, <2>10, <2>12 DEF FilterIInv, BucketsOwn
    <3>3. \A h \in Filters : filter'[h].at = "take" => /\ filter'[h].bucket \in DOMAIN keyOf'
                                                       /\ keyOf'[filter'[h].bucket] = filter'[h].key
      BY <2>1, <2>6, <2>7, <2>8, <2>9 DEF FilterIInv, BucketsOwn
    <3> QED  BY <2>11, <3>1, <3>2, <3>3 DEF BucketsOwn
  <2>15. BucketsBalance'
    <3>1. /\ level'[b] = Full /\ lastTime'[b] = ftime /\ allowed' = allowed /\ ftime' = ftime
          /\ \A d \in Buckets : d # b => level'[d] = level[d] /\ lastTime'[d] = lastTime[d]
      BY <2>5 DEF FilterIInv, FilterTypes
    <3>2. allowed[b] = 0  BY <2>1, <2>9 DEF FilterIInv, BucketsBalance
    <3>3. TokenParts * 0 = 0 /\ RefillParts * ftime \in Nat /\ Full \in Nat /\ ftime \in Nat
      BY Products, LimitsAssumption DEF FilterIInv, FilterTypes, Full
    <3>4. \A d \in Buckets : d \notin DOMAIN keyOf' => d \notin DOMAIN keyOf
      BY <2>1, <2>8, <2>9
    <3>5. ASSUME NEW d \in Buckets
          PROVE  /\ level'[d] <= Full /\ lastTime'[d] <= ftime
                 /\ d \notin DOMAIN keyOf' => allowed[d] = 0
                 /\ TokenParts * allowed[d] + level'[d] <= Full + RefillParts * lastTime'[d]
      <4>1. CASE d = b
        <5>1. TokenParts * allowed[d] = 0  BY <3>2, <3>3, <4>1
        <5> QED  BY <3>1, <3>2, <3>3, <4>1, <5>1
      <4>2. CASE d # b
        BY <3>1, <3>4, <4>2 DEF FilterIInv, BucketsBalance
      <4> QED  BY <4>1, <4>2
    <3> QED  BY <3>1, <3>5 DEF BucketsBalance
  <2>16. BucketsFew'
    <3>1. PICK P : P = Present(bucketOf) /\ IsFiniteSet(P)  BY DEF FilterIInv, BucketsFew
    <3>2. Present(map) = P \cup {k} /\ k \notin P
      BY <1>5, <2>10, <3>1 DEF Present, FilterIInv, FilterTypes
    <3>3. IsFiniteSet(Present(map)) /\ Cardinality(Present(map)) = Cardinality(P) + 1
      <4>1. IsFiniteSet(P \cup {k}) /\ Cardinality(P \cup {k}) = Cardinality(P) + 1
        BY <3>1, <3>2, FS_AddElement
      <4> QED  BY <3>2, <4>1
    <3>4. IsFiniteSet(Present(new))  BY <2>12, <3>3, FS_Subset
    <3>5. /\ cleanups \in Nat /\ cleanups' \in {cleanups, cleanups + 1}
          /\ cleanups' = cleanups => new = map
      <4>1. Cardinality(P) \in Nat /\ BucketMax \in Nat /\ cleanups \in Nat
        BY <3>1, FS_CardinalityType, FilterAssumption DEF FilterIInv, FilterTypes
      <4> QED  BY <2>5, <2>12, <3>1, <3>3, <4>1
    <3>6. ASSUME NEW j \in LimitKeys
          PROVE  /\ IsFiniteSet(Made(j)') /\ Cardinality(Made(j)') <= cleanups' + 1
                 /\ new[j] = 0 => Cardinality(Made(j)') <= cleanups'
      <4>1. PICK M : M = Made(j) /\ IsFiniteSet(M) /\ Cardinality(M) \in Nat
        BY FS_CardinalityType DEF FilterIInv, BucketsFew
      <4>2. CASE j = k
        <5>1. Cardinality(M) <= cleanups  BY <1>5, <4>1, <4>2 DEF FilterIInv, BucketsFew
        <5>2. Made(j)' = M \cup {b} /\ b \notin M
          BY <2>1, <2>8, <2>9, <4>1, <4>2 DEF Made
        <5>3. IsFiniteSet(Made(j)') /\ Cardinality(Made(j)') = Cardinality(M) + 1
          BY <4>1, <5>2, FS_AddElement
        <5>4. new[j] = 0 => cleanups' = cleanups + 1  BY <2>10, <3>5, <4>2
        <5> QED  BY <3>5, <4>1, <5>1, <5>3, <5>4
      <4>3. CASE j # k
        <5>1. Made(j)' = M  BY <2>1, <2>8, <2>9, <4>1, <4>3 DEF Made
        <5>2. Cardinality(M) <= cleanups + 1 /\ (bucketOf[j] = 0 => Cardinality(M) <= cleanups)
          BY <4>1 DEF FilterIInv, BucketsFew
        <5>3. new[j] = 0 => cleanups' = cleanups + 1 \/ bucketOf[j] = 0
          BY <2>10, <3>5, <4>3
        <5> QED  BY <3>5, <4>1, <5>1, <5>2, <5>3
      <4> QED  BY <4>2, <4>3
    <3> QED  BY <2>11, <3>4, <3>6 DEF BucketsFew
  <2> QED  BY <2>13, <2>14, <2>15, <2>16 DEF FilterIInv
<1> QED  BY <1>4, <1>5

\* Allow takes a token of the bucket it was given.
LEMMA FilterAllowKeeps ==
    ASSUME FilterIInv, NEW g \in Filters, FilterAllow(g) PROVE FilterIInv'
<1> USE DEF FilterFields
<1>1. PICK b \in Buckets : b = filter[g].bucket /\ b \in DOMAIN keyOf
  BY DEF FilterAllow, FilterIInv, BucketsOwn
<1>2. /\ level[b] \in Nat /\ level[b] <= Full /\ lastTime[b] \in Nat /\ lastTime[b] <= ftime
      /\ ftime \in Nat /\ allowed[b] \in Nat /\ Full \in Nat /\ TokenParts \in Nat
      /\ TokenParts * allowed[b] + level[b] <= Full + RefillParts * lastTime[b]
  BY Products, LimitsAssumption DEF FilterIInv, FilterTypes, BucketsBalance, Full
<1>3. PICK r \in Nat : r = Refilled(level[b], lastTime[b], ftime) /\ r <= Full
  BY <1>2, RefillBounds
<1>4. PICK m \in Nat : /\ r >= m * TokenParts /\ level' = [level EXCEPT ![b] = r - m * TokenParts]
                       /\ allowed' = [allowed EXCEPT ![b] = allowed[b] + m]
  <2>1. CASE r >= TokenParts
    <3>1. 1 * TokenParts = TokenParts  BY <1>2
    <3>2. /\ level' = [level EXCEPT ![b] = r - 1 * TokenParts]
          /\ allowed' = [allowed EXCEPT ![b] = allowed[b] + 1]
      BY <1>1, <1>3, <2>1, <3>1 DEF FilterAllow
    <3> QED  BY <2>1, <3>1, <3>2
  <2>2. CASE ~(r >= TokenParts)
    <3>1. 0 * TokenParts = 0 /\ r - 0 = r /\ allowed[b] + 0 = allowed[b]  BY <1>2
    <3>2. level' = [level EXCEPT ![b] = r] /\ allowed' = allowed
      BY <1>1, <1>3, <2>2 DEF FilterAllow
    <3>3. /\ allowed' = [allowed EXCEPT ![b] = allowed[b] + 0] /\ r >= 0 * TokenParts
      BY <3>1, <3>2 DEF FilterIInv, FilterTypes
    <3>4. r - 0 * TokenParts = r  BY <3>1
    <3> QED  BY <3>2, <3>3, <3>4
  <2> QED  BY <2>1, <2>2
<1>5. PICK rest \in Nat : rest = r - m * TokenParts /\ rest <= r
  <2>1. m * TokenParts \in Nat  BY <1>2, Products
  <2> QED  BY <1>3, <1>4, <2>1
<1>6. /\ lastTime' = [lastTime EXCEPT ![b] = ftime] /\ filter' = [filter EXCEPT ![g] = OutOfProcess]
      /\ UNCHANGED <<ftime, bucketOf, keyOf, cleanups>>
  BY <1>1 DEF FilterAllow
<1>7. /\ level'[b] = rest /\ allowed'[b] = allowed[b] + m /\ lastTime'[b] = ftime
      /\ \A d \in Buckets : d # b => /\ level'[d] = level[d] /\ allowed'[d] = allowed[d]
                                     /\ lastTime'[d] = lastTime[d]
  BY <1>4, <1>5, <1>6 DEF FilterIInv, FilterTypes
<1>8. /\ level' \in [Buckets -> Nat] /\ lastTime' \in [Buckets -> Nat]
      /\ allowed' \in [Buckets -> Nat]
  <2>1. /\ level \in [Buckets -> Nat] /\ lastTime \in [Buckets -> Nat]
        /\ allowed \in [Buckets -> Nat] /\ ftime \in Nat
    BY DEF FilterIInv, FilterTypes
  <2>2. level' = [level EXCEPT ![b] = rest]  BY <1>4, <1>5
  <2>3. PICK a \in Nat : a = allowed[b] + m  BY <1>2, <2>1
  <2>4. allowed' = [allowed EXCEPT ![b] = a]  BY <1>4, <2>3
  <2>5. level' \in [Buckets -> Nat]  BY <2>1, <2>2
  <2>6. lastTime' \in [Buckets -> Nat]  BY <1>6, <2>1
  <2>7. allowed' \in [Buckets -> Nat]  BY <2>1, <2>4
  <2> QED  BY <2>5, <2>6, <2>7
<1>9. OutOfProcess = [f \in FilterFields |-> OutOfProcess[f]] /\ OutOfProcess.at = "no"
  BY DEF OutOfProcess
<1>10. /\ filter' = [h \in Filters |-> filter'[h]] /\ filter'[g] = OutOfProcess
       /\ \A h \in Filters : h # g => filter'[h] = filter[h]
  BY <1>6 DEF FilterIInv, FilterTypes
<1>11. FilterTypes'
  BY <1>6, <1>8, <1>9, <1>10 DEF FilterIInv, FilterTypes
<1>12. BucketsOwn'  BY <1>6, <1>9, <1>10 DEF FilterIInv, BucketsOwn
<1>13. BucketsBalance'
  <2>1. TokenParts * (allowed[b] + m) + rest <= Full + RefillParts * ftime
    <3>1. lastTime[b] - 0 = lastTime[b] /\ ftime - 0 = ftime /\ 0 <= lastTime[b]  BY <1>2
    <3>2. TokenParts * (allowed[b] + m) + (Refilled(level[b], lastTime[b], ftime) - m * TokenParts)
              <= Full + RefillParts * (ftime - 0)
      BY <1>2, <3>1, GivesInBalance
    <3> QED  BY <1>3, <1>5, <3>1, <3>2
  <2>2. ASSUME NEW d \in Buckets
        PROVE  /\ level'[d] <= Full /\ lastTime'[d] <= ftime
               /\ d \notin DOMAIN keyOf => allowed'[d] = 0
               /\ TokenParts * allowed'[d] + level'[d] <= Full + RefillParts * lastTime'[d]
    <3>1. CASE d = b  BY <1>1, <1>2, <1>3, <1>5, <1>7, <2>1, <3>1
    <3>2. CASE d # b  BY <1>7, <3>2 DEF FilterIInv, BucketsBalance
    <3> QED  BY <3>1, <3>2
  <2> QED  BY <1>6, <2>2 DEF BucketsBalance
<1>14. BucketsFew'  BY <1>6 DEF FilterIInv, BucketsFew, Made, Present
<1> QED  BY <1>11, <1>12, <1>13, <1>14 DEF FilterIInv

\* Every step of the filter, and the steps that leave it alone.
LEMMA FilterKeeps ==
    ASSUME FilterIInv, FilterNext \/ UNCHANGED filterVars PROVE FilterIInv'
<1>1. CASE UNCHANGED filterVars
  BY <1>1 DEF filterVars, FilterIInv, FilterTypes, BucketsOwn, BucketsBalance, BucketsFew, Made,
              Present
<1>2. CASE FilterTick
  <2>1. /\ ftime \in Nat /\ ftime' = ftime + 1
        /\ UNCHANGED <<bucketOf, keyOf, level, lastTime, filter, allowed, cleanups>>
    BY <1>2 DEF FilterTick, FilterIInv, FilterTypes
  <2>2. FilterTypes' /\ BucketsOwn'  BY <2>1 DEF FilterIInv, FilterTypes, BucketsOwn
  <2>3. \A b \in Buckets : lastTime[b] \in Nat  BY DEF FilterIInv, FilterTypes
  <2>4. BucketsBalance'  BY <2>1, <2>3 DEF FilterIInv, BucketsBalance
  <2>5. BucketsFew'  BY <2>1 DEF FilterIInv, BucketsFew, Made, Present
  <2> QED  BY <2>2, <2>4, <2>5 DEF FilterIInv
<1>3. CASE FilterNext /\ ~FilterTick
  BY <1>3, GateKeeps, MakeBucketKeeps, FilterAllowKeeps DEF FilterNext
<1> QED  BY <1>1, <1>2, <1>3

\* What the invariant says of a key and of a bucket.
LEMMA KeyRates == ASSUME FilterIInv PROVE KeyRateKept
<1>1. ASSUME NEW b \in DOMAIN keyOf
      PROVE  TokenParts * allowed[b] <= Full + RefillParts * ftime
  <2>1. /\ b \in Buckets /\ level[b] \in Nat /\ lastTime[b] \in Nat /\ ftime \in Nat
        /\ allowed[b] \in Nat /\ lastTime[b] <= ftime
        /\ TokenParts * allowed[b] + level[b] <= Full + RefillParts * lastTime[b]
    BY DEF FilterIInv, FilterTypes, BucketsOwn, BucketsBalance
  <2>2. PICK d \in Nat : ftime = lastTime[b] + d
    <3>1. ftime - lastTime[b] \in Nat /\ ftime = lastTime[b] + (ftime - lastTime[b])  BY <2>1
    <3> QED  BY <3>1
  <2>3. PICK x, p, q \in Nat : /\ x = TokenParts * allowed[b] /\ p = RefillParts * lastTime[b]
                               /\ q = RefillParts * d /\ RefillParts * ftime = p + q
    BY <2>1, <2>2, Products, LimitsAssumption
  <2>4. Full \in Nat  BY Products, LimitsAssumption DEF Full
  <2> QED  BY <2>1, <2>3, <2>4
<1> QED  BY <1>1 DEF KeyRateKept, FilterIInv, BucketsOwn, BucketsFew, Made

\* The limiters, for any rate, burst, clock, keys, goroutines and table sizes: no
\* interval sees more tokens than a full bucket and what came back in it, no more
\* connections are held than the limit, and a key has more than one bucket's worth
\* only through cleanups of the table.
THEOREM RatesAreKept == Spec => []RatesKept
<1>1. Init => LimitIInv /\ FilterIInv
  <2>1. Full \in Nat /\ 0 \in 0..MaxTicks /\ MaxTicks \in Nat /\ TokenParts * 0 = 0
        /\ RefillParts * 0 = 0
    BY Products, LimitsAssumption DEF Full
  <2>2. LimitInit => LimitIInv
    <3> SUFFICES ASSUME LimitInit PROVE LimitIInv  OBVIOUS
    <3>1. LimitTypes  BY <2>1 DEF LimitInit, LimitTypes
    <3>2. LimitBalance
      <4>1. \A from \in 0..clock : from = 0 /\ before[from] = 0 /\ granted = 0 /\ lastUpdate = 0
                                   /\ tokens = Full
        BY <2>1 DEF LimitInit
      <4> QED  BY <2>1, <4>1 DEF LimitBalance
    <3>3. HeldConns = {} /\ active = 0  BY DEF LimitInit, HeldConns
    <3>4. \A g \in Acquirers : acquire[g] = [at |-> "no", seen |-> 0, tries |-> 0]
      BY DEF LimitInit
    <3>5. HeldCounted
      <4>1. \A g \in Acquirers : /\ acquire[g] = [k \in AcquireFields |-> acquire[g][k]]
                                 /\ acquire[g].at = "no"
        BY <3>4 DEF AcquireFields
      <4>2. acquire = [g \in Acquirers |-> acquire[g]]  BY DEF LimitInit
      <4> QED  BY <3>3, <4>1, <4>2, FS_EmptySet, ConnLimitAssumption DEF HeldCounted
    <3> QED  BY <3>1, <3>2, <3>5 DEF LimitIInv
  <2>3. FilterInit => FilterIInv
    <3> SUFFICES ASSUME FilterInit PROVE FilterIInv  OBVIOUS
    <3>1. keyOf = <<>> /\ DOMAIN keyOf = {} /\ keyOf \in Seq(LimitKeys)  BY DEF FilterInit
    <3>2. OutOfProcess = [f \in FilterFields |-> OutOfProcess[f]] /\ OutOfProcess.at = "no"
      BY DEF OutOfProcess, FilterFields
    <3>3. \A g \in Filters : filter[g] = OutOfProcess  BY DEF FilterInit
    <3>4. FilterTypes  BY <3>1, <3>2, <3>3 DEF FilterInit, FilterTypes
    <3>5. BucketsOwn  BY <3>1, <3>2, <3>3 DEF FilterInit, BucketsOwn
    <3>6. \A b \in Buckets : level[b] = 0 /\ lastTime[b] = 0 /\ allowed[b] = 0 /\ ftime = 0
      BY DEF FilterInit
    <3>7. BucketsBalance  BY <2>1, <3>6 DEF BucketsBalance
    <3>8. Present(bucketOf) = {} /\ cleanups = 0  BY DEF FilterInit, Present
    <3>9. \A k \in LimitKeys : Made(k) = {}  BY <3>1 DEF Made
    <3>10. BucketsFew  BY <3>8, <3>9, FS_EmptySet DEF BucketsFew
    <3> QED  BY <3>4, <3>5, <3>7, <3>10 DEF FilterIInv
  <2> QED  BY <2>2, <2>3 DEF Init
<1>2. [Next]_vars => /\ LimitNext \/ UNCHANGED limitVars
                     /\ FilterNext \/ UNCHANGED filterVars
  BY DEF Next, Part, Others, vars
<1>3. LimitIInv /\ [Next]_vars => LimitIInv'  BY <1>2, LimitKeeps
<1>4. FilterIInv /\ [Next]_vars => FilterIInv'  BY <1>2, FilterKeeps
<1>5. LimitIInv /\ FilterIInv => RatesKept  BY LimitRates, KeyRates DEF RatesKept
<1> QED  BY <1>1, <1>3, <1>4, <1>5, PTL DEF Spec

-----------------------------------------------------------------------------
(* Reload, ConfigReloader.                                                 *)

ReloadIInv == file \in Nat /\ config \in Nat /\ config <= file

\* Reload, from the poll or the signal: whatever the two loops and the writers of
\* the file do in between, an older file never replaces the one that is loaded.
THEOREM ReloadsForward == Spec => NeverOlder
<1>1. Init => ReloadIInv  BY DEF Init, ReloadInit, ReloadIInv
<1>2. ReloadIInv /\ [Next]_vars => ReloadIInv' /\ [config' >= config]_reloadVars
  <2> SUFFICES ASSUME ReloadIInv, ReloadNext \/ UNCHANGED reloadVars
               PROVE  ReloadIInv' /\ [config' >= config]_reloadVars
    BY DEF Next, Part, Others, vars
  <2> USE DEF ReloadIInv
  <2>1. CASE UNCHANGED reloadVars  BY <2>1 DEF reloadVars
  <2>2. CASE WriteFile  BY <2>2 DEF WriteFile
  <2>3. CASE PollStat  BY <2>3 DEF PollStat
  <2>4. CASE PollReload  BY <2>4 DEF PollReload, ReloadNow
  <2>5. CASE SignalReload  BY <2>5 DEF SignalReload, ReloadNow
  <2>6. CASE StopReloader  BY <2>6 DEF StopReloader
  <2>7. ASSUME NEW l \in loops, LoopEnds(l) PROVE ReloadIInv' /\ [config' >= config]_reloadVars
    BY <2>7 DEF LoopEnds
  <2> QED  BY <2>1, <2>2, <2>3, <2>4, <2>5, <2>6, <2>7 DEF ReloadNext
<1> QED  BY <1>1, <1>2, PTL DEF Spec, NeverOlder
=============================================================================
