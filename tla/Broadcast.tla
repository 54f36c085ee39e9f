----------------------------- MODULE Broadcast ------------------------------
(***************************************************************************)
(* broadcastService of broadcast/broadcast.go.  The queue: publishers put  *)
(* tasks into a bounded channel, workers collect them in batches and push  *)
(* them one after the other, Close closes the channel and waits.  A push   *)
(* sends to every member it is for; the connections' Send has no write     *)
(* deadline, so a push begins and may never end, and a push to listed      *)
(* users or connections holds the read lock meanwhile.  The member tables: *)
(* members by user and byID by connection, lists without deduplication.    *)
(***************************************************************************)
EXTENDS Integers, Sequences, FiniteSets

CONSTANTS
    Tasks,      \* calls of Broadcast, BroadcastTo, BroadcastByIDs and Push
    Listed,     \* those that name users or connections (all but Broadcast)
    Workers,    \* b.workers goroutines
    PendingCap, \* capacity of b.pending (1024 in the code)
    BatchSize,  \* b.batchSize
    Sessions,   \* sessions that are additions
    Detached,   \* those without a connection; each other one has its own
    Users,      \* user ids, one of which a session has when it is additions
    MaxAdds     \* bound on the entries made

ASSUME BroadcastAssumption ==
    PendingCap \in Nat /\ BatchSize \in Nat /\ MaxAdds \in Nat /\ Detached \subseteq Sessions

VARIABLES
    call,       \* task -> state of the publishing call
    pending,    \* contents of b.pending
    batch,      \* worker -> its batch
    work,       \* worker -> "collect", "flush" (in flushBatch), "push" or "gone"
    pushes,     \* task -> number of times it was pushed
    closing,    \* Close: "no", "locking", "waiting", "ok" or "timeout"
    panicked    \* a publisher sent on the closed channel

queueVars == <<call, pending, batch, work, pushes, closing, panicked>>

QueueInit ==
    /\ call = [t \in Tasks |-> "no"]
    /\ pending = <<>>
    /\ batch = [w \in Workers |-> <<>>]
    /\ work = [w \in Workers |-> "collect"]
    /\ pushes = [t \in Tasks |-> 0]
    /\ closing = "no"
    /\ panicked = FALSE

\* b.closed is set, and the channel closed.
Closed == closing \notin {"no", "locking"}

\* Workers whose push holds the read lock.
Reading == {w \in Workers : work[w] = "push" /\ Head(batch[w]) \in Listed}

\* RLock is granted: no Close waits for the write lock.
RLockFree == closing # "locking"

\* A publisher reads b.closed under the read lock.
PublishCheck(t) ==
    /\ call[t] = "no" /\ ~panicked /\ RLockFree
    /\ call' = [call EXCEPT ![t] = IF Closed THEN "failed" ELSE "sending"]
    /\ UNCHANGED <<pending, batch, work, pushes, closing, panicked>>

\* It sends without the lock; a full channel drops the task.
PublishSend(t) ==
    /\ call[t] = "sending" /\ ~panicked /\ ~Closed
    /\ IF Len(pending) < PendingCap
         THEN pending' = Append(pending, t) /\ call' = [call EXCEPT ![t] = "accepted"]
         ELSE call' = [call EXCEPT ![t] = "failed"] /\ UNCHANGED pending
    /\ UNCHANGED <<batch, work, pushes, closing, panicked>>

\* The channel was closed after the check: the send panics and the process ends.
PublishPanics(t) ==
    /\ call[t] = "sending" /\ ~panicked /\ Closed
    /\ panicked' = TRUE
    /\ UNCHANGED <<call, pending, batch, work, pushes, closing>>

\* The worker receives a task; a full batch is flushed.
WorkerReceive(w) ==
    /\ work[w] = "collect" /\ ~panicked /\ pending # <<>>
    /\ pending' = Tail(pending)
    /\ batch' = [batch EXCEPT ![w] = Append(@, Head(pending))]
    /\ work' = [work EXCEPT ![w] = IF Len(batch'[w]) >= BatchSize THEN "flush" ELSE "collect"]
    /\ UNCHANGED <<call, pushes, closing, panicked>>

\* The ticker, or the end of the channel, flushes what has been collected.
WorkerFlush(w) ==
    /\ work[w] = "collect" /\ ~panicked /\ batch[w] # <<>>
    /\ work' = [work EXCEPT ![w] = "flush"]
    /\ UNCHANGED <<call, pending, batch, pushes, closing, panicked>>

\* Fault: the worker returns without the final flush.
WorkerExitDrops(w) ==
    /\ work[w] = "collect" /\ ~panicked /\ pending = <<>> /\ Closed
    /\ batch' = [batch EXCEPT ![w] = <<>>]
    /\ work' = [work EXCEPT ![w] = "gone"]
    /\ UNCHANGED <<call, pending, pushes, closing, panicked>>

\* The channel is closed and empty and everything is flushed: the worker returns.
WorkerExit(w) ==
    /\ work[w] = "collect" /\ ~panicked /\ pending = <<>> /\ Closed /\ batch[w] = <<>>
    /\ work' = [work EXCEPT ![w] = "gone"]
    /\ UNCHANGED <<call, pending, batch, pushes, closing, panicked>>

\* flushBatch takes the next task; doBroadcast copies the members under the read
\* lock, doBroadcastTo and doBroadcastByIDs keep it.
PushBegin(w) ==
    /\ work[w] = "flush" /\ ~panicked /\ RLockFree
    /\ work' = [work EXCEPT ![w] = "push"]
    /\ UNCHANGED <<call, pending, batch, pushes, closing, panicked>>

\* Fault: batch = nil is forgotten.
PushKeepsBatch(w) ==
    /\ work[w] = "push" /\ ~panicked
    /\ pushes' = [pushes EXCEPT ![Head(batch[w])] = @ + 1]
    /\ work' = [work EXCEPT ![w] = "collect"]
    /\ UNCHANGED <<call, pending, batch, closing, panicked>>

\* Every member of the task has been sent to, in up to three attempts each; the last
\* task ends the flush.  A Send to a client that does not read never returns.
Pushed(w) ==
    /\ work[w] = "push" /\ ~panicked
    /\ pushes' = [pushes EXCEPT ![Head(batch[w])] = @ + 1]
    /\ batch' = [batch EXCEPT ![w] = Tail(@)]
    /\ work' = [work EXCEPT ![w] = IF Len(batch[w]) = 1 THEN "collect" ELSE "flush"]
    /\ UNCHANGED <<call, pending, closing, panicked>>

\* What a worker does by itself.
WorkerStep(w) == WorkerReceive(w) \/ WorkerFlush(w) \/ WorkerExit(w) \/ PushBegin(w)

\* Close asks for the write lock.
CloseLock ==
    /\ closing = "no" /\ ~panicked
    /\ closing' = "locking"
    /\ UNCHANGED <<call, pending, batch, work, pushes, panicked>>

\* It has the lock, marks the service closed and closes the channel.
CloseBegin ==
    /\ closing = "locking" /\ ~panicked /\ Reading = {}
    /\ closing' = "waiting"
    /\ UNCHANGED <<call, pending, batch, work, pushes, panicked>>

\* b.wg.Wait has returned.
AllExited == \A w \in Workers : work[w] = "gone"

\* Close returns when the workers have, or after ten seconds.
CloseReturn ==
    /\ closing = "waiting" /\ ~panicked
    /\ closing' \in (IF AllExited THEN {"ok", "timeout"} ELSE {"timeout"})
    /\ UNCHANGED <<call, pending, batch, work, pushes, panicked>>

QueueNext ==
    \/ \E t \in Tasks : PublishCheck(t) \/ PublishSend(t) \/ PublishPanics(t)
    \/ \E w \in Workers : WorkerStep(w) \/ Pushed(w)
    \/ CloseLock \/ CloseBegin \/ CloseReturn

-----------------------------------------------------------------------------
\* Types of the queue.
QueueTypeOK ==
    /\ call \in [Tasks -> {"no", "sending", "accepted", "failed"}]
    /\ pending \in Seq(Tasks) /\ Len(pending) <= PendingCap
    /\ batch \in [Workers -> Seq(Tasks)]
    /\ work \in [Workers -> {"collect", "flush", "push", "gone"}] /\ panicked \in BOOLEAN
    /\ pushes \in [Tasks -> Nat]
    /\ closing \in {"no", "locking", "waiting", "ok", "timeout"}

\* The places where task t is: in the channel or in a batch.
Held(t) ==
    {<<"pending", i>> : i \in {j \in DOMAIN pending : pending[j] = t}}
      \cup UNION {{<<w, i>> : i \in {j \in DOMAIN batch[w] : batch[w][j] = t}} : w \in Workers}

\* An accepted task is in exactly one place until it is pushed, and is pushed
\* once; a task that was not accepted is not pushed at all.
PushedOnce ==
    \A t \in Tasks : Cardinality(Held(t)) + pushes[t] = (IF call[t] = "accepted" THEN 1 ELSE 0)

\* Task t waits for a push that does not end: for one of its own batch, for one under
\* the read lock that Close waits for and every other reader behind Close, or in the
\* channel for a worker while every one is in a push.
BehindPush(t) ==
    \/ \E w \in Workers : work[w] = "push" /\ \E i \in DOMAIN batch[w] : batch[w][i] = t
    \/ closing = "locking" /\ Reading # {}
    \/ \A w \in Workers : work[w] = "push"

\* Accepted tasks that have not been pushed although no push keeps them waiting.
PushesDue == \E t \in Tasks : call[t] = "accepted" /\ pushes[t] = 0 /\ ~BehindPush(t)

-----------------------------------------------------------------------------
(* The member tables: entries <<user, session, n>> of the lists of sessions, *)
(* n tells the entries of a session that was additions more than once apart.     *)

VARIABLES
    members,    \* entries of the lists of b.members
    byID,       \* entries of the lists of b.byID
    additions       \* number of entries made so far

memberVars == <<members, byID, additions>>

MembersInit == members = {} /\ byID = {} /\ additions = 0

\* AddSession; u is the session's uid at that moment.  A session that is a member
\* already is appended once more.
AddSession(u, s) ==
    /\ additions < MaxAdds /\ additions' = additions + 1
    /\ members' = members \cup {<<u, s, additions>>}
    /\ byID' = IF s \in Detached THEN byID ELSE byID \cup {<<u, s, additions>>}

\* Add makes a session without a connection for a user that has no member.
AddUser(u) ==
    /\ \A e \in members : e[1] # u
    /\ \E s \in Detached : AddSession(u, s)

\* Fault: the lists by connection are forgotten.
RemoveUserOnly(u) ==
    /\ members' = {e \in members : e[1] # u}
    /\ UNCHANGED <<byID, additions>>

\* Remove drops the user, and the whole list of every connection a member of the user
\* has, the entries under other users included.
RemoveUser(u) ==
    /\ members' = {e \in members : e[1] # u}
    /\ byID' = {e \in byID : \A m \in members : m[1] = u => m[2] # e[2]}
    /\ UNCHANGED additions

\* Clear.
ClearMembers == members' = {} /\ byID' = {} /\ UNCHANGED additions

MembersNext ==
    \/ \E u \in Users, s \in Sessions : AddSession(u, s)
    \/ \E u \in Users : AddUser(u) \/ RemoveUser(u)
    \/ ClearMembers

\* Every entry that BroadcastByIDs sends to is one that Broadcast sends to: by its
\* connection a session gets no more copies of a message than it has been additions and
\* not removed, and Remove leaves no session behind in the other table.  (A session
\* additions twice does get two copies, either way.)
IdsAreMembers == byID \subseteq members
=============================================================================
