---------------------------- MODULE EventEmitter ----------------------------
(***************************************************************************)
(* EventEmitter of lib/event.go, for one event name.  Emit copies the      *)
(* handler list under the read lock, releases it, and writes the list      *)
(* without the once handlers under the write lock.  Handler order is left  *)
(* out: every handler runs in a goroutine of its own.                      *)
(***************************************************************************)
EXTENDS Integers

CONSTANTS
    Handlers,   \* registrations, each made once (an EventID is never reused)
    OnceOnly,   \* the registrations made with Once
    Emitters,   \* goroutines that call Emit
    MaxFired,   \* bound on the calls of one handler
    NoCopy      \* "not between the two critical sections of Emit"

VARIABLES
    events,     \* e.events[event]
    asked,      \* what the callers asked for: not registered yet, on, or off
    copied,     \* emitter -> the handlers it copied; NoCopy when not in Emit
    fired       \* handler -> number of times its callback was started

vars == <<events, asked, copied, fired>>

Init ==
    /\ events = {}
    /\ asked = [h \in Handlers |-> "new"]
    /\ copied = [e \in Emitters |-> NoCopy]
    /\ fired = [h \in Handlers |-> 0]

-----------------------------------------------------------------------------
\* On and Once.
On(h) ==
    /\ asked[h] = "new"
    /\ events' = events \cup {h}
    /\ asked' = [asked EXCEPT ![h] = "on"]
    /\ UNCHANGED <<copied, fired>>

\* Off with the id of a registration.
Off(h) ==
    /\ asked[h] = "on"
    /\ events' = events \ {h}
    /\ asked' = [asked EXCEPT ![h] = "off"]
    /\ UNCHANGED <<copied, fired>>

\* Clear.
Clear ==
    /\ events' = {}
    /\ asked' = [h \in Handlers |-> IF asked[h] = "on" THEN "off" ELSE asked[h]]
    /\ UNCHANGED <<copied, fired>>

\* Emit, first critical section; with no handlers Emit returns.
EmitCopy(e) ==
    /\ copied[e] = NoCopy /\ events # {}
    /\ copied' = [copied EXCEPT ![e] = events]
    /\ UNCHANGED <<events, asked, fired>>

\* Emit's keep list.
Keep(hs) == hs \ OnceOnly

\* Emit starts one goroutine per copied handler.
Start(h) == fired[h] + 1

\* Emit, second critical section, and the start of the callbacks.
EmitCommit(e) ==
    /\ copied[e] # NoCopy
    /\ \A h \in copied[e] : fired[h] < MaxFired
    /\ events' = Keep(copied[e])
    /\ fired' = [h \in Handlers |-> IF h \in copied[e] THEN Start(h) ELSE fired[h]]
    /\ copied' = [copied EXCEPT ![e] = NoCopy]
    /\ UNCHANGED asked

Next ==
    \/ \E h \in Handlers : On(h) \/ Off(h)
    \/ Clear
    \/ \E e \in Emitters : EmitCopy(e) \/ EmitCommit(e)

Spec == Init /\ [][Next]_vars

-----------------------------------------------------------------------------
\* A handler registered with Once runs at most once, whatever is registered,
\* removed and emitted meanwhile.
OnceFiresOnce == \A h \in OnceOnly : fired[h] <= 1
=============================================================================
