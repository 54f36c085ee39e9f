--------------------------- MODULE SessionManager ---------------------------
(***************************************************************************)
(* SessionManager of component/component.go: sessions by id, and uidMap    *)
(* from a user to the session that was bound to it last.  Session ids are  *)
(* not reused while a session with the id exists (Create with 0 counts     *)
(* them up; connectors pass connection ids).                               *)
(***************************************************************************)
EXTENDS Integers

CONSTANTS
    Sids,   \* session ids
    Uids,   \* user ids
    NoUid,  \* "", the uid of a session that is not bound
    NoSid   \* "uidMap has no entry"

ASSUME SessionAssumption == NoUid \notin Uids /\ NoSid \notin Sids

VARIABLES
    live,       \* keys of m.sessions
    uid,        \* session id -> Session.uid
    uidMap,     \* m.uidMap
    shared      \* history: users that two sessions were bound to at once

sessionVars == <<live, uid, uidMap, shared>>

SessionInit ==
    /\ live = {}
    /\ uid = [s \in Sids |-> NoUid]
    /\ uidMap = [u \in Uids |-> NoSid]
    /\ shared = {}

\* uidMap without the entry of a session's user.
Forget(map, u) == IF u = NoUid THEN map ELSE [map EXCEPT ![u] = NoSid]

\* Create.
CreateSession(s) ==
    /\ s \in Sids \ live
    /\ live' = live \cup {s}
    /\ uid' = [uid EXCEPT ![s] = NoUid]
    /\ UNCHANGED <<uidMap, shared>>

\* Fault: the entry of the session's former user stays.
BindOver(s, u) ==
    /\ s \in live
    /\ uidMap' = [uidMap EXCEPT ![u] = s]
    /\ uid' = [uid EXCEPT ![s] = u]
    /\ shared' = IF \E t \in live \ {s} : uid[t] = u THEN shared \cup {u} ELSE shared
    /\ UNCHANGED live

\* Bind.  It does not look for another session that is bound to u.
Bind(s, u) ==
    /\ s \in live
    /\ uidMap' = [Forget(uidMap, uid[s]) EXCEPT ![u] = s]
    /\ uid' = [uid EXCEPT ![s] = u]
    /\ shared' = IF \E t \in live \ {s} : uid[t] = u THEN shared \cup {u} ELSE shared
    /\ UNCHANGED live

\* Fault: unbinding a user leaves the session's uid.
UnbindMapOnly(u) ==
    /\ uidMap[u] \in live
    /\ uidMap' = [uidMap EXCEPT ![u] = NoSid]
    /\ UNCHANGED <<live, uid, shared>>

\* Unbind.
Unbind(u) ==
    /\ uidMap[u] \in live
    /\ uid' = [uid EXCEPT ![uidMap[u]] = NoUid]
    /\ uidMap' = [uidMap EXCEPT ![u] = NoSid]
    /\ UNCHANGED <<live, shared>>

\* Remove: the entry of the session's user goes, whichever session it names.
RemoveSession(s) ==
    /\ s \in live
    /\ uidMap' = Forget(uidMap, uid[s])
    /\ live' = live \ {s}
    /\ uid' = [uid EXCEPT ![s] = NoUid]
    /\ UNCHANGED shared

\* Clear.
ClearSessions ==
    /\ live' = {}
    /\ uid' = [s \in Sids |-> NoUid]
    /\ uidMap' = [u \in Uids |-> NoSid]
    /\ shared' = {}

SessionNext ==
    \/ \E s \in Sids : CreateSession(s) \/ RemoveSession(s)
    \/ \E s \in Sids, u \in Uids : Bind(s, u)
    \/ \E u \in Uids : Unbind(u)
    \/ ClearSessions

SessionSpec == SessionInit /\ [][SessionNext]_sessionVars

-----------------------------------------------------------------------------
\* Types of the session tables.
SessionTypeOK ==
    /\ live \subseteq Sids
    /\ uid \in [Sids -> Uids \cup {NoUid}]
    /\ uidMap \in [Uids -> Sids \cup {NoSid}]
    /\ shared \subseteq Uids

\* GetByUID never leads to somebody else's session: an entry of uidMap names a
\* live session that is bound to that very user.
LookupHonest ==
    \A u \in Uids : uidMap[u] # NoSid => uidMap[u] \in live /\ uid[uidMap[u]] = u

\* A bound session is found by its user, as long as the user was never bound to
\* two sessions at once.
SoleOwnerFound ==
    \A s \in live : uid[s] \in Uids \ shared => uidMap[uid[s]] = s
=============================================================================
