--------------------------- MODULE ServerRegistry ---------------------------
(***************************************************************************)
(* serverRegistry of server_registry/registry.go.  The lock r.mu is a      *)
(* sync.RWMutex, which is not reentrant: RLock waits for whoever holds the *)
(* write lock, its own goroutine included.  Register and Unregister call   *)
(* notifyWatchers, which takes the read lock, while they hold the write    *)
(* lock.  Watch's goroutine, which copies what it is sent to the caller's  *)
(* channel, is left out: nothing is ever sent to it.                       *)
(***************************************************************************)
EXTENDS Integers, Sequences, SequencesExt

CONSTANTS
    RegIds,         \* server ids
    ServerTypes,    \* server types
    RegCallers,     \* goroutines that use the registry
    NoCaller        \* nobody holds the write lock

VARIABLES
    servers,        \* r.servers: id -> type, for the ids that are registered
    serverTypeMaps, \* r.serverTypeMaps: type -> sequence of ids, for types seen so far
    serverTypes,    \* r.serverTypes
    watchers,       \* number of channels in r.watchers (at most one here)
    notified,       \* has a watcher been sent a list?
    registryClosed, \* r.closed
    writer,         \* the caller that holds the write lock
    regPc           \* caller -> "idle", "notify" (in notifyWatchers), "unlock", "listed"

registryVars == <<servers, serverTypeMaps, serverTypes, watchers, notified, registryClosed,
                  writer, regPc>>
regTables == <<servers, serverTypeMaps, serverTypes>>

RegistryInit ==
    /\ servers = [i \in {} |-> i] /\ serverTypeMaps = [t \in {} |-> <<>>]
    /\ serverTypes = <<>> /\ watchers = 0 /\ notified = FALSE /\ registryClosed = FALSE
    /\ writer = NoCaller /\ regPc = [c \in RegCallers |-> "idle"]

-----------------------------------------------------------------------------
Locks(c) ==
    /\ regPc[c] = "idle" /\ writer = NoCaller /\ writer' = c
    /\ regPc' = [regPc EXCEPT ![c] = "notify"]
    /\ UNCHANGED <<watchers, notified, registryClosed>>

\* Register up to notifyWatchers.  The list of an earlier type keeps the id.
RegisterServer(c, id, t) ==
    /\ Locks(c)
    /\ servers' = [i \in DOMAIN servers \cup {id} |-> IF i = id THEN t ELSE servers[i]]
    /\ serverTypes' = IF t \in DOMAIN serverTypeMaps THEN serverTypes ELSE Append(serverTypes, t)
    /\ serverTypeMaps' =
          [u \in DOMAIN serverTypeMaps \cup {t} |->
              IF u # t THEN serverTypeMaps[u]
              ELSE IF u \notin DOMAIN serverTypeMaps THEN <<id>>
              ELSE IF Contains(serverTypeMaps[u], id) THEN serverTypeMaps[u]
              ELSE Append(serverTypeMaps[u], id)]

\* Unregister of a known id up to notifyWatchers.
UnregisterServer(c, id) ==
    LET t == servers[id]
        newList == Remove(serverTypeMaps[t], id)
    IN  /\ id \in DOMAIN servers /\ Locks(c)
        /\ servers' = [i \in DOMAIN servers \ {id} |-> servers[i]]
        /\ serverTypeMaps' = [serverTypeMaps EXCEPT ![t] = newList]
        /\ serverTypes' = IF newList = <<>> THEN Remove(serverTypes, t) ELSE serverTypes

\* notifyWatchers: RLock needs the write lock to be free.
NotifyWatchers(c) ==
    /\ regPc[c] = "notify" /\ writer = NoCaller
    /\ notified' = (notified \/ (watchers > 0 /\ ~registryClosed))
    /\ regPc' = [regPc EXCEPT ![c] = "unlock"]
    /\ UNCHANGED <<regTables, watchers, registryClosed, writer>>

\* The rest of Register and Unregister.
RegistryUnlock(c) ==
    /\ regPc[c] = "unlock" /\ writer' = NoCaller
    /\ regPc' = [regPc EXCEPT ![c] = "idle"]
    /\ UNCHANGED <<regTables, watchers, notified, registryClosed>>

\* GetServer, GetServersByType, GetAllServers and GetServerTypes need the read lock.
GetServers(c) ==
    /\ regPc[c] = "idle" /\ writer = NoCaller
    /\ regPc' = [regPc EXCEPT ![c] = "listed"]
    /\ UNCHANGED <<regTables, watchers, notified, registryClosed, writer>>

UseServers(c) ==
    /\ regPc[c] = "listed" /\ regPc' = [regPc EXCEPT ![c] = "idle"]
    /\ UNCHANGED <<regTables, watchers, notified, registryClosed, writer>>

WatchRegistry(c) ==
    /\ regPc[c] = "idle" /\ writer = NoCaller /\ watchers = 0 /\ ~registryClosed
    /\ watchers' = 1
    /\ UNCHANGED <<regTables, notified, registryClosed, writer, regPc>>

CloseRegistry(c) ==
    /\ regPc[c] = "idle" /\ writer = NoCaller /\ ~registryClosed
    /\ registryClosed' = TRUE /\ watchers' = 0
    /\ UNCHANGED <<regTables, notified, writer, regPc>>

RegistryNext ==
    \E c \in RegCallers :
        \/ \E id \in RegIds : \/ UnregisterServer(c, id)
                              \/ \E t \in ServerTypes : RegisterServer(c, id, t)
        \/ NotifyWatchers(c) \/ RegistryUnlock(c)
        \/ GetServers(c) \/ UseServers(c) \/ WatchRegistry(c) \/ CloseRegistry(c)

\* Fairness: a goroutine that can go on in notifyWatchers, or unlock, does.
RegistryFairSpec ==
    /\ RegistryInit /\ [][RegistryNext]_registryVars
    /\ \A c \in RegCallers : WF_registryVars(NotifyWatchers(c) \/ RegistryUnlock(c))

-----------------------------------------------------------------------------
\* A call of Register returns, so that the server can be selected.
RegisterReturns == \A c \in RegCallers : regPc[c] = "notify" ~> regPc[c] = "idle"
=============================================================================
