----------------------------- MODULE ServerList -----------------------------
(***************************************************************************)
(* The servers an App knows (lib/app.go): a.servers by id, and for each    *)
(* server type the list that GetServersByType returns.  A server is its    *)
(* id, its type and which description of it was given last.                *)
(***************************************************************************)
EXTENDS Integers, Sequences, FiniteSets, SequencesExt

CONSTANTS
    ServerIds,      \* ids
    ServerTypes,    \* server types
    Editions,       \* descriptions a server may be announced with
    NoServer        \* "a.servers has no entry"

Items == [id : ServerIds, serverType : ServerTypes, edition : Editions]

ASSUME ServerListAssumption == NoServer \notin Items

VARIABLES
    servers,        \* a.servers
    serverTypeMaps, \* a.serverTypeMaps
    serverTypes,    \* a.serverTypes, as a set: it has no duplicates
    moved           \* history: ids announced under two types since the lists were rebuilt

serverListVars == <<servers, serverTypeMaps, serverTypes, moved>>

ServerListInit ==
    /\ servers = [i \in ServerIds |-> NoServer]
    /\ serverTypeMaps = [t \in ServerTypes |-> <<>>]
    /\ serverTypes = {} /\ moved = {}

HasId(list, i) == \E k \in DOMAIN list : list[k].id = i

\* Fault: an entry with the same id is not looked for.
ReplaceServerBlindly(list, item) == Append(list, item)

\* replaceServer: the first entry with the id, else at the end.
ReplaceServer(list, item) ==
    IF HasId(list, item.id)
      THEN [list EXCEPT ![SelectInSeq(list, LAMBDA s : s.id = item.id)] = item]
      ELSE Append(list, item)

\* removeServer: the first entry with the id.
RemoveServer(list, i) == RemoveFirstMatch(list, LAMBDA s : s.id = i)

GetServersByType(t) == serverTypeMaps[t]

\* GetServerById finds a server.
Known(i) == servers[i] # NoServer

\* AddServers with one item; the list of its former type is not looked at.
AddServers(item) ==
    /\ servers' = [servers EXCEPT ![item.id] = item]
    /\ serverTypeMaps' = [serverTypeMaps EXCEPT ![item.serverType] = ReplaceServer(@, item)]
    /\ serverTypes' = serverTypes \cup {item.serverType}
    /\ moved' = IF Known(item.id) /\ servers[item.id].serverType # item.serverType
                  THEN moved \cup {item.id} ELSE moved

\* RemoveServers with one id; an unknown id is skipped.
RemoveServers(i) ==
    /\ Known(i) /\ servers' = [servers EXCEPT ![i] = NoServer]
    /\ serverTypeMaps' = [serverTypeMaps EXCEPT ![servers[i].serverType] = RemoveServer(@, i)]
    /\ UNCHANGED <<serverTypes, moved>>

\* SetServers and ReplaceServers: everything is rebuilt, in any order (the servers
\* are in a map).
ReplaceServers(new) ==
    /\ servers' = new
    /\ serverTypeMaps' \in
           {f \in [ServerTypes -> UNION {[1..n -> {new[i] : i \in ServerIds} \ {NoServer}] :
                                             n \in 0..Cardinality(ServerIds)}] :
               \A t \in ServerTypes :
                   /\ Range(f[t]) = {new[i] : i \in {j \in ServerIds : new[j] # NoServer
                                                                     /\ new[j].serverType = t}}
                   /\ IsInjective(f[t])}
    /\ serverTypes' = {new[i].serverType : i \in {j \in ServerIds : new[j] # NoServer}}
    /\ moved' = {}

\* What ReplaceServers may be called with.
Announced ==
    {new \in [ServerIds -> Items \cup {NoServer}] :
         \A i \in ServerIds : new[i] = NoServer \/ new[i].id = i}

ServerListNext ==
    \/ \E item \in Items : AddServers(item)
    \/ \E i \in ServerIds : RemoveServers(i)
    \/ \E new \in Announced : ReplaceServers(new)

-----------------------------------------------------------------------------
\* GetServersByType and GetServerById agree: a known server is offered once under
\* its type, with its last description; and a server that never changed its type
\* is offered nowhere else and no longer than it is known.
OfferedExactly ==
    /\ \A i \in ServerIds : Known(i) =>
           LET list == GetServersByType(servers[i].serverType)
           IN  Cardinality({k \in DOMAIN list : list[k].id = i}) = 1 /\ servers[i] \in Range(list)
    /\ \A t \in ServerTypes : \A s \in Range(GetServersByType(t)) :
           s.id \notin moved => servers[s.id] = s
    /\ \A t \in ServerTypes : serverTypeMaps[t] # <<>> => t \in serverTypes
=============================================================================
