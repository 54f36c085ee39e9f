---------------------------- MODULE ClusterProofs ----------------------------
(***************************************************************************)
(* Proofs about the master.  The registry, for any set of server ids and   *)
(* any timeout: its three maps stay consistent under every order of        *)
(* registrations, re-registrations, late requests and expiries.  The       *)
(* supervisor, for any set of ids and any number of processes: an id has   *)
(* one process, and the tables find it.                                    *)
(***************************************************************************)
EXTENDS Cluster, FiniteSetTheorems, TLAPS

-----------------------------------------------------------------------------
(* The registry.                                                           *)

\* The part of the type invariant about the master's maps.
MapsTypeOK ==
    /\ servers \subseteq Ids /\ tracked \subseteq Ids
    /\ listed \in [Ids -> 0..MaxListed] /\ again \in [Ids -> Nat]
    /\ age \in [Ids -> 0..(Timeout + 1)]

\* The three maps agree.
MapsAgree == MapsTypeOK /\ EveryServerTimed /\ EveryServerOffered

\* The part of the type invariant about the clients.
ClientTypeOK ==
    /\ proc \in [Ids -> {"off", "dialled", "serving"}]
    /\ link \in [Ids -> {"up", "down", "nil"}] /\ connected \in [Ids -> BOOLEAN]
    /\ loop \in [Ids -> {"wait", "register", "mark"}]
    /\ beating \in [Ids -> BOOLEAN]
    /\ late \subseteq Ids \X Requests

IInv == MapsAgree /\ ClientTypeOK

\* A registration, first or repeated, keeps the maps in agreement.
LEMMA AddEntryAgrees ==
    ASSUME MapsAgree, NEW i \in Ids, AddEntry(i) PROVE MapsAgree'
<1> USE DEF MapsAgree, MapsTypeOK, EveryServerTimed, EveryServerOffered, AddEntry
<1>1. /\ listed' \in [Ids -> 0..MaxListed] /\ again' \in [Ids -> Nat]
      /\ age' \in [Ids -> 0..(Timeout + 1)]
  BY MasterAssumption
<1>2. \A j \in Ids : listed'[j] = again'[j] + (IF j \in servers' THEN 1 ELSE 0)
  BY MasterAssumption
<1> QED  BY <1>1, <1>2

\* A removal keeps them in agreement.
LEMMA DropEntryAgrees ==
    ASSUME MapsAgree, NEW i \in Ids, DropEntry(i) PROVE MapsAgree'
<1> USE DEF MapsAgree, MapsTypeOK, EveryServerTimed, EveryServerOffered, DropEntry, WithoutFirst
<1>1. listed' \in [Ids -> 0..MaxListed] /\ age' \in [Ids -> 0..(Timeout + 1)]
  BY MasterAssumption
<1>2. \A j \in Ids : listed'[j] = again'[j] + (IF j \in servers' THEN 1 ELSE 0)
  BY MasterAssumption
<1> QED  BY <1>1, <1>2

\* A heartbeat, of a known or an unknown id, keeps them in agreement.
LEMMA BeatAgrees ==
    ASSUME MapsAgree, NEW i \in Ids, Beat(i) PROVE MapsAgree'
  BY MasterAssumption DEF MapsAgree, MapsTypeOK, EveryServerTimed, EveryServerOffered, Beat

\* So does every request, in time or late.
LEMMA HandleAgrees ==
    ASSUME MapsAgree, NEW i \in Ids, NEW req, Handle(i, req) PROVE MapsAgree'
  BY AddEntryAgrees, DropEntryAgrees, BeatAgrees DEF Handle

\* Steps that leave the master alone.
LEMMA UnchangedAgrees ==
    ASSUME MapsAgree, UNCHANGED master PROVE MapsAgree'
  BY DEF MapsAgree, MapsTypeOK, EveryServerTimed, EveryServerOffered, master

\* Expiry keeps the maps in agreement.
LEMMA CheckAgrees ==
    ASSUME MapsAgree, CheckHeartbeats PROVE MapsAgree'
<1> USE DEF MapsAgree, MapsTypeOK, EveryServerTimed, EveryServerOffered, CheckHeartbeats
<1>1. listed' \in [Ids -> 0..MaxListed]
  BY MasterAssumption DEF WithoutFirst
<1>2. \A j \in Ids : listed'[j] = again'[j] + (IF j \in servers' THEN 1 ELSE 0)
  <2> SUFFICES ASSUME NEW j \in Ids
               PROVE  listed'[j] = again'[j] + (IF j \in servers' THEN 1 ELSE 0)
    OBVIOUS
  <2>1. CASE j \in Overdue \cap servers
    BY <2>1 DEF WithoutFirst
  <2>2. CASE j \notin Overdue \cap servers
    BY <2>2
  <2> QED  BY <2>1, <2>2
<1>3. servers' \subseteq tracked' /\ tracked' \subseteq Ids /\ servers' \subseteq Ids
  OBVIOUS
<1> QED  BY <1>1, <1>2, <1>3

\* The passage of time keeps them in agreement.
LEMMA TickAgrees ==
    ASSUME MapsAgree, MasterTick PROVE MapsAgree'
  BY MasterAssumption DEF MapsAgree, MapsTypeOK, EveryServerTimed, EveryServerOffered, MasterTick

\* The three maps are empty at first.
LEMMA InitInv == MasterInit => IInv
<1> SUFFICES ASSUME MasterInit PROVE IInv
  OBVIOUS
<1>1. MapsAgree
  BY MasterAssumption DEF MasterInit, MapsAgree, MapsTypeOK, EveryServerTimed, EveryServerOffered
<1>2. connected \in [Ids -> BOOLEAN] /\ beating \in [Ids -> BOOLEAN]
  BY Zenon DEF MasterInit
<1>3. ClientTypeOK
  BY <1>2 DEF MasterInit, ClientTypeOK
<1> QED  BY <1>1, <1>3 DEF IInv

\* Every step keeps the master's maps in agreement.
LEMMA NextAgrees == IInv /\ [MasterNext]_masterVars => MapsAgree'
<1> SUFFICES ASSUME IInv, [MasterNext]_masterVars PROVE MapsAgree'
  OBVIOUS
<1>0. MapsAgree
  BY DEF IInv
<1>1. CASE CheckHeartbeats
  BY <1>0, <1>1, CheckAgrees
<1>2. CASE MasterTick
  BY <1>0, <1>2, TickAgrees
<1>3. ASSUME NEW i \in Ids, AddServer(i) PROVE MapsAgree'
  BY <1>0, <1>3, AddEntryAgrees DEF AddServer
<1>4. ASSUME NEW i \in Ids, RemoveServer(i) PROVE MapsAgree'
  BY <1>0, <1>4, DropEntryAgrees DEF RemoveServer
<1>5. ASSUME NEW i \in Ids, \/ LinkBreaks(i) \/ NewClient(i) \/ HeartbeatPanics(i)
                            \/ Redial(i) \/ MarkConnected(i) \/ Exit(i)
      PROVE MapsAgree'
  BY <1>0, <1>5, UnchangedAgrees
     DEF LinkBreaks, NewClient, HeartbeatPanics, Redial, MarkConnected, Exit
<1>6. ASSUME NEW i \in Ids, \/ Register(i) \/ Heartbeat(i) \/ ReRegister(i) \/ Unregister(i)
      PROVE MapsAgree'
  <2>1. UNCHANGED master \/ \E req \in Requests : Handle(i, req)
    BY <1>6 DEF Register, Heartbeat, ReRegister, Unregister, Answered, Unanswered, Requests
  <2> QED  BY <1>0, <2>1, HandleAgrees, UnchangedAgrees
<1>7. ASSUME NEW i \in Ids, NEW req \in Requests, HandleLate(i, req) PROVE MapsAgree'
  BY <1>0, <1>7, HandleAgrees DEF HandleLate
<1>8. CASE UNCHANGED masterVars
  BY <1>0, <1>8, UnchangedAgrees DEF masterVars, master
<1> QED
  BY <1>1, <1>2, <1>3, <1>4, <1>5, <1>6, <1>7, <1>8 DEF MasterNext

\* Every step keeps the clients' fields in their types.
LEMMA NextClient == IInv /\ [MasterNext]_masterVars => ClientTypeOK'
<1> SUFFICES ASSUME IInv, [MasterNext]_masterVars PROVE ClientTypeOK'
  OBVIOUS
<1> USE DEF IInv, ClientTypeOK
<1>1. CASE UNCHANGED <<client, late>>
  BY <1>1 DEF client
<1>2. ASSUME NEW i \in Ids, LinkBreaks(i) \/ Exit(i) \/ HeartbeatPanics(i) PROVE ClientTypeOK'
  BY <1>2 DEF LinkBreaks, Exit, HeartbeatPanics
<1>3. ASSUME NEW i \in Ids, NewClient(i) \/ Redial(i) \/ MarkConnected(i) PROVE ClientTypeOK'
  BY <1>3 DEF NewClient, Redial, MarkConnected
<1>4. ASSUME NEW i \in Ids, Register(i) PROVE ClientTypeOK'
  <2>1. late' \subseteq Ids \X Requests
    BY <1>4 DEF Register, Answered, Unanswered, Handle, Requests
  <2>2. beating' \in [Ids -> BOOLEAN]
    <3>1. beating' = beating \/ \E b \in BOOLEAN : beating' = [beating EXCEPT ![i] = b]
      BY <1>4 DEF Register, Answered, Unanswered
    <3> QED  BY <3>1
  <2> QED  BY <1>4, <2>1, <2>2 DEF Register, Answered, Unanswered
<1>5. ASSUME NEW i \in Ids, Heartbeat(i) PROVE ClientTypeOK'
  <2>1. late' \subseteq Ids \X Requests
    BY <1>5 DEF Heartbeat, Answered, Unanswered, Handle, Requests
  <2>2. beating' \in [Ids -> BOOLEAN]
    <3>1. beating' = beating \/ \E b \in BOOLEAN : beating' = [beating EXCEPT ![i] = b]
      BY <1>5, MasterAssumption DEF Heartbeat, Answered, Unanswered
    <3> QED  BY <3>1
  <2>3. connected' \in [Ids -> BOOLEAN]
    <3>1. connected' = connected \/ connected' = [connected EXCEPT ![i] = FALSE]
      BY <1>5 DEF Heartbeat
    <3> QED  BY <3>1
  <2> QED  BY <1>5, <2>1, <2>2, <2>3 DEF Heartbeat, Answered, Unanswered
<1>6. ASSUME NEW i \in Ids, ReRegister(i) PROVE ClientTypeOK'
  <2>1. late' \subseteq Ids \X Requests
    BY <1>6 DEF ReRegister, Answered, Handle, Requests
  <2>2. connected' \in [Ids -> BOOLEAN]
    <3>1. connected' = connected \/ \E b \in BOOLEAN : connected' = [connected EXCEPT ![i] = b]
      BY <1>6 DEF ReRegister, Answered
    <3> QED  BY <3>1
  <2> QED  BY <1>6, <2>1, <2>2 DEF ReRegister, Answered
<1>7. ASSUME NEW i \in Ids, Unregister(i) PROVE ClientTypeOK'
  BY <1>7 DEF Unregister, Unanswered, Requests
<1>8. ASSUME NEW i \in Ids, NEW req \in Requests, HandleLate(i, req) PROVE ClientTypeOK'
  BY <1>8 DEF HandleLate, client
<1>9. ASSUME CheckHeartbeats \/ MasterTick \/ (\E i \in Ids : AddServer(i) \/ RemoveServer(i))
      PROVE UNCHANGED <<client, late>>
  BY <1>9 DEF CheckHeartbeats, MasterTick, AddServer, RemoveServer
<1>10. ASSUME UNCHANGED masterVars PROVE UNCHANGED <<client, late>>
  BY <1>10 DEF masterVars, client
<1> QED
  BY <1>1, <1>2, <1>3, <1>4, <1>5, <1>6, <1>7, <1>8, <1>9, <1>10 DEF MasterNext

\* The invariant holds in every reachable state.
THEOREM Invariance == MasterSpec => []IInv
<1>1. MasterInit => IInv  BY InitInv
<1>2. IInv /\ [MasterNext]_masterVars => IInv'  BY NextAgrees, NextClient DEF IInv
<1> QED  BY <1>1, <1>2, PTL DEF MasterSpec

\* Type correctness of the registry and of its clients.
THEOREM TypeCorrect == MasterSpec => []MasterTypeOK
<1>1. IInv => MasterTypeOK
  BY DEF IInv, MapsAgree, MapsTypeOK, ClientTypeOK, MasterTypeOK
<1> QED  BY <1>1, Invariance, PTL

\* No registered server is without a heartbeat clock: each one can expire.
THEOREM EveryoneTimed == MasterSpec => []EveryServerTimed
<1>1. IInv => EveryServerTimed  BY DEF IInv, MapsAgree
<1> QED  BY <1>1, Invariance, PTL

\* Every registered server is found by a query for its type, with one entry and one
\* more for each time it was registered while it was registered; an id that is not
\* registered has only the latter.
THEOREM EveryoneOffered == MasterSpec => []EveryServerOffered
<1>1. IInv => EveryServerOffered  BY DEF IInv, MapsAgree
<1> QED  BY <1>1, Invariance, PTL

-----------------------------------------------------------------------------
(* The supervisor.                                                         *)

\* Processes whose event waits in eventCh.
Queued == {eventCh[i] : i \in 1..Len(eventCh)}

SvShape ==
    /\ owner \in [Pids -> AutoIds \cup ManualIds \cup {NoId}]
    /\ life \in [Pids -> {"none", "up", "ok", "bad"}]
    /\ watcher \in [Pids -> {"none", "wait", "send", "end"}]
    /\ byID = [i \in AutoIds \cup ManualIds |-> byID[i]]
    /\ spawning \subseteq Pids
    /\ eventCh \in Seq(Pids)

\* Processes are numbered in the order they start.
SvNumbered == \E n \in 0..MaxProcs : \A p \in Pids : life[p] # "none" <=> p <= n

\* The stations of a process: Spawn, Watch, eventCh, the restart goroutine.  It is
\* at one of them at a time, and it does not run at the later ones.
SvStations ==
    /\ \A p \in Pids :
          /\ life[p] = "none" => p \notin spawning \cup sleeping /\ watcher[p] = "none"
          /\ life[p] # "none" => owner[p] # NoId
          /\ life[p] = "up" => p \in spawning \/ watcher[p] = "wait"
          /\ p \in spawning => watcher[p] = "none"
          /\ p \in Queued => watcher[p] = "end" /\ p \notin sleeping
          /\ p \in sleeping => watcher[p] = "end"
    /\ \A i, j \in 1..Len(eventCh) : eventCh[i] = eventCh[j] => i = j

\* A process that is at one of them holds its id: there may be a restart to come.
Holds(p) == p \in spawning \cup sleeping \cup Queued \/ watcher[p] \in {"wait", "send"}

\* An id that the master starts is held once, and only after StartServers came to it.
SvOneHolder ==
    \A p \in Pids : owner[p] \in AutoIds /\ Holds(p) =>
        /\ owner[p] \in launched
        /\ \A q \in Pids : Holds(q) /\ owner[q] = owner[p] => q = p

\* The tables name every watched process that nobody told to stop.
SvTables ==
    \A p \in Pids : owner[p] \in AutoIds /\ watcher[p] = "wait" /\ p \notin signalled =>
        p \in processes /\ byID[owner[p]] = p

SvIInv == SvShape /\ SvNumbered /\ SvStations /\ SvOneHolder /\ SvTables

\* A number that Spawn takes is a new one, and the next one is the next.
LEMMA FreshPid ==
    ASSUME SvShape, SvNumbered, NewPid \in Pids
    PROVE  /\ life[NewPid] = "none"
           /\ life' = [life EXCEPT ![NewPid] = "up"] => SvNumbered'
<1>1. PICK n \in 0..MaxProcs : \A p \in Pids : life[p] # "none" <=> p <= n
  BY DEF SvNumbered
<1>2. Started = 1..n
  BY <1>1, SupervisorAssumption DEF Started, Pids
<1>3. NewPid = n + 1
  <2>1. 1 \in Int /\ n \in Int
    BY SupervisorAssumption
  <2>2. Cardinality(1..n) = IF 1 > n THEN 0 ELSE n - 1 + 1
    BY <2>1, FS_Interval
  <2>3. QED
    BY <1>2, <2>2, SupervisorAssumption DEF NewPid
<1>4. life[NewPid] = "none"
  BY <1>1, <1>3, SupervisorAssumption DEF SvShape, Pids
<1>5. ASSUME life' = [life EXCEPT ![NewPid] = "up"] PROVE SvNumbered'
  <2>1. n + 1 \in 0..MaxProcs
    BY <1>3, SupervisorAssumption DEF Pids
  <2>2. \A p \in Pids : life'[p] # "none" <=> p <= n + 1
    BY <1>1, <1>3, <1>5, SupervisorAssumption DEF SvShape, Pids
  <2>3. QED
    BY <2>1, <2>2 DEF SvNumbered
<1>6. QED
  BY <1>4, <1>5

\* Spawn up to cmd.Start, for an id that nobody holds: by StartServers for the first
\* time, by SpawnServer, or in place of a process that has crashed.
LEMMA BeginKeeps ==
    ASSUME SvIInv, NEW id \in AutoIds \cup ManualIds, Begin(id),
           UNCHANGED eventCh, sleeping' \subseteq sleeping, launched \subseteq launched',
           id \in AutoIds => id \in launched',
           id \in AutoIds => \A p \in Pids : owner[p] = id => ~Holds(p) \/ p \in sleeping \ sleeping'
    PROVE  SvIInv'
<1> DEFINE new == NewPid
<1>1. /\ new \in Pids /\ life[new] = "none"
      /\ owner' = [owner EXCEPT ![new] = id] /\ life' = [life EXCEPT ![new] = "up"]
      /\ spawning' = spawning \cup {new}
      /\ UNCHANGED <<signalled, processes, byID, watcher, report, eventCh>>
  BY FreshPid DEF Begin, SvIInv, tableVars, watchVars
<1>2. SvNumbered'
  BY <1>1, FreshPid DEF SvIInv
<1> HIDE DEF new
<1>3. id # NoId
  BY SupervisorAssumption
<1>4. SvShape'
  BY <1>1 DEF SvIInv, SvShape
<1>5. Queued' = Queued /\ new \notin Queued \cup sleeping \cup spawning /\ watcher[new] = "none"
  BY <1>1 DEF SvIInv, SvStations, Queued
<1>6. SvStations'
  BY <1>1, <1>3, <1>5 DEF SvIInv, SvShape, SvStations
<1>7. ASSUME NEW p \in Pids PROVE Holds(p)' => Holds(p) \/ p = new
  BY <1>1, <1>5 DEF Holds
<1>8. ASSUME NEW p \in Pids, p \in sleeping \ sleeping', p # new PROVE ~Holds(p)'
  BY <1>1, <1>5, <1>8 DEF Holds, SvIInv, SvStations
<1>9. SvOneHolder'
  <2> SUFFICES ASSUME NEW p \in Pids, owner'[p] \in AutoIds, Holds(p)'
               PROVE  /\ owner'[p] \in launched'
                      /\ \A q \in Pids : Holds(q)' /\ owner'[q] = owner'[p] => q = p
    BY DEF SvOneHolder
  <2>1. owner'[new] = id /\ \A q \in Pids : q # new => owner'[q] = owner[q]
    BY <1>1 DEF SvIInv, SvShape
  <2>2. ASSUME NEW q \in Pids, Holds(q)', owner'[q] = id, id \in AutoIds PROVE q = new
    BY <1>7, <1>8, <2>1, <2>2
  <2>3. CASE p = new
    BY <2>1, <2>2, <2>3
  <2>4. CASE p # new
    <3>1. owner[p] \in AutoIds /\ Holds(p) /\ owner'[p] = owner[p]
      BY <1>7, <2>1, <2>4
    <3>2. owner[p] # id
      BY <2>1, <2>2, <2>4, <3>1
    <3>3. QED
      BY <1>7, <2>1, <3>1, <3>2 DEF SvIInv, SvOneHolder
  <2>5. QED
    BY <2>3, <2>4
<1>10. SvTables'
  BY <1>1, <1>5 DEF SvIInv, SvShape, SvTables
<1>11. QED
  BY <1>2, <1>4, <1>6, <1>9, <1>10 DEF SvIInv

\* Steps after which nobody holds an id that did not hold it before.
LEMMA FewerHold ==
    ASSUME SvIInv, UNCHANGED owner, launched \subseteq launched',
           \A p \in Pids : Holds(p)' => Holds(p)
    PROVE  SvOneHolder'
  BY DEF SvIInv, SvOneHolder

\* The rest of Spawn.
LEMMA TrackKeeps == ASSUME SvIInv, NEW p \in Pids, Track(p) PROVE SvIInv'
<1>1. /\ p \in spawning /\ spawning' = spawning \ {p} /\ processes' = processes \cup {p}
      /\ byID' = [byID EXCEPT ![owner[p]] = p] /\ watcher' = [watcher EXCEPT ![p] = "wait"]
      /\ UNCHANGED <<owner, life, signalled, eventCh, sleeping, launched>>
  BY DEF Track, restartVars
<1>2. SvShape' /\ SvNumbered' /\ Queued' = Queued
  BY <1>1 DEF SvIInv, SvShape, SvNumbered, Queued
<1>3. SvStations'
  BY <1>1, <1>2 DEF SvIInv, SvShape, SvStations
<1>4. SvOneHolder'
  <2>1. \A q \in Pids : Holds(q)' => Holds(q)
    BY <1>1, <1>2 DEF Holds, SvIInv, SvShape
  <2>2. QED
    BY <1>1, <2>1, FewerHold
<1>5. SvTables'
  <2> SUFFICES ASSUME NEW q \in Pids, owner[q] \in AutoIds, watcher'[q] = "wait", q \notin signalled
               PROVE  q \in processes' /\ byID'[owner[q]] = q
    BY <1>1 DEF SvTables
  <2>1. CASE q = p
    BY <1>1, <2>1 DEF SvIInv, SvShape
  <2>2. CASE q # p
    <3>1. watcher[q] = "wait" /\ Holds(q) /\ Holds(p)
      BY <1>1, <2>2 DEF SvIInv, SvShape, Holds
    <3>2. owner[q] # owner[p]
      BY <2>2, <3>1 DEF SvIInv, SvOneHolder
    <3>3. QED
      BY <1>1, <3>1, <3>2 DEF SvIInv, SvShape, SvTables
  <2>3. QED
    BY <2>1, <2>2
<1>6. QED
  BY <1>2, <1>3, <1>4, <1>5 DEF SvIInv

\* Watch clears the tables by id; the process it clears them for holds that id.
LEMMA ReapKeeps == ASSUME SvIInv, NEW p \in Pids, Reap(p) PROVE SvIInv'
<1>1. /\ watcher[p] = "wait" /\ life[p] \in {"ok", "bad"} /\ processes' = processes \ {p}
      /\ byID' = [byID EXCEPT ![owner[p]] = 0] /\ watcher' = [watcher EXCEPT ![p] = "send"]
      /\ UNCHANGED <<owner, life, spawning, signalled, eventCh, sleeping, launched>>
  BY DEF Reap, osVars, restartVars
<1>2. SvShape' /\ SvNumbered' /\ Queued' = Queued
  BY <1>1 DEF SvIInv, SvShape, SvNumbered, Queued
<1>3. SvStations'
  BY <1>1, <1>2 DEF SvIInv, SvShape, SvStations
<1>4. SvOneHolder'
  <2>1. \A q \in Pids : Holds(q)' => Holds(q)
    BY <1>1, <1>2 DEF Holds, SvIInv, SvShape
  <2>2. QED
    BY <1>1, <2>1, FewerHold
<1>5. SvTables'
  <2> SUFFICES ASSUME NEW q \in Pids, owner[q] \in AutoIds, watcher'[q] = "wait", q \notin signalled
               PROVE  q \in processes' /\ byID'[owner[q]] = q
    BY <1>1 DEF SvTables
  <2>1. q # p /\ watcher[q] = "wait" /\ Holds(q) /\ Holds(p)
    BY <1>1 DEF SvIInv, SvShape, Holds
  <2>2. owner[q] # owner[p]
    BY <2>1 DEF SvIInv, SvOneHolder
  <2>3. QED
    BY <1>1, <2>1, <2>2 DEF SvIInv, SvShape, SvTables
<1>6. QED
  BY <1>2, <1>3, <1>4, <1>5 DEF SvIInv

\* Watch sends the event, or gives up.
LEMMA SendKeeps == ASSUME SvIInv, NEW p \in Pids, SendEvent(p) \/ DropEvent(p) PROVE SvIInv'
<1>1. /\ watcher[p] = "send" /\ watcher' = [watcher EXCEPT ![p] = "end"]
      /\ eventCh' = Append(eventCh, p) \/ UNCHANGED eventCh
      /\ UNCHANGED <<owner, life, spawning, signalled, processes, byID, sleeping, launched>>
  BY DEF SendEvent, DropEvent, osVars, tableVars, restartVars
<1>2. SvShape' /\ SvNumbered'
  BY <1>1 DEF SvIInv, SvShape, SvNumbered
<1>3. Queued' \subseteq Queued \cup {p} /\ p \notin Queued
  BY <1>1 DEF SvIInv, SvShape, SvStations, Queued
<1>4. \A i, j \in 1..Len(eventCh') : eventCh'[i] = eventCh'[j] => i = j
  BY <1>1, <1>3 DEF SvIInv, SvShape, SvStations, Queued
<1>5. SvStations'
  BY <1>1, <1>3, <1>4 DEF SvIInv, SvShape, SvStations
<1>6. SvOneHolder'
  <2>1. \A q \in Pids : Holds(q)' => Holds(q)
    BY <1>1, <1>3 DEF Holds, SvIInv, SvShape
  <2>2. QED
    BY <1>1, <2>1, FewerHold
<1>7. SvTables'
  BY <1>1 DEF SvIInv, SvShape, SvTables
<1>8. QED
  BY <1>2, <1>5, <1>6, <1>7 DEF SvIInv

\* watchProcessEvents takes an event: a crash goes to a restart goroutine.
LEMMA TakeEventKeeps == ASSUME SvIInv, TakeEvent PROVE SvIInv'
<1>1. PICK p \in Pids :
        /\ p = Head(eventCh) /\ p \in Queued /\ eventCh # <<>> /\ eventCh' = Tail(eventCh)
        /\ sleeping' \subseteq sleeping \cup {p}
        /\ UNCHANGED <<owner, life, spawning, signalled, processes, byID, watcher, launched>>
  <2>1. eventCh \in Seq(Pids) /\ eventCh # <<>>
    BY DEF TakeEvent, SvIInv, SvShape
  <2>2. PICK p \in Pids : p = Head(eventCh) /\ p = eventCh[1] /\ 1 \in 1..Len(eventCh)
    BY <2>1
  <2>3. p \in Queued
    BY <2>2 DEF Queued
  <2>4. /\ eventCh' = Tail(eventCh) /\ sleeping' \subseteq sleeping \cup {p}
        /\ UNCHANGED <<owner, life, spawning, signalled, processes, byID, watcher, launched>>
    BY <2>2 DEF TakeEvent, osVars, tableVars
  <2>5. QED
    BY <2>1, <2>2, <2>3, <2>4
<1>2. SvShape' /\ SvNumbered'
  BY <1>1 DEF SvIInv, SvShape, SvNumbered
<1>3. /\ Len(eventCh') = Len(eventCh) - 1 /\ eventCh \in Seq(Pids)
      /\ \A i \in 1..Len(eventCh') : eventCh'[i] = eventCh[i + 1]
  BY <1>1 DEF SvIInv, SvShape
<1>4. \A i, j \in 1..Len(eventCh') : eventCh'[i] = eventCh'[j] => i = j
  BY <1>3 DEF SvIInv, SvStations
<1>5. Queued' \subseteq Queued \ {p}
  BY <1>1, <1>3 DEF SvIInv, SvStations, Queued
<1>6. SvStations'
  BY <1>1, <1>4, <1>5 DEF SvIInv, SvShape, SvStations
<1>7. SvOneHolder'
  <2>1. \A q \in Pids : Holds(q)' => Holds(q)
    BY <1>1, <1>5 DEF Holds
  <2>2. QED
    BY <1>1, <2>1, FewerHold
<1>8. SvTables'
  BY <1>1 DEF SvIInv, SvTables
<1>9. QED
  BY <1>2, <1>6, <1>7, <1>8 DEF SvIInv

\* Steps that move no process between the stations: an end, a signal, Close.
LEMMA SignalKeeps ==
    ASSUME SvIInv, UNCHANGED <<owner, spawning, watcher, eventCh, sleeping>>,
           launched \subseteq launched', signalled \subseteq signalled',
           \/ UNCHANGED life
           \/ \E p \in Pids, how \in {"ok", "bad"} :
                 life[p] = "up" /\ life' = [life EXCEPT ![p] = how],
           \/ UNCHANGED <<processes, byID>>
           \/ processes \subseteq signalled' /\ byID' = [i \in DOMAIN byID |-> 0]
    PROVE  SvIInv'
<1>1. Queued' = Queued
  BY DEF Queued
<1>2. SvShape'
  BY DEF SvIInv, SvShape
<1>3. SvNumbered' /\ \A p \in Pids : (life'[p] = "none" <=> life[p] = "none")
                                  /\ (life'[p] = "up" => life[p] = "up")
  BY DEF SvIInv, SvShape, SvNumbered
<1>4. SvStations'
  BY <1>1, <1>3 DEF SvIInv, SvStations
<1>5. SvOneHolder'
  <2>1. \A q \in Pids : Holds(q)' => Holds(q)
    BY <1>1 DEF Holds
  <2>2. QED
    BY <2>1, FewerHold
<1>6. SvTables'
  BY DEF SvIInv, SvTables
<1>7. QED
  BY <1>2, <1>3, <1>4, <1>5, <1>6 DEF SvIInv

\* Every step of the supervisor, and the steps that leave it alone.
LEMMA SvStep == SvIInv /\ [SupervisorNext]_procVars => SvIInv'
<1> SUFFICES ASSUME SvIInv, [SupervisorNext]_procVars PROVE SvIInv'
  OBVIOUS
<1> USE DEF osVars, tableVars, watchVars, restartVars
<1>1. ASSUME NEW id \in AutoIds, StartServer(id) PROVE SvIInv'
  <2>1. CASE Begin(id)
    <3>1. id \notin launched /\ launched' = launched \cup {id} /\ UNCHANGED <<eventCh, sleeping>>
      BY <1>1, <2>1 DEF StartServer, Begin
    <3>2. \A p \in Pids : owner[p] = id => ~Holds(p)
      BY <3>1 DEF SvIInv, SvOneHolder
    <3>3. QED
      BY <2>1, <3>1, <3>2, BeginKeeps
  <2>2. CASE BeginFails
    BY <1>1, <2>2, SignalKeeps DEF StartServer, BeginFails
  <2>3. QED
    BY <1>1, <2>1, <2>2 DEF StartServer
<1>2. ASSUME NEW id \in ManualIds, SpawnServer(id) PROVE SvIInv'
  <2>1. id \notin AutoIds
    BY SupervisorAssumption
  <2>2. Begin(id) /\ UNCHANGED <<eventCh, sleeping, launched>>
    BY <1>2 DEF SpawnServer, Begin
  <2>3. QED
    BY <2>1, <2>2, BeginKeeps
<1>3. ASSUME NEW p \in Pids, Restart(p) PROVE SvIInv'
  <2>1. /\ p \in sleeping /\ sleeping' = sleeping \ {p} /\ UNCHANGED launched
        /\ Begin(owner[p]) \/ BeginFails
    BY <1>3 DEF Restart
  <2>2. owner[p] \in AutoIds \cup ManualIds /\ Holds(p)
    BY <2>1 DEF SvIInv, SvShape, SvStations, Holds
  <2>3. CASE Begin(owner[p])
    <3>1. UNCHANGED eventCh
      BY <2>3 DEF Begin
    <3>2. owner[p] \in AutoIds => owner[p] \in launched'
      BY <2>1, <2>2 DEF SvIInv, SvOneHolder
    <3>3. owner[p] \in AutoIds => \A q \in Pids : owner[q] = owner[p] =>
                                       ~Holds(q) \/ q \in sleeping \ sleeping'
      BY <2>1, <2>2 DEF SvIInv, SvOneHolder
    <3>4. QED
      BY <2>1, <2>2, <2>3, <3>1, <3>2, <3>3, BeginKeeps
  <2>4. CASE BeginFails
    <3>1. UNCHANGED <<owner, life, spawning, signalled, processes, byID, watcher, eventCh>>
      BY <2>4 DEF BeginFails
    <3>2. Queued' = Queued /\ \A q \in Pids : Holds(q)' => Holds(q)
      BY <2>1, <3>1 DEF Queued, Holds
    <3>3. SvOneHolder'
      BY <2>1, <3>1, <3>2, FewerHold
    <3>4. QED
      BY <2>1, <3>1, <3>2, <3>3 DEF SvIInv, SvShape, SvNumbered, SvStations, SvTables
  <2>5. QED
    BY <2>1, <2>3, <2>4
<1>4. ASSUME NEW p \in Pids, WatchStep(p) PROVE SvIInv'
  BY <1>4, TrackKeeps, ReapKeeps, SendKeeps DEF WatchStep
<1>5. ASSUME NEW p \in Pids, Kill(p) PROVE SvIInv'
  BY <1>5, SignalKeeps DEF Kill, Signal
<1>6. ASSUME NEW p \in Pids, NEW how \in {"ok", "bad"}, Ends(p, how) PROVE SvIInv'
  BY <1>6, SignalKeeps DEF Ends
<1>7. CASE StartEventLoop \/ EventLoopEnds \/ CancelMaster
  BY <1>7, SignalKeeps DEF StartEventLoop, EventLoopEnds, CancelMaster
<1>8. CASE StopServers \/ CloseMaster
  BY <1>8, SignalKeeps DEF StopServers, CloseMaster, CloseProcesses, Signal
<1>9. CASE UNCHANGED procVars
  BY <1>9, SignalKeeps DEF procVars
<1>10. QED
  BY <1>1, <1>2, <1>3, <1>4, <1>5, <1>6, <1>7, <1>8, <1>9, TakeEventKeeps DEF SupervisorNext

\* The invariant of the supervisor, in the master as a whole.
LEMMA SvInductive == Spec => []SvIInv
<1>1. Init => SvIInv
  <2> SUFFICES ASSUME SupervisorInit PROVE SvIInv
    BY DEF Init
  <2>1. SvNumbered
    BY SupervisorAssumption DEF SupervisorInit, SvNumbered, Pids
  <2>2. Queued = {} /\ Len(eventCh) = 0
    BY DEF SupervisorInit, Queued
  <2>3. QED
    BY <2>1, <2>2 DEF SupervisorInit, SvIInv, SvShape, SvStations, SvOneHolder, SvTables, Holds
<1>2. SvIInv /\ [Next]_vars => SvIInv'
  <2>1. [Next]_vars => [SupervisorNext]_procVars
    BY DEF Next, vars, RegistryPart, ProcessPart
  <2>2. QED
    BY <2>1, SvStep
<1>3. QED
  BY <1>1, <1>2, PTL DEF Spec

\* StartServers and watchProcessEvents: an id that the master starts has at most one
\* process, through crashes, kills, StopServers and restarts.
THEOREM OneProcessEach == Spec => []OneProcess
<1>1. SvIInv => OneProcess
  BY DEF SvIInv, SvStations, SvOneHolder, OneProcess, Started, Holds
<1>2. QED
  BY <1>1, SvInductive, PTL

\* localProcessManager: a running process that nobody told to stop is found by its
\* id and by its PID, although the watcher of its predecessor clears the tables by id.
THEOREM RunningIsFound == Spec => []RunningFound
<1>1. SvIInv => RunningFound
  BY DEF SvIInv, SvStations, SvTables, RunningFound, Started
<1>2. QED
  BY <1>1, SvInductive, PTL
=============================================================================
