--------------------------- MODULE MasterRegistry ---------------------------
(***************************************************************************)
(* The master's server registry (master/master.go) and the servers that    *)
(* register with it: masterClient with its reconnect loop, driven by the   *)
(* generated main of cmd/gomelo/main.go.  The requests of a client travel  *)
(* over connections that break; a request whose reply was lost may still   *)
(* be handled later.  A server id has one server type, so byType is the    *)
(* number of entries an id has in the list of its type.                    *)
(***************************************************************************)
EXTENDS Integers, FiniteSets

CONSTANTS
    Ids,          \* server ids
    Timeout,      \* heartbeat timeout of checkHeartbeats, in ticks
    MaxListed,    \* bound on the entries one id may have in byType
    KeepBeating,  \* does the application call Heartbeat after one has failed?
    Admin         \* does the master's own program call AddServer and RemoveServer?

ASSUME MasterAssumption ==
    /\ Timeout \in Nat /\ MaxListed \in Nat
    /\ KeepBeating \in BOOLEAN /\ Admin \in BOOLEAN

VARIABLES
    servers,    \* ids in m.servers
    listed,     \* entries of each id in m.byType[its type]
    again,      \* history: how often an id was registered while it was registered
    tracked,    \* ids in m.heartbeats
    age,        \* time since m.heartbeats[id], stops counting above Timeout
    proc,       \* the server process and how far its main has come
    link,       \* the client's connection: up, down, or nil
    connected,  \* c.connected
    loop,       \* the reconnect loop: waiting, or between dialling and Register
    beating,    \* does the heartbeat goroutine still run?
    late        \* requests whose caller gave up, still to be handled

master == <<servers, listed, again, tracked, age>>
client == <<proc, link, connected, loop, beating>>
masterVars == <<servers, listed, again, tracked, age, proc, link, connected, loop, beating, late>>

Requests == {"register", "heartbeat", "unregister"}

MasterInit ==
    /\ servers = {} /\ tracked = {}
    /\ listed = [i \in Ids |-> 0] /\ again = [i \in Ids |-> 0]
    /\ age = [i \in Ids |-> 0]
    /\ proc = [i \in Ids |-> "off"]
    /\ link = [i \in Ids |-> "down"]
    /\ connected = [i \in Ids |-> FALSE]
    /\ loop = [i \in Ids |-> "wait"]
    /\ beating = [i \in Ids |-> FALSE]
    /\ late = {}

-----------------------------------------------------------------------------
(* The master's handlers. *)

\* Fault: a registration does not start the heartbeat clock.
AddEntryUntracked(i) ==
    /\ listed[i] < MaxListed
    /\ servers' = servers \cup {i}
    /\ listed' = [listed EXCEPT ![i] = @ + 1]
    /\ again' = [again EXCEPT ![i] = IF i \in servers THEN @ + 1 ELSE @]
    /\ UNCHANGED <<tracked, age>>

\* handleRegister and AddServer: the id's list grows whether or not the id is
\* registered already.
AddEntry(i) ==
    /\ listed[i] < MaxListed
    /\ servers' = servers \cup {i}
    /\ listed' = [listed EXCEPT ![i] = @ + 1]
    /\ again' = [again EXCEPT ![i] = IF i \in servers THEN @ + 1 ELSE @]
    /\ tracked' = tracked \cup {i}
    /\ age' = [age EXCEPT ![i] = 0]

\* The list of an id's type without the first entry of that id.
WithoutFirst(n) == IF n > 0 THEN n - 1 ELSE 0

\* Fault: the clock is stopped for an id even if it stays registered.
DropEntryHalf(i) ==
    /\ tracked' = tracked \ {i}
    /\ listed' = IF i \in servers THEN [listed EXCEPT ![i] = WithoutFirst(@)] ELSE listed
    /\ UNCHANGED <<servers, again, age>>

\* handleUnregister and RemoveServer: nothing happens for an unknown id.
DropEntry(i) ==
    /\ IF i \in servers
       THEN /\ servers' = servers \ {i}
            /\ listed' = [listed EXCEPT ![i] = WithoutFirst(@)]
            /\ tracked' = tracked \ {i}
       ELSE UNCHANGED <<servers, listed, tracked>>
    /\ UNCHANGED <<again, age>>

\* handleHeartbeatConn: an unknown id is tracked too, and the answer is ok.
Beat(i) ==
    /\ tracked' = tracked \cup {i}
    /\ age' = [age EXCEPT ![i] = 0]
    /\ UNCHANGED <<servers, listed, again>>

\* processMessages.
Handle(i, req) ==
    \/ req = "register" /\ AddEntry(i)
    \/ req = "unregister" /\ DropEntry(i)
    \/ req = "heartbeat" /\ Beat(i)

Overdue == {i \in tracked : age[i] > Timeout}

\* Fault: an overdue id that is not registered is passed over.
CheckHeartbeatsKnown ==
    /\ Overdue \cap servers # {}
    /\ listed' = [i \in Ids |-> IF i \in Overdue \cap servers
                                THEN WithoutFirst(listed[i]) ELSE listed[i]]
    /\ servers' = servers \ Overdue
    /\ tracked' = tracked \ (Overdue \cap servers)
    /\ UNCHANGED <<again, age, client, late>>

\* checkHeartbeats, run by heartbeatCheck.
CheckHeartbeats ==
    /\ Overdue # {}
    /\ listed' = [i \in Ids |-> IF i \in Overdue \cap servers
                                THEN WithoutFirst(listed[i]) ELSE listed[i]]
    /\ servers' = servers \ Overdue
    /\ tracked' = tracked \ Overdue
    /\ UNCHANGED <<again, age, client, late>>

\* AddServer and RemoveServer called by the master's own program.
AddServer(i) == Admin /\ AddEntry(i) /\ UNCHANGED <<client, late>>

RemoveServer(i) == Admin /\ DropEntry(i) /\ UNCHANGED <<client, late>>

\* Time passes.
MasterTick ==
    /\ \E i \in tracked : age[i] <= Timeout
    /\ age' = [i \in Ids |-> IF i \in tracked /\ age[i] <= Timeout
                             THEN age[i] + 1 ELSE age[i]]
    /\ UNCHANGED <<servers, listed, again, tracked, client, late>>

-----------------------------------------------------------------------------
(* Requests over the client's connection. *)

\* The master handles the request and the reply arrives.
Answered(i, req) ==
    /\ link[i] = "up" /\ Handle(i, req)
    /\ UNCHANGED <<link, late>>

\* The write fails, or the reply does not come in time: the request may still
\* be on its way.
Unanswered(i, req) ==
    /\ late' = late \/ (link[i] = "up" /\ late' = late \cup {<<i, req>>})
    /\ link' = [link EXCEPT ![i] = "down"]
    /\ UNCHANGED master

\* A request is handled after its caller gave up.
HandleLate(i, req) ==
    /\ <<i, req>> \in late
    /\ Handle(i, req)
    /\ late' = late \ {<<i, req>>}
    /\ UNCHANGED client

LinkBreaks(i) ==
    /\ link[i] = "up"
    /\ link' = [link EXCEPT ![i] = "down"]
    /\ UNCHANGED <<master, proc, connected, loop, beating, late>>

-----------------------------------------------------------------------------
(* The server process. *)

\* newMasterClient: the first dial has to succeed.
NewClient(i) ==
    /\ proc[i] = "off"
    /\ proc' = [proc EXCEPT ![i] = "dialled"]
    /\ link' = [link EXCEPT ![i] = "up"]
    /\ connected' = [connected EXCEPT ![i] = TRUE]
    /\ loop' = [loop EXCEPT ![i] = "wait"]
    /\ beating' = [beating EXCEPT ![i] = FALSE]
    /\ UNCHANGED <<master, late>>

\* The first Register, called by main; without it main starts no heartbeats.
Register(i) ==
    /\ proc[i] = "dialled"
    /\ proc' = [proc EXCEPT ![i] = "serving"]
    /\ \/ Answered(i, "register") /\ beating' = [beating EXCEPT ![i] = TRUE]
       \/ Unanswered(i, "register") /\ UNCHANGED beating
    /\ UNCHANGED <<connected, loop>>

\* Heartbeat, from the goroutine that main started.
Heartbeat(i) ==
    /\ proc[i] = "serving" /\ beating[i] /\ link[i] # "nil"
    /\ \/ Answered(i, "heartbeat") /\ UNCHANGED <<connected, beating>>
       \/ /\ Unanswered(i, "heartbeat")
          /\ connected' = [connected EXCEPT ![i] = FALSE]
          /\ beating' = [beating EXCEPT ![i] = KeepBeating]
    /\ UNCHANGED <<proc, loop>>

\* Heartbeat between a failed Register of the reconnect loop, which leaves conn
\* nil, and the next dial: the process panics.
HeartbeatPanics(i) ==
    /\ proc[i] = "serving" /\ beating[i] /\ link[i] = "nil"
    /\ proc' = [proc EXCEPT ![i] = "off"]
    /\ UNCHANGED <<master, link, connected, loop, beating, late>>

\* reconnectLoop: a new connection replaces the old one.
Redial(i) ==
    /\ proc[i] # "off" /\ loop[i] = "wait" /\ ~connected[i]
    /\ link' = [link EXCEPT ![i] = "up"]
    /\ loop' = [loop EXCEPT ![i] = "register"]
    /\ UNCHANGED <<master, proc, connected, beating, late>>

\* reconnectLoop: Register on the new connection; a failure drops it.
ReRegister(i) ==
    /\ proc[i] # "off" /\ loop[i] = "register"
    /\ \/ /\ Answered(i, "register")
          /\ loop' = [loop EXCEPT ![i] = "mark"]
          /\ UNCHANGED connected
       \/ /\ late' = late \/ (link[i] = "up" /\ late' = late \cup {<<i, "register">>})
          /\ link' = [link EXCEPT ![i] = "nil"]
          /\ connected' = [connected EXCEPT ![i] = FALSE]
          /\ loop' = [loop EXCEPT ![i] = "wait"]
          /\ UNCHANGED master
    /\ UNCHANGED <<proc, beating>>

\* reconnectLoop: connected is set after Register released connMu, so it may
\* undo what a Heartbeat found out meanwhile.
MarkConnected(i) ==
    /\ proc[i] # "off" /\ loop[i] = "mark"
    /\ connected' = [connected EXCEPT ![i] = TRUE]
    /\ loop' = [loop EXCEPT ![i] = "wait"]
    /\ UNCHANGED <<master, proc, link, beating, late>>

\* A process that unregisters and closes its client.
Unregister(i) ==
    /\ proc[i] = "serving"
    /\ proc' = [proc EXCEPT ![i] = "off"]
    /\ \/ /\ link[i] = "up" /\ Handle(i, "unregister")
          /\ link' = [link EXCEPT ![i] = "down"]
          /\ UNCHANGED late
       \/ Unanswered(i, "unregister")
    /\ UNCHANGED <<connected, loop, beating>>

\* The process is gone: it crashed, or it ended with the generated main, whose
\* deferred Close runs before its deferred Unregister, which then writes to a
\* closed connection.
Exit(i) ==
    /\ proc[i] # "off"
    /\ proc' = [proc EXCEPT ![i] = "off"]
    /\ link' = [link EXCEPT ![i] = "down"]
    /\ UNCHANGED <<master, connected, loop, beating, late>>

MasterNext ==
    \/ CheckHeartbeats \/ MasterTick
    \/ \E i \in Ids :
          \/ AddServer(i) \/ RemoveServer(i) \/ LinkBreaks(i)
          \/ NewClient(i) \/ Register(i) \/ Heartbeat(i) \/ HeartbeatPanics(i)
          \/ Redial(i) \/ ReRegister(i) \/ MarkConnected(i)
          \/ Unregister(i) \/ Exit(i)
          \/ \E req \in Requests : HandleLate(i, req)

MasterSpec == MasterInit /\ [][MasterNext]_masterVars

(***************************************************************************)
(* MasterFairness: heartbeatCheck and the clock run, the heartbeat goroutine and *)
(* the reconnect loop take their turns.  Nothing forces a process to       *)
(* start, to stay or to leave.                                             *)
(***************************************************************************)
MasterFairness ==
    /\ WF_masterVars(MasterTick) /\ WF_masterVars(CheckHeartbeats)
    /\ \A i \in Ids : /\ WF_masterVars(Register(i)) /\ WF_masterVars(Heartbeat(i))
                      /\ WF_masterVars(Redial(i)) /\ WF_masterVars(ReRegister(i))
                      /\ WF_masterVars(MarkConnected(i))

MasterFairSpec == MasterSpec /\ MasterFairness

-----------------------------------------------------------------------------
\* Types of the master's maps and of the clients' fields.
MasterTypeOK ==
    /\ servers \subseteq Ids /\ tracked \subseteq Ids
    /\ listed \in [Ids -> 0..MaxListed] /\ again \in [Ids -> Nat]
    /\ age \in [Ids -> 0..(Timeout + 1)]
    /\ proc \in [Ids -> {"off", "dialled", "serving"}]
    /\ link \in [Ids -> {"up", "down", "nil"}] /\ connected \in [Ids -> BOOLEAN]
    /\ loop \in [Ids -> {"wait", "register", "mark"}]
    /\ beating \in [Ids -> BOOLEAN]
    /\ late \subseteq Ids \X Requests

\* Every registered server has a heartbeat clock, whatever late, repeated or
\* unknown requests were handled: without one checkHeartbeats never drops it.
EveryServerTimed == servers \subseteq tracked

\* Every server the admin pages list (servers) is offered to callers that query by
\* type (byType), and an id that is not registered is not, except for what repeated
\* registrations left: an id has one entry while it is registered and one more for
\* each time it was registered while it was registered, which no removal ever takes.
EveryServerOffered ==
    \A i \in Ids : listed[i] = again[i] + (IF i \in servers THEN 1 ELSE 0)

\* A server whose process is gone for good is forgotten, together with its heartbeat
\* clock and its entry in the list of its type, whatever requests of its last moments
\* are handled late.  An id that was registered while it was registered (a server
\* that reconnects, or was respawned within the timeout) keeps the entries that those
\* registrations added: byType offers the dead server for ever.
DeadForgotten ==
    \A i \in Ids :
        <>[](proc[i] = "off") => []<>(i \notin servers \cup tracked /\ listed[i] = again[i])

\* A server that runs, reaches the master and sends its heartbeats is listed
\* by the master again and again.
RunningListed ==
    \A i \in Ids : <>[](proc[i] = "serving" /\ link[i] = "up" /\ beating[i]) => []<>(i \in servers)
=============================================================================
