---------------------------- MODULE Connections ----------------------------
(***************************************************************************)
(* ConnectionManager, Channel and ChannelManager of component/component.go *)
(* with the sessions of lib/session.go that they refer to.  A connection   *)
(* has one session, made when it is accepted, under the same name; the     *)
(* anonymous ones have the session id 0.                                   *)
(***************************************************************************)
EXTENDS Integers, FiniteSets

CONSTANTS
    Conns,      \* connections
    Anonymous   \* the ones whose session has the id 0

ASSUME ConnectionsAssumption == Anonymous \subseteq Conns

VARIABLES
    accepted,   \* history: connections that have been added
    conns,      \* m.conns
    lookup,     \* m.sessions: the sessions GetSession finds, except under id 0
    zero,       \* m.sessions[0]: sessions that were stored there, the last one counts
    stayed      \* history: connections closed by CloseConnection

connectionVars == <<accepted, conns, lookup, zero, stayed>>

ConnectionsInit == accepted = {} /\ conns = {} /\ lookup = {} /\ zero = {} /\ stayed = {}

\* Add stores the session under its id.
StoreSession(c) ==
    IF c \in Anonymous THEN zero' = {c} /\ UNCHANGED lookup
                       ELSE lookup' = lookup \cup {c} /\ UNCHANGED zero

AddConnection(c) ==
    /\ c \notin accepted /\ accepted' = accepted \cup {c}
    /\ conns' = conns \cup {c} /\ StoreSession(c)
    /\ UNCHANGED stayed

\* Fault: the entry of the session stays.
RemoveKeepsSession(c) ==
    /\ c \in conns /\ conns' = conns \ {c} /\ UNCHANGED <<lookup, accepted, zero, stayed>>

\* RemoveConnection; a session with id 0 stays.
RemoveConnection(c) ==
    /\ c \in conns /\ conns' = conns \ {c} /\ lookup' = lookup \ {c}
    /\ UNCHANGED <<accepted, zero, stayed>>

\* CloseConnection leaves the session in the table.
CloseConnection(c) ==
    /\ c \in conns /\ conns' = conns \ {c} /\ stayed' = stayed \cup {c}
    /\ UNCHANGED <<accepted, lookup, zero>>

CloseAll ==
    /\ conns' = {} /\ lookup' = {} /\ zero' = {} /\ stayed' = {}
    /\ UNCHANGED accepted

ConnectionsNext ==
    \/ \E c \in Conns : AddConnection(c) \/ RemoveConnection(c) \/ CloseConnection(c)
    \/ CloseAll

\* GetSession finds the session of every connection GetConnection finds, and no
\* session outlives its connection unless CloseConnection closed it.
SessionsOfConns ==
    /\ conns \ Anonymous \subseteq lookup
    /\ lookup \subseteq conns \cup stayed

-----------------------------------------------------------------------------
(* Channels.  ChannelManager maps one name to a Channel; whoever got a     *)
(* Channel keeps using it after the manager has dropped it.                *)

CONSTANTS
    Joiners,    \* sessions
    MaxChans,   \* bound on the Channels made
    Pushers     \* goroutines that call Push

ASSUME ChannelAssumption == MaxChans \in Nat

VARIABLES
    chans,      \* number of Channels made; a Channel is its number
    listed,     \* the Channel the manager has, 0 for none
    group,      \* Channel -> c.group
    broken,     \* sessions that are closed or whose connection fails to send
    pushing,    \* goroutine -> Push: [at, left, trying, attempt, copied]
    got         \* goroutine -> session -> messages sent to it by this Push

channelVars == <<chans, listed, group, broken, pushing, got>>

Channels == 1 .. MaxChans

NoPush == [at |-> 0, left |-> {}, trying |-> {}, attempt |-> 0, copied |-> {}]
NoneGot == [s \in Joiners |-> 0]

ChannelInit ==
    /\ chans = 0 /\ listed = 0 /\ group = [c \in Channels |-> {}] /\ broken = {}
    /\ pushing = [g \in Pushers |-> NoPush] /\ got = [g \in Pushers |-> NoneGot]

\* Create; an existing channel is returned as it is.
CreateChannel ==
    /\ listed = 0 /\ chans < MaxChans /\ chans' = chans + 1 /\ listed' = chans + 1
    /\ UNCHANGED <<group, broken, pushing, got>>

\* ChannelManager.Remove and Clear.
DropChannel == listed # 0 /\ listed' = 0 /\ UNCHANGED <<chans, group, broken, pushing, got>>

\* Channel.Add, Remove and Clear, by anybody who has the channel.
Regroup(c, sessions) ==
    /\ c <= chans /\ group' = [group EXCEPT ![c] = sessions]
    /\ UNCHANGED <<chans, listed, broken, pushing, got>>

Join(c, s) == Regroup(c, group[c] \cup {s})
Leave(c, s) == Regroup(c, group[c] \ {s})
ClearChannel(c) == Regroup(c, {})

\* Session.Close, or the connection's queue is full: from now on Send returns an error.
BreakSession(s) ==
    /\ s \notin broken /\ broken' = broken \cup {s}
    /\ UNCHANGED <<chans, listed, group, pushing, got>>

\* Push copies the members under the read lock.
ChannelPush(g, c) ==
    /\ pushing[g].at = 0 /\ c <= chans
    /\ pushing' = [pushing EXCEPT ![g] = [at |-> c, left |-> group[c], trying |-> {}, attempt |-> 0, copied |-> group[c]]]
    /\ UNCHANGED <<chans, listed, group, broken, got>>

\* An attempt of Push to send to s: the attempts at s go on, or the next session's turn comes.
Attempted(p, s, over) ==
    IF over THEN [p EXCEPT !.left = @ \ {s}, !.trying = {}, !.attempt = 0]
            ELSE [p EXCEPT !.trying = {s}, !.attempt = @ + 1]

\* Fault: all attempts are made, whether or not one succeeds.
ChannelSendOn(g, s) ==
    /\ s \in pushing[g].left /\ pushing[g].trying \subseteq {s}
    /\ got' = [got EXCEPT ![g][s] = IF s \in broken THEN @ ELSE @ + 1]
    /\ pushing' = [pushing EXCEPT ![g] = Attempted(@, s, @.attempt = 2)]
    /\ UNCHANGED <<chans, listed, group, broken>>

\* Push sends to the members one after the other: up to three attempts each, which
\* end with the first that succeeds.
ChannelSend(g, s) ==
    /\ s \in pushing[g].left /\ pushing[g].trying \subseteq {s}
    /\ got' = [got EXCEPT ![g][s] = IF s \in broken THEN @ ELSE @ + 1]
    /\ pushing' = [pushing EXCEPT ![g] = Attempted(@, s, s \notin broken \/ @.attempt = 2)]
    /\ UNCHANGED <<chans, listed, group, broken>>

\* Push returns.
ChannelPushEnd(g) ==
    /\ pushing[g].at # 0 /\ pushing[g].left = {} /\ pushing' = [pushing EXCEPT ![g] = NoPush]
    /\ got' = [got EXCEPT ![g] = NoneGot]
    /\ UNCHANGED <<chans, listed, group, broken>>

ChannelNext ==
    \/ CreateChannel \/ DropChannel
    \/ \E c \in Channels : ClearChannel(c) \/ \E s \in Joiners : Join(c, s) \/ Leave(c, s)
    \/ \E s \in Joiners : BreakSession(s)
    \/ \E g \in Pushers : ChannelPushEnd(g) \/ (\E c \in Channels : ChannelPush(g, c))
                          \/ \E s \in Joiners : ChannelSend(g, s)

\* A Push sends once to every member it has dealt with, whoever joins or leaves, or
\* drops the channel, meanwhile; only sessions that failed get nothing, and they do
\* not keep the message from the others.
ChannelPushedOnce ==
    \A g \in Pushers : \A s \in Joiners :
        /\ got[g][s] <= 1 /\ (got[g][s] = 1 /\ pushing[g].at # 0 => s \in pushing[g].copied)
        /\ pushing[g].at # 0 /\ s \in pushing[g].copied \ pushing[g].left => got[g][s] = 1 \/ s \in broken
=============================================================================
