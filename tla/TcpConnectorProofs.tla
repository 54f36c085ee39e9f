------------------------- MODULE TcpConnectorProofs -------------------------
(***************************************************************************)
(* Proofs about TcpConnector for any set of connections, any timeouts, any *)
(* channel capacity and any number of messages.                            *)
(***************************************************************************)
EXTENDS TcpConnector, FiniteSetTheorems, SequenceTheorems, TLAPS

Places == {"none", "refused", "spawned", "select",
           "reading", "dispatch", "leaving", "closed", "done"}

\* What the arguments below need to know of the fields' types.
Shape ==
    /\ pc \in [Conns -> Places]
    /\ sessions \subseteq Conns
    /\ worker = [c \in Conns |-> worker[c]]
    /\ msgCh = [c \in Conns |-> msgCh[c]]

\* A connection's worker exists while its reader does, its channel is empty
\* before the worker starts and after it ends.
Workers ==
    \A c \in Conns :
        /\ worker[c].at \in {"none", "idle", "busy", "exited"}
        /\ pc[c] \in {"none", "refused", "spawned"} => worker[c] = NotStarted
        /\ pc[c] \in {"select", "reading", "dispatch", "leaving"} => worker[c].at \in {"idle", "busy"}
        /\ worker[c].at \in {"none", "exited"} => msgCh[c] = <<>>

\* Once Stop has returned no connection is in the part of readLoop that fills
\* a channel: those that open later see stopCh closed first.
Stopped ==
    stopper = "stopped" =>
        \A c \in Conns : /\ pc[c] \notin {"reading", "dispatch"}
                         /\ worker[c].at # "busy" /\ msgCh[c] = <<>>

\* checkHeartbeats has no local state between two rounds.
Rounds == heartbeat # "closing" => expired = {}

IInv == Shape /\ Workers /\ Stopped /\ Rounds /\ NoUntimedReader

\* The environment's steps.
LEMMA EnvironmentKeeps ==
    ASSUME IInv, NEW c \in Conns,
           \/ Hangup(c) \/ CloseSession(c) \/ AddToBlackList(c) \/ RemoveFromBlackList(c)
           \/ \E kind \in Kinds : Send(c, kind)
    PROVE  IInv'
  BY DEF IInv, Shape, Workers, Stopped, Rounds, NoUntimedReader, Hangup, CloseSession,
         AddToBlackList, RemoveFromBlackList, Send, tableVars, clientVars, dataVars,
         timeVars, loopVars

\* Time.
LEMMA TickKeeps == ASSUME IInv, Tick PROVE IInv'
  BY DEF IInv, Shape, Workers, Stopped, Rounds, NoUntimedReader, Tick, tableVars,
         clientVars, dataVars, loopVars

\* The accept loop.
LEMMA AcceptKeeps == ASSUME IInv, AcceptLoop PROVE IInv'
<1> USE DEF IInv, Shape, Workers, Stopped, Rounds, NoUntimedReader, tableVars, clientVars,
            dataVars, timeVars, loopVars, Places, Goto
<1>1. CASE AcceptExits  BY <1>1 DEF AcceptExits
<1>2. ASSUME NEW c \in Conns, Admit(c) PROVE IInv'  BY <1>2 DEF Admit
<1>3. ASSUME NEW c \in Conns, Refuse(c) PROVE IInv'  BY <1>3 DEF Refuse
<1> QED  BY <1>1, <1>2, <1>3 DEF AcceptLoop

\* A connection's reader.
LEMMA ReaderKeeps == ASSUME IInv, NEW c \in Conns, HandleConn(c) PROVE IInv'
<1> USE DEF IInv, Shape, Workers, Stopped, Rounds, NoUntimedReader, tableVars, clientVars,
            dataVars, timeVars, loopVars, Places, Goto
<1>1. CASE TurnAway(c)  BY <1>1 DEF TurnAway
<1>2. CASE Open(c)  BY <1>2 DEF Open, Idle, NotStarted
<1>3. CASE ReadSelect(c)  BY <1>3 DEF ReadSelect, Stopping
<1>4. CASE Read(c)  BY <1>4 DEF Read
<1>5. CASE Overrun(c)  BY <1>5 DEF Overrun
<1>6. CASE ReadFails(c)  BY <1>6 DEF ReadFails
<1>7. CASE Dispatch(c)  BY <1>7 DEF Dispatch
<1>8. CASE DispatchDone(c)  BY <1>8 DEF DispatchDone
<1>9. CASE Leave(c)  BY <1>9 DEF Leave
<1>10. CASE Return(c)  BY <1>10 DEF Return
<1> QED  BY <1>1, <1>2, <1>3, <1>4, <1>5, <1>6, <1>7, <1>8, <1>9, <1>10 DEF HandleConn

\* A session's worker.
LEMMA WorkerKeeps == ASSUME IInv, NEW c \in Conns, ProcessSessionMessages(c) PROVE IInv'
<1> USE DEF IInv, Shape, Workers, Stopped, Rounds, NoUntimedReader, tableVars, clientVars,
            dataVars, timeVars, loopVars, Places, Idle, NotStarted, Exited
<1>1. CASE Take(c)
  <2>1. worker'[c].at = "busy" /\ worker[c].at = "idle" /\ msgCh[c] # <<>>
    BY <1>1 DEF Take
  <2>2. \A d \in Conns \ {c} : worker'[d] = worker[d] /\ msgCh'[d] = msgCh[d]
    BY <1>1 DEF Take
  <2>3. Shape' /\ UNCHANGED <<pc, stopper, sessions, closed, expired, heartbeat>>
    BY <1>1 DEF Take
  <2>4. Workers'
    BY <2>1, <2>2, <2>3
  <2> QED  BY <2>1, <2>3, <2>4
<1>2. CASE HandleMessage(c)  BY <1>2 DEF HandleMessage
<1>3. CASE WorkerExits(c)  BY <1>3 DEF WorkerExits, ChanClosed
<1> QED  BY <1>1, <1>2, <1>3 DEF ProcessSessionMessages

\* The heartbeat loop and Stop.
LEMMA LoopsKeep == ASSUME IInv, HeartbeatLoop \/ StopBegins \/ Stop PROVE IInv'
<1> USE DEF IInv, Shape, Workers, Stopped, Rounds, NoUntimedReader, tableVars, clientVars,
            dataVars, timeVars, loopVars
<1>1. CASE CheckHeartbeats  BY <1>1 DEF CheckHeartbeats, Overdue
<1>2. CASE CloseExpired  BY <1>2 DEF CloseExpired, ToClose
<1>3. CASE HeartbeatExits  BY <1>3 DEF HeartbeatExits
<1>4. CASE StopBegins  BY <1>4 DEF StopBegins
<1>5. CASE LoopsDone  BY <1>5 DEF LoopsDone
<1>6. CASE WorkersDone  BY <1>6 DEF WorkersDone, NoWorkers
<1> QED  BY <1>1, <1>2, <1>3, <1>4, <1>5, <1>6 DEF HeartbeatLoop, Stop

\* The invariant of the two theorems that follow.
LEMMA Inductive == Spec => []IInv
<1>1. Init => IInv
  BY DEF Init, IInv, Shape, Workers, Stopped, Rounds, NoUntimedReader, Places, NotStarted
<1>2. IInv /\ [Next]_vars => IInv'
  <2>1. CASE UNCHANGED vars
    BY <2>1 DEF vars, IInv, Shape, Workers, Stopped, Rounds, NoUntimedReader, tableVars,
                clientVars, dataVars, timeVars, loopVars
  <2> QED  BY <2>1, EnvironmentKeeps, TickKeeps, AcceptKeeps, ReaderKeeps, WorkerKeeps,
              LoopsKeep DEF Next
<1> QED  BY <1>1, <1>2, PTL DEF Spec

\* Server.Stop: when it has returned no handler runs and none will, whatever
\* connections were on their way through handleConn.
THEOREM StopsQuietly == Spec => []QuietAfterStop
<1>1. IInv => QuietAfterStop  BY DEF IInv, Stopped, QuietAfterStop
<1> QED  BY <1>1, Inductive, PTL

\* checkHeartbeats and readLoop: a connection that lost its entry in s.sessions
\* is closed or about to be closed.
THEOREM ReadersTimed == Spec => []NoUntimedReader
<1>1. IInv => NoUntimedReader  BY DEF IInv
<1> QED  BY <1>1, Inductive, PTL

-----------------------------------------------------------------------------
\* The connections whose handleConn runs.
Serving == {c \in Conns : Served(c)}

Counted == connections \in Int /\ AdmissionBounded

\* There are finitely many of them.
LEMMA ServingFinite == IsFiniteSet(Serving) /\ Cardinality(Serving) \in Nat
  BY ConstAssumption, FS_Subset, FS_CardinalityType DEF Serving

\* A step that neither starts nor ends a handleConn keeps the count.
LEMMA SameServing ==
    ASSUME Counted, UNCHANGED connections, Serving' = Serving PROVE Counted'
  BY DEF Counted, AdmissionBounded, Serving

\* An admitted connection is counted.
LEMMA AdmitCounts ==
    ASSUME Shape, Counted, NEW c \in Conns, Admit(c) PROVE Counted'
<1>1. Serving' = Serving \cup {c} /\ c \notin Serving
  BY DEF Shape, Places, Admit, Goto, Serving, Served
<1>2. Cardinality(Serving') = Cardinality(Serving) + 1
  BY <1>1, ServingFinite, FS_AddElement
<1>3. connections' = connections + 1 /\ (MaxConns > 0 => connections < MaxConns)
  BY ConstAssumption DEF Admit, Full, Counted
<1> QED  BY <1>2, <1>3, ServingFinite, ConstAssumption DEF Counted, AdmissionBounded, Serving

\* A connection that is turned away or returns is served no longer.
LEMMA LeaveCounts ==
    ASSUME Shape, Counted, NEW c \in Conns, TurnAway(c) \/ Return(c) PROVE Counted'
<1>1. Serving' = Serving \ {c} /\ c \in Serving
  BY DEF Shape, Places, TurnAway, Return, Goto, Serving, Served
<1>2. Cardinality(Serving') = Cardinality(Serving) - 1
  BY <1>1, ServingFinite, FS_RemoveElement
<1>3. connections' \in {connections, connections - 1}
  BY DEF TurnAway, Return
<1> QED  BY <1>2, <1>3, ServingFinite, ConstAssumption DEF Counted, AdmissionBounded, Serving

\* acceptLoop and handleConn: the count covers the connections being served and
\* stays within MaxConns.
THEOREM AdmissionHolds == Spec => []AdmissionBounded
<1>1. Init => Counted
  <2> SUFFICES ASSUME Init PROVE Counted  OBVIOUS
  <2>1. Serving = {}  BY DEF Init, Serving, Served
  <2>2. Cardinality(Serving) = 0  BY <2>1, FS_EmptySet
  <2> QED  BY <2>2, ConstAssumption DEF Init, Counted, AdmissionBounded, Serving
<1>2. IInv /\ Counted /\ [Next]_vars => Counted'
  <2> SUFFICES ASSUME IInv, Counted, [Next]_vars PROVE Counted'  OBVIOUS
  <2>0. Shape  BY DEF IInv
  <2> USE DEF tableVars, clientVars, dataVars, timeVars, loopVars
  <2>1. CASE UNCHANGED vars
    BY <2>1, SameServing DEF vars, Serving, Served
  <2>2. ASSUME NEW c \in Conns, Hangup(c) \/ CloseSession(c) \/ AddToBlackList(c)
                                \/ RemoveFromBlackList(c) \/ \E kind \in Kinds : Send(c, kind)
        PROVE  Counted'
    BY <2>2, SameServing DEF Hangup, CloseSession, AddToBlackList, RemoveFromBlackList, Send,
                             Serving, Served
  <2>3. CASE Tick
    BY <2>3, SameServing DEF Tick, Serving, Served
  <2>4. ASSUME NEW c \in Conns, Refuse(c) PROVE Counted'
    <3>1. Serving' = Serving
      BY <2>0, <2>4 DEF Shape, Places, Refuse, Goto, Serving, Served
    <3> QED  BY <2>4, <3>1, SameServing DEF Refuse
  <2>5. CASE AcceptExits
    BY <2>5, SameServing DEF AcceptExits, Serving, Served
  <2>6. CASE AcceptLoop
    BY <2>0, <2>4, <2>5, <2>6, AdmitCounts DEF AcceptLoop
  <2>7. ASSUME NEW c \in Conns,
               \/ Open(c) \/ ReadSelect(c) \/ Read(c) \/ Overrun(c) \/ ReadFails(c)
               \/ Dispatch(c) \/ DispatchDone(c) \/ Leave(c)
        PROVE  Counted'
    <3>1. UNCHANGED connections
      BY <2>7 DEF Open, ReadSelect, Read, Overrun, ReadFails, Dispatch, DispatchDone, Leave
    <3>2. /\ pc[c] \in {"spawned", "select", "reading", "dispatch", "leaving"}
          /\ \E l \in {"select", "reading", "dispatch", "leaving", "closed"} :
                pc' = [pc EXCEPT ![c] = l]
      BY <2>0, <2>7 DEF Open, ReadSelect, Read, Overrun, ReadFails, Dispatch, DispatchDone,
                        Leave, Goto, Shape, Places
    <3>3. Serving' = Serving
      BY <2>0, <3>2 DEF Shape, Places, Serving, Served
    <3> QED  BY <3>1, <3>3, SameServing
  <2>8. ASSUME NEW c \in Conns, HandleConn(c) PROVE Counted'
    BY <2>0, <2>7, <2>8, LeaveCounts DEF HandleConn
  <2>9. ASSUME NEW c \in Conns, ProcessSessionMessages(c) PROVE Counted'
    BY <2>9, SameServing DEF ProcessSessionMessages, Take, HandleMessage, WorkerExits,
                             Serving, Served
  <2>10. CASE HeartbeatLoop
    BY <2>10, SameServing DEF HeartbeatLoop, CheckHeartbeats, CloseExpired, HeartbeatExits,
                              Serving, Served
  <2>11. CASE StopBegins \/ Stop
    BY <2>11, SameServing DEF StopBegins, Stop, LoopsDone, WorkersDone, Serving, Served
  <2> QED  BY <2>1, <2>2, <2>3, <2>6, <2>8, <2>9, <2>10, <2>11 DEF Next
<1>3. Counted => AdmissionBounded  BY DEF Counted
<1> QED  BY <1>1, <1>2, <1>3, Inductive, PTL DEF Spec

-----------------------------------------------------------------------------
(* The way of a frame: wire, readBuf, msgCh, worker, reply.                *)

\* The numbers of a sequence of frames, and that they increase.
Nums(q) == {q[i].n : i \in 1..Len(q)}
Increasing(q) == \A i, j \in 1..Len(q) : i < j => q[i].n < q[j].n

Before(A, B) == \A x \in A, y \in B : x < y

Answered(c) == {replies[c][i] : i \in 1..Len(replies[c])}
Handled(c) == IF worker[c].at = "busy" THEN {worker[c].msg.n} ELSE {}

FramesTyped ==
    /\ wire \in [Conns -> Seq(Frames)] /\ readBuf \in [Conns -> Seq(Frames)]
    /\ msgCh \in [Conns -> Seq(Frames)] /\ replies \in [Conns -> Seq(Nat)]
    /\ worker = [c \in Conns |-> worker[c]]
    /\ \A c \in Conns : worker[c].at = "busy" => worker[c].msg \in Frames
    /\ sent \in Nat

\* What is further on its way was sent earlier.
Passed(A, h, m, b, w, next) ==
    /\ Before(A, h) /\ Before(A, m) /\ Before(A, b) /\ Before(A, w) /\ Before(A, next)
    /\ Before(h, m) /\ Before(h, b) /\ Before(h, w) /\ Before(h, next)
    /\ Before(m, b) /\ Before(m, w) /\ Before(m, next)
    /\ Before(b, w) /\ Before(b, next)
    /\ Before(w, next)

InTurn(c) ==
    /\ Increasing(wire[c]) /\ Increasing(readBuf[c]) /\ Increasing(msgCh[c])
    /\ \A i, j \in 1..Len(replies[c]) : i < j => replies[c][i] < replies[c][j]
    /\ Passed(Answered(c), Handled(c), Nums(msgCh[c]), Nums(readBuf[c]), Nums(wire[c]), {sent + 1})

OInv == FramesTyped /\ \A c \in Conns : InTurn(c)

\* A frame at the end of a queue.
LEMMA AppendFrame ==
    ASSUME NEW q \in Seq(Frames), NEW m \in Frames
    PROVE  /\ Append(q, m) \in Seq(Frames) /\ Nums(Append(q, m)) = Nums(q) \cup {m.n}
           /\ Increasing(q) /\ Before(Nums(q), {m.n}) => Increasing(Append(q, m))
  BY DEF Nums, Increasing, Before

\* A frame at its head.
LEMMA TakeFrame ==
    ASSUME NEW q \in Seq(Frames), q # <<>>, Increasing(q)
    PROVE  /\ Head(q) \in Frames /\ Tail(q) \in Seq(Frames) /\ Increasing(Tail(q))
           /\ Nums(q) = {Head(q).n} \cup Nums(Tail(q)) /\ Before({Head(q).n}, Nums(Tail(q)))
  BY DEF Nums, Increasing, Before

\* A queue cut in two.
LEMMA CutFrames ==
    ASSUME NEW q \in Seq(Frames), NEW k \in 1..Len(q), Increasing(q),
           NEW front, front = SubSeq(q, 1, k), NEW rest, rest = SubSeq(q, k + 1, Len(q))
    PROVE  /\ front \in Seq(Frames) /\ Increasing(front) /\ Nums(front) \subseteq Nums(q)
           /\ rest \in Seq(Frames) /\ Increasing(rest) /\ Nums(rest) \subseteq Nums(q)
           /\ Before(Nums(front), Nums(rest))
<1>1. PICK len \in Nat : len = Len(q) /\ k \in 1..len
  OBVIOUS
<1>2. front \in Seq(Frames) /\ Len(front) = k /\ \A i \in 1..k : front[i] = q[i]
  BY <1>1
<1>3. /\ rest \in Seq(Frames) /\ Len(rest) = len - k
      /\ \A i \in 1..(len - k) : rest[i] = q[k + i]
  <2>1. PICK low \in Int : low = k + 1
    BY <1>1
  <2>2. \A i \in low..len : q[i] \in Frames
    BY <1>1, <2>1
  <2>3. /\ SubSeq(q, low, len) \in Seq(Frames)
        /\ Len(SubSeq(q, low, len)) = IF low <= len THEN len - low + 1 ELSE 0
        /\ \A i \in 1..(len - low + 1) : SubSeq(q, low, len)[i] = q[low + i - 1]
    BY <1>1, <2>1, <2>2, SubSeqProperties
  <2>4. rest = SubSeq(q, low, len)
    BY <1>1, <2>1
  <2>5. Len(rest) = len - k
    BY <1>1, <2>1, <2>3, <2>4
  <2>6. ASSUME NEW i \in 1..(len - k) PROVE rest[i] = q[k + i]
    <3>1. i \in 1..(len - low + 1) /\ low + i - 1 = k + i
      BY <1>1, <2>1
    <3>2. QED
      BY <2>3, <2>4, <3>1
  <2>7. QED
    BY <2>3, <2>4, <2>5, <2>6
<1>4. Increasing(front) /\ Nums(front) \subseteq Nums(q)
  BY <1>1, <1>2 DEF Increasing, Nums
<1>5. Increasing(rest) /\ Nums(rest) \subseteq Nums(q)
  <2>1. ASSUME NEW i \in 1..(len - k), NEW j \in 1..(len - k), i < j
        PROVE  rest[i].n < rest[j].n
    <3>1. k + i \in 1..len /\ k + j \in 1..len /\ k + i < k + j
      BY <1>1, <2>1
    <3>2. QED
      BY <1>1, <1>3, <3>1 DEF Increasing
  <2>2. ASSUME NEW i \in 1..(len - k) PROVE rest[i].n \in Nums(q)
    <3>1. k + i \in 1..len
      BY <1>1
    <3>2. QED
      BY <1>1, <1>3, <3>1 DEF Nums
  <2>3. Increasing(rest)
    BY <1>3, <2>1 DEF Increasing
  <2>4. Nums(rest) \subseteq Nums(q)
    BY <1>3, <2>2 DEF Nums
  <2>5. QED
    BY <2>3, <2>4
<1>6. Before(Nums(front), Nums(rest))
  <2>1. ASSUME NEW i \in 1..k, NEW j \in 1..(len - k) PROVE front[i].n < rest[j].n
    <3>1. i \in 1..len /\ k + j \in 1..len /\ i < k + j
      BY <1>1
    <3>2. QED
      BY <1>1, <1>2, <1>3, <3>1 DEF Increasing
  <2>2. QED
    <3>1. Nums(front) = {front[i].n : i \in 1..k} /\ Nums(rest) = {rest[j].n : j \in 1..(len - k)}
      BY <1>2, <1>3 DEF Nums
    <3>2. QED
      BY <2>1, <3>1 DEF Before
<1>7. QED
  BY <1>2, <1>3, <1>4, <1>5, <1>6

\* Numbers are numbers.
LEMMA NumsTyped ==
    ASSUME OInv, NEW c \in Conns
    PROVE  /\ Answered(c) \subseteq Int /\ Handled(c) \subseteq Int /\ Nums(msgCh[c]) \subseteq Int
           /\ Nums(readBuf[c]) \subseteq Int /\ Nums(wire[c]) \subseteq Int
<1>1. \A m \in Frames : m.n \in Int
  BY ConstAssumption DEF Frames
<1>2. \A q \in Seq(Frames) : Nums(q) \subseteq Int
  BY <1>1 DEF Nums
<1>3. Answered(c) \subseteq Int
  BY DEF OInv, FramesTyped, Answered
<1>4. Handled(c) \subseteq Int
  BY <1>1 DEF OInv, FramesTyped, Handled
<1>5. QED
  BY <1>2, <1>3, <1>4 DEF OInv, FramesTyped

\* The frames of a connection that a step does not touch stay in turn.
LEMMA OthersInTurn ==
    ASSUME OInv, sent' \in Nat, sent <= sent', NEW c \in Conns,
           wire'[c] = wire[c], readBuf'[c] = readBuf[c], msgCh'[c] = msgCh[c],
           Handled(c)' = Handled(c), replies'[c] = replies[c]
    PROVE  InTurn(c)'
<1>1. Answered(c)' = Answered(c)
  BY DEF Answered
<1>2. Before({sent}, {sent' + 1})
  BY DEF Before, OInv, FramesTyped
<1>3. \A A : (\A x \in A : x \in Int) /\ Before(A, {sent + 1}) => Before(A, {sent' + 1})
  BY DEF Before, OInv, FramesTyped
<1>4. /\ Answered(c) \subseteq Int /\ Handled(c) \subseteq Int /\ Nums(msgCh[c]) \subseteq Int
      /\ Nums(readBuf[c]) \subseteq Int /\ Nums(wire[c]) \subseteq Int
  BY NumsTyped
<1>5. QED
  BY <1>1, <1>3, <1>4 DEF OInv, InTurn, Passed

\* A client sends a frame.
LEMMA SendInTurn == ASSUME OInv, NEW c \in Conns, NEW kind \in Kinds, Send(c, kind) PROVE OInv'
<1>1. PICK m \in Frames : m = [n |-> sent + 1, kind |-> kind]
  <2>1. sent + 1 \in 1..MaxMsgs
    BY ConstAssumption DEF OInv, FramesTyped, Send
  <2>2. [n |-> sent + 1, kind |-> kind] \in Frames
    BY <2>1 DEF Frames
  <2>3. QED
    BY <2>2
<1>2. /\ wire' = [wire EXCEPT ![c] = Append(wire[c], m)] /\ sent' = sent + 1
      /\ UNCHANGED <<readBuf, msgCh, worker, replies>>
  BY <1>1 DEF Send
<1>3. m.n = sent + 1 /\ wire[c] \in Seq(Frames) /\ sent \in Nat /\ wire'[c] = Append(wire[c], m)
  BY <1>1, <1>2 DEF OInv, FramesTyped
<1>4. /\ wire'[c] \in Seq(Frames) /\ Nums(wire'[c]) = Nums(wire[c]) \cup {m.n}
      /\ Increasing(wire'[c])
  BY <1>1, <1>3, AppendFrame DEF OInv, InTurn, Passed
<1>5. FramesTyped'
  BY <1>2, <1>3, <1>4 DEF OInv, FramesTyped
<1>6. InTurn(c)'
  <2>1. /\ Answered(c)' = Answered(c) /\ Handled(c)' = Handled(c)
        /\ Increasing(readBuf'[c]) /\ Increasing(msgCh'[c])
        /\ \A i, j \in 1..Len(replies'[c]) : i < j => replies'[c][i] < replies'[c][j]
    BY <1>2 DEF Answered, Handled, OInv, InTurn
  <2>2. /\ Answered(c) \subseteq Int /\ Handled(c) \subseteq Int /\ Nums(msgCh[c]) \subseteq Int
        /\ Nums(readBuf[c]) \subseteq Int /\ Nums(wire[c]) \subseteq Int
    BY NumsTyped
  <2>3. Passed(Answered(c), Handled(c), Nums(msgCh[c]), Nums(readBuf[c]), Nums(wire'[c]), {sent' + 1})
    <3>1. Passed(Answered(c), Handled(c), Nums(msgCh[c]), Nums(readBuf[c]), Nums(wire[c]), {sent + 1})
      BY DEF OInv, InTurn
    <3>2. QED
      BY <1>2, <1>3, <1>4, <2>2, <3>1 DEF Passed, Before
  <2>4. QED
    BY <1>2, <1>4, <2>1, <2>3 DEF InTurn
<1>7. ASSUME NEW d \in Conns, d # c PROVE InTurn(d)'
  BY <1>2, <1>3, <1>7, OthersInTurn DEF OInv, FramesTyped, Handled
<1>8. QED
  BY <1>5, <1>6, <1>7 DEF OInv

\* Read moves frames from the wire to readBuf; Leave drops what is there.
LEMMA ReadInTurn == ASSUME OInv, NEW c \in Conns, Read(c) \/ Leave(c) PROVE OInv'
<1>1. PICK f \in Seq(Frames), r \in Seq(Frames) :
        /\ readBuf' = [readBuf EXCEPT ![c] = f] /\ wire' = [wire EXCEPT ![c] = r]
        /\ Increasing(f) /\ Increasing(r) /\ Before(Nums(f), Nums(r))
        /\ Nums(f) \subseteq Nums(wire[c]) /\ Nums(r) \subseteq Nums(wire[c])
  <2>1. wire[c] \in Seq(Frames) /\ Increasing(wire[c])
    BY DEF OInv, FramesTyped, InTurn
  <2>2. CASE Read(c)
    <3>1. PICK k \in 1..Len(wire[c]) :
             /\ readBuf' = [readBuf EXCEPT ![c] = SubSeq(wire[c], 1, k)]
             /\ wire' = [wire EXCEPT ![c] = SubSeq(wire[c], k + 1, Len(wire[c]))]
      BY <2>2 DEF Read
    <3>2. PICK front, rest : /\ front = SubSeq(wire[c], 1, k)
                             /\ rest = SubSeq(wire[c], k + 1, Len(wire[c]))
      OBVIOUS
    <3>3. /\ front \in Seq(Frames) /\ Increasing(front) /\ Nums(front) \subseteq Nums(wire[c])
          /\ rest \in Seq(Frames) /\ Increasing(rest) /\ Nums(rest) \subseteq Nums(wire[c])
          /\ Before(Nums(front), Nums(rest))
      BY <2>1, <3>2, CutFrames
    <3>4. QED
      BY <3>1, <3>2, <3>3
  <2>3. CASE Leave(c)
    <3>1. Nums(<<>>) = {} /\ Increasing(<<>>) /\ <<>> \in Seq(Frames)
      BY DEF Nums, Increasing
    <3>2. QED
      BY <2>3, <3>1 DEF Leave, Before
  <2>4. QED
    BY <2>2, <2>3
<1>2. UNCHANGED <<msgCh, worker, replies, sent>>
  BY DEF Read, Leave, clientVars
<1>3. readBuf'[c] = f /\ wire'[c] = r /\ FramesTyped'
  BY <1>1, <1>2 DEF OInv, FramesTyped
<1>4. InTurn(c)'
  <2>1. Answered(c)' = Answered(c) /\ Handled(c)' = Handled(c)
    BY <1>2 DEF Answered, Handled
  <2>2. Passed(Answered(c), Handled(c), Nums(msgCh[c]), Nums(f), Nums(r), {sent + 1})
    <3>1. Passed(Answered(c), Handled(c), Nums(msgCh[c]), Nums(readBuf[c]), Nums(wire[c]), {sent + 1})
      BY DEF OInv, InTurn
    <3>2. QED
      BY <1>1, <3>1 DEF Passed, Before
  <2>3. QED
    BY <1>1, <1>2, <1>3, <2>1, <2>2 DEF InTurn, OInv
<1>5. ASSUME NEW d \in Conns, d # c PROVE InTurn(d)'
  BY <1>1, <1>2, <1>5, OthersInTurn DEF OInv, FramesTyped, Handled
<1>6. QED
  BY <1>3, <1>4, <1>5 DEF OInv

\* dispatchMessages moves a frame from readBuf to msgCh, or drops it.
LEMMA DispatchInTurn == ASSUME OInv, NEW c \in Conns, Dispatch(c) PROVE OInv'
<1>1. PICK m \in Frames, b \in Seq(Frames) :
        /\ m = Head(readBuf[c]) /\ b = Tail(readBuf[c]) /\ Increasing(b)
        /\ Nums(readBuf[c]) = {m.n} \cup Nums(b) /\ Before({m.n}, Nums(b))
  BY TakeFrame DEF Dispatch, OInv, FramesTyped, InTurn
<1>2. PICK ch \in Seq(Frames) :
        /\ msgCh' = [msgCh EXCEPT ![c] = ch] /\ Increasing(ch)
        /\ Nums(ch) \subseteq Nums(msgCh[c]) \cup {m.n}
  <2>1. msgCh' = [msgCh EXCEPT ![c] = Offer(msgCh[c], m)]
    BY <1>1 DEF Dispatch
  <2>2. msgCh[c] \in Seq(Frames) /\ Increasing(msgCh[c])
    BY DEF OInv, FramesTyped, InTurn
  <2>3. Before(Nums(msgCh[c]), {m.n})
    BY <1>1 DEF OInv, InTurn, Passed, Before
  <2>4. CASE Offer(msgCh[c], m) = msgCh[c]
    BY <2>1, <2>2, <2>4
  <2>5. CASE Offer(msgCh[c], m) = Append(msgCh[c], m)
    BY <2>1, <2>2, <2>3, <2>5, AppendFrame
  <2>6. QED
    BY <2>4, <2>5 DEF Offer
<1>3. readBuf' = [readBuf EXCEPT ![c] = b] /\ UNCHANGED <<wire, worker, replies, sent>>
  BY <1>1 DEF Dispatch, clientVars
<1>4. readBuf'[c] = b /\ msgCh'[c] = ch /\ FramesTyped'
  BY <1>1, <1>2, <1>3 DEF OInv, FramesTyped
<1>5. InTurn(c)'
  <2>1. Answered(c)' = Answered(c) /\ Handled(c)' = Handled(c)
    BY <1>3 DEF Answered, Handled
  <2>2. Passed(Answered(c), Handled(c), Nums(ch), Nums(b), Nums(wire[c]), {sent + 1})
    <3>1. Passed(Answered(c), Handled(c), Nums(msgCh[c]), Nums(readBuf[c]), Nums(wire[c]), {sent + 1})
      BY DEF OInv, InTurn
    <3>2. QED
      BY <1>1, <1>2, <3>1 DEF Passed, Before
  <2>3. QED
    BY <1>1, <1>2, <1>3, <1>4, <2>1, <2>2 DEF InTurn, OInv
<1>6. ASSUME NEW d \in Conns, d # c PROVE InTurn(d)'
  BY <1>2, <1>3, <1>6, OthersInTurn DEF OInv, FramesTyped, Handled
<1>7. QED
  BY <1>4, <1>5, <1>6 DEF OInv

\* The worker receives a message from its channel.
LEMMA TakeInTurn == ASSUME OInv, NEW c \in Conns, Take(c) PROVE OInv'
<1>1. PICK m \in Frames, ch \in Seq(Frames) :
        /\ m = Head(msgCh[c]) /\ ch = Tail(msgCh[c]) /\ Increasing(ch)
        /\ Nums(msgCh[c]) = {m.n} \cup Nums(ch) /\ Before({m.n}, Nums(ch))
  BY TakeFrame DEF Take, OInv, FramesTyped, InTurn
<1>2. /\ worker' = [worker EXCEPT ![c] = [at |-> "busy", msg |-> m]]
      /\ msgCh' = [msgCh EXCEPT ![c] = ch] /\ UNCHANGED <<wire, readBuf, replies, sent>>
  BY <1>1 DEF Take, clientVars
<1>3. /\ msgCh'[c] = ch /\ worker'[c] = [at |-> "busy", msg |-> m]
      /\ \A d \in Conns \ {c} : worker'[d] = worker[d]
  BY <1>2 DEF OInv, FramesTyped
<1>4. FramesTyped'
  BY <1>1, <1>2, <1>3 DEF OInv, FramesTyped
<1>5. InTurn(c)'
  <2>1. Answered(c)' = Answered(c) /\ Handled(c)' = {m.n}
    BY <1>2, <1>3 DEF Answered, Handled
  <2>2. Passed(Answered(c), {m.n}, Nums(ch), Nums(readBuf[c]), Nums(wire[c]), {sent + 1})
    <3>1. Passed(Answered(c), Handled(c), Nums(msgCh[c]), Nums(readBuf[c]), Nums(wire[c]), {sent + 1})
      BY DEF OInv, InTurn
    <3>2. QED
      BY <1>1, <3>1 DEF Passed, Before
  <2>3. QED
    BY <1>1, <1>2, <1>3, <2>1, <2>2 DEF InTurn, OInv
<1>6. ASSUME NEW d \in Conns, d # c PROVE InTurn(d)'
  <2>1. Handled(d)' = Handled(d)
    BY <1>3, <1>6 DEF Handled
  <2>2. wire'[d] = wire[d] /\ readBuf'[d] = readBuf[d] /\ msgCh'[d] = msgCh[d] /\ replies'[d] = replies[d]
        /\ sent' \in Nat /\ sent <= sent'
    BY <1>2, <1>6 DEF OInv, FramesTyped
  <2>3. QED
    BY <2>1, <2>2, OthersInTurn
<1>7. QED
  BY <1>4, <1>5, <1>6 DEF OInv

\* handleMessage answers the message in hand, at most once.
LEMMA HandleInTurn == ASSUME OInv, NEW c \in Conns, HandleMessage(c) PROVE OInv'
<1>1. PICK n \in Nat : worker[c].at = "busy" /\ n = worker[c].msg.n /\ Handled(c) = {n}
  BY ConstAssumption DEF HandleMessage, OInv, FramesTyped, Frames, Handled
<1>2. /\ worker' = [worker EXCEPT ![c] = Idle]
      /\ UNCHANGED replies \/ replies' = [replies EXCEPT ![c] = Append(replies[c], n)]
      /\ UNCHANGED <<wire, readBuf, msgCh, sent>>
  BY <1>1 DEF HandleMessage, clientVars
<1>3. worker'[c] = Idle /\ \A d \in Conns \ {c} : worker'[d] = worker[d]
  BY <1>2 DEF OInv, FramesTyped
<1>4. FramesTyped' /\ replies[c] \in Seq(Nat) /\ \A d \in Conns \ {c} : replies'[d] = replies[d]
  <2>1. replies[c] \in Seq(Nat) /\ Append(replies[c], n) \in Seq(Nat)
    BY DEF OInv, FramesTyped
  <2>2. replies' \in [Conns -> Seq(Nat)] /\ \A d \in Conns \ {c} : replies'[d] = replies[d]
    BY <1>2, <2>1 DEF OInv, FramesTyped
  <2>3. worker' = [d \in Conns |-> worker'[d]]
    BY <1>2 DEF OInv, FramesTyped
  <2>4. \A d \in Conns : worker'[d].at = "busy" => worker'[d].msg \in Frames
    <3>1. worker'[c].at # "busy"
      BY <1>3 DEF Idle
    <3>2. QED
      BY <1>3, <3>1 DEF OInv, FramesTyped
  <2>5. QED
    BY <1>2, <2>1, <2>2, <2>3, <2>4 DEF OInv, FramesTyped
<1>5. /\ Answered(c)' \subseteq Answered(c) \cup {n}
      /\ \A i, j \in 1..Len(replies'[c]) : i < j => replies'[c][i] < replies'[c][j]
  <2>1. /\ \A i, j \in 1..Len(replies[c]) : i < j => replies[c][i] < replies[c][j]
        /\ \A i \in 1..Len(replies[c]) : replies[c][i] < n
    BY <1>1 DEF OInv, InTurn, Passed, Before, Answered
  <2>2. CASE UNCHANGED replies
    BY <2>1, <2>2 DEF Answered
  <2>3. CASE replies' = [replies EXCEPT ![c] = Append(replies[c], n)]
    <3>1. replies'[c] = Append(replies[c], n)
      BY <2>3 DEF OInv, FramesTyped
    <3>2. PICK k \in Nat : k = Len(replies[c])
      BY <1>4
    <3>3. /\ Len(replies'[c]) = k + 1 /\ replies'[c][k + 1] = n
          /\ \A i \in 1..k : replies'[c][i] = replies[c][i]
      BY <1>4, <3>1, <3>2
    <3>4. ASSUME NEW i \in 1..(k + 1), NEW j \in 1..(k + 1), i < j
          PROVE  replies'[c][i] < replies'[c][j]
      <4>1. i \in 1..k /\ (j \in 1..k \/ j = k + 1)
        BY <3>4
      <4>2. QED
        BY <2>1, <3>2, <3>3, <3>4, <4>1
    <3>5. Answered(c)' \subseteq Answered(c) \cup {n}
      BY <3>2, <3>3 DEF Answered
    <3>6. QED
      BY <3>3, <3>4, <3>5
  <2>4. QED
    BY <1>2, <2>2, <2>3
<1>6. InTurn(c)'
  <2>1. Handled(c)' = {}
    BY <1>3 DEF Handled, Idle
  <2>2. Passed(Answered(c)', {}, Nums(msgCh[c]), Nums(readBuf[c]), Nums(wire[c]), {sent + 1})
    <3>1. Passed(Answered(c), {n}, Nums(msgCh[c]), Nums(readBuf[c]), Nums(wire[c]), {sent + 1})
      BY <1>1 DEF OInv, InTurn
    <3>2. QED
      BY <1>5, <3>1 DEF Passed, Before
  <2>3. QED
    BY <1>2, <1>5, <2>1, <2>2 DEF InTurn, OInv
<1>7. ASSUME NEW d \in Conns, d # c PROVE InTurn(d)'
  <2>1. Handled(d)' = Handled(d)
    BY <1>3, <1>7 DEF Handled
  <2>2. wire'[d] = wire[d] /\ readBuf'[d] = readBuf[d] /\ msgCh'[d] = msgCh[d] /\ replies'[d] = replies[d]
        /\ sent' \in Nat /\ sent <= sent'
    BY <1>2, <1>4, <1>7 DEF OInv, FramesTyped
  <2>3. QED
    BY <2>1, <2>2, OthersInTurn
<1>8. QED
  BY <1>4, <1>6, <1>7 DEF OInv

\* Steps that move no frame.
LEMMA RestInTurn ==
    ASSUME OInv, UNCHANGED <<wire, readBuf, msgCh, replies, sent>>,
           worker' = worker \/ \E c \in Conns, w \in {Idle, Exited} :
                                  worker[c].at # "busy" /\ worker' = [worker EXCEPT ![c] = w]
    PROVE  OInv'
<1>1. FramesTyped' /\ \A c \in Conns : Handled(c)' = Handled(c)
  <2>1. CASE worker' = worker
    BY <2>1 DEF OInv, FramesTyped, Handled
  <2>2. ASSUME NEW c \in Conns, NEW w \in {Idle, Exited},
               worker[c].at # "busy", worker' = [worker EXCEPT ![c] = w]
        PROVE  FramesTyped' /\ \A d \in Conns : Handled(d)' = Handled(d)
    <3>1. worker'[c] = w /\ \A d \in Conns \ {c} : worker'[d] = worker[d]
      BY <2>2 DEF OInv, FramesTyped
    <3>2. w.at # "busy"
      BY DEF Idle, Exited
    <3>3. QED
      BY <2>2, <3>1, <3>2 DEF OInv, FramesTyped, Handled
  <2>3. QED
    BY <2>1, <2>2
<1>2. \A c \in Conns : InTurn(c)'
  BY <1>1, OthersInTurn DEF OInv, FramesTyped
<1>3. QED
  BY <1>1, <1>2 DEF OInv

\* readLoop, dispatchMessages and processSessionMessages: a client gets the replies to
\* its requests in the order of the requests, none twice, whatever is dropped between.
THEOREM AnswersInOrder == Spec => []RepliesInOrder
<1>1. Init => OInv
  <2> SUFFICES ASSUME Init PROVE OInv
    OBVIOUS
  <2>1. FramesTyped /\ \A c \in Conns : Handled(c) = {}
    BY DEF Init, FramesTyped, Handled, NotStarted
  <2>2. ASSUME NEW c \in Conns PROVE InTurn(c)
    <3>1. /\ wire[c] = <<>> /\ readBuf[c] = <<>> /\ msgCh[c] = <<>> /\ replies[c] = <<>>
      BY DEF Init
    <3>2. /\ Nums(wire[c]) = {} /\ Nums(readBuf[c]) = {} /\ Nums(msgCh[c]) = {} /\ Answered(c) = {}
      BY <3>1 DEF Nums, Answered
    <3>3. QED
      BY <2>1, <3>1, <3>2 DEF InTurn, Increasing, Passed, Before
  <2>3. QED
    BY <2>1, <2>2 DEF OInv
<1>2. IInv /\ OInv /\ [Next]_vars => OInv'
  <2> SUFFICES ASSUME IInv, OInv, [Next]_vars PROVE OInv'
    OBVIOUS
  <2> USE DEF tableVars, clientVars, dataVars, timeVars, loopVars
  <2>1. ASSUME NEW c \in Conns, Hangup(c) \/ CloseSession(c) \/ AddToBlackList(c) \/ RemoveFromBlackList(c)
        PROVE  OInv'
    BY <2>1, RestInTurn DEF Hangup, CloseSession, AddToBlackList, RemoveFromBlackList
  <2>2. CASE Tick \/ AcceptLoop
    BY <2>2, RestInTurn DEF Tick, AcceptLoop, AcceptExits, Admit, Refuse
  <2>3. ASSUME NEW c \in Conns, Open(c) PROVE OInv'
    <3>1. worker[c].at # "busy" /\ worker' = [worker EXCEPT ![c] = Idle]
      BY <2>3 DEF Open, IInv, Workers, NotStarted
    <3>2. QED
      BY <2>3, <3>1, RestInTurn DEF Open
  <2>4. ASSUME NEW c \in Conns, HandleConn(c) PROVE OInv'
    <3>1. CASE TurnAway(c) \/ ReadSelect(c) \/ Overrun(c) \/ ReadFails(c) \/ DispatchDone(c) \/ Return(c)
      BY <3>1, RestInTurn DEF TurnAway, ReadSelect, Overrun, ReadFails, DispatchDone, Return
    <3>2. QED
      BY <2>3, <2>4, <3>1, ReadInTurn, DispatchInTurn DEF HandleConn
  <2>5. ASSUME NEW c \in Conns, WorkerExits(c) PROVE OInv'
    <3>1. worker[c].at # "busy" /\ worker' = [worker EXCEPT ![c] = Exited]
      BY <2>5 DEF WorkerExits, Idle
    <3>2. QED
      BY <2>5, <3>1, RestInTurn DEF WorkerExits
  <2>6. ASSUME NEW c \in Conns, ProcessSessionMessages(c) PROVE OInv'
    BY <2>5, <2>6, TakeInTurn, HandleInTurn DEF ProcessSessionMessages
  <2>7. CASE HeartbeatLoop
    BY <2>7, RestInTurn DEF HeartbeatLoop, CheckHeartbeats, CloseExpired, HeartbeatExits
  <2>8. CASE StopBegins \/ Stop
    BY <2>8, RestInTurn DEF StopBegins, Stop, LoopsDone, WorkersDone
  <2>9. CASE UNCHANGED vars
    BY <2>9, RestInTurn DEF vars
  <2>10. QED
    BY <2>1, <2>2, <2>4, <2>6, <2>7, <2>8, <2>9, SendInTurn DEF Next
<1>3. OInv => RepliesInOrder
  <2>1. ASSUME OInv, NEW c \in Conns PROVE DOMAIN replies[c] = 1..Len(replies[c])
    BY <2>1 DEF OInv, FramesTyped
  <2>2. QED
    BY <2>1 DEF OInv, InTurn, RepliesInOrder
<1>4. QED
  BY <1>1, <1>2, <1>3, Inductive, PTL DEF Spec
=============================================================================
