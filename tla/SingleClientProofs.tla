------------------------- MODULE SingleClientProofs -------------------------
(***************************************************************************)
(* Proofs about SingleClient for any set of calls.                         *)
(***************************************************************************)
EXTENDS SingleClient, TLAPS

\* A call that has not begun has an untouched future that nobody owns.
FreshCalls ==
    \A c \in Calls : pc[c] = "idle" =>
        /\ c \notin pending \cup taken \cup orphans
        /\ closes[c] = 0 /\ future[c] = "open"

\* The loop reads again only below the limit of failures.
BelowLimit == rx \in {"top", "read", "handle", "failed"} => errorCount < MaxErrors

IInv == SingleTypeOK /\ BelowLimit /\ OneOwner /\ FreshCalls /\ CompletedOnce /\ NoStaleEntry

-----------------------------------------------------------------------------
\* A new client.
LEMMA InitIInv == SingleInit => IInv
  <1> SUFFICES ASSUME SingleInit PROVE IInv
    OBVIOUS
  <1>1. SingleTypeOK
    <2>1. errorCount \in 0..MaxErrors
      BY SingleAssumption DEF SingleInit
    <2>2. closed \in BOOLEAN /\ cancelled \in BOOLEAN
      BY DEF SingleInit
    <2>3. wire = {} /\ packet = {}
      BY DEF SingleInit
    <2>4. closes \in [Calls -> Nat] /\ future \in [Calls -> Outcomes]
      BY DEF SingleInit, Outcomes
    <2> QED
      BY <2>1, <2>2, <2>3, <2>4 DEF SingleInit, SingleTypeOK
  <1> QED
    BY <1>1, SingleAssumption
    DEF SingleInit, IInv, BelowLimit, OneOwner, FreshCalls, CompletedOnce, NoStaleEntry

\* Every step keeps the types, and the failure count below its limit.
LEMMA NextType ==
    ASSUME SingleTypeOK, BelowLimit, [SingleNext]_singleVars
    PROVE  SingleTypeOK' /\ BelowLimit'
  <1> USE DEF callVars, futVars, rxVars, clVars
  <1>1. ASSUME NEW c \in Calls, CallStep(c)
        PROVE  SingleTypeOK' /\ BelowLimit'
    BY <1>1 DEF SingleTypeOK, BelowLimit, Outcomes, CallStep, Register, MarshalFails, Send, Sent,
                GiveUp, TakeResult, Abandon, Leave, Notify, Notified
  <1>2. ASSUME NEW c \in Calls, NEW kind \in {"reply", "error"}, Answer(c, kind)
        PROVE  SingleTypeOK' /\ BelowLimit'
    BY <1>2 DEF SingleTypeOK, BelowLimit, Outcomes, Answer
  <1>3. ASSUME NEW c \in Calls, NEW kind \in {"reply", "error"}, HandleResponse(c, kind)
        PROVE  SingleTypeOK' /\ BelowLimit'
    <2>1. /\ future' \in [Calls -> Outcomes]
          /\ closes' \in [Calls -> Nat]
      <3>1. Outcome(c, kind) \in Outcomes
        BY DEF Outcomes, Outcome
      <3> QED
        BY <1>3, <3>1 DEF SingleTypeOK, HandleResponse, Complete
    <2> QED
      BY <1>3, <2>1 DEF SingleTypeOK, BelowLimit, HandleResponse
  <1>8. ASSUME NEW c \in Calls, NEW kind \in {"reply", "error"}, ReadPacket(c, kind)
        PROVE  SingleTypeOK' /\ BelowLimit'
    <2>1. errorCount' = 0 /\ 0 \in 0..MaxErrors /\ 0 < MaxErrors
      BY <1>8, SingleAssumption DEF ReadPacket
    <2>2. /\ wire' \subseteq Calls \X {"reply", "error"}
          /\ packet' \subseteq Calls \X {"reply", "error"}
      BY <1>8 DEF SingleTypeOK, ReadPacket
    <2> QED
      BY <1>8, <2>1, <2>2 DEF SingleTypeOK, BelowLimit, ReadPacket
  <1>4. ASSUME EnterRead \/ ReadFails \/ CountFailure \/ Exit \/ SwapPending \/ MarkClosed
        PROVE  SingleTypeOK' /\ BelowLimit'
    <2>1. CASE CountFailure
      <3>1. errorCount' \in 0..MaxErrors /\ BelowLimit'
        BY <2>1, SingleAssumption DEF SingleTypeOK, BelowLimit, CountFailure
      <3>2. rx' \in {"top", "swap"}
        BY <2>1 DEF CountFailure
      <3> QED
        BY <2>1, <3>1, <3>2 DEF SingleTypeOK, CountFailure
    <2>2. CASE EnterRead \/ ReadFails \/ Exit
      BY <2>2 DEF SingleTypeOK, BelowLimit, EnterRead, ReadFails, Exit
    <2>3. CASE SwapPending \/ MarkClosed
      BY <2>3 DEF SingleTypeOK, BelowLimit, SwapPending, MarkClosed
    <2> QED
      BY <1>4, <2>1, <2>2, <2>3
  <1>5. ASSUME NEW c \in Calls, FailTaken(c) \/ FailOrphan(c)
        PROVE  SingleTypeOK' /\ BelowLimit'
    BY <1>5 DEF SingleTypeOK, BelowLimit, Outcomes, FailTaken, FailOrphan, Complete
  <1>6. ASSUME CallClose \/ Close \/ Cancel \/ TakeOrphans \/ CloseConn
        PROVE  SingleTypeOK' /\ BelowLimit'
    BY <1>6 DEF SingleTypeOK, BelowLimit, Outcomes, CallClose, Close, Cancel, TakeOrphans, CloseConn
  <1>7. ASSUME UNCHANGED singleVars
        PROVE  SingleTypeOK' /\ BelowLimit'
    BY <1>7 DEF SingleTypeOK, BelowLimit, singleVars
  <1> QED
    BY <1>1, <1>2, <1>3, <1>4, <1>5, <1>6, <1>7, <1>8 DEF SingleNext, RxStep, CloserStep

\* Every step keeps the ownership of the futures.
LEMMA NextOwner ==
    ASSUME IInv, [SingleNext]_singleVars
    PROVE  OneOwner' /\ FreshCalls' /\ CompletedOnce' /\ NoStaleEntry'
  <1> DEFINE Own == OneOwner /\ FreshCalls /\ CompletedOnce /\ NoStaleEntry
  <1> USE DEF callVars, futVars, rxVars, clVars
  <1>1. ASSUME NEW c \in Calls, CallStep(c)
        PROVE  Own'
    <2>1. CASE Register(c)
      BY <2>1 DEF Register, IInv, SingleTypeOK, OneOwner, FreshCalls, CompletedOnce, NoStaleEntry
    <2>2. ASSUME GiveUp(c), pc[c] # "idle"
          PROVE  Own'
      BY <2>2 DEF GiveUp, IInv, SingleTypeOK, OneOwner, FreshCalls, CompletedOnce, NoStaleEntry
    <2>3. CASE MarshalFails(c) \/ Send(c) \/ Sent(c)
      <3>1. CASE GiveUp(c)
        BY <2>2, <2>3, <3>1 DEF MarshalFails, Send, Sent
      <3>2. CASE ~GiveUp(c)
        BY <2>3, <3>2 DEF MarshalFails, Send, Sent, IInv, SingleTypeOK, OneOwner, FreshCalls,
                          CompletedOnce, NoStaleEntry
      <3> QED
        BY <3>1, <3>2
    <2>4. CASE TakeResult(c)
      BY <2>4 DEF TakeResult, IInv, SingleTypeOK, OneOwner, FreshCalls, CompletedOnce, NoStaleEntry
    <2>5. CASE Abandon(c) \/ Leave(c) \/ Notify(c) \/ Notified(c)
      BY <2>5 DEF Abandon, Leave, Notify, Notified, IInv, SingleTypeOK, OneOwner, FreshCalls,
                  CompletedOnce, NoStaleEntry
    <2> QED
      BY <1>1, <2>1, <2>3, <2>4, <2>5 DEF CallStep
  <1>2. ASSUME NEW c \in Calls, NEW kind \in {"reply", "error"}, Answer(c, kind)
        PROVE  Own'
    BY <1>2 DEF Answer, IInv, SingleTypeOK, OneOwner, FreshCalls, CompletedOnce, NoStaleEntry
  <1>8. ASSUME NEW c \in Calls, NEW kind \in {"reply", "error"}, ReadPacket(c, kind)
        PROVE  Own'
    BY <1>8 DEF ReadPacket, IInv, SingleTypeOK, OneOwner, FreshCalls, CompletedOnce, NoStaleEntry
  <1>3. ASSUME NEW c \in Calls, NEW kind \in {"reply", "error"}, HandleResponse(c, kind)
        PROVE  Own'
    <2>1. CASE c \in pending
      BY <1>3, <2>1 DEF HandleResponse, Complete, IInv, SingleTypeOK, OneOwner, FreshCalls,
                  CompletedOnce, NoStaleEntry
    <2>2. CASE c \notin pending
      BY <1>3, <2>2 DEF HandleResponse, IInv, SingleTypeOK, OneOwner, FreshCalls,
                  CompletedOnce, NoStaleEntry
    <2> QED
      BY <2>1, <2>2
  <1>4. ASSUME EnterRead \/ ReadFails \/ CountFailure \/ Exit \/ SwapPending \/ MarkClosed
        PROVE  Own'
    BY <1>4 DEF EnterRead, ReadFails, CountFailure, Exit, SwapPending, MarkClosed,
                IInv, SingleTypeOK, OneOwner, FreshCalls, CompletedOnce, NoStaleEntry
  <1>5. ASSUME NEW c \in Calls, FailTaken(c) \/ FailOrphan(c)
        PROVE  Own'
    BY <1>5 DEF FailTaken, FailOrphan, Complete, IInv, SingleTypeOK, OneOwner, FreshCalls,
                CompletedOnce, NoStaleEntry
  <1>6. ASSUME CallClose \/ Close \/ Cancel \/ TakeOrphans \/ CloseConn
        PROVE  Own'
    BY <1>6 DEF CallClose, Close, Cancel, TakeOrphans, CloseConn, IInv, SingleTypeOK, OneOwner, FreshCalls,
                CompletedOnce, NoStaleEntry
  <1>7. ASSUME UNCHANGED singleVars
        PROVE  Own'
    BY <1>7 DEF singleVars, IInv, OneOwner, FreshCalls, CompletedOnce, NoStaleEntry
  <1> QED
    BY <1>1, <1>2, <1>3, <1>4, <1>5, <1>6, <1>7, <1>8 DEF SingleNext, RxStep, CloserStep

\* The inductive invariant.
THEOREM Invariance == SingleSpec => []IInv
  <1>1. IInv /\ [SingleNext]_singleVars => IInv'
    BY NextType, NextOwner DEF IInv
  <1> QED
    BY <1>1, InitIInv, PTL DEF SingleSpec

\* The client's fields keep their types.
THEOREM TypeCorrect == SingleSpec => []SingleTypeOK
  <1>1. IInv => SingleTypeOK
    BY DEF IInv
  <1> QED
    BY <1>1, Invariance, PTL

\* No future is completed twice: the response handler, the failing receive loop
\* and Close never close the same done channel, for any number of calls.
THEOREM NoDoubleClose == SingleSpec => []CompletedOnce
  <1>1. IInv => CompletedOnce
    BY DEF IInv
  <1> QED
    BY <1>1, Invariance, PTL

\* An uncompleted future has exactly one owner.
THEOREM SingleOwner == SingleSpec => []OneOwner
  <1>1. IInv => OneOwner
    BY DEF IInv
  <1> QED
    BY <1>1, Invariance, PTL

\* The pending table never keeps a call that has returned.
THEOREM NoLeakedEntry == SingleSpec => []NoStaleEntry
  <1>1. IInv => NoStaleEntry
    BY DEF IInv
  <1> QED
    BY <1>1, Invariance, PTL

\* A response completes only the future of its own request: with its outcome when the
\* caller passed a reply, as a success in any case when it passed none.
THEOREM HonestOutcome == SingleSpec => OutcomeMatchesResponse
  <1> DEFINE Matches(c) ==
               (future[c] = "open" /\ future'[c] \in {"reply", "error"}) =>
                   IF c \in NilReply
                   THEN future'[c] = "reply" /\ \E kind \in {"reply", "error"} : <<c, kind>> \in packet
                   ELSE <<c, future'[c]>> \in packet
  <1>1. SingleTypeOK /\ [SingleNext]_singleVars => [\A c \in Calls : Matches(c)]_singleVars
    <2> SUFFICES ASSUME SingleTypeOK, SingleNext, NEW c \in Calls
                 PROVE  Matches(c)
      BY DEF singleVars
    <2> USE DEF callVars, futVars, rxVars, clVars
    <2>1. ASSUME future' = future
          PROVE  Matches(c)
      BY <2>1
    <2>2. ASSUME NEW d \in Calls, CallStep(d)
          PROVE  future' = future
      BY <2>2 DEF CallStep, Register, MarshalFails, Send, Sent, GiveUp, TakeResult, Abandon, Leave,
                  Notify, Notified
    <2>3. ASSUME NEW d \in Calls, NEW kind \in {"reply", "error"},
                 Answer(d, kind) \/ ReadPacket(d, kind)
          PROVE  future' = future
      BY <2>3 DEF Answer, ReadPacket
    <2>4. ASSUME NEW d \in Calls, NEW kind \in {"reply", "error"}, HandleResponse(d, kind)
          PROVE  Matches(c)
      <3>1. CASE d \in pending /\ c = d
        <4>1. future'[c] = Outcome(c, kind) /\ <<c, kind>> \in packet
          BY <2>4, <3>1 DEF HandleResponse, Complete, SingleTypeOK
        <4> QED
          BY <4>1 DEF Outcome
      <3>2. CASE ~(d \in pending /\ c = d)
        <4>1. future'[c] = future[c]
          BY <2>4, <3>2 DEF HandleResponse, Complete, SingleTypeOK
        <4> QED
          BY <4>1
      <3> QED
        BY <3>1, <3>2
    <2>5. ASSUME NEW d \in Calls, FailTaken(d) \/ FailOrphan(d)
          PROVE  Matches(c)
      <3>1. future'[c] \in {future[c], "lost", "closed"}
        BY <2>5 DEF FailTaken, FailOrphan, Complete, SingleTypeOK
      <3> QED
        BY <3>1
    <2>6. ASSUME \/ EnterRead \/ ReadFails \/ CountFailure \/ Exit \/ SwapPending \/ MarkClosed
                 \/ CallClose \/ Close \/ Cancel \/ TakeOrphans \/ CloseConn
          PROVE  future' = future
      BY <2>6 DEF EnterRead, ReadFails, CountFailure, Exit, SwapPending, MarkClosed, CallClose,
                  Close, Cancel, TakeOrphans, CloseConn
    <2> QED
      BY <2>1, <2>2, <2>3, <2>4, <2>5, <2>6 DEF SingleNext, RxStep, CloserStep
  <1> QED
    BY <1>1, TypeCorrect, PTL DEF SingleSpec, OutcomeMatchesResponse
=============================================================================
