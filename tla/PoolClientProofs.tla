-------------------------- MODULE PoolClientProofs --------------------------
(***************************************************************************)
(* Proofs about PoolClient, for any number of callers and connections and  *)
(* any limits.                                                             *)
(***************************************************************************)
EXTENDS PoolClient, FiniteSetTheorems, SequenceTheorems, TLAPS

\* What the safety properties rest on: every connection the pool or a caller
\* refers to is open, a closed pool has no idle connection, Close owns
\* connections only once the pool is closed, and the open sockets are finitely
\* many.
Bookkeeping ==
    /\ Elems(idle) \cup Held \cup closing \subseteq open
    /\ \A c \in Holders : conn[c] \in Conns
    /\ poolClosed => idle = <<>>
    /\ ~poolClosed => closing = {}
    /\ IsFiniteSet(open)

IInv == PoolTypeOK /\ NoSharing /\ Bookkeeping

-----------------------------------------------------------------------------
\* Pushing an element: what Append does to the elements of a sequence.
LEMMA ElemsAppend ==
    ASSUME NEW S, NEW s \in Seq(S), NEW e \in S
    PROVE  /\ Append(s, e) \in Seq(S)
           /\ Elems(Append(s, e)) = Elems(s) \cup {e}
           /\ Distinct(s) /\ e \notin Elems(s) => Distinct(Append(s, e))
  <1>1. /\ Append(s, e) \in Seq(S)
        /\ Len(Append(s, e)) = Len(s) + 1
        /\ \A i \in 1..Len(s) : Append(s, e)[i] = s[i]
        /\ Append(s, e)[Len(s) + 1] = e
    OBVIOUS
  <1>2. Len(s) \in Nat
    OBVIOUS
  <1>3. 1..(Len(s) + 1) = 1..Len(s) \cup {Len(s) + 1}
    BY <1>2
  <1> QED
    BY <1>1, <1>2, <1>3 DEF Elems, Distinct

\* The length of a subsequence, from the library's theorem.
LEMMA SubSeqLen ==
    ASSUME NEW S, NEW s, NEW n \in Nat, \A i \in 1..n : s[i] \in S
    PROVE  Len(SubSeq(s, 1, n)) = n
  <1>1. Len(SubSeq(s, 1, n)) = IF 1 <= n THEN n - 1 + 1 ELSE 0
    BY SubSeqProperties
  <1> QED
    BY <1>1

\* Popping the top of a stack without repetitions.
LEMMA ElemsPop ==
    ASSUME NEW S, NEW s \in Seq(S), s # <<>>, Distinct(s)
    PROVE  /\ SubSeq(s, 1, Len(s) - 1) \in Seq(S)
           /\ Len(SubSeq(s, 1, Len(s) - 1)) = Len(s) - 1
           /\ s[Len(s)] \in S
           /\ s[Len(s)] \in Elems(s)
           /\ Elems(SubSeq(s, 1, Len(s) - 1)) = Elems(s) \ {s[Len(s)]}
           /\ Distinct(SubSeq(s, 1, Len(s) - 1))
  <1>1. Len(s) \in Nat \ {0}
    OBVIOUS
  <1> DEFINE t == SubSeq(s, 1, Len(s) - 1)
  <1>2. /\ t \in Seq(S)
        /\ Len(t) = Len(s) - 1
        /\ \A i \in 1..(Len(s) - 1) : t[i] = s[i]
    <2>1. t \in Seq(S) /\ \A i \in 1..(Len(s) - 1) : t[i] = s[i]
      BY <1>1
    <2>2. Len(t) = Len(s) - 1
      <3> DEFINE n == Len(s) - 1
      <3>1. n \in Nat /\ \A i \in 1..n : s[i] \in S
        BY <1>1
      <3> HIDE DEF n
      <3>2. Len(SubSeq(s, 1, n)) = n
        BY <3>1, SubSeqLen
      <3> QED
        BY <3>2, Zenon DEF n
    <2> QED
      BY <2>1, <2>2
  <1>3. 1..Len(s) = 1..(Len(s) - 1) \cup {Len(s)}
    BY <1>1
  <1>4. s[Len(s)] \in S /\ s[Len(s)] \in Elems(s)
    BY <1>1 DEF Elems
  <1>5. Distinct(t)
    BY <1>1, <1>2, <1>3 DEF Distinct
  <1>6. Elems(t) = Elems(s) \ {s[Len(s)]}
    BY <1>1, <1>2, <1>3 DEF Elems, Distinct
  <1> QED
    BY <1>2, <1>4, <1>5, <1>6

\* Removing the head of a queue without repetitions.
LEMMA ElemsTail ==
    ASSUME NEW S, NEW s \in Seq(S), s # <<>>, Distinct(s)
    PROVE  /\ Tail(s) \in Seq(S)
           /\ Head(s) \in S
           /\ Head(s) \in Elems(s)
           /\ Elems(Tail(s)) = Elems(s) \ {Head(s)}
           /\ Distinct(Tail(s))
  <1>1. Len(s) \in Nat \ {0} /\ Head(s) = s[1] /\ Head(s) \in S
    OBVIOUS
  <1>2. /\ Tail(s) \in Seq(S)
        /\ Len(Tail(s)) = Len(s) - 1
        /\ \A i \in 1..(Len(s) - 1) : Tail(s)[i] = s[i + 1]
    BY <1>1
  <1>3. Distinct(Tail(s))
    BY <1>1, <1>2 DEF Distinct
  <1>4. Elems(Tail(s)) = Elems(s) \ {Head(s)}
    <2>1. \A i \in 2..Len(s) : i - 1 \in 1..(Len(s) - 1) /\ s[i] = Tail(s)[i - 1]
      BY <1>1, <1>2
    <2>2. \A i \in 1..(Len(s) - 1) : i + 1 \in 2..Len(s)
      BY <1>1
    <2>3. \A i \in 2..Len(s) : s[i] # s[1]
      BY <1>1 DEF Distinct
    <2>4. 1..Len(s) = {1} \cup 2..Len(s)
      BY <1>1
    <2>5. Elems(s) = {s[1]} \cup {s[i] : i \in 2..Len(s)}
      BY <2>4 DEF Elems
    <2>6. Elems(Tail(s)) = {s[i] : i \in 2..Len(s)}
      BY <1>1, <1>2, <2>1, <2>2 DEF Elems
    <2> QED
      BY <1>1, <2>3, <2>5, <2>6
  <1>5. Head(s) \in Elems(s)
    BY <1>1 DEF Elems
  <1> QED
    BY <1>1, <1>2, <1>3, <1>4, <1>5

-----------------------------------------------------------------------------
\* The initial pool holds the connections of the warm-up and nothing else.
LEMMA InitIInv == PoolInit => IInv
  <1> SUFFICES ASSUME PoolInit PROVE IInv
    OBVIOUS
  <1>1. PICK k \in 0..MinConns : idle \in [1..k -> Conns] /\ total = k
    BY DEF PoolInit
  <1>2. idle \in Seq(Conns) /\ Len(idle) = k
    BY <1>1, PoolAssumption
  <1>3. PoolTypeOK
    <2>1. open \subseteq Conns
      BY <1>1, <1>2 DEF PoolInit, Elems
    <2>2. total \in Int
      BY <1>1, PoolAssumption
    <2>3. expired \in [Borrowers -> BOOLEAN]
      BY Zenon DEF PoolInit
    <2>4. /\ poolClosed \in BOOLEAN
          /\ waiters \in Seq(Borrowers)
          /\ closing \subseteq Conns
      <3>1. <<>> \in Seq(Borrowers)
        OBVIOUS
      <3> QED
        BY <3>1, Zenon DEF PoolInit
    <2>5. poolPc \in [Borrowers -> PCs] /\ conn \in [Borrowers -> Conns \cup {NoConn}]
      BY DEF PoolInit, PCs
    <2>6. drain \in {"none", "waiting", "timedout", "done"}
      BY DEF PoolInit
    <2> QED
      BY <1>2, <2>1, <2>2, <2>3, <2>4, <2>5, <2>6 DEF PoolTypeOK
  <1>4. Holders = {} /\ Held = {}
    BY DEF PoolInit, Holders, Held
  <1>5. NoSharing
    BY <1>4 DEF PoolInit, NoSharing
  <1>6. IsFiniteSet(open)
    <2>1. IsFiniteSet(1..k)
      BY <1>1, FS_Interval, PoolAssumption
    <2>2. open = {idle[i] : i \in 1..k}
      BY <1>2 DEF PoolInit, Elems
    <2> QED
      BY <1>1, <2>1, <2>2, FS_Surjection DEF Surjection
  <1>7. Bookkeeping
    BY <1>4, <1>6 DEF PoolInit, Bookkeeping
  <1> QED
    BY <1>3, <1>5, <1>7 DEF IInv

\* GetClient's fast path and the resumed waiter: the top of the stack changes
\* hands from the pool to the caller.
LEMMA PopIdleIInv ==
    ASSUME IInv, NEW c \in Borrowers, poolPc[c] \in {"out", "woken"}, ~poolClosed, PopIdle(c),
           expired' \in [Borrowers -> BOOLEAN], UNCHANGED waiters
    PROVE  IInv'
  <1> DEFINE n == idle[Len(idle)]
  <1>1. /\ idle' \in Seq(Conns)
        /\ n \in Conns /\ n \in Elems(idle)
        /\ Elems(idle') = Elems(idle) \ {n}
        /\ Distinct(idle')
    BY ElemsPop DEF IInv, PoolTypeOK, NoSharing, PopIdle
  <1>2. Holders' = Holders \cup {c} /\ c \notin Holders
    BY DEF IInv, PoolTypeOK, Holders, PopIdle, PCs
  <1>3. conn' = [conn EXCEPT ![c] = n]
    BY DEF PopIdle
  <1>4. Held' = Held \cup {n}
    BY <1>2, <1>3 DEF IInv, PoolTypeOK, Held, Holders
  <1>5. PoolTypeOK'
    BY <1>1, <1>3 DEF IInv, PoolTypeOK, PopIdle, PCs
  <1>6. NoSharing'
    <2>1. n \notin Held
      BY <1>1 DEF IInv, NoSharing
    <2>2. \A d \in Holders : conn[d] # n
      BY <2>1 DEF Held
    <2>3. \A d, e \in Holders' : conn'[d] = conn'[e] => d = e
      BY <1>2, <1>3, <2>2 DEF IInv, NoSharing, PoolTypeOK, Holders
    <2>4. closing' = {}
      BY DEF IInv, Bookkeeping, PopIdle
    <2> QED
      BY <1>1, <1>4, <2>3, <2>4 DEF IInv, NoSharing
  <1>7. Bookkeeping'
    BY <1>1, <1>2, <1>3, <1>4 DEF IInv, PoolTypeOK, Bookkeeping, PopIdle, Holders
  <1> QED
    BY <1>5, <1>6, <1>7 DEF IInv

\* A step that touches neither the pool's fields nor the set of holders.
LEMMA SameHoldersIInv ==
    ASSUME IInv, PoolTypeOK', Holders' = Holders,
           UNCHANGED <<idle, poolClosed, total, open, conn, closing>>
    PROVE  IInv'
  BY DEF IInv, NoSharing, Bookkeeping, Held

\* A fresh socket goes to the caller that dialled it.
LEMMA DialIInv ==
    ASSUME IInv, NEW c \in Borrowers, poolPc[c] = "out", ~poolClosed, Dial(c),
           expired' \in [Borrowers -> BOOLEAN], UNCHANGED waiters
    PROVE  IInv'
  <1>1. CASE Fail(c)
    <2>1. PoolTypeOK'
      BY <1>1 DEF IInv, PoolTypeOK, Fail, PCs
    <2>2. Holders' = Holders
      BY <1>1 DEF IInv, PoolTypeOK, Fail, Holders
    <2> QED
      BY <1>1, <2>1, <2>2, SameHoldersIInv DEF Fail
  <1>2. ASSUME NEW n \in Conns \ open,
               open' = open \cup {n},
               total' = total + 1,
               poolPc' = [poolPc EXCEPT ![c] = "held"],
               conn' = [conn EXCEPT ![c] = n],
               UNCHANGED <<idle, poolClosed, closing, drain>>
        PROVE  IInv'
    <2>1. Holders' = Holders \cup {c} /\ c \notin Holders
      BY <1>2 DEF IInv, PoolTypeOK, Holders, PCs
    <2>2. Held' = Held \cup {n}
      BY <1>2, <2>1 DEF IInv, PoolTypeOK, Held, Holders
    <2>3. PoolTypeOK'
      BY <1>2 DEF IInv, PoolTypeOK, PCs
    <2>4. n \notin Held /\ n \notin Elems(idle) /\ n \notin closing
      BY DEF IInv, Bookkeeping
    <2>5. \A d \in Holders : conn[d] # n
      BY <2>4 DEF Held
    <2>6. \A d, e \in Holders' : conn'[d] = conn'[e] => d = e
      BY <1>2, <2>1, <2>5 DEF IInv, NoSharing, PoolTypeOK, Holders
    <2>7. NoSharing'
      BY <1>2, <2>2, <2>4, <2>6 DEF IInv, NoSharing
    <2>8. IsFiniteSet(open')
      BY <1>2, FS_AddElement DEF IInv, Bookkeeping
    <2>9. Bookkeeping'
      BY <1>2, <2>1, <2>2, <2>8 DEF IInv, PoolTypeOK, Bookkeeping, Holders
    <2> QED
      BY <2>3, <2>7, <2>9 DEF IInv
  <1> QED
    BY <1>1, <1>2 DEF Dial

\* A connection comes back: to the stack, or closed and forgotten.
LEMMA ReturnClientIInv ==
    ASSUME IInv, WaitersAsleep, NEW c \in Borrowers, ReturnClient(c)
    PROVE  IInv'
  <1> DEFINE n == conn[c]
  <1>1. c \in Holders /\ n \in Conns /\ n \in Held
    BY DEF IInv, Bookkeeping, ReturnClient, Holders, Held
  <1>2. n \notin Elems(idle) /\ n \notin closing /\ n \in open
    BY <1>1 DEF IInv, NoSharing, Bookkeeping
  <1>3. conn' = [conn EXCEPT ![c] = NoConn]
    BY DEF ReturnClient
  <1>4. \A d \in Holders : d # c => conn[d] # n
    BY <1>1 DEF IInv, NoSharing
  <1>5. waiters # <<>> =>
          /\ Tail(waiters) \in Seq(Borrowers)
          /\ Head(waiters) \in Borrowers
          /\ poolPc[Head(waiters)] = "waiting"
    <2>1. SUFFICES ASSUME waiters # <<>>
                   PROVE  /\ Tail(waiters) \in Seq(Borrowers)
                          /\ Head(waiters) \in Borrowers
                          /\ Head(waiters) \in Elems(waiters)
      BY DEF WaitersAsleep
    <2> QED
      BY <2>1, ElemsTail DEF IInv, PoolTypeOK, WaitersAsleep
  <1>6. /\ poolPc' \in [Borrowers -> PCs]
        /\ waiters' \in Seq(Borrowers)
        /\ Holders' = Holders \ {c}
    BY <1>5 DEF IInv, PoolTypeOK, ReturnClient, LeaveAndSignal, Holders, PCs
  <1>7. Held' = Held \ {n}
    BY <1>1, <1>3, <1>4, <1>6 DEF Held, Holders, IInv, PoolTypeOK
  <1>8. \A d, e \in Holders' : conn'[d] = conn'[e] => d = e
    BY <1>3, <1>6 DEF IInv, NoSharing, PoolTypeOK, Holders
  <1>9. \A d \in Holders' : conn'[d] \in Conns
    BY <1>3, <1>6 DEF IInv, Bookkeeping, PoolTypeOK, Holders
  <1>10. conn' \in [Borrowers -> Conns \cup {NoConn}]
    BY <1>3 DEF IInv, PoolTypeOK
  <1>11. CASE ~poolClosed /\ Len(idle) < MaxConns
    <2>1. idle' = Append(idle, n) /\ UNCHANGED <<total, open, poolClosed, expired, closing, drain>>
      BY <1>11 DEF ReturnClient
    <2>2. /\ idle' \in Seq(Conns)
          /\ Elems(idle') = Elems(idle) \cup {n}
          /\ Distinct(idle')
      BY <1>1, <1>2, <2>1, ElemsAppend DEF IInv, PoolTypeOK, NoSharing
    <2>3. PoolTypeOK'
      BY <1>6, <1>10, <2>1, <2>2 DEF IInv, PoolTypeOK
    <2>4. NoSharing'
      BY <1>2, <1>7, <1>8, <2>1, <2>2 DEF IInv, NoSharing
    <2>5. Bookkeeping'
      BY <1>2, <1>7, <1>9, <1>11, <2>1, <2>2 DEF IInv, Bookkeeping
    <2> QED
      BY <2>3, <2>4, <2>5 DEF IInv
  <1>12. CASE ~(~poolClosed /\ Len(idle) < MaxConns)
    <2>1. /\ open' = open \ {n} /\ total' = total - 1
          /\ UNCHANGED <<idle, poolClosed, expired, closing, drain>>
      BY <1>12 DEF ReturnClient, Discard
    <2>2. IsFiniteSet(open')
      BY <2>1, FS_RemoveElement DEF IInv, Bookkeeping
    <2>3. PoolTypeOK'
      BY <1>6, <1>10, <2>1 DEF IInv, PoolTypeOK
    <2>4. NoSharing'
      BY <1>7, <1>8, <2>1 DEF IInv, NoSharing
    <2>5. Bookkeeping'
      BY <1>2, <1>7, <1>9, <2>1, <2>2 DEF IInv, Bookkeeping
    <2> QED
      BY <2>3, <2>4, <2>5 DEF IInv
  <1> QED
    BY <1>11, <1>12

\* The queue of the condition variable: sleepers are exactly its elements.
LEMMA InitWaiters == PoolInit => WaitersAsleep
  BY DEF PoolInit, WaitersAsleep, Elems, Distinct

\* Every step of the pool keeps what is known of the goroutines asleep.
LEMMA NextWaiters ==
    ASSUME PoolTypeOK, WaitersAsleep, [PoolNext]_poolVars
    PROVE  WaitersAsleep'
  <1> DEFINE W == {c \in Borrowers : poolPc[c] = "waiting"}
  <1>1. ASSUME NEW c \in Borrowers, poolPc[c] # "waiting", Sleep(c), ~poolClosed
        PROVE  WaitersAsleep'
    <2>1. c \notin Elems(waiters)
      BY <1>1 DEF WaitersAsleep
    <2>2. /\ Elems(waiters') = Elems(waiters) \cup {c}
          /\ Distinct(waiters')
      BY <1>1, <2>1, ElemsAppend DEF PoolTypeOK, WaitersAsleep, Sleep
    <2>3. W' = W \cup {c}
      BY <1>1 DEF Sleep, PoolTypeOK
    <2> QED
      BY <1>1, <2>2, <2>3 DEF WaitersAsleep, Sleep
  <1>2. ASSUME W' = W, UNCHANGED <<waiters, poolClosed>>
        PROVE  WaitersAsleep'
    BY <1>2 DEF WaitersAsleep
  <1>3. ASSUME NEW c \in Borrowers, poolPc[c] # "waiting", Fail(c), UNCHANGED waiters
        PROVE  WaitersAsleep'
    <2>1. W' = W
      BY <1>3 DEF Fail, PoolTypeOK
    <2> QED
      BY <1>2, <1>3, <2>1 DEF Fail
  <1>4. ASSUME NEW c \in Borrowers, poolPc[c] # "waiting", PopIdle(c), UNCHANGED waiters
        PROVE  WaitersAsleep'
    <2>1. W' = W
      BY <1>4 DEF PopIdle, PoolTypeOK
    <2> QED
      BY <1>2, <1>4, <2>1 DEF PopIdle
  <1>5. ASSUME NEW c \in Borrowers, GetClient(c)
        PROVE  WaitersAsleep'
    <2>1. poolPc[c] # "waiting"
      BY <1>5 DEF GetClient
    <2>2. ASSUME Dial(c), UNCHANGED waiters
          PROVE  WaitersAsleep'
      <3>1. W' = W /\ UNCHANGED poolClosed
        BY <2>1, <2>2 DEF Dial, Fail, PoolTypeOK
      <3> QED
        BY <1>2, <2>2, <3>1
    <2> QED
      BY <1>1, <1>3, <1>4, <1>5, <2>1, <2>2 DEF GetClient
  <1>6. ASSUME NEW c \in Borrowers, Resume(c)
        PROVE  WaitersAsleep'
    BY <1>1, <1>3, <1>4, <1>6 DEF Resume
  <1>7. ASSUME NEW c \in Borrowers,
               DeadlinePasses(c) \/ InvokeBegin(c) \/ InvokeEnd(c) \/ DropClient(c)
        PROVE  WaitersAsleep'
    <2>1. W' = W /\ UNCHANGED <<waiters, poolClosed>>
      BY <1>7 DEF DeadlinePasses, InvokeBegin, InvokeEnd, DropClient, PoolTypeOK
    <2> QED
      BY <1>2, <2>1
  <1>8. ASSUME NEW c \in Borrowers, ReturnClient(c)
        PROVE  WaitersAsleep'
    <2>1. poolPc[c] = "held" /\ UNCHANGED poolClosed
      BY <1>8 DEF ReturnClient
    <2>2. CASE poolPc' = [poolPc EXCEPT ![c] = "out"] /\ UNCHANGED waiters
      <3>1. W' = W
        BY <2>1, <2>2 DEF PoolTypeOK
      <3> QED
        BY <1>2, <2>1, <2>2, <3>1
    <2>3. CASE /\ waiters # <<>>
               /\ poolPc' = [poolPc EXCEPT ![c] = "out", ![Head(waiters)] = "woken"]
               /\ waiters' = Tail(waiters)
      <3>1. /\ Head(waiters) \in Borrowers
            /\ Elems(waiters') = Elems(waiters) \ {Head(waiters)}
            /\ Distinct(waiters')
        BY <2>3, ElemsTail DEF PoolTypeOK, WaitersAsleep
      <3>2. W' = W \ {Head(waiters)}
        BY <2>1, <2>3, <3>1 DEF PoolTypeOK
      <3>3. ~poolClosed
        BY <2>3 DEF WaitersAsleep
      <3> QED
        BY <2>1, <3>1, <3>2, <3>3 DEF WaitersAsleep
    <2> QED
      BY <1>8, <2>2, <2>3 DEF ReturnClient, LeaveAndSignal
  <1>9. ASSUME PoolClose
        PROVE  WaitersAsleep'
    <2>1. W' = {}
      BY <1>9 DEF PoolClose, PoolTypeOK
    <2>2. Elems(<<>>) = {} /\ Distinct(<<>>)
      BY DEF Elems, Distinct
    <2> QED
      BY <1>9, <2>1, <2>2 DEF PoolClose, WaitersAsleep
  <1>10. ASSUME DrainTimeout \/ CloseFinish \/ UNCHANGED poolVars
         PROVE  WaitersAsleep'
    BY <1>2, <1>10 DEF DrainTimeout, CloseFinish, poolVars
  <1> QED
    BY <1>5, <1>6, <1>7, <1>8, <1>9, <1>10 DEF PoolNext, BorrowerStep

-----------------------------------------------------------------------------
\* Close moves the idle connections to the set it is about to close.
LEMMA CloseIInv ==
    ASSUME IInv, PoolClose
    PROVE  IInv'
  <1>1. Holders' = Holders /\ Held' = Held
    BY DEF IInv, PoolTypeOK, PoolClose, Holders, Held
  <1>2. Elems(<<>>) = {} /\ Distinct(<<>>) /\ <<>> \in Seq(Conns) /\ <<>> \in Seq(Borrowers)
    BY DEF Elems, Distinct
  <1>3. Elems(idle) \subseteq Conns
    BY DEF IInv, PoolTypeOK, Elems
  <1>4. poolPc' \in [Borrowers -> PCs]
    BY DEF IInv, PoolTypeOK, PoolClose, PCs
  <1>5. PoolTypeOK'
    BY <1>2, <1>3, <1>4 DEF IInv, PoolTypeOK, PoolClose
  <1>6. NoSharing'
    BY <1>1, <1>2 DEF IInv, NoSharing, PoolClose
  <1>7. Bookkeeping'
    BY <1>1, <1>2 DEF IInv, Bookkeeping, PoolClose
  <1> QED
    BY <1>5, <1>6, <1>7 DEF IInv

\* Every step keeps the connections exclusive.
LEMMA NextIInv ==
    ASSUME IInv, WaitersAsleep, [PoolNext]_poolVars
    PROVE  IInv'
  <1>1. ASSUME NEW c \in Borrowers, poolPc[c] \in {"out", "woken"}, Fail(c),
               expired' \in [Borrowers -> BOOLEAN], UNCHANGED waiters
        PROVE  IInv'
    <2>1. PoolTypeOK' /\ Holders' = Holders
      BY <1>1 DEF IInv, PoolTypeOK, Fail, PCs, Holders
    <2> QED
      BY <1>1, <2>1, SameHoldersIInv DEF Fail
  <1>2. ASSUME NEW c \in Borrowers, poolPc[c] \in {"out", "woken"}, Sleep(c),
               expired' \in [Borrowers -> BOOLEAN]
        PROVE  IInv'
    <2>1. waiters' \in Seq(Borrowers)
      BY <1>2 DEF IInv, PoolTypeOK, Sleep
    <2>2. PoolTypeOK' /\ Holders' = Holders
      BY <1>2, <2>1 DEF IInv, PoolTypeOK, Sleep, PCs, Holders
    <2> QED
      BY <1>2, <2>2, SameHoldersIInv DEF Sleep
  <1>3. ASSUME NEW c \in Borrowers, GetClient(c)
        PROVE  IInv'
    <2>1. poolPc[c] = "out" /\ expired' \in [Borrowers -> BOOLEAN]
      BY <1>3 DEF GetClient, IInv, PoolTypeOK
    <2> QED
      BY <1>1, <1>2, <1>3, <2>1, PopIdleIInv, DialIInv DEF GetClient
  <1>4. ASSUME NEW c \in Borrowers, Resume(c)
        PROVE  IInv'
    <2>1. poolPc[c] = "woken" /\ expired' \in [Borrowers -> BOOLEAN]
      BY <1>4 DEF Resume, IInv, PoolTypeOK
    <2> QED
      BY <1>1, <1>2, <1>4, <2>1, PopIdleIInv DEF Resume
  <1>5. ASSUME NEW c \in Borrowers, DeadlinePasses(c) \/ InvokeBegin(c) \/ InvokeEnd(c)
        PROVE  IInv'
    <2>1. PoolTypeOK' /\ Holders' = Holders
      BY <1>5 DEF IInv, PoolTypeOK, DeadlinePasses, InvokeBegin, InvokeEnd, PCs, Holders
    <2> QED
      BY <1>5, <2>1, SameHoldersIInv DEF DeadlinePasses, InvokeBegin, InvokeEnd
  <1>6. ASSUME NEW c \in Borrowers, DropClient(c)
        PROVE  IInv'
    <2>1. PoolTypeOK' /\ Holders' = Holders \ {c}
      BY <1>6 DEF IInv, PoolTypeOK, DropClient, PCs, Holders
    <2>2. \A d \in Holders' : d \in Holders /\ conn'[d] = conn[d]
      BY <1>6, <2>1 DEF IInv, PoolTypeOK, DropClient, Holders
    <2>3. Held' \subseteq Held
      BY <2>2 DEF Held
    <2>4. NoSharing'
      BY <1>6, <2>2, <2>3 DEF IInv, NoSharing, DropClient
    <2>5. Bookkeeping'
      BY <1>6, <2>2, <2>3 DEF IInv, Bookkeeping, DropClient
    <2> QED
      BY <2>1, <2>4, <2>5 DEF IInv
  <1>7. ASSUME DrainTimeout \/ UNCHANGED poolVars
        PROVE  IInv'
    <2>1. PoolTypeOK' /\ Holders' = Holders
      BY <1>7 DEF IInv, PoolTypeOK, DrainTimeout, poolVars, Holders
    <2> QED
      BY <1>7, <2>1, SameHoldersIInv DEF DrainTimeout, poolVars
  <1>8. ASSUME CloseFinish
        PROVE  IInv'
    <2>1. PoolTypeOK' /\ Holders' = Holders /\ Held' = Held
      BY <1>8 DEF IInv, PoolTypeOK, CloseFinish, Holders, Held
    <2>2. NoSharing'
      BY <1>8, <2>1 DEF IInv, NoSharing, CloseFinish
    <2>3. IsFiniteSet(open')
      BY <1>8, FS_Subset DEF IInv, Bookkeeping, CloseFinish
    <2>4. (Elems(idle) \cup Held) \cap closing = {}
      BY DEF IInv, NoSharing, Bookkeeping, Elems
    <2>5. Bookkeeping'
      BY <1>8, <2>1, <2>3, <2>4 DEF IInv, Bookkeeping, CloseFinish
    <2> QED
      BY <2>1, <2>2, <2>5 DEF IInv
  <1> QED
    BY <1>3, <1>4, <1>5, <1>6, <1>7, <1>8, ReturnClientIInv, CloseIInv DEF PoolNext, BorrowerStep

\* The inductive invariant, of which the theorems below are consequences.
THEOREM Invariance == PoolSpec => [](IInv /\ WaitersAsleep)
  <1>1. PoolInit => IInv /\ WaitersAsleep
    BY InitIInv, InitWaiters
  <1>2. IInv /\ WaitersAsleep /\ [PoolNext]_poolVars => (IInv /\ WaitersAsleep)'
    BY NextIInv, NextWaiters DEF IInv
  <1> QED
    BY <1>1, <1>2, PTL DEF PoolSpec

\* The fields of the pool keep their types.
THEOREM TypeCorrect == PoolSpec => []PoolTypeOK
  <1>1. IInv => PoolTypeOK
    BY DEF IInv
  <1> QED
    BY <1>1, Invariance, PTL

\* For any number of callers and connections, a connection is lent to at most
\* one caller and is not idle, nor about to be closed, while it is lent.
THEOREM Exclusive == PoolSpec => []NoSharing
  <1>1. IInv => NoSharing
    BY DEF IInv
  <1> QED
    BY <1>1, Invariance, PTL

\* A step never closes a connection that a caller holds before and after it.
THEOREM HeldStaysOpen == PoolSpec => NeverClosesHeld
  <1> DEFINE A == \A c \in Borrowers :
                     (c \in Holders /\ c \in Holders') => conn[c] \in open'
  <1>1. IInv /\ WaitersAsleep /\ IInv' /\ [PoolNext]_poolVars => [A]_poolVars
    <2> SUFFICES ASSUME IInv, IInv', PoolNext,
                        NEW c \in Borrowers, c \in Holders, c \in Holders'
                 PROVE  conn[c] \in open'
      BY DEF poolVars
    <2>1. conn'[c] = conn[c]
      BY DEF PoolNext, BorrowerStep, GetClient, Resume, DeadlinePasses, InvokeBegin, InvokeEnd,
             ReturnClient, LeaveAndSignal, DropClient, PoolClose, DrainTimeout, CloseFinish,
             PopIdle, Fail, Sleep, Dial, Discard, Holders, IInv, PoolTypeOK
    <2>2. conn'[c] \in open'
      BY DEF IInv, Bookkeeping, Held
    <2> QED
      BY <2>1, <2>2
  <1> QED
    BY <1>1, Invariance, PTL DEF NeverClosesHeld, PoolSpec

-----------------------------------------------------------------------------
\* The counter is compared with MaxConns under the mutex that protects it, so
\* it never passes the limit.
THEOREM Bounded == PoolSpec => []PoolBounded
  <1>1. PoolInit => PoolBounded
    BY PoolAssumption DEF PoolInit, PoolBounded
  <1>2. PoolTypeOK /\ PoolBounded /\ [PoolNext]_poolVars => PoolBounded'
    <2> SUFFICES ASSUME PoolTypeOK, PoolBounded, [PoolNext]_poolVars PROVE PoolBounded'
      OBVIOUS
    <2>1. \/ total' = total
          \/ total' = total - 1
          \/ total' = total + 1 /\ ~AtCapacity
      BY DEF PoolNext, BorrowerStep, GetClient, Resume, DeadlinePasses, InvokeBegin, InvokeEnd,
             ReturnClient, DropClient, PoolClose, DrainTimeout, CloseFinish, PopIdle, Fail,
             Sleep, Dial, Discard, poolVars
    <2> QED
      BY <2>1, PoolAssumption DEF PoolTypeOK, PoolBounded, AtCapacity
  <1> QED
    BY <1>1, <1>2, TypeCorrect, PTL DEF PoolSpec

\* Until Close, totalConns counts the open sockets: a dial opens one and adds
\* one, a discard closes one that is open (it was held) and subtracts one.
THEOREM CountsSockets == PoolSpec => []TotalIsOpen
  <1>1. PoolInit => TotalIsOpen
    <2> SUFFICES ASSUME PoolInit PROVE total = Cardinality(open)
      BY DEF TotalIsOpen
    <2>1. PICK k \in 0..MinConns : idle \in [1..k -> Conns] /\ total = k
      BY DEF PoolInit
    <2>2. idle \in Seq(Conns) /\ Len(idle) = k
      BY <2>1, PoolAssumption
    <2>3. open = {idle[i] : i \in 1..k} /\ \A i, j \in 1..k : idle[i] = idle[j] => i = j
      BY <2>2 DEF PoolInit, Elems, Distinct
    <2>4. idle \in Surjection(1..k, open) /\ idle \in Injection(1..k, open)
      <3>1. idle \in [1..k -> open]
        BY <2>1, <2>3
      <3> QED
        BY <2>3, <3>1 DEF Injection, IsInjective, Surjection
    <2>5. IsFiniteSet(1..k) /\ Cardinality(1..k) = k
      BY <2>1, PoolAssumption, FS_Interval
    <2> QED
      BY <2>1, <2>4, <2>5, FS_Surjection
  <1>2. IInv /\ TotalIsOpen /\ [PoolNext]_poolVars => TotalIsOpen'
    <2> SUFFICES ASSUME IInv, TotalIsOpen, [PoolNext]_poolVars, ~poolClosed' PROVE TotalIsOpen'
      BY DEF TotalIsOpen
    <2>1. ~poolClosed /\ closing = {}
      BY DEF IInv, Bookkeeping, PoolNext, BorrowerStep, GetClient, Resume, DeadlinePasses,
             InvokeBegin, InvokeEnd, ReturnClient, DropClient, PoolClose, DrainTimeout,
             CloseFinish, PopIdle, Fail, Sleep, Dial, poolVars
    <2>2. \/ UNCHANGED <<total, open>>
          \/ \E n \in Conns \ open : open' = open \cup {n} /\ total' = total + 1
          \/ \E n \in open : open' = open \ {n} /\ total' = total - 1
      <3>1. ASSUME NEW c \in Borrowers, ReturnClient(c)
            PROVE  conn[c] \in open
        BY <3>1 DEF ReturnClient, IInv, Bookkeeping, Held, Holders
      <3> QED
        BY <2>1, <3>1 DEF PoolNext, BorrowerStep, GetClient, Resume, DeadlinePasses,
             InvokeBegin, InvokeEnd, ReturnClient, DropClient, PoolClose, DrainTimeout,
             CloseFinish, PopIdle, Fail, Sleep, Dial, Discard, poolVars
    <2>3. total = Cardinality(open) /\ IsFiniteSet(open) /\ Cardinality(open) \in Nat
      BY <2>1, FS_CardinalityType DEF TotalIsOpen, IInv, Bookkeeping
    <2>4. ASSUME NEW n \in Conns \ open, open' = open \cup {n}, total' = total + 1
          PROVE  total' = Cardinality(open')
      BY <2>3, <2>4, FS_AddElement
    <2>5. ASSUME NEW n \in open, open' = open \ {n}, total' = total - 1
          PROVE  total' = Cardinality(open')
      BY <2>3, <2>5, FS_RemoveElement
    <2> QED
      BY <2>2, <2>3, <2>4, <2>5 DEF TotalIsOpen
  <1> QED
    BY <1>1, <1>2, Invariance, PTL DEF PoolSpec

-----------------------------------------------------------------------------
\* One caller leaving the woken ones.
LEMMA WokenLeaves ==
    ASSUME PoolTypeOK, NEW c \in Borrowers, poolPc[c] = "woken", NEW v \in PCs, v # "woken",
           poolPc' = [poolPc EXCEPT ![c] = v]
    PROVE  /\ Cardinality(Woken') = Cardinality(Woken) - 1
           /\ Cardinality(Woken) \in Nat /\ Cardinality(Woken') \in Nat
  <1>1. Woken' = Woken \ {c} /\ c \in Woken
    BY DEF PoolTypeOK, Woken
  <1>2. IsFiniteSet(Woken) /\ IsFiniteSet(Woken')
    BY PoolAssumption, FS_Subset DEF Woken
  <1> QED
    BY <1>1, <1>2, FS_RemoveElement, FS_CardinalityType

\* A sleeping caller is never overlooked: while somebody sleeps there are at
\* least as many woken callers as idle connections.  A sleeper joins only when
\* the stack is empty, every push wakes one sleeper, and every woken caller
\* that finds a connection takes it.
THEOREM WakeupsSuffice == PoolSpec => []NoLostWakeup
  <1>1. PoolInit => NoLostWakeup
    BY DEF PoolInit, NoLostWakeup
  <1>2. IInv /\ WaitersAsleep /\ NoLostWakeup /\ [PoolNext]_poolVars => NoLostWakeup'
    <2> SUFFICES ASSUME IInv, WaitersAsleep, NoLostWakeup, [PoolNext]_poolVars
                 PROVE  NoLostWakeup'
      OBVIOUS
    <2> USE DEF IInv
    <2>0. Len(idle) \in Nat /\ IsFiniteSet(Woken) /\ Cardinality(Woken) \in Nat
      BY PoolAssumption, FS_Subset, FS_CardinalityType DEF PoolTypeOK, Woken
    <2>1. ASSUME idle' = <<>>
          PROVE  NoLostWakeup'
      <3>1. IsFiniteSet(Woken') /\ Cardinality(Woken') \in Nat
        BY PoolAssumption, FS_Subset, FS_CardinalityType DEF Woken
      <3> QED
        BY <2>1, <3>1 DEF NoLostWakeup
    <2>2. ASSUME Woken' = Woken, UNCHANGED <<idle, waiters>>
          PROVE  NoLostWakeup'
      BY <2>2 DEF NoLostWakeup
    <2>3. ASSUME NEW c \in Borrowers, PopIdle(c), UNCHANGED waiters,
                 poolPc[c] \in {"out", "woken"}
          PROVE  NoLostWakeup'
      <3>1. Len(idle') = Len(idle) - 1
        BY <2>3, ElemsPop DEF PopIdle, PoolTypeOK, NoSharing
      <3>2. CASE poolPc[c] = "out"
        <4>1. Woken' = Woken
          BY <2>3, <3>2 DEF PopIdle, PoolTypeOK, Woken
        <4> QED
          BY <2>0, <2>3, <3>1, <4>1 DEF NoLostWakeup
      <3>3. CASE poolPc[c] = "woken"
        <4>1. Cardinality(Woken') = Cardinality(Woken) - 1
          BY <2>3, <3>3, WokenLeaves DEF PopIdle, PCs
        <4> QED
          BY <2>0, <2>3, <3>1, <4>1 DEF NoLostWakeup
      <3> QED
        BY <2>3, <3>2, <3>3
    <2>4. ASSUME NEW c \in Borrowers, GetClient(c)
          PROVE  NoLostWakeup'
      <3>1. CASE Fail(c) /\ UNCHANGED waiters
        <4>1. Woken' = Woken
          BY <2>4, <3>1 DEF GetClient, Fail, PoolTypeOK, Woken
        <4> QED
          BY <2>2, <3>1, <4>1 DEF Fail
      <3>2. CASE idle = <<>> /\ (Sleep(c) \/ Dial(c))
        <4>1. idle' = <<>>
          BY <3>2 DEF Sleep, Dial, Fail
        <4> QED
          BY <2>1, <4>1
      <3> QED
        BY <2>3, <2>4, <3>1, <3>2 DEF GetClient
    <2>5. ASSUME NEW c \in Borrowers, Resume(c)
          PROVE  NoLostWakeup'
      <3>1. CASE poolClosed /\ Fail(c) /\ UNCHANGED waiters
        <4>1. idle' = <<>>
          BY <3>1 DEF Fail, Bookkeeping
        <4> QED
          BY <2>1, <4>1
      <3>2. CASE idle = <<>> /\ (Sleep(c) \/ Fail(c))
        <4>1. idle' = <<>>
          BY <3>2 DEF Sleep, Fail
        <4> QED
          BY <2>1, <4>1
      <3> QED
        BY <2>3, <2>5, <3>1, <3>2 DEF Resume
    <2>6. ASSUME NEW c \in Borrowers,
                 DeadlinePasses(c) \/ InvokeBegin(c) \/ InvokeEnd(c) \/ DropClient(c)
          PROVE  NoLostWakeup'
      <3>1. Woken' = Woken /\ UNCHANGED <<idle, waiters>>
        BY <2>6 DEF DeadlinePasses, InvokeBegin, InvokeEnd, DropClient, PoolTypeOK, Woken
      <3> QED
        BY <2>2, <3>1
    <2>7. ASSUME NEW c \in Borrowers, ReturnClient(c)
          PROVE  NoLostWakeup'
      <3>1. CASE ~poolClosed /\ Len(idle) < MaxConns
        <4>1. poolPc[c] = "held" /\ Len(idle') = Len(idle) + 1
          BY <2>7, <3>1 DEF ReturnClient, PoolTypeOK
        <4>2. CASE waiters = <<>>
          BY <2>7, <3>1, <4>2 DEF ReturnClient, LeaveAndSignal, NoLostWakeup
        <4>3. CASE waiters # <<>>
          <5>1. Head(waiters) \in Borrowers /\ poolPc[Head(waiters)] = "waiting"
            BY <4>3, ElemsTail DEF PoolTypeOK, WaitersAsleep
          <5>2. poolPc' = [poolPc EXCEPT ![c] = "out", ![Head(waiters)] = "woken"]
            BY <2>7, <3>1, <4>3 DEF ReturnClient, LeaveAndSignal
          <5>3. Woken' = Woken \cup {Head(waiters)} /\ Head(waiters) \notin Woken
            BY <4>1, <5>1, <5>2 DEF PoolTypeOK, Woken
          <5>4. Cardinality(Woken') = Cardinality(Woken) + 1
            BY <2>0, <5>3, FS_AddElement
          <5> QED
            BY <2>0, <4>1, <4>3, <5>4 DEF NoLostWakeup
        <4> QED
          BY <4>2, <4>3
      <3>2. CASE ~(~poolClosed /\ Len(idle) < MaxConns)
        <4>1. Woken' = Woken /\ UNCHANGED <<idle, waiters>>
          BY <2>7, <3>2 DEF ReturnClient, Discard, PoolTypeOK, Woken
        <4> QED
          BY <2>2, <4>1
      <3> QED
        BY <3>1, <3>2
    <2>8. ASSUME PoolClose
          PROVE  NoLostWakeup'
      BY <2>1, <2>8 DEF PoolClose
    <2>9. ASSUME DrainTimeout \/ CloseFinish \/ UNCHANGED poolVars
          PROVE  NoLostWakeup'
      BY <2>2, <2>9 DEF DrainTimeout, CloseFinish, poolVars, Woken
    <2> QED
      BY <2>4, <2>5, <2>6, <2>7, <2>8, <2>9 DEF PoolNext, BorrowerStep
  <1> QED
    BY <1>1, <1>2, Invariance, PTL DEF PoolSpec
-----------------------------------------------------------------------------
\* What Close and the leases rest on beside IInv: a connection whose borrower forgot
\* it is open but neither idle, nor held, nor taken by Close; no other connection is
\* open; and a Close that is done has closed what it took.
Accounted ==
    /\ dropped \subseteq open
    /\ dropped \cap (Elems(idle) \cup Held \cup closing) = {}
    /\ open \subseteq Elems(idle) \cup Held \cup closing \cup dropped
    /\ drain # "none" => poolClosed
    /\ drain = "done" => closing = {}

\* A caller gets connection n, which nobody has: its lease begins.
LEMMA LeaseBegins ==
    ASSUME IInv, NEW c \in Borrowers, c \notin Holders, NEW n \in Conns, ~poolClosed,
           n \notin Held \cup dropped,
           poolPc' = [poolPc EXCEPT ![c] = "held"], conn' = [conn EXCEPT ![c] = n],
           UNCHANGED <<poolClosed, dropped>>
    PROVE  Held' = Held \cup {n} /\ Promised!Grant(c, n)
  <1>1. Holders' = Holders \cup {c}
    BY DEF IInv, PoolTypeOK, Holders, PCs
  <1>2. Held' = Held \cup {n}
    BY <1>1 DEF IInv, PoolTypeOK, Held, Holders
  <1>3. Lease[c] = NoConn /\ Lease' = [Lease EXCEPT ![c] = n]
    BY <1>1 DEF IInv, PoolTypeOK, Lease, Holders
  <1>4. Promised!Leased \subseteq Held
    BY DEF Promised!Leased, Lease, Held
  <1> QED
    BY <1>2, <1>3, <1>4 DEF Promised!Grant

\* A caller parts with its connection: its lease ends.
LEMMA LeaseEnds ==
    ASSUME IInv, NEW c \in Borrowers, c \in Holders, Holders' = Holders \ {c},
           conn' = [conn EXCEPT ![c] = NoConn]
    PROVE  /\ conn[c] \in Conns /\ conn[c] \in Held /\ Held' = Held \ {conn[c]}
           /\ Lease[c] = conn[c] /\ Lease[c] # NoConn
           /\ Lease' = [Lease EXCEPT ![c] = NoConn]
  <1>1. conn[c] \in Conns /\ conn[c] \in Held
    BY DEF IInv, Bookkeeping, Held
  <1>2. \A d \in Holders : d # c => conn[d] # conn[c]
    BY DEF IInv, NoSharing
  <1>3. Held' = Held \ {conn[c]}
    BY <1>2 DEF IInv, PoolTypeOK, Held, Holders
  <1>4. Lease[c] = conn[c] /\ Lease[c] # NoConn
    BY <1>1, PoolAssumption DEF Lease
  <1>5. Lease' = [Lease EXCEPT ![c] = NoConn]
    BY DEF IInv, PoolTypeOK, Lease, Holders
  <1> QED
    BY <1>1, <1>3, <1>4, <1>5

\* A step that leaves the holders and their connections alone is invisible.
LEMMA LeasesStay ==
    ASSUME IInv, Accounted, Holders' = Holders, UNCHANGED <<idle, poolClosed, open, conn, closing, dropped>>,
           drain' = drain \/ (drain = "waiting" /\ drain' = "timedout")
    PROVE  Accounted' /\ UNCHANGED Promised!leaseVars
  <1>1. Held' = Held /\ Lease' = Lease
    BY DEF Held, Lease
  <1> QED
    BY <1>1 DEF Accounted, Promised!leaseVars

\* The top of the stack is leased.
LEMMA PopIdleLease ==
    ASSUME IInv, Accounted, NEW c \in Borrowers, poolPc[c] \in {"out", "woken"}, ~poolClosed, PopIdle(c)
    PROVE  Accounted' /\ \E n \in Conns : Promised!Grant(c, n)
  <1> DEFINE n == idle[Len(idle)]
  <1>1. n \in Conns /\ n \in Elems(idle) /\ Elems(idle') = Elems(idle) \ {n}
    BY ElemsPop DEF IInv, PoolTypeOK, NoSharing, PopIdle
  <1>2. n \notin Held \cup dropped
    BY <1>1 DEF IInv, NoSharing, Accounted
  <1>3. c \notin Holders
    BY DEF Holders
  <1>4. Held' = Held \cup {n} /\ Promised!Grant(c, n)
    <2> HIDE DEF n
    <2>1. poolPc' = [poolPc EXCEPT ![c] = "held"] /\ conn' = [conn EXCEPT ![c] = n]
          /\ UNCHANGED <<poolClosed, dropped>>
      BY DEF PopIdle, n
    <2> QED
      BY <1>1, <1>2, <1>3, <2>1, LeaseBegins
  <1>5. Accounted'
    BY <1>1, <1>2, <1>4 DEF Accounted, PopIdle
  <1> QED
    BY <1>1, <1>4, <1>5

\* A fresh socket is leased, or the caller gets an error.
LEMMA DialLease ==
    ASSUME IInv, Accounted, NEW c \in Borrowers, poolPc[c] = "out", ~poolClosed, Dial(c)
    PROVE  /\ Accounted'
           /\ (\E n \in Conns : Promised!Grant(c, n)) \/ UNCHANGED Promised!leaseVars
  <1>1. CASE Fail(c)
    <2>1. Holders' = Holders
      BY <1>1 DEF IInv, PoolTypeOK, Fail, Holders
    <2> QED
      BY <1>1, <2>1, LeasesStay DEF Fail
  <1>2. ASSUME NEW n \in Conns \ open,
               open' = open \cup {n},
               poolPc' = [poolPc EXCEPT ![c] = "held"],
               conn' = [conn EXCEPT ![c] = n],
               UNCHANGED <<idle, poolClosed, closing, drain, dropped>>
        PROVE  Accounted' /\ Promised!Grant(c, n)
    <2>1. n \notin Held \cup dropped /\ n \notin Elems(idle) /\ n \notin closing
      BY DEF IInv, Bookkeeping, Accounted
    <2>2. c \notin Holders
      BY DEF Holders
    <2>3. Held' = Held \cup {n} /\ Promised!Grant(c, n)
      BY <1>2, <2>1, <2>2, LeaseBegins
    <2> QED
      BY <1>2, <2>1, <2>3 DEF Accounted
  <1> QED
    BY <1>1, <1>2 DEF Dial

\* The connection goes back to the stack or is closed.
LEMMA ReturnLease ==
    ASSUME IInv, WaitersAsleep, Accounted, NEW c \in Borrowers, ReturnClient(c)
    PROVE  Accounted' /\ Promised!GiveBack(c)
  <1>1. c \in Holders
    BY DEF ReturnClient, Holders
  <1>2. waiters # <<>> => Head(waiters) \in Borrowers /\ poolPc[Head(waiters)] = "waiting"
    <2>1. waiters # <<>> => Head(waiters) \in Borrowers /\ Head(waiters) \in Elems(waiters)
      BY ElemsTail DEF IInv, PoolTypeOK, WaitersAsleep
    <2> QED
      BY <2>1 DEF WaitersAsleep
  <1>3. Holders' = Holders \ {c}
    BY <1>2 DEF IInv, PoolTypeOK, ReturnClient, LeaveAndSignal, Holders, PCs
  <1>4. conn' = [conn EXCEPT ![c] = NoConn] /\ UNCHANGED <<poolClosed, closing, drain, dropped>>
    BY DEF ReturnClient
  <1>5. /\ conn[c] \in Conns /\ conn[c] \in Held /\ Held' = Held \ {conn[c]}
        /\ Lease[c] # NoConn /\ Lease' = [Lease EXCEPT ![c] = NoConn]
    BY <1>1, <1>3, <1>4, LeaseEnds
  <1>6. Promised!GiveBack(c)
    BY <1>4, <1>5 DEF Promised!GiveBack
  <1>7. CASE ~poolClosed /\ Len(idle) < MaxConns
    <2>1. idle' = Append(idle, conn[c]) /\ UNCHANGED open
      BY <1>7 DEF ReturnClient
    <2>2. Elems(idle') = Elems(idle) \cup {conn[c]}
      BY <1>5, <2>1, ElemsAppend DEF IInv, PoolTypeOK
    <2>3. Accounted'
      BY <1>4, <1>5, <2>1, <2>2 DEF Accounted
    <2> QED
      BY <1>6, <2>3
  <1>8. CASE ~(~poolClosed /\ Len(idle) < MaxConns)
    <2>1. open' = open \ {conn[c]} /\ UNCHANGED idle
      BY <1>8 DEF ReturnClient, Discard
    <2>2. Accounted'
      BY <1>4, <1>5, <2>1 DEF Accounted, IInv, NoSharing
    <2> QED
      BY <1>6, <2>2
  <1> QED
    BY <1>7, <1>8

\* RPCTo or ServiceProxy forgets the connection.
LEMMA DropLease ==
    ASSUME IInv, Accounted, NEW c \in Borrowers, DropClient(c)
    PROVE  Accounted' /\ Promised!Forget(c)
  <1>1. c \in Holders /\ Holders' = Holders \ {c}
    BY DEF IInv, PoolTypeOK, DropClient, Holders
  <1>2. /\ conn' = [conn EXCEPT ![c] = NoConn] /\ dropped' = dropped \cup {conn[c]}
        /\ UNCHANGED <<idle, poolClosed, open, closing, drain>>
    BY DEF DropClient
  <1>3. /\ conn[c] \in Held /\ Held' = Held \ {conn[c]}
        /\ Lease[c] = conn[c] /\ Lease[c] # NoConn /\ Lease' = [Lease EXCEPT ![c] = NoConn]
    BY <1>1, <1>2, LeaseEnds
  <1>4. Accounted'
    BY <1>2, <1>3 DEF Accounted, IInv, NoSharing, Bookkeeping
  <1>5. Promised!Forget(c)
    BY <1>2, <1>3 DEF Promised!Forget
  <1> QED
    BY <1>4, <1>5

\* Every step of the pool is a step of the leases or invisible to them.
LEMMA NextLease ==
    ASSUME IInv, WaitersAsleep, Accounted, [PoolNext]_poolVars
    PROVE  Accounted' /\ [Promised!LeaseNext]_(Promised!leaseVars)
  <1>1. ASSUME NEW c \in Borrowers, poolPc[c] \in {"out", "woken"}, Fail(c) \/ Sleep(c)
        PROVE  Accounted' /\ UNCHANGED Promised!leaseVars
    <2>1. Holders' = Holders
      BY <1>1 DEF IInv, PoolTypeOK, Fail, Sleep, Holders
    <2> QED
      BY <1>1, <2>1, LeasesStay DEF Fail, Sleep
  <1>2. ASSUME NEW c \in Borrowers, GetClient(c) \/ Resume(c)
        PROVE  /\ Accounted'
               /\ (\E n \in Conns : Promised!Grant(c, n)) \/ UNCHANGED Promised!leaseVars
    BY <1>1, <1>2, PopIdleLease, DialLease DEF GetClient, Resume
  <1>3. ASSUME NEW c \in Borrowers, DeadlinePasses(c) \/ InvokeBegin(c) \/ InvokeEnd(c)
        PROVE  Accounted' /\ UNCHANGED Promised!leaseVars
    <2>1. Holders' = Holders
      BY <1>3 DEF IInv, PoolTypeOK, DeadlinePasses, InvokeBegin, InvokeEnd, Holders
    <2> QED
      BY <1>3, <2>1, LeasesStay DEF DeadlinePasses, InvokeBegin, InvokeEnd
  <1>4. ASSUME DrainTimeout \/ UNCHANGED poolVars
        PROVE  Accounted' /\ UNCHANGED Promised!leaseVars
    <2>1. Holders' = Holders
      BY <1>4 DEF DrainTimeout, poolVars, Holders
    <2> QED
      BY <1>4, <2>1, LeasesStay DEF DrainTimeout, poolVars
  <1>5. ASSUME CloseFinish
        PROVE  Accounted' /\ UNCHANGED Promised!leaseVars
    <2>1. Held' = Held /\ Lease' = Lease
      BY <1>5 DEF CloseFinish, Holders, Held, Lease
    <2> QED
      BY <1>5, <2>1 DEF CloseFinish, Accounted, Promised!leaseVars
  <1>6. ASSUME PoolClose
        PROVE  Accounted' /\ Promised!End
    <2>1. Holders' = Holders
      BY <1>6 DEF IInv, PoolTypeOK, PoolClose, Holders
    <2>2. Held' = Held /\ Lease' = Lease
      BY <1>6, <2>1 DEF PoolClose, Held, Lease
    <2>3. closing = {} /\ Elems(<<>>) = {}
      BY <1>6 DEF IInv, Bookkeeping, PoolClose, Elems
    <2> QED
      BY <1>6, <2>2, <2>3 DEF PoolClose, Accounted, Promised!End
  <1> QED
    BY <1>2, <1>3, <1>4, <1>5, <1>6, ReturnLease, DropLease
       DEF PoolNext, BorrowerStep, Promised!LeaseNext

\* The invariant of the refinement.
THEOREM AllAccounted == PoolSpec => []Accounted
  <1>1. PoolInit => Accounted
    BY DEF PoolInit, Accounted
  <1>2. IInv /\ WaitersAsleep /\ Accounted /\ [PoolNext]_poolVars => Accounted'
    BY NextLease
  <1> QED
    BY <1>1, <1>2, Invariance, PTL DEF PoolSpec

\* Once Close has returned, a socket that is still open is held by a caller, or was by
\* one that never closed its client.
THEOREM CloseLeaksNothing == PoolSpec => []NoLeakAfterClose
  <1>1. IInv /\ Accounted => NoLeakAfterClose
    <2>1. Elems(<<>>) = {}
      BY DEF Elems
    <2> QED
      BY <2>1 DEF IInv, Bookkeeping, Accounted, NoLeakAfterClose
  <1> QED
    BY <1>1, AllAccounted, Invariance, PTL

\* For any number of callers and connections the pool implements exclusive leases:
\* GetClient grants, returnClient and the forgetful proxies end, Close is the end.
THEOREM Refinement == PoolSpec => ImplementsLease
  <1>1. PoolInit => Promised!LeaseInit
    BY DEF PoolInit, Promised!LeaseInit, Lease, Holders
  <1>2. IInv /\ WaitersAsleep /\ Accounted /\ [PoolNext]_poolVars
          => [Promised!LeaseNext]_(Promised!leaseVars)
    BY NextLease
  <1> QED
    BY <1>1, <1>2, AllAccounted, Invariance, PTL DEF PoolSpec, ImplementsLease, Promised!LeaseSpec
=============================================================================
