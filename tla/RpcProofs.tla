------------------------------ MODULE RpcProofs ------------------------------
(***************************************************************************)
(* Proofs about the smaller parts of the RPC side: the client manager, one *)
(* pooled connection from end to end for any number of callers and         *)
(* requests, and the choice of a server, in turn and from the hash ring,   *)
(* for any servers, replicas and hash function.                            *)
(***************************************************************************)
EXTENDS Rpc, FiniteSetTheorems, SequenceTheorems, WellFoundedInduction, TLAPS

-----------------------------------------------------------------------------
(* rpcClientManager.                                                       *)

\* m.pools holds the pool as long as Close has not come, and nothing afterwards.
MgrIInv ==
    /\ pools \in 0..1
    /\ known => pools = 1 /\ mgrClose = "no"
    /\ ~known /\ mgrClose = "no" => pools = 0

\* A step of the manager keeps it: the second look under the write lock is what
\* makes CreatePool safe.
LEMMA MgrStep == MgrIInv /\ [MgrNext]_mgrVars => MgrIInv'
<1> SUFFICES ASSUME MgrIInv, [MgrNext]_mgrVars PROVE MgrIInv'
  OBVIOUS
<1> USE DEF MgrIInv
<1>1. ASSUME NEW c \in Askers, GetPool(c) \/ SelectServer(c) PROVE MgrIInv'
  BY <1>1 DEF GetPool, SelectServer
<1>2. ASSUME NEW c \in Askers, CreatePool(c) PROVE MgrIInv'
  BY <1>2 DEF CreatePool
<1>3. CASE CloseManager
  BY <1>3 DEF CloseManager
<1>4. CASE UNCHANGED mgrVars
  BY <1>4 DEF mgrVars
<1>5. QED
  BY <1>1, <1>2, <1>3, <1>4 DEF MgrNext

\* rpcClientManager.GetClient: however many calls miss the type at once, one pool
\* is made for it.
THEOREM OnePoolMade == Spec => []OnePool
<1>1. Init => MgrIInv
  BY DEF Init, MgrInit, MgrIInv
<1>2. MgrIInv /\ [Next]_vars => MgrIInv'
  <2>1. [Next]_vars => [MgrNext]_mgrVars
    BY DEF Next, vars, Part, Others
  <2>2. QED
    BY <2>1, MgrStep
<1>3. MgrIInv => OnePool
  BY DEF MgrIInv, OnePool
<1>4. QED
  BY <1>1, <1>2, <1>3, PTL DEF Spec

-----------------------------------------------------------------------------
(* One pooled connection.                                                  *)

StreamShape ==
    /\ seq \in Nat /\ cur \in Nat
    /\ got = [c \in Callers |-> got[c]]
    /\ holder \in Callers \cup {Nobody}
    /\ cur # 0 => holder # Nobody

\* The request a caller waits for is the only thing on its way, and nothing is
\* when nobody waits: in one direction, in the other, or in the handler.
Carried(q, h, r) ==
    \/ q = <<>> /\ h = 0 /\ r = <<>>
    \/ cur # 0 /\ q = <<cur>> /\ h = 0 /\ r = <<>>
    \/ cur # 0 /\ q = <<>> /\ h = cur /\ r = <<>>
    \/ cur # 0 /\ q = <<>> /\ h = 0 /\ r = <<cur>>

\* Until a Notify or a failed call has used the connection.
CleanStream == ~dirty => ~garbled /\ Carried(toServer, handling, toClient)

StreamIInv == StreamShape /\ CleanStream

\* Sequences of one element.
LEMMA Singleton ==
    \A x : /\ Append(<<>>, x) = <<x>> /\ <<x>> # <<>>
          /\ Head(<<x>>) = x /\ Tail(<<x>>) = <<>>
<1>1. ASSUME NEW x PROVE Append(<<>>, x) = <<x>>
  OBVIOUS
<1>2. ASSUME NEW x PROVE <<x>> # <<>> /\ Head(<<x>>) = x
  OBVIOUS
<1>3. ASSUME NEW x PROVE Tail(<<x>>) = <<>>
  OBVIOUS
<1>4. QED
  BY <1>1, <1>2, <1>3

\* Both ends keep it.
LEMMA StreamStep == StreamIInv /\ [StreamNext]_streamVars => StreamIInv'
<1> SUFFICES ASSUME StreamIInv, [StreamNext]_streamVars PROVE StreamIInv'
  OBVIOUS
<1> USE StreamAssumption DEF StreamIInv, StreamShape, CleanStream, Carried
<1>1. ASSUME NEW c \in Callers, Borrow(c) PROVE StreamIInv'
  BY <1>1 DEF Borrow
<1>2. CASE GiveBack
  BY <1>2 DEF GiveBack
<1>3. CASE Invoke
  <2>1. cur = 0 /\ cur' = seq + 1 /\ seq' = seq + 1 /\ holder \in Callers
    BY <1>3 DEF Invoke, WriteFrame
  <2>2. StreamShape'
    <3>1. holder' = holder /\ got' = [got EXCEPT ![holder] = 0]
      BY <1>3, Zenon DEF Invoke, WriteFrame
    <3>2. QED
      BY <2>1, <3>1
  <2>3. UNCHANGED <<dirty, garbled, handling, toClient>>
    BY <1>3, Zenon DEF Invoke, WriteFrame
  <2>4. toServer' = Append(toServer, cur') \/ UNCHANGED toServer
    BY <1>3 DEF Invoke, WriteFrame
  <2>5. cur' # 0
    BY <2>1
  <2>6. QED
    BY <2>1, <2>2, <2>3, <2>4, <2>5, Singleton
<1>4. CASE StreamNotify
  BY <1>4 DEF StreamNotify, WriteFrame
<1>5. CASE ReadReply
  BY <1>5, Singleton DEF ReadReply
<1>6. CASE ReadTimesOut \/ StreamReadFails
  <2>1. cur' = 0 /\ dirty' = TRUE /\ UNCHANGED <<seq, got, holder>>
    BY <1>6, Zenon DEF ReadTimesOut, StreamReadFails
  <2>2. QED
    BY <2>1
<1>7. CASE ServerRead
  BY <1>7, Singleton DEF ServerRead
<1>8. CASE Respond
  BY <1>8, Singleton DEF Respond
<1>9. CASE RespondUnencodable
  BY <1>9 DEF RespondUnencodable
<1>10. CASE ServerCloses
  BY <1>10 DEF ServerCloses
<1>11. CASE UNCHANGED streamVars
  BY <1>11 DEF streamVars
<1>12. QED
  BY <1>1, <1>2, <1>3, <1>4, <1>5, <1>6, <1>7, <1>8, <1>9, <1>10, <1>11 DEF StreamNext

\* clientConn.InvokeCtx, which never compares the numbers: on a connection that no
\* Notify and no failed call has used, it returns the response to its own request.
THEOREM RepliesMatch == Spec => CleanReplies
<1>1. Init => StreamIInv
  BY DEF Init, StreamInit, StreamIInv, StreamShape, CleanStream, Carried
<1>2. [Next]_vars => [StreamNext]_streamVars
  BY DEF Next, vars, Part, Others
<1>3. StreamIInv /\ [Next]_vars => StreamIInv'
  BY <1>2, StreamStep
<1>4. StreamIInv /\ [Next]_vars
        => [(~dirty /\ cur # 0 /\ cur' = 0 /\ toClient' # toClient) => got'[holder] = cur]_streamVars
  <2> SUFFICES ASSUME StreamIInv, StreamNext, ~dirty, cur # 0, cur' = 0, toClient' # toClient
               PROVE  got'[holder] = cur
    BY <1>2
  <2>1. ReadReply
    BY DEF StreamNext, Borrow, GiveBack, Invoke, StreamNotify, ReadTimesOut, StreamReadFails,
           ServerRead, Respond, RespondUnencodable, ServerCloses, WriteFrame
  <2>2. holder \in Callers /\ toClient = <<cur>>
    BY <2>1 DEF ReadReply, StreamIInv, StreamShape, CleanStream, Carried
  <2>3. QED
    BY <2>1, <2>2 DEF ReadReply, StreamIInv, StreamShape
<1>5. QED
  BY <1>1, <1>3, <1>4, PTL DEF Spec, CleanReplies

-----------------------------------------------------------------------------
(* LoadBalancer's round robin.                                             *)

\* Division.
LEMMA Remainder ==
    ASSUME NEW a \in Int, NEW m \in Int, m > 0
    PROVE  a \div m \in Int /\ a % m \in 0..(m - 1) /\ a = m * (a \div m) + (a % m)
<1>1. a = m * (a \div m) + (a % m)
  OBVIOUS
<1>2. a \div m \in Int /\ a % m \in 0..(m - 1)
  OBVIOUS
<1>3. QED
  BY <1>1, <1>2

\* A remainder is the one of its own division.
LEMMA RemainderOf ==
    ASSUME NEW m \in Int, m > 0, NEW q \in Int, NEW r \in 0..(m - 1)
    PROVE  (m * q + r) % m = r
  OBVIOUS

\* An index that moves by at most one round wraps around at most once.
LEMMA Wraps ==
    ASSUME NEW a \in Int, NEW m \in Int, m > 0, NEW d \in 0..m
    PROVE  (a + d) % m = IF (a % m) + d < m THEN (a % m) + d ELSE (a % m) + d - m
<1> DEFINE r == a % m
           q == a \div m
<1>1. r \in 0..(m - 1) /\ q \in Int /\ a = m * q + r
  BY Remainder
<1>2. (a + d) % m = IF r + d < m THEN r + d ELSE r + d - m
  <2> HIDE DEF r, q
  <2>1. CASE r + d < m
    <3>1. a + d = m * q + (r + d) /\ r + d \in 0..(m - 1)
      BY <1>1, <2>1
    <3>2. QED
      BY <1>1, <2>1, <3>1, RemainderOf
  <2>2. CASE r + d >= m
    <3>1. a + d = m * (q + 1) + (r + d - m)
      BY <1>1
    <3>2. r + d - m \in 0..(m - 1) /\ q + 1 \in Int
      BY <1>1, <2>2
    <3>3. (m * (q + 1) + (r + d - m)) % m = r + d - m
      BY <3>2, RemainderOf
    <3>4. QED
      BY <1>1, <2>2, <3>1, <3>3
  <2>3. QED
    BY <1>1, <2>1, <2>2
<1>3. QED
  BY <1>2

\* The place in a list of len servers that an index steps back to.
Wrap(x, len) == IF x >= 1 THEN x ELSE x + len

\* A choice of one server: where index a points is where the index after d more
\* choices steps back to.
LEMMA StepsBack ==
    ASSUME NEW a \in Nat, NEW len \in Nat, len > 0, NEW d \in 1..len
    PROVE  (a % len) + 1 = Wrap(((a + d) % len) - (d - 1), len)
<1>1. ASSUME NEW r \in 0..(len - 1), NEW x, x = IF r + d < len THEN r + d ELSE r + d - len
      PROVE  r + 1 = Wrap(x - (d - 1), len)
  BY <1>1 DEF Wrap
<1>2. a % len \in 0..(len - 1)
  BY Remainder
<1>3. (a + d) % len = IF (a % len) + d < len THEN (a % len) + d ELSE (a % len) + d - len
  <2>1. a \in Int /\ len \in Int /\ d \in 0..len
    OBVIOUS
  <2>2. QED
    BY <2>1, Wraps
<1>4. QED
  BY <1>1, <1>2, <1>3

\* An earlier choice that n more choices have not yet pushed out stays where it was.
LEMMA StaysInRound ==
    ASSUME NEW len \in Nat, len > 0, NEW idx \in 0..(len - 1), NEW n \in 1..len,
           NEW back \in Nat, back + n < len
    PROVE  Wrap(idx - back, len) = Wrap(((idx + n) % len) - (back + n), len)
<1>1. ASSUME NEW x, x = IF idx + n < len THEN idx + n ELSE idx + n - len
      PROVE  Wrap(idx - back, len) = Wrap(x - (back + n), len)
  BY <1>1 DEF Wrap
<1>2. idx % len = idx
  <2>1. (len * 0 + idx) % len = idx
    BY RemainderOf
  <2>2. QED
    BY <2>1
<1>3. (idx + n) % len = IF idx + n < len THEN idx + n ELSE idx + n - len
  BY <1>2, Wraps
<1>4. QED
  BY <1>1, <1>3

-----------------------------------------------------------------------------
\* What the lists are: without repetition.
LbShape ==
    /\ listed \in Seq(Servers)
    /\ \A i, j \in 1..Len(listed) : listed[i] = listed[j] => i = j
    /\ snapshot \in [Choosers -> Seq(Servers)]
    /\ curIdx \in Nat

\* The servers chosen since the list last changed are the ones before curIdx, at
\* most one round of them.
InRound(ch, idx) ==
    /\ ch \in Seq(Servers)
    /\ ch # <<>> =>
          /\ Len(ch) <= Len(listed) /\ idx < Len(listed)
          /\ \A i \in 1..Len(ch) : ch[i] = listed[Wrap(idx - (Len(ch) - i), Len(listed))]

LbIInv == LbShape /\ InRound(chosen, curIdx)

\* SelectMulti, and Select for n = 1.
LEMMA ChooseKeeps ==
    ASSUME LbIInv, NEW g \in Choosers, NEW n \in Nat \ {0}, Choose(g, n) PROVE LbIInv'
<1>1. PICK servers, len, picks, all, k :
         /\ servers = snapshot[g] /\ len = Len(servers) /\ k = Len(chosen)
         /\ picks = [i \in 1..n |-> servers[((curIdx + i - 1) % len) + 1]]
         /\ all = chosen \o picks
  OBVIOUS
<1>2. /\ n <= len
      /\ curIdx' = (curIdx + n) % len
      /\ chosen' = IF servers # listed THEN <<>>
                   ELSE IF Len(all) > len THEN SubSeq(all, Len(all) - len + 1, Len(all)) ELSE all
      /\ snapshot' = [snapshot EXCEPT ![g] = <<>>]
      /\ listed' = listed
  BY <1>1 DEF Choose, NextIdx
<1>3. servers \in Seq(Servers) /\ len \in Nat /\ len > 0 /\ k \in Nat /\ curIdx \in Nat
      /\ chosen \in Seq(Servers) /\ n \in 1..len
  BY <1>1, <1>2 DEF LbIInv, LbShape, InRound
<1>4. curIdx' \in 0..(len - 1)
  BY <1>2, <1>3, Remainder
<1>5. LbShape'
  BY <1>2, <1>4 DEF LbIInv, LbShape
<1>6. picks \in Seq(Servers) /\ Len(picks) = n
  <2>1. ASSUME NEW i \in 1..n PROVE ((curIdx + i - 1) % len) + 1 \in 1..len
    <3>1. PICK a \in Int : a = curIdx + i - 1
      BY <1>3
    <3>2. a % len \in 0..(len - 1)
      BY <1>3, Remainder
    <3>3. QED
      BY <1>3, <3>1, <3>2
  <2>2. picks \in [1..n -> Servers]
    BY <1>1, <1>3, <2>1
  <2>3. QED
    BY <1>3, <2>2
<1>7. all \in Seq(Servers) /\ Len(all) = k + n
  BY <1>1, <1>3, <1>6
<1>8. CASE servers # listed
  <2>1. chosen' = <<>>
    BY <1>2, <1>8
  <2>2. QED
    BY <1>5, <2>1 DEF LbIInv, InRound
<1>9. CASE servers = listed
  <2>1. PICK kk \in 1..len :
          /\ chosen' \in Seq(Servers) /\ Len(chosen') = kk /\ kk <= k + n
          /\ \A j \in 1..kk : chosen'[j] = all[k + n - kk + j]
    <3>1. CASE k + n > len
      <4>1. chosen' = SubSeq(all, Len(all) - len + 1, Len(all))
        <5>1. Len(all) > len
          BY <1>7, <3>1
        <5>2. QED
          BY <1>2, <1>9, <5>1
      <4>2. PICK low \in 1..(k + n), top \in Nat :
               top = k + n /\ low = top - len + 1
        BY <1>3, <3>1
      <4>3. chosen' = SubSeq(all, low, top) /\ Len(all) = top
        BY <1>7, <4>1, <4>2
      <4>4. chosen' \in Seq(Servers) /\ Len(chosen') = len
        BY <1>3, <1>7, <4>2, <4>3
      <4>5. ASSUME NEW j \in 1..len PROVE chosen'[j] = all[k + n - len + j]
        <5>1. j \in 1..(top - low + 1) /\ low + j - 1 = k + n - len + j
          BY <1>3, <4>2
        <5>2. \A i \in low..top : all[i] \in Servers
          BY <1>7, <4>2, <4>3
        <5>3. SubSeq(all, low, top)[j] = all[low + j - 1]
          BY <4>2, <5>1, <5>2, SubSeqProperties
        <5>4. QED
          BY <4>3, <5>1, <5>3
      <4>6. len \in 1..len /\ len <= k + n
        BY <1>3, <3>1
      <4>7. QED
        BY <4>4, <4>5, <4>6
    <3>2. CASE k + n <= len
      <4>1. chosen' = all
        BY <1>2, <1>3, <1>7, <1>9, <3>2
      <4>2. QED
        BY <1>3, <1>7, <3>2, <4>1
    <3>3. QED
      BY <1>3, <3>1, <3>2
  <2>2. ASSUME NEW m \in 1..(k + n), k + n - m < len
        PROVE  all[m] = listed[Wrap(curIdx' - (k + n - m), len)]
    <3>1. CASE m > k
      <4>1. PICK i \in 1..n : m = k + i
        <5>1. m - k \in 1..n /\ m = k + (m - k)
          BY <1>3, <3>1
        <5>2. QED
          BY <5>1
      <4>2. all[m] = picks[i]
        BY <1>1, <1>3, <1>6, <4>1
      <4>3. PICK a \in Nat : a = curIdx + i - 1
        BY <1>3
      <4>4. PICK d \in 1..len : d = n - i + 1
        BY <1>3
      <4>5. a + d = curIdx + n /\ d - 1 = k + n - m
        BY <1>3, <4>1, <4>3, <4>4
      <4>6. (a % len) + 1 = Wrap(((a + d) % len) - (d - 1), len)
        BY <1>3, StepsBack
      <4>7. all[m] = listed[(a % len) + 1]
        BY <1>1, <1>9, <4>2, <4>3
      <4>8. QED
        BY <1>2, <4>5, <4>6, <4>7
    <3>2. CASE m <= k
      <4>1. m \in 1..k
        BY <1>3, <3>2
      <4>2. all[m] = chosen[m]
        BY <1>1, <1>3, <1>6, <4>1
      <4>3. chosen # <<>>
        BY <1>1, <1>3, <4>1
      <4>4. k <= len /\ curIdx < len /\ chosen[m] = listed[Wrap(curIdx - (k - m), len)]
        BY <1>1, <1>9, <4>1, <4>3 DEF LbIInv, InRound
      <4>5. PICK back \in Nat : back = k - m
        <5>1. k - m \in Nat
          BY <1>3, <4>1
        <5>2. QED
          BY <5>1
      <4>6. back + n = k + n - m /\ back + n < len /\ curIdx \in 0..(len - 1)
        <5>1. k \in Nat /\ n \in Nat /\ m \in Nat /\ len \in Nat /\ curIdx \in Nat
          BY <1>3, <4>1
        <5>2. back + n = k + n - m
          BY <4>5, <5>1
        <5>3. k + n - m < len
          BY <2>2
        <5>4. curIdx \in 0..(len - 1)
          BY <4>4, <5>1
        <5>5. QED
          BY <5>2, <5>3, <5>4
      <4>7. Wrap(curIdx - back, len) = Wrap(((curIdx + n) % len) - (back + n), len)
        BY <1>3, <4>6, StaysInRound
      <4>8. QED
        BY <1>2, <4>2, <4>4, <4>5, <4>6, <4>7
    <3>3. QED
      BY <1>3, <3>1, <3>2
  <2>3. InRound(chosen, curIdx)'
    <3>1. len = Len(listed') /\ kk <= len /\ curIdx' < len
      BY <1>1, <1>2, <1>3, <1>4, <1>9, <2>1
    <3>2. ASSUME NEW j \in 1..kk PROVE chosen'[j] = listed[Wrap(curIdx' - (kk - j), len)]
      <4>0. kk \in Nat /\ kk <= k + n
        BY <1>3, <2>1
      <4>1. PICK m \in 1..(k + n) : m = k + n - kk + j
        BY <1>3, <4>0
      <4>2. k + n - m = kk - j /\ k + n - m < len
        BY <1>3, <2>1, <4>1
      <4>3. QED
        BY <2>1, <2>2, <4>1, <4>2
    <3>3. QED
      BY <1>2, <2>1, <3>1, <3>2 DEF InRound
  <2>4. QED
    BY <1>5, <2>3 DEF LbIInv
<1>10. QED
  BY <1>8, <1>9

\* A server joins or leaves the list: it stays without repetition.
LEMMA RelistKeeps == ASSUME LbIInv, NEW s \in Servers, Relist(s) PROVE LbIInv'
<1>1. UNCHANGED <<snapshot, curIdx>> /\ chosen' = <<>>
  BY DEF Relist
<1>2. listed' \in Seq(Servers) /\ \A i, j \in 1..Len(listed') : listed'[i] = listed'[j] => i = j
  <2>1. CASE ~Contains(listed, s) /\ listed' = Append(listed, s)
    BY <2>1 DEF LbIInv, LbShape, Contains
  <2>2. ASSUME NEW r \in DOMAIN listed, listed' = RemoveAt(listed, r) 
        PROVE  /\ listed' \in Seq(Servers)
               /\ \A i, j \in 1..Len(listed') : listed'[i] = listed'[j] => i = j
    <3>1. PICK len \in Nat : len = Len(listed) /\ r \in 1..len /\ listed \in Seq(Servers)
      BY DEF LbIInv, LbShape
    <3>2. listed' = SubSeq(listed, 1, r - 1) \o SubSeq(listed, r + 1, len)
      BY <2>2, <3>1 DEF RemoveAt
    <3>3. PICK left, right : /\ left = SubSeq(listed, 1, r - 1)
                             /\ right = SubSeq(listed, r + 1, len) /\ listed' = left \o right
      BY <3>2
    <3>4. /\ left \in Seq(Servers) /\ Len(left) = r - 1
          /\ \A i \in 1..(r - 1) : left[i] = listed[i]
      <4>1. PICK top \in Int : top = r - 1
        BY <3>1
      <4>2. \A i \in 1..top : listed[i] \in Servers
        BY <3>1, <4>1
      <4>3. /\ SubSeq(listed, 1, top) \in Seq(Servers)
            /\ Len(SubSeq(listed, 1, top)) = IF 1 <= top THEN top - 1 + 1 ELSE 0
            /\ \A i \in 1..(top - 1 + 1) : SubSeq(listed, 1, top)[i] = listed[1 + i - 1]
        BY <4>2, SubSeqProperties
      <4>4. left = SubSeq(listed, 1, top)
        BY <3>3, <4>1
      <4>5. left \in Seq(Servers) /\ Len(left) = r - 1
        BY <3>1, <4>1, <4>3, <4>4
      <4>6. ASSUME NEW i \in 1..(r - 1) PROVE left[i] = listed[i]
        <5>1. i \in 1..(top - 1 + 1) /\ 1 + i - 1 = i
          BY <3>1, <4>1
        <5>2. QED
          BY <4>3, <4>4, <5>1
      <4>7. QED
        BY <4>5, <4>6
    <3>5. /\ right \in Seq(Servers) /\ Len(right) = len - r
          /\ \A i \in 1..(len - r) : right[i] = listed[r + i]
      <4>1. PICK low \in Int : low = r + 1
        BY <3>1
      <4>2. \A i \in low..len : listed[i] \in Servers
        BY <3>1, <4>1
      <4>3. /\ SubSeq(listed, low, len) \in Seq(Servers)
            /\ Len(SubSeq(listed, low, len)) = IF low <= len THEN len - low + 1 ELSE 0
            /\ \A i \in 1..(len - low + 1) : SubSeq(listed, low, len)[i] = listed[low + i - 1]
        BY <3>1, <4>1, <4>2, SubSeqProperties
      <4>4. right = SubSeq(listed, low, len)
        BY <3>3, <4>1
      <4>5. right \in Seq(Servers) /\ Len(right) = len - r
        BY <3>1, <4>1, <4>3, <4>4
      <4>6. ASSUME NEW i \in 1..(len - r) PROVE right[i] = listed[r + i]
        <5>1. i \in 1..(len - low + 1) /\ low + i - 1 = r + i
          BY <3>1, <4>1
        <5>2. QED
          BY <4>3, <4>4, <5>1
      <4>7. QED
        BY <4>5, <4>6
    <3>6. /\ listed' \in Seq(Servers) /\ Len(listed') = len - 1
          /\ \A i \in 1..(len - 1) : listed'[i] = IF i <= r - 1 THEN left[i] ELSE right[i - (r - 1)]
      <4>1. /\ left \o right \in Seq(Servers)
            /\ Len(left \o right) = Len(left) + Len(right)
            /\ \A i \in 1..(Len(left) + Len(right)) :
                  (left \o right)[i] = IF i <= Len(left) THEN left[i] ELSE right[i - Len(left)]
        BY <3>4, <3>5, ConcatProperties
      <4>2. Len(left) + Len(right) = len - 1
        BY <3>1, <3>4, <3>5
      <4>3. QED
        BY <3>3, <3>4, <4>1, <4>2
    <3>7. ASSUME NEW i \in 1..(len - 1) PROVE listed'[i] = listed[IF i < r THEN i ELSE i + 1]
      <4>1. CASE i < r
        <5>1. i <= r - 1 /\ i \in 1..(r - 1)
          BY <3>1, <4>1
        <5>2. listed'[i] = left[i]
          BY <3>6, <5>1
        <5>3. QED
          BY <3>4, <4>1, <5>1, <5>2
      <4>2. CASE i >= r
        <5>0. ~(i <= r - 1)
          BY <3>1, <4>2
        <5>1. listed'[i] = right[i - (r - 1)] /\ i - (r - 1) \in 1..(len - r)
          <6>1. listed'[i] = right[i - (r - 1)]
            BY <3>6, <5>0
          <6>2. i - (r - 1) \in 1..(len - r)
            BY <3>1, <4>2
          <6>3. QED
            BY <6>1, <6>2
        <5>2. right[i - (r - 1)] = listed[r + (i - (r - 1))] /\ r + (i - (r - 1)) = i + 1
          BY <3>1, <3>5, <5>1
        <5>3. QED
          BY <3>1, <4>2, <5>1, <5>2
      <4>3. QED
        BY <3>1, <4>1, <4>2
    <3>8. QED
      BY <3>1, <3>6, <3>7 DEF LbIInv, LbShape
  <2>3. QED
    BY <2>1, <2>2 DEF Relist
<1>3. QED
  BY <1>1, <1>2 DEF LbIInv, LbShape, InRound

\* Initially the servers are listed once each.
LEMMA LbInitial == SelInit => LbIInv
<1> SUFFICES ASSUME SelInit PROVE LbIInv
  OBVIOUS
<1>1. PICK f \in [1..Cardinality(Servers) -> Servers] : IsInjective(f)
  <2>1. ExistsBijection(1..Cardinality(Servers), Servers)
    BY SelectorAssumption, FS_CardinalityType
  <2>2. QED
    BY <2>1 DEF ExistsBijection, Bijection, Injection, IsInjective
<1>2. listed \in [1..Cardinality(Servers) -> Servers] /\ IsInjective(listed)
  BY <1>1 DEF SelInit, SetToSeq
<1>3. Cardinality(Servers) \in Nat
  BY SelectorAssumption, FS_CardinalityType
<1>4. listed \in Seq(Servers) /\ Len(listed) = Cardinality(Servers)
  BY <1>2, <1>3
<1>5. QED
  BY <1>2, <1>4 DEF SelInit, LbIInv, LbShape, InRound, IsInjective

\* LoadBalancer.Select and SelectMulti: while the registry's list stays as it is, as
\* many consecutive choices as it has servers are all different, whatever index an
\* earlier list left behind and however many goroutines choose.
THEOREM ChoosesInTurn == Spec => []RoundRobin
<1>1. Init => LbIInv
  BY LbInitial DEF Init
<1>2. LbIInv /\ [Next]_vars => LbIInv'
  <2> SUFFICES ASSUME LbIInv, [Next]_vars PROVE LbIInv'
    OBVIOUS
  <2>1. ASSUME NEW g \in Choosers, ReadList(g) PROVE LbIInv'
    BY <2>1 DEF ReadList, LbIInv, LbShape, InRound
  <2>2. ASSUME NEW g \in Choosers, NEW n \in 1..Cardinality(Servers), Choose(g, n) PROVE LbIInv'
    <3>1. Cardinality(Servers) \in Nat
      BY SelectorAssumption, FS_CardinalityType
    <3>2. n \in Nat \ {0}
      BY <3>1
    <3>3. QED
      BY <2>2, <3>2, ChooseKeeps
  <2>3. CASE UNCHANGED lbVars
    BY <2>3 DEF lbVars, LbIInv, LbShape, InRound
  <2>4. LbNext \/ UNCHANGED lbVars
    BY DEF Next, vars, Part, Others, RingNext, AddServer, RemoveServer
  <2>5. QED
    BY <2>1, <2>2, <2>3, <2>4, RelistKeeps DEF LbNext
<1>3. LbIInv => RoundRobin
  <2> SUFFICES ASSUME LbIInv, NEW i \in DOMAIN chosen, NEW j \in DOMAIN chosen, chosen[i] = chosen[j]
               PROVE  i = j
    BY DEF RoundRobin
  <2>1. PICK k \in Nat, len \in Nat : k = Len(chosen) /\ len = Len(listed)
    BY DEF LbIInv, LbShape, InRound
  <2>2. i \in 1..k /\ j \in 1..k /\ chosen # <<>>
    BY <2>1 DEF LbIInv, InRound
  <2>3. /\ k <= len /\ curIdx < len /\ curIdx \in Nat
        /\ listed[Wrap(curIdx - (k - i), len)] = listed[Wrap(curIdx - (k - j), len)]
    BY <2>1, <2>2 DEF LbIInv, LbShape, InRound
  <2>4. Wrap(curIdx - (k - i), len) \in 1..len /\ Wrap(curIdx - (k - j), len) \in 1..len
    <3>1. k - i \in 0..(len - 1) /\ k - j \in 0..(len - 1)
      BY <2>2, <2>3
    <3>2. \A d \in 0..(len - 1) : Wrap(curIdx - d, len) \in 1..len
      BY <2>3 DEF Wrap
    <3>3. QED
      BY <3>1, <3>2
  <2>5. Wrap(curIdx - (k - i), len) = Wrap(curIdx - (k - j), len)
    BY <2>1, <2>3, <2>4 DEF LbIInv, LbShape
  <2>6. QED
    BY <2>2, <2>3, <2>5 DEF Wrap
<1>4. QED
  BY <1>1, <1>2, <1>3, PTL DEF Spec

-----------------------------------------------------------------------------
(* ConsistentHashSelector's ring.                                          *)

\* A set of natural numbers has a least one.
LEMMA LeastNatural ==
    ASSUME NEW T \in SUBSET Nat, T # {} PROVE \E x \in T : \A y \in T : x <= y
<1>1. PICK R : R = OpToRel(<, Nat)
  OBVIOUS
<1>2. IsWellFoundedOn(R, Nat)
  BY <1>1, NatLessThanWellFounded
<1>3. PICK x \in T : \A y \in T : ~(<<y, x>> \in R)
  BY <1>2, WFMin
<1>4. \A y \in T : y < x => <<y, x>> \in R
  BY <1>1 DEF OpToRel
<1>5. x \in Nat /\ \A y \in T : y \in Nat /\ ~(y < x)
  BY <1>3, <1>4
<1>6. \A y \in T : x <= y
  BY <1>5
<1>7. QED
  BY <1>6

\* How many values of f are at most h.
Rank(f, h) == Cardinality({j \in DOMAIN f : f[j] <= h})

\* A rank is a number, and a larger value has a larger one.
LEMMA RanksGrow ==
    ASSUME NEW D, IsFiniteSet(D), NEW f \in [D -> Int]
    PROVE  /\ Cardinality(D) \in Nat
           /\ \A h \in Int : Rank(f, h) \in Nat /\ Rank(f, h) <= Cardinality(D)
           /\ \A h \in Range(f) : Rank(f, h) >= 1
           /\ \A g \in Int, h \in Range(f) : g < h => Rank(f, g) < Rank(f, h)
           /\ \A g \in Int : Rank(f, g) = Cardinality(D) => \A h \in Range(f) : h <= g
<1>1. Cardinality(D) \in Nat
  BY FS_CardinalityType
<1>2. ASSUME NEW h \in Int
      PROVE  /\ IsFiniteSet({j \in DOMAIN f : f[j] <= h})
             /\ Rank(f, h) \in Nat /\ Rank(f, h) <= Cardinality(D)
             /\ Rank(f, h) = Cardinality(D) => \A j \in D : f[j] <= h
  <2>1. PICK S : S = {j \in DOMAIN f : f[j] <= h} /\ S \in SUBSET D
    OBVIOUS
  <2>2. /\ IsFiniteSet(S) /\ Cardinality(S) <= Cardinality(D)
        /\ Cardinality(D) = Cardinality(S) => D = S
    BY <2>1, FS_Subset
  <2>3. Cardinality(S) \in Nat /\ Rank(f, h) = Cardinality(S)
    BY <2>1, <2>2, FS_CardinalityType DEF Rank
  <2>4. D = S => \A j \in D : f[j] <= h
    BY <2>1
  <2>5. QED
    BY <2>1, <2>2, <2>3, <2>4
<1>3. ASSUME NEW h \in Range(f) PROVE h \in Int /\ Rank(f, h) >= 1
  <2>1. PICK j \in D : f[j] = h /\ h \in Int
    BY DEF Range
  <2>2. PICK S : S = {i \in DOMAIN f : f[i] <= h} /\ IsFiniteSet(S)
    BY <1>2, <2>1
  <2>3. j \in S
    <3>1. h <= h /\ j \in DOMAIN f
      BY <2>1
    <3>2. QED
      BY <2>1, <2>2, <3>1
  <2>4. Cardinality(S) \in Nat /\ Cardinality(S) # 0
    BY <2>2, <2>3, FS_CardinalityType, FS_EmptySet
  <2>5. QED
    BY <2>1, <2>2, <2>4 DEF Rank
<1>4. ASSUME NEW g \in Int, NEW h \in Range(f), g < h PROVE Rank(f, g) < Rank(f, h)
  <2>1. PICK j \in D : f[j] = h /\ h \in Int
    BY DEF Range
  <2>2. PICK S, T : /\ S = {i \in DOMAIN f : f[i] <= g} /\ T = {i \in DOMAIN f : f[i] <= h}
                    /\ IsFiniteSet(S) /\ IsFiniteSet(T)
    BY <1>2, <2>1
  <2>3. \A i \in DOMAIN f : f[i] <= g => f[i] <= h
    BY <1>4, <2>1
  <2>4. S \in SUBSET T /\ j \in T /\ j \notin S
    BY <1>4, <2>1, <2>2, <2>3
  <2>5. Cardinality(S) <= Cardinality(T) /\ Cardinality(T) # Cardinality(S)
    BY <2>2, <2>4, FS_Subset
  <2>6. Cardinality(S) \in Nat /\ Cardinality(T) \in Nat
    BY <2>2, FS_CardinalityType
  <2>7. QED
    BY <2>2, <2>5, <2>6 DEF Rank
<1>5. ASSUME NEW g \in Int, Rank(f, g) = Cardinality(D), NEW h \in Range(f) PROVE h <= g
  BY <1>2, <1>5 DEF Range
<1>6. QED
  BY <1>1, <1>2, <1>3, <1>4, <1>5

\* Finitely many numbers: Min finds the least of them.
LEMMA MinIsLeast ==
    ASSUME NEW D, IsFiniteSet(D), NEW f \in [D -> Int], NEW S \in SUBSET Range(f), S # {}
    PROVE  Min(S) \in S /\ \A y \in S : Min(S) <= y
<1>1. \A h \in S : h \in Int /\ h \in Range(f) /\ Rank(f, h) \in Nat
  BY RanksGrow DEF Range
<1>2. PICK T : T = {Rank(f, h) : h \in S}
  OBVIOUS
<1>3. T \in SUBSET Nat /\ T # {}
  BY <1>1, <1>2
<1>4. PICK m \in T : \A y \in T : m <= y
  BY <1>3, LeastNatural
<1>5. PICK x \in S : m = Rank(f, x)
  BY <1>2, <1>4
<1>6. ASSUME NEW y \in S PROVE x <= y
  <2>1. Rank(f, x) <= Rank(f, y)
    BY <1>2, <1>4, <1>5
  <2>2. y < x => Rank(f, y) < Rank(f, x)
    BY <1>1, RanksGrow
  <2>3. QED
    BY <1>1, <2>1, <2>2
<1>7. QED
  BY <1>6 DEF Min

\* The i-th smallest values: they are the values of f, in order.
LEMMA SmallestInOrder ==
    ASSUME NEW D, IsFiniteSet(D), NEW f \in [D -> Int], NEW n, n = Cardinality(D)
    PROVE  /\ \A i \in 1..n : Smallest(f, i) \in Range(f)
           /\ \A i, k \in 1..n : i <= k => Smallest(f, i) <= Smallest(f, k)
           /\ \A h \in Range(f) : \E i \in 1..n : Smallest(f, i) = h
<1> DEFINE Above(i) == {h \in Range(f) : Rank(f, h) >= i}
<1>1. /\ n \in Nat /\ \A h \in Range(f) : h \in Int /\ Rank(f, h) \in 1..n
  BY RanksGrow DEF Range
<1>2. \A i : Smallest(f, i) = Min(Above(i))
  BY DEF Smallest, Rank
<1>3. ASSUME NEW i \in 1..n PROVE Above(i) \in SUBSET Range(f) /\ Above(i) # {}
  <2>1. Range(f) # {}
    <3>1. D # {}
      BY <1>3, FS_EmptySet
    <3>2. QED
      BY <3>1 DEF Range
  <2>2. PICK T : T = {n - Rank(f, h) : h \in Range(f)}
    OBVIOUS
  <2>3. T \in SUBSET Nat /\ T # {}
    BY <1>1, <2>1, <2>2
  <2>4. PICK m \in T : \A y \in T : m <= y
    BY <2>3, LeastNatural
  <2>5. PICK x \in Range(f) : m = n - Rank(f, x)
    BY <2>2, <2>4
  <2>6. \A h \in Range(f) : n - Rank(f, x) <= n - Rank(f, h)
    BY <2>2, <2>4, <2>5
  <2>7. \A h \in Range(f) : Rank(f, h) <= Rank(f, x)
    BY <1>1, <2>6
  <2>8. \A h \in Range(f) : h <= x
    BY <1>1, <2>7, RanksGrow
  <2>9. Rank(f, x) = n
    <3>1. {j \in DOMAIN f : f[j] <= x} = D
      BY <2>8 DEF Range
    <3>2. QED
      BY <3>1 DEF Rank
  <2>10. QED
    BY <1>1, <2>5, <2>9
<1>4. \A i \in 1..n : Min(Above(i)) \in Above(i) /\ \A y \in Above(i) : Min(Above(i)) <= y
  BY <1>3, MinIsLeast
<1> HIDE DEF Above
<1>5. \A i, k \in 1..n : i <= k => Min(Above(i)) <= Min(Above(k))
  <2>1. \A i, k \in 1..n : i <= k => Above(k) \subseteq Above(i)
    BY <1>1 DEF Above
  <2>2. QED
    BY <1>4, <2>1
<1>6. ASSUME NEW h \in Range(f) PROVE \E i \in 1..n : Smallest(f, i) = h
  <2>1. PICK i \in 1..n : i = Rank(f, h)
    BY <1>1
  <2>2. h \in Above(i)
    BY <1>1, <2>1 DEF Above
  <2>3. PICK x \in Range(f) : x = Min(Above(i)) /\ x <= h /\ Rank(f, x) >= i
    BY <1>4, <2>2 DEF Above
  <2>4. x < h => Rank(f, x) < Rank(f, h)
    BY <1>1, RanksGrow
  <2>5. x = h
    BY <1>1, <2>1, <2>3, <2>4
  <2>6. QED
    BY <1>2, <2>3, <2>5
<1>7. \A i \in 1..n : Smallest(f, i) \in Range(f)
  BY <1>2, <1>4 DEF Above
<1>8. \A i, k \in 1..n : i <= k => Smallest(f, i) <= Smallest(f, k)
  BY <1>2, <1>5
<1>9. QED
  BY <1>6, <1>7, <1>8

Ascending(keys) == \A i, k \in DOMAIN keys : i <= k => keys[i] <= keys[k]

\* sort.Slice: the same keys, in order.
LEMMA SortedKeys ==
    ASSUME NEW keys \in Seq(Int)
    PROVE  /\ Sorted(keys) \in Seq(Int) /\ Ascending(Sorted(keys))
           /\ Range(Sorted(keys)) = Range(keys)
<1>1. PICK n \in Nat : n = Len(keys) /\ DOMAIN keys = 1..n
  OBVIOUS
<1>2. keys \in [1..n -> Int]
  BY <1>1
<1>3. IsFiniteSet(1..n) /\ n = Cardinality(1..n)
  <2>1. PICK one \in Int : one = 1
    OBVIOUS
  <2>2. /\ IsFiniteSet(one..n)
        /\ Cardinality(one..n) = IF one > n THEN 0 ELSE n - one + 1
    BY FS_Interval
  <2>3. QED
    BY <2>1, <2>2
<1>4. /\ \A i \in 1..n : Smallest(keys, i) \in Range(keys)
      /\ \A i, k \in 1..n : i <= k => Smallest(keys, i) <= Smallest(keys, k)
      /\ \A h \in Range(keys) : \E i \in 1..n : Smallest(keys, i) = h
  BY <1>2, <1>3, SmallestInOrder
<1>5. PICK t : t = Sorted(keys)
  OBVIOUS
<1>6. t = [i \in 1..n |-> Smallest(keys, i)]
  BY <1>1, <1>5 DEF Sorted
<1>7. \A h \in Range(keys) : h \in Int
  BY DEF Range
<1>8. t \in [1..n -> Int]
  BY <1>4, <1>6, <1>7
<1>9. t \in Seq(Int) /\ DOMAIN t = 1..n /\ \A i \in 1..n : t[i] = Smallest(keys, i)
  BY <1>1, <1>6, <1>8
<1>10. Ascending(t)
  BY <1>4, <1>9 DEF Ascending
<1>11. Range(t) = Range(keys)
  <2>1. \A h : h \in Range(t) <=> \E i \in 1..n : t[i] = h
    BY <1>9 DEF Range
  <2>2. \A h \in Range(keys) : \E i \in 1..n : t[i] = h
    BY <1>4, <1>9
  <2>3. \A i \in 1..n : t[i] \in Range(keys)
    BY <1>4, <1>9
  <2>4. QED
    BY <2>1, <2>2, <2>3
<1>12. QED
  BY <1>5, <1>9, <1>10, <1>11

\* RemoveServer's loop: the keys at the positions J, in order as they were.
LEMMA KeptKeys ==
    ASSUME NEW keys \in Seq(Int), Ascending(keys), NEW J \in SUBSET DOMAIN keys
    PROVE  /\ Kept(keys, J) \in Seq(Int) /\ Ascending(Kept(keys, J))
           /\ \A h : h \in Range(Kept(keys, J)) <=> \E j \in J : keys[j] = h
<1>1. PICK n \in Nat : n = Len(keys) /\ DOMAIN keys = 1..n
  OBVIOUS
<1>2. IsFiniteSet(1..n)
  BY <1>1, FS_Interval
<1>3. IsFiniteSet(J)
  BY <1>1, <1>2, FS_Subset
<1>4. PICK m \in Nat : m = Cardinality(J)
  BY <1>3, FS_CardinalityType
<1>5. PICK f : f = [j \in J |-> j]
  OBVIOUS
<1>6. f \in [J -> Int] /\ Range(f) = J
  <2>1. \A j \in J : j \in Int
    BY <1>1
  <2>2. QED
    BY <1>5, <2>1 DEF Range
<1>7. /\ \A i \in 1..m : Smallest(f, i) \in J
      /\ \A i, k \in 1..m : i <= k => Smallest(f, i) <= Smallest(f, k)
      /\ \A j \in J : \E i \in 1..m : Smallest(f, i) = j
  BY <1>3, <1>4, <1>6, SmallestInOrder
<1>8. PICK t : t = Kept(keys, J)
  OBVIOUS
<1>9. t = [i \in 1..m |-> keys[Smallest(f, i)]]
  BY <1>4, <1>5, <1>8 DEF Kept
<1>10. \A j \in J : j \in DOMAIN keys /\ keys[j] \in Int
  BY <1>1
<1>11. t \in [1..m -> Int]
  BY <1>7, <1>9, <1>10
<1>12. t \in Seq(Int) /\ DOMAIN t = 1..m /\ \A i \in 1..m : t[i] = keys[Smallest(f, i)]
  <2>1. \A i \in 1..m : t[i] = keys[Smallest(f, i)]
    BY <1>9
  <2>2. t \in Seq(Int) /\ DOMAIN t = 1..m
    BY <1>4, <1>11
  <2>3. QED
    BY <2>1, <2>2
<1>13. Ascending(t)
  BY <1>7, <1>10, <1>12 DEF Ascending
<1>14. \A h : h \in Range(t) <=> \E j \in J : keys[j] = h
  <2>1. \A h : h \in Range(t) <=> \E i \in 1..m : t[i] = h
    BY <1>12 DEF Range
  <2>2. QED
    BY <1>7, <1>12, <2>1
<1>15. QED
  BY <1>8, <1>12, <1>13, <1>14

\* The points of the ring are among the sorted keys, which are no others until a
\* removal has panicked, and each point belongs to a server that is in the ring and
\* has a replica there.
RingIInv ==
    /\ sortedKeys \in Seq(Int) /\ Ascending(sortedKeys) /\ DOMAIN ring \subseteq Range(sortedKeys)
    /\ ringPanicked \/ Range(sortedKeys) \subseteq DOMAIN ring
    /\ ring = [h \in DOMAIN ring |-> ring[h]]
    /\ \A h \in DOMAIN ring : ring[h] \in nodes /\ h \in HashesOf(ring[h])

\* AddServer.
LEMMA AddServerKeeps == ASSUME RingIInv, NEW s \in Servers, AddServer(s) PROVE RingIInv'
<1>1. PICK added, all : /\ added = [i \in 1..Replicas |-> HashOf(s, i)]
                        /\ all = sortedKeys \o added
  OBVIOUS
<1>2. /\ sortedKeys' = Sorted(all) /\ nodes' = nodes \cup {s}
      /\ ring' = [h \in DOMAIN ring \cup HashesOf(s) |-> IF h \in HashesOf(s) THEN s ELSE ring[h]]
  BY <1>1 DEF AddServer
<1>3. PICK r \in Nat : r = Replicas
  BY SelectorAssumption
<1>4. added \in Seq(Int) /\ Len(added) = r /\ \A i \in 1..r : added[i] = HashOf(s, i)
  <2>1. \A i \in 1..Replicas : HashOf(s, i) \in Int
    BY SelectorAssumption
  <2>2. added \in [1..r -> Int]
    BY <1>1, <1>3, <2>1
  <2>3. QED
    BY <1>1, <1>3, <2>2
<1>5. PICK n \in Nat : n = Len(sortedKeys) /\ DOMAIN sortedKeys = 1..n /\ sortedKeys \in Seq(Int)
  BY DEF RingIInv
<1>6. /\ all \in Seq(Int) /\ DOMAIN all = 1..(n + r)
      /\ \A i \in 1..(n + r) : all[i] = IF i <= n THEN sortedKeys[i] ELSE added[i - n]
  <2>1. /\ sortedKeys \o added \in Seq(Int)
        /\ Len(sortedKeys \o added) = Len(sortedKeys) + Len(added)
        /\ \A i \in 1..(Len(sortedKeys) + Len(added)) : (sortedKeys \o added)[i] =
               IF i <= Len(sortedKeys) THEN sortedKeys[i] ELSE added[i - Len(sortedKeys)]
    BY <1>4, <1>5, ConcatProperties
  <2>2. Len(sortedKeys) = n /\ Len(added) = r
    BY <1>4, <1>5
  <2>3. /\ all \in Seq(Int) /\ Len(all) = n + r
        /\ \A i \in 1..(n + r) : all[i] = IF i <= n THEN sortedKeys[i] ELSE added[i - n]
    BY <1>1, <2>1, <2>2
  <2>4. DOMAIN all = 1..(n + r)
    <3>1. all \in Seq(Int) /\ Len(all) = n + r
      BY <2>3
    <3>2. QED
      BY <3>1
  <2>5. QED
    BY <2>3, <2>4, Zenon
<1>7. Range(all) = Range(sortedKeys) \cup HashesOf(s)
  <2>1. \A h : h \in Range(all) <=> \E i \in 1..(n + r) : all[i] = h
    BY <1>6 DEF Range
  <2>2. \A h : h \in Range(sortedKeys) <=> \E i \in 1..n : sortedKeys[i] = h
    BY <1>5 DEF Range
  <2>3. \A h : h \in HashesOf(s) <=> \E i \in 1..r : added[i] = h
    BY <1>3, <1>4 DEF HashesOf
  <2>4. ASSUME NEW i \in 1..(n + r)
        PROVE  all[i] \in Range(sortedKeys) \cup HashesOf(s)
    <3>1. CASE i <= n
      BY <1>6, <2>2, <3>1
    <3>2. CASE i > n
      <4>1. i - n \in 1..r /\ all[i] = added[i - n]
        BY <1>6, <3>2
      <4>2. QED
        BY <2>3, <4>1
    <3>3. QED
      BY <3>1, <3>2
  <2>5. ASSUME NEW i \in 1..n PROVE sortedKeys[i] \in Range(all)
    <3>1. i \in 1..(n + r) /\ all[i] = sortedKeys[i]
      BY <1>6
    <3>2. QED
      BY <2>1, <3>1
  <2>6. ASSUME NEW i \in 1..r PROVE added[i] \in Range(all)
    <3>1. PICK k \in 1..(n + r) : k = n + i
      OBVIOUS
    <3>2. k - n = i /\ ~(k <= n)
      BY <3>1
    <3>3. all[k] = added[i]
      BY <1>6, <3>2
    <3>4. QED
      BY <2>1, <3>3
  <2>7. QED
    BY <2>1, <2>2, <2>3, <2>4, <2>5, <2>6
<1>8. /\ sortedKeys' \in Seq(Int) /\ Ascending(sortedKeys') /\ Range(sortedKeys') = Range(all)
  BY <1>2, <1>6, SortedKeys
<1>9. /\ DOMAIN ring' \subseteq Range(sortedKeys')
      /\ ringPanicked' \/ Range(sortedKeys') \subseteq DOMAIN ring'
  <2>1. DOMAIN ring' = DOMAIN ring \cup HashesOf(s) /\ ringPanicked' = ringPanicked
    BY <1>2 DEF AddServer
  <2>2. QED
    BY <1>7, <1>8, <2>1 DEF RingIInv
<1>10. \A h \in DOMAIN ring' : ring'[h] \in nodes' /\ h \in HashesOf(ring'[h])
  BY <1>2 DEF RingIInv
<1>11. ring' = [h \in DOMAIN ring' |-> ring'[h]]
  BY <1>2
<1>12. QED
  BY <1>8, <1>9, <1>10, <1>11 DEF RingIInv, HashesOf

\* RemoveServer.
LEMMA RemoveServerKeeps == ASSUME RingIInv, NEW s \in Servers, RemoveServer(s) PROVE RingIInv'
<1>1. PICK J : J = {i \in DOMAIN sortedKeys : sortedKeys[i] \notin HashesOf(s)}
  OBVIOUS
<1>2. nodes' = nodes \ {s} /\ ring' = [h \in DOMAIN ring \ HashesOf(s) |-> ring[h]]
  BY DEF RemoveServer
<1>3. \A h \in DOMAIN ring' : ring'[h] \in nodes' /\ h \in HashesOf(ring'[h])
  BY <1>2 DEF RingIInv
<1>4. ring' = [h \in DOMAIN ring' |-> ring'[h]]
  BY <1>2
<1>5. /\ sortedKeys' \in Seq(Int) /\ Ascending(sortedKeys')
      /\ DOMAIN ring' \subseteq Range(sortedKeys')
      /\ ringPanicked' \/ Range(sortedKeys') \subseteq DOMAIN ring'
  <2>1. CASE sortedKeys' = Kept(sortedKeys, J) /\ ringPanicked' = ringPanicked
    <3>1. /\ sortedKeys' \in Seq(Int) /\ Ascending(sortedKeys')
          /\ \A h : h \in Range(sortedKeys') <=> \E j \in J : sortedKeys[j] = h
      BY <1>1, <2>1, KeptKeys DEF RingIInv
    <3>2. \A h : h \in Range(sortedKeys) <=> \E i \in DOMAIN sortedKeys : sortedKeys[i] = h
      BY DEF Range
    <3>3. \A h : h \in DOMAIN ring' <=> h \in DOMAIN ring /\ h \notin HashesOf(s)
      BY <1>2
    <3>4. \A h : h \in Range(sortedKeys') <=> h \in Range(sortedKeys) /\ h \notin HashesOf(s)
      BY <1>1, <3>1, <3>2
    <3>5. QED
      BY <2>1, <3>1, <3>3, <3>4 DEF RingIInv
  <2>2. CASE sortedKeys' = sortedKeys /\ ringPanicked' = TRUE
    BY <1>2, <2>2 DEF RingIInv
  <2>3. QED
    BY <1>1, <2>1, <2>2 DEF RemoveServer
<1>6. QED
  BY <1>3, <1>4, <1>5 DEF RingIInv, HashesOf

\* Min finds a least element that is there.
LEMMA LeastIsMin ==
    ASSUME NEW S \in SUBSET Int, NEW x \in S, \A y \in S : x <= y PROVE Min(S) = x
<1>1. Min(S) \in S /\ \A y \in S : Min(S) <= y
  BY DEF Min
<1>2. x \in Int /\ Min(S) \in Int
  BY <1>1
<1>3. QED
  BY <1>1, <1>2

\* findClosest and Select: the owner of the next point of the ring.
LEMMA RingFindsOwner == ASSUME RingIInv PROVE RingAgrees
<1> SUFFICES ASSUME NEW hash \in Hashes
             PROVE  \/ RingSelect(hash) = IF ring = [h \in {} |-> h] THEN {} ELSE {Clockwise(hash)}
                    \/ ringPanicked /\ RingSelect(hash) = {}
  BY DEF RingAgrees
<1>1. hash \in Int
  BY SelectorAssumption
<1>2. PICK n \in Nat : n = Len(sortedKeys) /\ DOMAIN sortedKeys = 1..n /\ sortedKeys \in Seq(Int)
  BY DEF RingIInv
<1>3. /\ \A h \in DOMAIN ring : \E i \in 1..n : sortedKeys[i] = h
      /\ ringPanicked \/ \A i \in 1..n : sortedKeys[i] \in DOMAIN ring
  BY <1>2 DEF RingIInv, Range
<1>4. DOMAIN ring \in SUBSET Int /\ \A i \in 1..n : sortedKeys[i] \in Int
  BY <1>2, <1>3
<1>5. CASE DOMAIN ring = {}
  <2>1. ring = [h \in {} |-> h]
    BY <1>5 DEF RingIInv
  <2>2. RingSelect(hash) = {}
    BY <1>5 DEF RingSelect
  <2>3. QED
    BY <2>1, <2>2
<1>6. CASE DOMAIN ring # {}
  <2>1. ring # [h \in {} |-> h]
    BY <1>6
  <2>2. n >= 1 /\ sortedKeys # <<>>
    BY <1>2, <1>3, <1>6
  <2>3. PICK reached : reached = {i \in DOMAIN sortedKeys : sortedKeys[i] >= hash}
    OBVIOUS
  <2>4. PICK after : after = {h \in DOMAIN ring : h >= hash}
    OBVIOUS
  <2>5. ASSUME NEW x, FindClosest(hash) = x, x \notin DOMAIN ring => ringPanicked,
               x \in DOMAIN ring => Clockwise(hash) = ring[x]
        PROVE  RingSelect(hash) = {Clockwise(hash)} \/ (ringPanicked /\ RingSelect(hash) = {})
    <3>1. CASE x \in DOMAIN ring
      BY <2>5, <3>1 DEF RingSelect, RingIInv
    <3>2. CASE x \notin DOMAIN ring
      BY <2>5, <3>2 DEF RingSelect
    <3>3. QED
      BY <3>1, <3>2
  <2>6. CASE reached # {}
    <3>1. reached \in SUBSET Nat
      BY <1>2, <2>3
    <3>2. PICK m \in reached : \A i \in reached : m <= i
      BY <2>6, <3>1, LeastNatural
    <3>3. Min(reached) = m
      <4>1. reached \in SUBSET Int
        BY <3>1
      <4>2. QED
        BY <3>2, <4>1, LeastIsMin
    <3>4. PICK x : x = sortedKeys[m]
      OBVIOUS
    <3>5. m \in 1..n /\ x \in Int /\ x >= hash /\ (x \notin DOMAIN ring => ringPanicked)
      BY <1>2, <1>3, <1>4, <2>3, <3>2, <3>4
    <3>6. FindClosest(hash) = x
      BY <2>2, <2>3, <2>6, <3>3, <3>4 DEF FindClosest
    <3>7. after \in SUBSET Int /\ (x \in DOMAIN ring => x \in after)
      BY <1>4, <2>4, <3>5
    <3>8. ASSUME NEW h \in after PROVE x <= h
      <4>1. PICK i \in 1..n : sortedKeys[i] = h /\ h >= hash
        BY <1>3, <2>4
      <4>2. i \in reached
        BY <1>2, <2>3, <4>1
      <4>3. m <= i
        BY <3>2, <4>2
      <4>4. QED
        BY <1>2, <3>4, <3>5, <4>1, <4>3 DEF RingIInv, Ascending
    <3>9. x \in DOMAIN ring => Min(after) = x
      BY <3>7, <3>8, LeastIsMin
    <3>10. x \in DOMAIN ring => Clockwise(hash) = ring[x]
      BY <2>4, <3>7, <3>9 DEF Clockwise
    <3>11. QED
      BY <2>1, <2>5, <3>5, <3>6, <3>10
  <2>7. CASE reached = {}
    <3>1. after = {}
      BY <1>2, <1>3, <2>3, <2>4, <2>7
    <3>2. PICK x : x = sortedKeys[1]
      OBVIOUS
    <3>3. 1 \in 1..n /\ x \in Int /\ (x \notin DOMAIN ring => ringPanicked)
      BY <1>3, <1>4, <2>2, <3>2
    <3>4. FindClosest(hash) = x
      BY <2>2, <2>3, <2>7, <3>2 DEF FindClosest
    <3>5. ASSUME NEW h \in DOMAIN ring PROVE x <= h
      <4>1. PICK i \in 1..n : sortedKeys[i] = h /\ 1 <= i
        BY <1>3
      <4>2. QED
        BY <1>2, <3>2, <3>3, <4>1 DEF RingIInv, Ascending
    <3>6. x \in DOMAIN ring => Min(DOMAIN ring) = x
      BY <1>4, <3>5, LeastIsMin
    <3>7. x \in DOMAIN ring => Clockwise(hash) = ring[x]
      BY <2>4, <3>1, <3>6 DEF Clockwise
    <3>8. QED
      BY <2>1, <2>5, <3>3, <3>4, <3>7
  <2>8. QED
    BY <2>6, <2>7
<1>7. QED
  BY <1>5, <1>6

\* ConsistentHashSelector: for any servers, replicas and hash function, colliding
\* hashes included, Select returns the owner of the next point of the ring after any
\* additions and removals (or, once a removal has panicked, possibly none); with round
\* robin, both ways of choosing are right.
THEOREM ChoosesServerRight == Spec => []ChoosesRight
<1>1. Init => RingIInv
  <2> SUFFICES ASSUME SelInit PROVE RingIInv
    BY DEF Init
  <2>1. sortedKeys = <<>> /\ sortedKeys \in Seq(Int) /\ DOMAIN sortedKeys = {}
    BY DEF SelInit
  <2>2. ring = [h \in {} |-> h] /\ DOMAIN ring = {}
    BY DEF SelInit
  <2>3. Range(sortedKeys) = {} /\ Ascending(sortedKeys)
    BY <2>1 DEF Range, Ascending
  <2>4. QED
    BY <2>1, <2>2, <2>3 DEF RingIInv
<1>2. RingIInv /\ [Next]_vars => RingIInv'
  <2>1. [Next]_vars => RingNext \/ UNCHANGED ringVars
    BY DEF Next, vars, Part, Others, LbNext, Relist, ReadList, Choose
  <2>2. RingIInv /\ UNCHANGED ringVars => RingIInv'
    BY DEF ringVars, RingIInv, HashesOf
  <2>3. QED
    BY <2>1, <2>2, AddServerKeeps, RemoveServerKeeps DEF RingNext
<1>3. RoundRobin /\ RingIInv => ChoosesRight
  BY RingFindsOwner DEF ChoosesRight
<1>4. QED
  BY <1>1, <1>2, <1>3, ChoosesInTurn, PTL DEF Spec
=============================================================================
