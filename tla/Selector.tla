------------------------------ MODULE Selector -------------------------------
(***************************************************************************)
(* Choice of a server: selector.Select over the list of a registry and     *)
(* LoadBalancer's round robin (selector/selector.go), and the hash ring of *)
(* ConsistentHashSelector.  The registry is an interface to the selector:  *)
(* here it is a list that may change at any time.                          *)
(***************************************************************************)
EXTENDS Integers, Sequences, FiniteSets, FiniteSetsExt, SequencesExt

CONSTANTS
    Servers,    \* servers of one type
    Choosers,   \* goroutines that call Select
    MaxLists,   \* bound: changes of the registry's list
    Replicas,   \* s.replicas
    Hashes,     \* values of the hash function
    HashOf(_, _) \* hash of a server's address and a replica's number

ASSUME SelectorAssumption ==
    /\ IsFiniteSet(Servers) /\ MaxLists \in Nat /\ Replicas \in Nat /\ Hashes \subseteq Int
    /\ \A s \in Servers, i \in 1..Replicas : HashOf(s, i) \in Hashes

VARIABLES
    listed,     \* the registry's list, a sequence of servers
    lists,      \* how often it changed
    snapshot,   \* goroutine -> the list it read, <<>> before
    curIdx,     \* lb.curIdx of the type
    chosen,     \* history: servers chosen since the last change of listed or read of an old list
    ring,       \* s.ring: hash -> server
    sortedKeys, \* s.sortedKeys
    nodes,      \* s.nodes
    ringPanicked \* history: a RemoveServer has panicked

selVars == <<listed, lists, snapshot, curIdx, chosen, ring, sortedKeys, nodes,
             ringPanicked>>
ringVars == <<ring, sortedKeys, nodes, ringPanicked>>
lbVars == <<listed, lists, snapshot, curIdx, chosen>>

SelInit ==
    /\ listed = SetToSeq(Servers) /\ lists = 0
    /\ snapshot = [g \in Choosers |-> <<>>] /\ curIdx = 0 /\ chosen = <<>>
    /\ ring = [h \in {} |-> h] /\ sortedKeys = <<>> /\ nodes = {}
    /\ ringPanicked = FALSE

-----------------------------------------------------------------------------
\* A server joins at the end of the list or leaves it.
Relist(s) ==
    /\ lists < MaxLists /\ lists' = lists + 1
    /\ \/ ~Contains(listed, s) /\ listed' = Append(listed, s)
       \/ \E i \in DOMAIN listed : listed[i] = s /\ listed' = RemoveAt(listed, i)
    /\ chosen' = <<>>
    /\ UNCHANGED <<snapshot, curIdx, ringVars>>

\* reg.GetServersByType: a copy of the list; nothing to choose from an empty one.
ReadList(g) ==
    /\ snapshot[g] = <<>> /\ listed # <<>>
    /\ snapshot' = [snapshot EXCEPT ![g] = listed]
    /\ UNCHANGED <<listed, lists, curIdx, chosen, ringVars>>

\* The new lb.curIdx[key] after n choices from len servers.
NextIdx(n, len) == (curIdx + n) % len

\* LoadBalancer.Select (n = 1) and SelectMulti under their mutex.  The history is
\* kept up to the length of the list.
Choose(g, n) ==
    LET servers == snapshot[g]
        len == Len(servers)
        taken == [i \in 1..n |-> servers[((curIdx + i - 1) % len) + 1]]
        all == chosen \o taken
    IN  /\ n <= len
        /\ curIdx' = NextIdx(n, len)
        /\ chosen' = IF servers # listed THEN <<>>
                     ELSE IF Len(all) > len THEN SubSeq(all, Len(all) - len + 1, Len(all)) ELSE all
        /\ snapshot' = [snapshot EXCEPT ![g] = <<>>]
        /\ UNCHANGED <<listed, lists, ringVars>>

-----------------------------------------------------------------------------
HashesOf(s) == {HashOf(s, i) : i \in 1..Replicas}

\* The i-th smallest value of a function, equal values counted as often as they occur.
Smallest(f, i) ==
    Min({h \in Range(f) : Cardinality({j \in DOMAIN f : f[j] <= h}) >= i})

\* sort.Slice.
Sorted(keys) == [i \in DOMAIN keys |-> Smallest(keys, i)]

\* The loop that copies the keys at positions J, in their order.
Kept(keys, J) == [i \in 1..Cardinality(J) |-> keys[Smallest([j \in J |-> j], i)]]

\* AddServer: sort.Slice after the keys are appended; a hash that is already on
\* the ring changes hands.
AddServer(s) ==
    /\ Len(sortedKeys) < Replicas * (Cardinality(Servers) + 1)
    /\ nodes' = nodes \cup {s}
    /\ ring' = [h \in DOMAIN ring \cup HashesOf(s) |-> IF h \in HashesOf(s) THEN s ELSE ring[h]]
    /\ sortedKeys' = Sorted(sortedKeys \o [i \in 1..Replicas |-> HashOf(s, i)])
    /\ UNCHANGED <<ringPanicked, lbVars>>

\* Fault: the keys stay in the sorted list.
RemoveServerKeys(s) ==
    /\ nodes' = nodes \ {s}
    /\ ring' = [h \in DOMAIN ring \ HashesOf(s) |-> ring[h]]
    /\ UNCHANGED <<sortedKeys, ringPanicked, lbVars>>

\* RemoveServer: its hashes leave the ring, whoever owns them now.  The new list of
\* keys is made with room for Replicas fewer: with less than Replicas keys left (a
\* server that was never added, or colliding hashes whose copies an earlier removal
\* took all at once) the allocation panics, the deferred unlock releases the mutex,
\* and the old keys stay beside the new ring.
RemoveServer(s) ==
    /\ nodes' = nodes \ {s}
    /\ ring' = [h \in DOMAIN ring \ HashesOf(s) |-> ring[h]]
    /\ \/ /\ Len(sortedKeys) >= Replicas
          /\ sortedKeys' = Kept(sortedKeys, {i \in DOMAIN sortedKeys : sortedKeys[i] \notin HashesOf(s)})
          /\ UNCHANGED ringPanicked
       \/ /\ Len(sortedKeys) < Replicas
          /\ ringPanicked' = TRUE
          /\ UNCHANGED sortedKeys
    /\ UNCHANGED lbVars

\* findClosest: sort.Search finds the first key that is not below the hash.
FindClosest(hash) ==
    LET reached == {i \in DOMAIN sortedKeys : sortedKeys[i] >= hash}
    IN  IF sortedKeys = <<>> THEN hash
        ELSE IF reached # {} THEN sortedKeys[Min(reached)] ELSE sortedKeys[1]

\* ConsistentHashSelector.Select: a set with the server, or empty.
RingSelect(hash) ==
    LET closest == FindClosest(hash)
    IN  IF closest \in DOMAIN ring THEN {ring[closest]} \cap nodes ELSE {}

LbNext ==
    \/ \E s \in Servers : Relist(s)
    \/ \E g \in Choosers : ReadList(g) \/ \E n \in 1..Cardinality(Servers) : Choose(g, n)

RingNext == \E s \in Servers : AddServer(s) \/ RemoveServer(s)

-----------------------------------------------------------------------------
\* Round robin: while the list stays as it is, as many consecutive choices as it
\* has servers are all different, whatever index an earlier, longer or shorter
\* list left behind.
RoundRobin == \A i, j \in DOMAIN chosen : i # j => chosen[i] # chosen[j]

\* The owner of a hash by definition: the next point of the ring, clockwise.
Clockwise(hash) ==
    LET after == {h \in DOMAIN ring : h >= hash}
    IN  IF after # {} THEN ring[Min(after)] ELSE ring[Min(DOMAIN ring)]

\* The sorted keys, the ring and the nodes agree after any sequence of additions
\* and removals, repeated additions and colliding hashes included.  Until a removal
\* has panicked Select finds the clockwise owner, a server that is in the ring,
\* whenever there is a point.  After a panic, whose caller recovered, the keys it
\* left behind may make Select find nothing, but never a wrong server.
RingAgrees ==
    \A hash \in Hashes :
        LET owner == IF ring = [h \in {} |-> h] THEN {} ELSE {Clockwise(hash)}
        IN  RingSelect(hash) = owner \/ (ringPanicked /\ RingSelect(hash) = {})

\* Both ways of choosing a server choose the right one.
ChoosesRight == RoundRobin /\ RingAgrees
=============================================================================
