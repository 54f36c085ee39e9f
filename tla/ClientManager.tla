--------------------------- MODULE ClientManager ----------------------------
(***************************************************************************)
(* rpcClientManager of rpc/client.go for one server type: GetClient with   *)
(* its test under the read lock and its creation under the write lock, and *)
(* Close.  A GetClient between the two locks when Close comes writes into  *)
(* the nil map that Close left and panics.                                 *)
(***************************************************************************)
EXTENDS Integers, FiniteSets

CONSTANTS Askers   \* calls of GetClient, each made once

VARIABLES
    ask,        \* call -> "idle", "select", "lock", "pool" (pool.GetClient), "error", "panic"
    pools,      \* pools created for the type
    known,      \* is one of them in m.pools?
    mgrClose    \* Close: "no", "waiting" (for the pools), "done"

mgrVars == <<ask, pools, known, mgrClose>>

MgrInit ==
    ask = [c \in Askers |-> "idle"] /\ pools = 0 /\ known = FALSE /\ mgrClose = "no"

AskTo(c, at) == ask' = [ask EXCEPT ![c] = at]

\* Under the read lock.
GetPool(c) ==
    /\ ask[c] = "idle"
    /\ AskTo(c, IF mgrClose # "no" THEN "error" ELSE IF known THEN "pool" ELSE "select")
    /\ UNCHANGED <<pools, known, mgrClose>>

\* selector.Select, without a lock.
SelectServer(c) ==
    /\ ask[c] = "select" /\ (AskTo(c, "error") \/ AskTo(c, "lock"))
    /\ UNCHANGED <<pools, known, mgrClose>>

\* Fault: the map is not looked at again under the write lock.
CreateBlindly(c) ==
    /\ ask[c] = "lock" /\ mgrClose = "no"
    /\ AskTo(c, "pool") /\ known' = TRUE /\ pools' = pools + 1
    /\ UNCHANGED mgrClose

\* Under the write lock; m.closed is not looked at again.
CreatePool(c) ==
    /\ ask[c] = "lock"
    /\ \/ /\ mgrClose = "no" /\ ~known
          /\ AskTo(c, "pool") /\ known' = TRUE /\ pools' = pools + 1
       \/ mgrClose = "no" /\ known /\ AskTo(c, "pool") /\ UNCHANGED <<pools, known>>
       \/ mgrClose # "no" /\ AskTo(c, "panic") /\ UNCHANGED <<pools, known>>
    /\ UNCHANGED mgrClose

\* Close under the lock; then it waits for the Close of the pools.
CloseManager ==
    /\ \/ mgrClose = "no" /\ mgrClose' = "waiting"
       \/ mgrClose = "waiting" /\ mgrClose' = "done"
    /\ known' = FALSE
    /\ UNCHANGED <<ask, pools>>

MgrNext == (\E c \in Askers : GetPool(c) \/ SelectServer(c) \/ CreatePool(c)) \/ CloseManager

\* However many calls miss the type at once, one pool is made for it: another one
\* would be lost with its connections.
OnePool == pools <= 1
=============================================================================
