----------------------------- MODULE ConnLease ------------------------------
(***************************************************************************)
(* What ClientPool promises to those that call GetClient: connections are  *)
(* leased, each to one borrower at a time and none once the pool has       *)
(* ended; a lease ends when the borrower gives the connection back, and a  *)
(* connection whose borrower forgot it is never leased again.              *)
(***************************************************************************)
CONSTANTS
    Borrowers,  \* those that call GetClient
    Conns,      \* connections
    NoConn      \* "has no lease"

VARIABLES
    lease,      \* borrower -> its connection or NoConn
    ended,      \* Close has been called
    lost        \* connections that were never given back

leaseVars == <<lease, ended, lost>>

Leased == {lease[c] : c \in Borrowers} \ {NoConn}

LeaseInit == lease = [c \in Borrowers |-> NoConn] /\ ended = FALSE /\ lost = {}

Grant(c, n) ==
    /\ ~ended /\ lease[c] = NoConn /\ n \notin Leased \cup lost
    /\ lease' = [lease EXCEPT ![c] = n]
    /\ UNCHANGED <<ended, lost>>

GiveBack(c) ==
    /\ lease[c] # NoConn /\ lease' = [lease EXCEPT ![c] = NoConn]
    /\ UNCHANGED <<ended, lost>>

Forget(c) ==
    /\ lease[c] # NoConn /\ lease' = [lease EXCEPT ![c] = NoConn]
    /\ lost' = lost \cup {lease[c]}
    /\ UNCHANGED ended

End == ~ended /\ ended' = TRUE /\ UNCHANGED <<lease, lost>>

LeaseNext ==
    \/ \E c \in Borrowers : GiveBack(c) \/ Forget(c) \/ \E n \in Conns : Grant(c, n)
    \/ End

LeaseSpec == LeaseInit /\ [][LeaseNext]_leaseVars
=============================================================================
