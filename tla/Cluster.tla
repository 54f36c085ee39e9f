------------------------------ MODULE Cluster -------------------------------
(***************************************************************************)
(* The master process: its registry with the servers that register, and    *)
(* the processes it supervises.  The two share no state; a behaviour       *)
(* exercises one of them, chosen initially.                                *)
(***************************************************************************)
EXTENDS MasterRegistry, Supervisor

VARIABLE part   \* the component this behaviour is about

vars == <<part, masterVars, procVars>>

Init == part \in {"registry", "processes"} /\ MasterInit /\ SupervisorInit

RegistryPart(A) == part = "registry" /\ A /\ UNCHANGED <<part, procVars>>
ProcessPart(A) == part = "processes" /\ A /\ UNCHANGED <<part, masterVars>>

Next == RegistryPart(MasterNext) \/ ProcessPart(SupervisorNext)

Spec == Init /\ [][Next]_vars

(***************************************************************************)
(* Fairness: for the registry see MasterFairness.  The goroutines of the   *)
(* supervisor run on and restartDelay passes; no process has to end.       *)
(***************************************************************************)
FairSpec ==
    /\ Spec
    /\ WF_vars(RegistryPart(MasterTick)) /\ WF_vars(RegistryPart(CheckHeartbeats))
    /\ \A i \in Ids : /\ WF_vars(RegistryPart(Register(i))) /\ WF_vars(RegistryPart(Heartbeat(i)))
                      /\ WF_vars(RegistryPart(Redial(i))) /\ WF_vars(RegistryPart(ReRegister(i)))
                      /\ WF_vars(RegistryPart(MarkConnected(i)))
    /\ \A p \in Pids : WF_vars(ProcessPart(WatchStep(p))) /\ WF_vars(ProcessPart(Restart(p)))
    /\ WF_vars(ProcessPart(TakeEvent))
=============================================================================
