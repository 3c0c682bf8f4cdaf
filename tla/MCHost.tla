------------------------------- MODULE MCHost -------------------------------
(***************************************************************************)
(* One run for what uvw wraps of the host beside the loop: threads and the *)
(* pool (MCThreads), processes, terminals and the environment (MCSystem).  *)
(* A behaviour is one of the group `group` names.                          *)
(***************************************************************************)
EXTENDS MCThreads, MCSystem

VARIABLE group

\* A group that keeps still starts in one of its initial states.
HostInit ==
    /\ group \in {"threads", "system"}
    /\ Init /\ SystemInit
    /\ group = "threads" => system = "process"
    /\ group = "system" => part = "pool"

HostNext ==
    \/ group = "threads" /\ Next /\ UNCHANGED <<group, systemVars>>
    \/ group = "system" /\ SystemNext /\ UNCHANGED <<group, vars>>

\* The fairness of PoolReq and of Rendezvous; a part that keeps still has
\* queued nothing and called nothing.
HostSpec ==
    /\ HostInit /\ [][HostNext]_<<group, vars, systemVars>>
    /\ P!Fairness /\ R!Fairness
=============================================================================
