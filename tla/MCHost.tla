------------------------------- MODULE MCHost -------------------------------
(* Instances for TLC of what happens to a task on its host: its jobs, and the
   garbage collection of what they leave.  HostGc has its own view of a turn
   (lease, job, publication), so a behaviour works on one of the two modules
   and leaves the other as it began. *)
EXTENDS MCHostJob, HostGc

VARIABLE part   \* "job" or "gc"

HostInit ==
    /\ Init /\ GcInit
    /\ \/ part = "job"
       \/ part = "gc" /\ faults = Once(FaultKinds \ {"late", "publish"})

HostNext ==
    /\ UNCHANGED part
    /\ \/ part = "job" /\ Next /\ UNCHANGED gcVars
       \/ part = "gc" /\ GcNext /\ UNCHANGED vars

HostSpec == HostInit /\ [][HostNext]_<<part, vars, gcVars>>
=============================================================================
