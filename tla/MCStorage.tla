----------------------------- MODULE MCStorage -----------------------------
(* Instances for TLC of what keeps files whole when their writers die: the
   journal of a runner and the removal of an owned entry.  They share no state,
   so a behaviour works on one of them and leaves the other as it began. *)
EXTENDS RunnerLog, OwnedCleanup

CONSTANTS p1, p2

VARIABLE part   \* "log" or "cleanup"

\* Two processes and one trouble, or one process and two.
RemoverLoads == {[running |-> {p1, p2}, spent |-> MaxTroubles - 1], [running |-> {p1}, spent |-> 0]}

\* Either writers fail or the machine does, see the note on power losses after
\* a writer's death in the README.
EitherTrouble == {<<0, MaxPower>>, <<MaxFaults, 0>>}

StorageInit ==
    /\ LogInit /\ CleanupInit
    /\ \/ part = "log" /\ step[p2] = "off"
       \/ part = "cleanup" /\ made = FALSE /\ faults = 0

StorageNext ==
    /\ UNCHANGED part
    /\ \/ part = "log" /\ LogNext /\ UNCHANGED cleanupVars
       \/ part = "cleanup" /\ CleanupNext /\ UNCHANGED lvars

\* LogFairness and CleanupFairness, each in the behaviours of its part.
StorageFair ==
    /\ StorageInit /\ [][StorageNext]_<<part, lvars, cleanupVars>>
    /\ \A w \in Writers :
          /\ WF_lvars(part = "log" /\ (FindLog(w) \/ CreateLog(w) \/ InitCheckpoint(w) \/ Recover(w)))
          /\ SF_lvars(part = "log" /\ Flock(w) /\ lock = None)
          /\ WF_lvars(part = "log" /\ (SyncDirectory(w) \/ WriteByte(w) \/ SyncLog(w) \/ PublishCommit(w)))
          /\ WF_lvars(part = "log" /\ Close(w))
    /\ \A p \in Processes :
          /\ WF_cleanupVars(part = "cleanup" /\ Step(p))
          /\ WF_cleanupVars(part = "cleanup" /\ Begin(p, "resume"))
=============================================================================
