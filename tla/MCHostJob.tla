----------------------------- MODULE MCHostJob -----------------------------
(* Instances of HostJob for TLC. *)
EXTENDS HostJob, TLC
CONSTANTS j1, j2, j3, t1, t2

\* j1 and j2 are turns of t1, j3 of t2.
JobTasks == [j \in Jobs |-> IF j = j3 THEN t2 ELSE t1]

Once(kinds)  == [left |-> 1, kinds |-> kinds]
Twice(kinds) == [left |-> 2, kinds |-> kinds]
Calm         == [left |-> 0, kinds |-> {}]

\* Two turns of a task: one fault, or two supervisors that die.
TaskLoads ==
    {[jobs |-> {j1, j2}, faults |-> Once(FaultKinds \ {"late", "publish"})],
     [jobs |-> {j1, j2}, faults |-> Twice({"supervisor"})]}

\* Two tasks that share the slots, or one turn and one fault.
SlotLoads ==
    {[jobs |-> {j1, j3}, faults |-> Calm],
     [jobs |-> {j1}, faults |-> Once(FaultKinds)]}

\* A supervisor dies.
OrphanLoads == {[jobs |-> {j1}, faults |-> Once({"supervisor"})]}

Symmetric == Permutations(Requests) \cup Permutations(Supervisors)
=============================================================================
