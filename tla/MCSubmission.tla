---------------------------- MODULE MCSubmission ----------------------------
(* Instances of Submission for TLC. *)
EXTENDS Submission
CONSTANTS t1, t2, p1, p2, p3

\* Both tasks with two processes and one fault, or one task with two faults and
\* a third process that reconciles what is left.
CrashLoads ==
    {[tasks |-> Tasks, running |-> {p1, p2}, spent |-> 1]}
      \cup {[tasks |-> {t}, running |-> Procs, spent |-> 0] : t \in Tasks}
=============================================================================
