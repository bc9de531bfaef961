---------------------------- MODULE TurnJournal ----------------------------
(***************************************************************************)
(* What the runner journal of one turn promises: a log that only grows, in *)
(* which an acceptance, a chunk of a native stream, a diagnostic line and  *)
(* the completion each appear together with the checkpoint that records    *)
(* them, as one atomic step.  RunnerLog implements it.                     *)
(***************************************************************************)
EXTENDS JournalData

VARIABLES bytes, commit
avars == <<bytes, commit>>

\* A new journal, or one whose acceptance predates the worker assignment.
Init ==
    \/ bytes = <<>> /\ commit = Commit0
    \/ /\ bytes = Line("accepted")
       /\ commit = [Commit0 EXCEPT !.len = 1, !.accepted = TRUE]

Append1 ==
    /\ commit.completion = None
    /\ \E a \in Appends(commit, bytes) :
         /\ bytes' = bytes \o a.payload
         /\ commit' = Recorded(commit, a)

Spec == Init /\ [][Append1]_avars
=============================================================================
