------------------------ MODULE MCControllerRequests ------------------------
(* An instance of ControllerRequests for TLC. *)
EXTENDS ControllerRequests

From(state, a, b) == [cmd |-> <<a, b>>, state |-> state]

(* Two commands meet on one task: a follow-up and a cancellation, on a task that
   is idle or has a turn; a close and a follow-up; the submission and a close. *)
Pairs == {From("open", "say", "cancel"), From("active", "say", "cancel"),
          From("open", "close", "say"), From("open", "submit", "close")}
=============================================================================
