------------------------------ MODULE MCOutbox ------------------------------
(* An instance of Outbox for TLC. *)
EXTENDS Outbox

CONSTANTS t1, t2

(* The second turn continues the first, or both start from the base. *)
LineOrFork == {[t \in Turns |-> IF t = t2 THEN {t1} ELSE {}], [t \in Turns |-> {}]}
=============================================================================
