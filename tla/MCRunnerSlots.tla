--------------------------- MODULE MCRunnerSlots ---------------------------
(* An instance of RunnerSlots for TLC. *)
EXTENDS RunnerSlots

CONSTANT j1

\* One turn and any two faults, or two turns that compete for the slot.
FairLoads ==
    {[turns |-> {j1}, running |-> Launchers, spent |-> 0],
     [turns |-> Jobs, running |-> Launchers, spent |-> MaxFaults]}
=============================================================================
