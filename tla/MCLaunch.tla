------------------------------ MODULE MCLaunch ------------------------------
(* Instances for TLC of what stands between a queued turn and its runner: the
   drain valve, the runner slots and the queue.  The three modules share no
   state, so a behaviour works on one of them and leaves the others as they
   began. *)
EXTENDS RunnerSlots, DrainGate, QueueDispatch, TLC

CONSTANTS t1, t2, t3, w1, w2, j1, a

VARIABLE part   \* "valve", "slots" or "queue"

\* Two turns compete for the slot: two launchers without a fault, or one
\* launcher and two faults.  One turn: two launchers race and one fault happens.
Calm == [turns |-> Jobs, running |-> Launchers, spent |-> MaxFaults]
RaceLoads ==
    {Calm, [turns |-> Jobs, running |-> {a}, spent |-> 0],
     [turns |-> {j1}, running |-> Launchers, spent |-> 1]}

\* Three turns and a cancellation, with a death or another client.
ThreeTurns ==
    {[tasks |-> Tasks, deaths |-> 0, arrivals |-> MaxForeign, cancels |-> 0],
     [tasks |-> Tasks, deaths |-> MaxDeaths, arrivals |-> 0, cancels |-> 0]}

\* Two workers with one slot each; t2 is pinned to the first.
FitTwo  == t1 :> {w1, w2} @@ t2 :> {w1} @@ t3 :> {w1, w2}
OneEach == w1 :> 1 @@ w2 :> 1
NoSay   == [t \in Tasks |-> 1]

LaunchInit ==
    /\ part \in {"valve", "slots", "queue"}
    /\ GateInit /\ Init /\ QueueInit
    /\ part # "valve" => fresh
    /\ part # "slots" => faults = Calm.spent
    /\ part # "queue" => deaths = MaxDeaths

LaunchNext ==
    /\ UNCHANGED part
    /\ \/ part = "valve" /\ GateNext /\ UNCHANGED <<vars, queueVars>>
       \/ part = "slots" /\ Next /\ UNCHANGED <<gateVars, queueVars>>
       \/ part = "queue" /\ QueueNext /\ UNCHANGED <<gateVars, vars>>

LaunchSpec == LaunchInit /\ [][LaunchNext]_<<part, gateVars, vars, queueVars>>

Symmetry == Permutations(Runners)
=============================================================================
