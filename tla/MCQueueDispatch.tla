-------------------------- MODULE MCQueueDispatch --------------------------
(* An instance of QueueDispatch for TLC. *)
EXTENDS QueueDispatch, TLC
CONSTANTS t1, t2, t3, w1, w2

\* Two workers with one slot each; t2 is pinned to the first and may be followed
\* up once.
FitTwo  == t1 :> {w1, w2} @@ t2 :> {w1} @@ t3 :> {w1, w2}
OneEach == w1 :> 1 @@ w2 :> 1
OneSay  == t1 :> 1 @@ t2 :> 2 @@ t3 :> 1

\* Three tasks share two slots under the run cap and nothing fails, or two tasks
\* with a slot each and a death and a cancellation, or another client.
FairLoads ==
    {[tasks |-> Tasks, deaths |-> MaxDeaths, arrivals |-> MaxForeign, cancels |-> MaxCancels],
     [tasks |-> {t1, t2}, deaths |-> 0, arrivals |-> MaxForeign, cancels |-> 0],
     [tasks |-> {t1, t2}, deaths |-> MaxDeaths, arrivals |-> 0, cancels |-> MaxCancels]}
=============================================================================
