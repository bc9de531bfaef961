------------------------------ MODULE Delivery ------------------------------
(***************************************************************************)
(* What the origin outbox promises of one turn's publication: once it is   *)
(* accepted it stays owed until the commit is on the origin's branch or    *)
(* the outbox gives up; only an operator takes up again what was given up, *)
(* and what is reported delivered is on the branch and stays reported.     *)
(***************************************************************************)
CONSTANT Turns

VARIABLES
    promise,   \* turn -> "none", "owed", "delivered" or "failed"
    landed     \* the turns whose commit the origin's branch has contained

deliveryVars == <<promise, landed>>

DeliveryInit ==
    /\ promise = [t \in Turns |-> "none"]
    /\ landed = {}

Accept(t) ==
    /\ promise[t] = "none"
    /\ promise' = [promise EXCEPT ![t] = "owed"]
    /\ UNCHANGED landed

Land ==
    /\ landed' \in SUBSET Turns
    /\ landed \subseteq landed'
    /\ UNCHANGED promise

Deliver(t) ==
    /\ promise[t] = "owed"
    /\ t \in landed
    /\ promise' = [promise EXCEPT ![t] = "delivered"]
    /\ UNCHANGED landed

GiveUp(t) ==
    /\ promise[t] = "owed"
    /\ promise' = [promise EXCEPT ![t] = "failed"]
    /\ UNCHANGED landed

Revive(t) ==
    /\ promise[t] = "failed"
    /\ promise' = [promise EXCEPT ![t] = "owed"]
    /\ UNCHANGED landed

DeliveryNext ==
    \/ Land
    \/ \E t \in Turns : Accept(t) \/ Deliver(t) \/ GiveUp(t) \/ Revive(t)

DeliverySpec == DeliveryInit /\ [][DeliveryNext]_deliveryVars
=============================================================================
