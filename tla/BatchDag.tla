------------------------------ MODULE BatchDag ------------------------------
(***************************************************************************)
(* A batch whose tasks depend on each other (dag.rs, client_state.rs,      *)
(* task_client.rs advance_pending_dags).  The graph of a run is one file;  *)
(* any process that reconciles binds the `from:` children to the result of *)
(* their parent, claims the next eligible node, submits it with the stored *)
(* identifiers and marks it.  A marker in a separate index says that the   *)
(* run still has something to advance.                                     *)
(*                                                                         *)
(* Every operation on the files happens under the state lock; it is one    *)
(* step here, or two when it can stop between its writes.  A thread shares *)
(* the identity of its process, so its claims are those of the process.    *)
(* Nodes are numbered in the order of their batch ids.  The submission     *)
(* itself is module Submission's subject.                                  *)
(***************************************************************************)
EXTENDS Naturals, FiniteSets

CONSTANTS
    Nodes, Threads, Procs, None,
    Owner,        \* the process of a thread
    Deps,         \* depends_on, with the `from:` parent folded in
    From,         \* the parent whose result is the base, 0 for a frozen base
    AutoClose,    \* the tasks with close_on = done
    Integrating,  \* the tasks with an integration policy
    MaxSays,      \* bound: follow-ups
    MaxFaults,    \* bound: deaths and operations that fail half-way
    Spent         \* bound: pairs of follow-ups and faults a behaviour begins with

ASSUME DagAssumption ==
    /\ Nodes \subseteq Nat \ {0}
    /\ Owner \in [Threads -> Procs] /\ None \notin Procs
    /\ Deps \in [Nodes -> SUBSET Nodes] /\ \A n \in Nodes : \A d \in Deps[n] : d < n
    /\ From \in [Nodes -> Nodes \cup {0}]
    /\ \A n \in Nodes : From[n] # 0 => From[n] \in Deps[n]
    /\ AutoClose \subseteq Nodes /\ Integrating \subseteq Nodes
    /\ MaxSays \in Nat /\ MaxFaults \in Nat
    /\ Spent \subseteq (0..MaxSays) \X (0..MaxFaults)

VARIABLES
    file,      \* the graph: none, legacy (written without a marker) or indexed
    run,       \* whether the run record exists
    members,   \* the nodes whose tasks the run record lists
    pending,   \* the marker in the index
    state, claim, bound,
    pin,       \* the commit a node's ref keeps, 0 for none
    task,      \* the task record of a node
    live, pc, at, oid,
    todo,      \* the children a pass has yet to bind
    says, faults

graph == <<file, run, members, pending, state, claim, bound>>
work  == <<pc, at, oid, todo>>
vars  == <<graph, pin, task, live, work, says, faults>>

Commits == Nat   \* the commits of a task in the order it makes them, 0 for none
NoTask  == [st |-> "none", out |-> "none", head |-> 0, got |-> 0, run |-> "no",
            intent |-> FALSE, integ |-> "none", merge |-> 0]
Task    == [st : {"none", "queued", "active", "open", "closed", "abandoned"},
            out : {"none", "done", "input", "failed"}, head : Commits, got : Commits,
            run : {"no", "turn", "import", "retire"}, intent : BOOLEAN,
            integ : {"none", "due", "integrated", "blocked", "revoked", "given up"},
            merge : Commits]

Least(S) == CHOOSE n \in S : \A m \in S : n <= m
Quiescent(s) == \A n \in Nodes : s[n] \in {"submitted", "blocked"}

Init ==
    /\ file \in {"none", "legacy"} /\ run = (file = "legacy") /\ members = {} /\ pending = FALSE
    /\ state = [n \in Nodes |-> "waiting"] /\ claim = [n \in Nodes |-> None]
    /\ bound = [n \in Nodes |-> 0] /\ pin = [n \in Nodes |-> 0]
    /\ task = [n \in Nodes |-> NoTask]
    /\ live = Procs
    /\ pc = [p \in Threads |-> "idle"] /\ at = [p \in Threads |-> 0]
    /\ oid = [p \in Threads |-> 0] /\ todo = [p \in Threads |-> {}]
    /\ \E b \in Spent : says = b[1] /\ faults = b[2]

Goto(p, l) == pc' = [pc EXCEPT ![p] = l]
Fault == faults < MaxFaults /\ faults' = faults + 1

-----------------------------------------------------------------------------
(* When a node may run *)

\* parent_gate and parent_gate_at: a parent with an integration policy is
\* judged by its integration record, any other by its own state and outcome.
OwnGate(t) ==
    CASE t.st = "abandoned" -> "failed"
      [] t.st = "closed" -> IF t.out = "done" THEN "ready" ELSE "failed"
      [] t.st = "open" /\ t.out = "failed" -> "failed"
      [] OTHER -> "waiting"

IntegrationReady(t) ==
    /\ t.head = t.merge /\ t.got = t.merge /\ t.st \in {"open", "closed"} /\ t.out = "done"
    /\ t.run = "no"

IntegrationGate(t) ==
    CASE t.st = "abandoned" \/ t.integ = "given up" -> "failed"
      [] t.st # "abandoned" /\ t.integ = "integrated" -> IF IntegrationReady(t) THEN "ready" ELSE "waiting"
      [] t.st = "closed" /\ t.integ \in {"none", "blocked", "revoked"} -> "failed"
      [] OTHER -> "waiting"

Gate(d) ==
    CASE state[d] = "blocked" -> "failed"
      [] state[d] = "submitted" -> IF d \in Integrating THEN IntegrationGate(task[d])
                                                        ELSE OwnGate(task[d])
      [] OTHER -> "waiting"

HasBase(n)  == From[n] = 0 \/ bound[n] # 0
Ready(n)    == HasBase(n) /\ \A d \in Deps[n] : Gate(d) = "ready"
Doomed(n)   == \E d \in Deps[n] : Gate(d) = "failed"
Complete(n) == task[n].st # "none" /\ ~task[n].intent

-----------------------------------------------------------------------------
(* Publishing the graph *)

\* create_run_with_dag writes the marker, the graph and the run record, in
\* this order.
CreateRun(p) ==
    /\ file = "none" /\ pc[p] = "idle" /\ Owner[p] \in live
    /\ pending' = TRUE
    /\ \/ file' = "indexed" /\ run' = TRUE /\ faults' = faults
       \/ Fault /\ file' \in {"none", "indexed"} /\ run' = run
    /\ UNCHANGED <<members, state, claim, bound, pin, task, live, work, says>>

\* bootstrap_dag_pending_index: once, for the graphs of an older version.
Bootstrap(p) ==
    /\ file = "legacy" /\ pc[p] = "idle" /\ Owner[p] \in live
    /\ file' = "indexed" /\ pending' = ~Quiescent(state)
    /\ UNCHANGED <<run, members, state, claim, bound, pin, task, live, work, says, faults>>

-----------------------------------------------------------------------------
(* Binding *)

StartAdvance(p) ==
    /\ pending /\ pc[p] = "idle" /\ Owner[p] \in live
    /\ todo' = [todo EXCEPT ![p] =
         IF file = "none" THEN {}
         ELSE {n \in Nodes : From[n] # 0 /\ bound[n] = 0 /\ state[n] # "blocked"}]
    /\ Goto(p, IF file = "none" THEN "idle" ELSE "bind")
    /\ UNCHANGED <<graph, pin, task, live, at, oid, says, faults>>

\* accepted_import_oid: the turn that is accepted has been imported and retired.
Accepted_AnyImport(d) ==
    /\ OwnGate(task[d]) = "ready" /\ task[d].got # 0
Accepted(d) ==
    /\ task[d].run = "no"
    /\ IF d \in Integrating THEN IntegrationGate(task[d]) = "ready"
       ELSE OwnGate(task[d]) = "ready" /\ task[d].got = task[d].head
    /\ task[d].got # 0

BindNext(p) ==
    LET n == Least(todo[p]) IN
    /\ pc[p] = "bind" /\ todo[p] # {}
    /\ IF Accepted(From[n])
       THEN Goto(p, "pin") /\ at' = [at EXCEPT ![p] = n]
            /\ oid' = [oid EXCEPT ![p] = task[From[n]].got] /\ UNCHANGED todo
       ELSE todo' = [todo EXCEPT ![p] = @ \ {n}] /\ UNCHANGED <<pc, at, oid>>
    /\ UNCHANGED <<graph, pin, task, live, says, faults>>

\* A pass that fails is over; the claims it holds stay.
Stop(p) ==
    /\ Goto(p, "idle")
    /\ at' = [at EXCEPT ![p] = 0] /\ oid' = [oid EXCEPT ![p] = 0] /\ todo' = [todo EXCEPT ![p] = {}]

\* pin_object creates the ref or finds it with the same commit.
PinObject(p) ==
    LET n == at[p] IN
    /\ pc[p] = "pin"
    /\ IF pin[n] \in {0, oid[p]}
       THEN pin' = [pin EXCEPT ![n] = oid[p]] /\ Goto(p, "publish") /\ UNCHANGED <<at, oid, todo>>
       ELSE pin' = pin /\ Stop(p)
    /\ UNCHANGED <<graph, task, live, says, faults>>

PublishBinding(p) ==
    LET n == at[p] IN
    /\ pc[p] = "publish"
    /\ IF bound[n] \in {0, oid[p]}
       THEN /\ bound' = [bound EXCEPT ![n] = oid[p]]
            /\ pending' = ~Quiescent(state)
            /\ todo' = [todo EXCEPT ![p] = @ \ {n}]
            /\ Goto(p, "bind") /\ at' = [at EXCEPT ![p] = 0] /\ oid' = [oid EXCEPT ![p] = 0]
       ELSE UNCHANGED <<bound, pending>> /\ Stop(p)
    /\ UNCHANGED <<file, run, members, state, claim, pin, task, live, says, faults>>

-----------------------------------------------------------------------------
(* Claiming and submitting *)

\* claimed_node_action: a claimed node whose submission is complete is marked;
\* one whose claimant is this process or gone is taken again.
Retakable_AnyOwner(p, n) == state[n] = "claimed"
Retakable_OwnOnly(p, n) == state[n] = "claimed" /\ claim[n] = Owner[p]
Retakable(p, n) == state[n] = "claimed" /\ (claim[n] = Owner[p] \/ claim[n] \notin live)

Blockable  == {n \in Nodes : state[n] \in {"waiting", "claimed"} /\ Doomed(n)}
Finished   == {n \in Nodes \ Blockable : state[n] = "claimed" /\ Complete(n)}
Eligible(p) ==
    {n \in Nodes \ (Blockable \cup Finished) :
        (Retakable(p, n) /\ HasBase(n)) \/ (state[n] = "waiting" /\ Ready(n))}

\* Only a claimed node has a claimant.
Claimants(p, after, taken) ==
    [n \in Nodes |-> IF n \in taken THEN Owner[p]
                     ELSE IF after[n] = "claimed" THEN claim[n] ELSE None]

\* The nodes are visited in order up to the first one that can be claimed.
Claim(p) ==
    LET pick    == Eligible(p)
        visited == {n \in Nodes : pick = {} \/ n < Least(pick)}
        taken   == IF pick = {} THEN {} ELSE {Least(pick)}
        after   == [n \in Nodes |-> CASE n \in visited \cap Blockable -> "blocked"
                                      [] n \in visited \cap Finished -> "submitted"
                                      [] n \in taken -> "claimed"
                                      [] OTHER -> state[n]]
    IN /\ pc[p] = "bind" /\ todo[p] = {}
       /\ run' = TRUE
       /\ members' = members \cup {n \in visited : state[n] = "submitted" \/ n \in Finished}
       /\ \/ /\ state' = after
             /\ claim' = Claimants(p, after, taken)
             /\ \/ pending' = ~Quiescent(after) /\ faults' = faults
                   /\ IF taken = {} THEN Stop(p)
                      ELSE Goto(p, "submit") /\ at' = [at EXCEPT ![p] = Least(pick)]
                           /\ UNCHANGED <<oid, todo>>
                \/ Fault /\ pending' = pending /\ Stop(p)
          \/ Fault /\ UNCHANGED <<state, claim, pending>> /\ Stop(p)
       /\ UNCHANGED <<file, bound, pin, task, live, says>>

\* Two threads of one process take turns at a task.
Alone(p) == \A q \in Threads \ {p} : ~(Owner[q] = Owner[p] /\ at[q] = at[p] /\ pc[q] = "handover")

CreateTask(p) ==
    LET n == at[p] IN
    /\ pc[p] = "submit" /\ Alone(p)
    /\ task' = IF task[n].st # "none" THEN task
               ELSE [task EXCEPT ![n] = [NoTask EXCEPT !.st = "queued", !.intent = TRUE]]
    /\ Goto(p, "handover")
    /\ UNCHANGED <<graph, pin, live, at, oid, todo, says, faults>>

HandOver(p) ==
    LET n == at[p] IN
    /\ pc[p] = "handover"
    /\ task' = IF task[n].intent THEN [task EXCEPT ![n].intent = FALSE, ![n].run = "turn"] ELSE task
    /\ Goto(p, "mark")
    /\ UNCHANGED <<graph, pin, live, at, oid, todo, says, faults>>

\* mark_dag_node_submitted: the run lists the task before the node is marked.
MarkSubmitted(p) ==
    LET n == at[p] IN
    /\ pc[p] = "mark"
    /\ members' = members \cup {n}
    /\ \/ /\ state' = [state EXCEPT ![n] = "submitted"] /\ claim' = [claim EXCEPT ![n] = None]
          /\ \/ pending' = ~Quiescent(state') /\ faults' = faults
                /\ Goto(p, "bind") /\ at' = [at EXCEPT ![p] = 0] /\ UNCHANGED <<oid, todo>>
             \/ Fault /\ pending' = pending /\ Stop(p)
       \/ Fault /\ UNCHANGED <<state, claim, pending>> /\ Stop(p)
    /\ UNCHANGED <<file, run, bound, pin, task, live, says>>

SubmitFails(p) ==
    /\ pc[p] \in {"submit", "handover"} /\ Fault /\ Stop(p)
    /\ UNCHANGED <<graph, pin, task, live, says>>

\* Reconciliation undoes a submission that was left before its handoff.
RollBack(n) ==
    /\ task[n].intent /\ \A p \in Threads : ~(at[p] = n /\ pc[p] = "handover")
    /\ task' = [task EXCEPT ![n] = NoTask]
    /\ UNCHANGED <<graph, pin, live, work, says, faults>>

Die(o) ==
    /\ o \in live /\ Cardinality(live) > 1 /\ Fault
    /\ live' = live \ {o}
    /\ pc' = [p \in Threads |-> IF Owner[p] = o THEN "idle" ELSE pc[p]]
    /\ at' = [p \in Threads |-> IF Owner[p] = o THEN 0 ELSE at[p]]
    /\ oid' = [p \in Threads |-> IF Owner[p] = o THEN 0 ELSE oid[p]]
    /\ todo' = [p \in Threads |-> IF Owner[p] = o THEN {} ELSE todo[p]]
    /\ UNCHANGED <<graph, pin, task, says>>

-----------------------------------------------------------------------------
(* The tasks *)

Becomes(n, t) ==
    task' = [task EXCEPT ![n] = t] /\ UNCHANGED <<graph, pin, live, work, faults>>

Accept(n) ==
    LET t == task[n] IN
    /\ t.st = "queued" /\ t.run = "turn"
    /\ Becomes(n, [t EXCEPT !.st = "active"]) /\ UNCHANGED says

\* The runner stores the host's status, which may be Closed already, before it
\* imports the result.
TurnEnds(n) ==
    LET t == task[n] IN
    /\ t.st = "active" /\ t.run = "turn"
    /\ \E o \in {"done", "input", "failed"}, st \in {"open", "closed"} :
         /\ st = "closed" => o = "done" /\ n \in AutoClose \ Integrating
         /\ Becomes(n, [t EXCEPT !.st = st, !.out = o, !.head = t.head + 1, !.run = "import"])
    /\ UNCHANGED says

Import(n) ==
    LET t == task[n] IN
    /\ t.run = "import"
    /\ Becomes(n, [t EXCEPT !.got = t.head, !.run = "retire",
                    !.st = IF t.out = "done" /\ n \in AutoClose \ Integrating THEN "closed" ELSE t.st])
    /\ UNCHANGED says

\* finish_publication_failure: the task is open again and its turn has failed.
ImportFails(n) ==
    LET t == task[n] IN
    /\ t.run = "import"
    /\ Becomes(n, [t EXCEPT !.st = "open", !.out = "failed", !.run = "no"])
    /\ UNCHANGED says

Retire(n) ==
    LET t == task[n] IN
    /\ t.run = "retire"
    /\ Becomes(n, [t EXCEPT !.run = "no",
                    !.integ = IF n \in Integrating /\ t.out = "done" /\ t.st = "open" THEN "due" ELSE t.integ])
    /\ UNCHANGED says

\* A turn that no host has accepted is cancelled, or finds no capacity: a first
\* turn abandons its task, a follow-up leaves it open.
Withdraw(n) ==
    LET t == task[n] IN
    /\ t.run = "turn" /\ (t.st = "queued" \/ t.head > 0)
    /\ Becomes(n, [t EXCEPT !.st = IF t.st = "queued" THEN "abandoned" ELSE "open",
                    !.out = "failed", !.run = "no"])
    /\ UNCHANGED says

Say(n) ==
    LET t == task[n] IN
    /\ says < MaxSays /\ says' = says + 1
    /\ t.st = "open" /\ t.run = "no" /\ t.integ # "due"
    /\ Becomes(n, [t EXCEPT !.st = "active", !.run = "turn",
                    !.integ = IF t.integ = "blocked" THEN "revoked" ELSE t.integ])

\* An open task, or one whose first turn still waits, is closed or discarded;
\* that stops an integration which has not been published.
Close(n) ==
    LET t == task[n] IN
    /\ t.st \in {"open", "queued"} /\ (t.run = "no" \/ t.st = "queued") /\ ~t.intent
    /\ \E st \in {"closed", "abandoned"} :
         Becomes(n, [t EXCEPT !.st = st, !.run = "no",
                      !.integ = IF t.integ \in {"due", "blocked"} THEN "revoked" ELSE t.integ])
    /\ UNCHANGED says

\* The coordinator imports the merge as the task's result, or gives up for now;
\* a blocked integration may be driven again.
Integrate(n) ==
    LET t == task[n] IN
    /\ t.st = "open" /\ t.integ \in {"due", "blocked"} /\ t.out = "done" /\ t.run = "no"
    /\ \/ Becomes(n, [t EXCEPT !.integ = "integrated", !.head = t.head + 1, !.got = t.head + 1,
                        !.merge = t.head + 1, !.st = IF n \in AutoClose THEN "closed" ELSE "open"])
       \/ t.integ = "due" /\ Becomes(n, [t EXCEPT !.integ = "blocked"])
    /\ UNCHANGED says

\* Cancelling an open task gives its integration up.
GiveUp(n) ==
    LET t == task[n] IN
    /\ t.st = "open" /\ t.integ \in {"due", "blocked"} /\ t.run = "no"
    /\ Becomes(n, [t EXCEPT !.integ = "given up"])
    /\ UNCHANGED says

Pass(p) ==
    \/ BindNext(p) \/ PinObject(p) \/ PublishBinding(p) \/ Claim(p)
    \/ CreateTask(p) \/ HandOver(p) \/ MarkSubmitted(p)
RunnerStep(n) == Accept(n) \/ TurnEnds(n) \/ Import(n) \/ ImportFails(n) \/ Retire(n)

Next ==
    \/ \E p \in Threads : \/ CreateRun(p) \/ Bootstrap(p) \/ StartAdvance(p) \/ Pass(p)
                          \/ SubmitFails(p)
    \/ \E o \in Procs : Die(o)
    \/ \E n \in Nodes : \/ RunnerStep(n) \/ RollBack(n) \/ Withdraw(n) \/ Say(n) \/ Close(n)
                        \/ Integrate(n) \/ GiveUp(n)

Spec == Init /\ [][Next]_vars

\* Processes that are alive reconcile again and again and finish what they
\* began; runners finish their turns.
Fairness ==
    /\ \A p \in Threads : WF_vars(Pass(p)) /\ WF_vars(StartAdvance(p)) /\ WF_vars(Bootstrap(p))
    /\ \A n \in Nodes : WF_vars(RunnerStep(n))

Fair == Spec /\ Fairness

-----------------------------------------------------------------------------
(* Properties *)

\* The graph file, the index, the bindings and the passes have their types.
DagTypeOK ==
    /\ file \in {"none", "legacy", "indexed"} /\ run \in BOOLEAN /\ pending \in BOOLEAN
    /\ members \subseteq Nodes
    /\ state \in [Nodes -> {"waiting", "claimed", "submitted", "blocked"}]
    /\ claim \in [Nodes -> Procs \cup {None}]
    /\ bound \in [Nodes -> Commits] /\ pin \in [Nodes -> Commits]
    /\ task \in [Nodes -> Task] /\ live \subseteq Procs
    /\ pc \in [Threads -> {"idle", "bind", "pin", "publish", "submit", "handover", "mark"}]
    /\ at \in [Threads -> Nodes \cup {0}] /\ oid \in [Threads -> Commits]
    /\ todo \in [Threads -> SUBSET Nodes] /\ says \in 0..MaxSays /\ faults \in 0..MaxFaults
    /\ \A n \in Nodes : state[n] = "claimed" <=> claim[n] # None

\* Two reconcilers produce one claim: no two of them submit a node at a time,
\* whether they are threads of one process or two processes.
OneSubmitter ==
    \A p, q \in Threads : p # q /\ pc[p] = "handover" /\ pc[q] = "handover" => at[p] # at[q]

\* A `from:` child starts from the commit its parent was closed with, imported
\* and pinned, and the parent keeps it.
BoundToAccepted ==
    \A n \in Nodes : From[n] # 0 =>
        LET t == task[From[n]] IN
        /\ state[n] \in {"claimed", "submitted"} => bound[n] # 0
        /\ bound[n] # 0 => /\ pin[n] = bound[n]
                           /\ From[n] \notin Integrating =>
                                t.st = "closed" /\ t.out = "done" /\ t.head = bound[n] /\ t.got = bound[n]

Final(d) == state[d] = "blocked" \/ (state[d] = "submitted" /\ task[d].st \in {"closed", "abandoned"} /\ task[d].run = "no")
\* Two holes.  An integrated parent that took a follow-up which did not end Done
\* keeps its gate waiting, whatever becomes of it; and the pin a dead process left
\* behind without its binding fails every later pass once the parent has another head.
Superseded(n) == \E d \in Deps[n] : /\ d \in Integrating /\ task[d].integ = "integrated"
                                     /\ ~IntegrationReady(task[d])
StalePin == \E n \in Nodes : From[n] # 0 /\ pin[n] \notin {0, bound[n], task[From[n]].head}

\* A child whose parents are all final is submitted or blocked in the end, unless
\* it falls into one of the two holes.
Settles ==
    \A n \in Nodes : (file # "none" /\ \A d \in Deps[n] : Final(d))
                      ~> state[n] \in {"submitted", "blocked"} \/ Superseded(n) \/ StalePin
=============================================================================
