--------------------------- MODULE BatchDagProofs ---------------------------
(***************************************************************************)
(* Proofs about BatchDag for any graph, any number of processes and        *)
(* threads, follow-ups and faults: its types, that a node has one          *)
(* submitter at a time (OneSubmitter), and that a `from:` child is bound   *)
(* to what its parent was closed with (BoundToAccepted).                   *)
(***************************************************************************)
EXTENDS BatchDag, WellFoundedInduction, TLAPS

-----------------------------------------------------------------------------
(* The inductive invariant. *)

Submitting == {"submit", "handover", "mark"}

(* A pass belongs to a process that lives.  One that binds has a child and its
   commit in hand; one that submits has a node with a base, which its process
   has claimed unless the node is settled. *)
PassOf(p) ==
    /\ pc[p] # "idle" => Owner[p] \in live
    /\ \A n \in todo[p] : From[n] # 0
    /\ pc[p] \in {"pin", "publish"} => at[p] \in Nodes /\ From[at[p]] # 0 /\ oid[p] # 0
    /\ pc[p] \in Submitting =>
          /\ at[p] \in Nodes /\ HasBase(at[p])
          /\ claim[at[p]] = Owner[p] \/ state[at[p]] \in {"submitted", "blocked"}
Passes == \A p \in Threads : PassOf(p)

(* Two passes that submit one node are threads of one process. *)
OneProcess ==
    \A p, q \in Threads : pc[p] \in Submitting /\ pc[q] \in Submitting /\ at[p] = at[q]
                             => Owner[p] = Owner[q]

(* A task with an intent waits for its handoff; a closed one without a run is
   at its end. *)
Intents == \A n \in Nodes : task[n].intent => task[n].st = "queued" /\ task[n].run = "no"

(* Commit c is what the parent of n was closed with. *)
Fixed(n, c) ==
    From[n] \notin Integrating =>
        LET t == task[From[n]] IN
        t.st = "closed" /\ t.out = "done" /\ t.run = "no" /\ t.head = c /\ t.got = c

(* What is bound is pinned, and what is about to be pinned or bound is fixed. *)
Bindings ==
    /\ \A n \in Nodes : From[n] # 0 =>
          /\ state[n] \in {"claimed", "submitted"} => bound[n] # 0
          /\ bound[n] # 0 => pin[n] = bound[n] /\ Fixed(n, bound[n])
    /\ \A p \in Threads :
          /\ pc[p] \in {"pin", "publish"} => Fixed(at[p], oid[p])
          /\ pc[p] = "publish" => pin[at[p]] = oid[p]

DagInv == DagTypeOK /\ Passes /\ OneProcess /\ Intents /\ Bindings /\ OneSubmitter

-----------------------------------------------------------------------------
(* The first node of a set. *)

LEMMA Numbers == /\ Nodes \subseteq Nat /\ 0 \notin Nodes /\ None \notin Procs
                 /\ \A p \in Threads : Owner[p] \in Procs
                 /\ \A n \in Nodes : From[n] \in Nodes \cup {0}
                 /\ MaxSays \in Nat /\ MaxFaults \in Nat
  BY DagAssumption DEF DagAssumption

LEMMA LeastIn ==
    ASSUME NEW S \in SUBSET Nodes, S # {}
    PROVE  Least(S) \in S
<1> DEFINE R == OpToRel(<, Nat)
<1>1. IsWellFoundedOn(R, Nat)
  BY NatLessThanWellFounded
<1>2. ASSUME NEW x \in Nat, NEW y \in Nat PROVE <<y, x>> \in R <=> y < x
  BY DEF OpToRel
<1> HIDE DEF R
<1>3. PICK n \in S : \A y \in S : ~ (<<y, n>> \in R)
  BY <1>1, WFMin, Numbers
<1>4. ASSUME NEW m \in S PROVE n <= m
  <2>1. m \in Nat /\ n \in Nat
    BY Numbers
  <2>2. ~ (m < n)
    BY <1>2, <1>3, <2>1, Zenon
  <2>3. QED
    BY <2>1, <2>2
<1>5. QED
  BY <1>4 DEF Least

-----------------------------------------------------------------------------
(* What a step can do to a task. *)

AtEnd(t) == t.st = "closed" /\ t.run = "no"

(* The record of one task becomes t. *)
Edit(n, t) == /\ task' = [task EXCEPT ![n] = t] /\ t \in Task /\ ~AtEnd(task[n])
              /\ t.intent => t.st = "queued" /\ t.run = "no"
TaskMove == task' = task \/ \E n \in Nodes, t \in Task : Edit(n, t)

LEMMA NoTaskType == NoTask \in Task /\ ~NoTask.intent /\ ~AtEnd(NoTask)
  BY DEF NoTask, Task, Commits, AtEnd

LEMMA RunnerMoves ==
    ASSUME DagTypeOK, Intents, NEW n \in Nodes,
           RunnerStep(n) \/ Withdraw(n) \/ Say(n) \/ Close(n) \/ Integrate(n) \/ GiveUp(n)
    PROVE  \E t \in Task : Edit(n, t)
<1>a. task[n] \in Task /\ (task[n].intent => task[n].st = "queued" /\ task[n].run = "no")
  BY DEF DagTypeOK, Intents
<1>b. ASSUME NEW t \in Task, task' = [task EXCEPT ![n] = t], ~AtEnd(task[n]),
             t.intent => t.st = "queued" /\ t.run = "no"
      PROVE  \E u \in Task : Edit(n, u)
  BY <1>b DEF Edit
<1>c. task[n].head + 1 \in Commits
  <2>1. task[n].head \in Nat
    BY <1>a DEF Task, Commits
  <2>2. QED
    BY <2>1 DEF Commits
<1>1. CASE Accept(n)
  BY <1>1, <1>a, <1>b DEF Accept, Becomes, Task, AtEnd
<1>2. CASE TurnEnds(n)
  <2>1. PICK o \in {"done", "input", "failed"}, st \in {"open", "closed"} :
           task' = [task EXCEPT ![n] = [task[n] EXCEPT !.st = st, !.out = o,
                                          !.head = task[n].head + 1, !.run = "import"]]
    BY <1>2 DEF TurnEnds, Becomes
  <2>2. [task[n] EXCEPT !.st = st, !.out = o, !.head = task[n].head + 1, !.run = "import"] \in Task
    BY <1>a, <1>c DEF Task
  <2>3. QED
    BY <1>2, <1>a, <1>b, <2>1, <2>2 DEF TurnEnds, Task, AtEnd
<1>3. CASE Import(n)
  BY <1>3, <1>a, <1>b DEF Import, Becomes, Task, AtEnd
<1>4. CASE ImportFails(n)
  BY <1>4, <1>a, <1>b DEF ImportFails, Becomes, Task, AtEnd
<1>5. CASE Retire(n)
  BY <1>5, <1>a, <1>b DEF Retire, Becomes, Task, AtEnd
<1>6. CASE Withdraw(n)
  BY <1>6, <1>a, <1>b DEF Withdraw, Becomes, Task, AtEnd
<1>7. CASE Say(n)
  BY <1>7, <1>a, <1>b DEF Say, Becomes, Task, AtEnd
<1>8. CASE Close(n)
  BY <1>8, <1>a, <1>b DEF Close, Becomes, Task, AtEnd
<1>9. CASE Integrate(n)
  <2>1. CASE task' = [task EXCEPT ![n] = [task[n] EXCEPT !.integ = "integrated",
                 !.head = task[n].head + 1, !.got = task[n].head + 1, !.merge = task[n].head + 1,
                 !.st = IF n \in AutoClose THEN "closed" ELSE "open"]]
    <3>1. [task[n] EXCEPT !.integ = "integrated", !.head = task[n].head + 1,
             !.got = task[n].head + 1, !.merge = task[n].head + 1,
             !.st = IF n \in AutoClose THEN "closed" ELSE "open"] \in Task
      BY <1>a, <1>c DEF Task
    <3>2. QED
      BY <1>9, <1>a, <1>b, <2>1, <3>1 DEF Integrate, Task, AtEnd
  <2>2. CASE task' = [task EXCEPT ![n] = [task[n] EXCEPT !.integ = "blocked"]]
    BY <1>9, <1>a, <1>b, <2>2 DEF Integrate, Task, AtEnd
  <2>3. QED
    BY <1>9, <2>1, <2>2 DEF Integrate, Becomes
<1>10. CASE GiveUp(n)
  BY <1>10, <1>a, <1>b DEF GiveUp, Becomes, Task, AtEnd
<1>11. QED
  BY <1>1, <1>2, <1>3, <1>4, <1>5, <1>6, <1>7, <1>8, <1>9, <1>10 DEF RunnerStep

LEMMA TaskMoves == DagInv /\ [Next]_vars => TaskMove
<1> SUFFICES ASSUME DagInv, [Next]_vars PROVE TaskMove
  OBVIOUS
<1>a. DagTypeOK /\ Intents /\ Passes
  BY DEF DagInv
<1>1. ASSUME NEW n \in Nodes,
             RunnerStep(n) \/ Withdraw(n) \/ Say(n) \/ Close(n) \/ Integrate(n) \/ GiveUp(n)
      PROVE  TaskMove
  BY <1>1, <1>a, RunnerMoves DEF TaskMove
<1>2. ASSUME NEW p \in Threads, CreateTask(p) PROVE TaskMove
  <2>1. at[p] \in Nodes
    BY <1>2, <1>a DEF CreateTask, Passes, PassOf, Submitting
  <2>2. [NoTask EXCEPT !.st = "queued", !.intent = TRUE] \in Task
    BY DEF NoTask, Task, Commits
  <2>3. [NoTask EXCEPT !.st = "queued", !.intent = TRUE].st = "queued"
        /\ [NoTask EXCEPT !.st = "queued", !.intent = TRUE].run = "no"
    BY DEF NoTask
  <2>4. QED
    BY <1>2, <2>1, <2>2, <2>3 DEF CreateTask, TaskMove, Edit, AtEnd
<1>3. ASSUME NEW p \in Threads, HandOver(p) PROVE TaskMove
  <2>1. at[p] \in Nodes
    BY <1>3, <1>a DEF HandOver, Passes, PassOf, Submitting
  <2>a. task[at[p]] \in Task
    BY <1>a, <2>1 DEF DagTypeOK
  <2>b. [task[at[p]] EXCEPT !.intent = FALSE, !.run = "turn"] \in Task
    BY <2>a DEF Task
  <2>2. [task[at[p]] EXCEPT !.intent = FALSE, !.run = "turn"] \in Task
        /\ ~[task[at[p]] EXCEPT !.intent = FALSE, !.run = "turn"].intent
    BY <2>a, <2>b DEF Task
  <2>3. task[at[p]].intent => ~AtEnd(task[at[p]])
    BY <1>a, <2>1 DEF Intents, AtEnd
  <2>4. QED
    BY <1>3, <1>a, <2>1, <2>2, <2>3 DEF HandOver, TaskMove, Edit, DagTypeOK
<1>4. ASSUME NEW n \in Nodes, RollBack(n) PROVE TaskMove
  BY <1>4, <1>a, NoTaskType DEF RollBack, TaskMove, Edit, Intents, AtEnd
<1>5. ASSUME task' = task PROVE TaskMove
  BY <1>5 DEF TaskMove
<1>6. QED
  BY <1>1, <1>2, <1>3, <1>4, <1>5 DEF Next, Pass, CreateRun, Bootstrap, StartAdvance, BindNext,
     PinObject, PublishBinding, Claim, MarkSubmitted, SubmitFails, Die, vars

(* A task at its end stays as it is, so what is fixed stays fixed. *)
LEMMA TasksKept ==
    ASSUME DagInv, TaskMove
    PROVE  /\ task' \in [Nodes -> Task] /\ Intents'
           /\ \A n \in Nodes : \A c : From[n] # 0 /\ Fixed(n, c) => Fixed(n, c)'
<1>a. task \in [Nodes -> Task] /\ Intents
  BY DEF DagInv, DagTypeOK
<1>1. task' \in [Nodes -> Task] /\ Intents'
  BY <1>a DEF TaskMove, Edit, Intents
<1>2. \A n \in Nodes : AtEnd(task[n]) => task'[n] = task[n]
  BY <1>a DEF TaskMove, Edit
<1>3. QED
  BY <1>1, <1>2, Numbers DEF Fixed, AtEnd

-----------------------------------------------------------------------------
(* A pass that stops has nothing in hand. *)

PassTypes == /\ pc \in [Threads -> {"idle", "bind", "pin", "publish", "submit", "handover", "mark"}]
             /\ at \in [Threads -> Nodes \cup {0}] /\ oid \in [Threads -> Commits]
             /\ todo \in [Threads -> SUBSET Nodes]

GraphTypes ==
    /\ file \in {"none", "legacy", "indexed"} /\ run \in BOOLEAN /\ pending \in BOOLEAN
    /\ members \subseteq Nodes
    /\ state \in [Nodes -> {"waiting", "claimed", "submitted", "blocked"}]
    /\ claim \in [Nodes -> Procs \cup {None}] /\ bound \in [Nodes -> Commits]
    /\ \A n \in Nodes : state[n] = "claimed" <=> claim[n] # None

LEMMA TypeParts ==
    DagTypeOK <=> /\ GraphTypes /\ PassTypes /\ pin \in [Nodes -> Commits]
                  /\ task \in [Nodes -> Task] /\ live \subseteq Procs
                  /\ says \in 0..MaxSays /\ faults \in 0..MaxFaults
  BY DEF DagTypeOK, GraphTypes, PassTypes

LEMMA StopMove ==
    ASSUME PassTypes, NEW p \in Threads, Stop(p)
    PROVE  /\ PassTypes'
           /\ pc'[p] = "idle" /\ at'[p] = 0 /\ oid'[p] = 0 /\ todo'[p] = {}
           /\ \A q \in Threads \ {p} : /\ pc'[q] = pc[q] /\ at'[q] = at[q] /\ oid'[q] = oid[q]
                                       /\ todo'[q] = todo[q]
  BY Numbers DEF PassTypes, Stop, Goto, Commits

LEMMA FaultType == ASSUME faults \in 0..MaxFaults, Fault PROVE faults' \in 0..MaxFaults
  BY Numbers DEF Fault

(* The steps that leave the graph, the pins and the passes alone. *)
LEMMA OutsideStep ==
    ASSUME DagInv, TaskMove, UNCHANGED <<state, claim, bound, pin, live, pc, at, oid, todo>>,
           GraphTypes', says' \in 0..MaxSays, faults' \in 0..MaxFaults
    PROVE  DagInv'
<1>a. DagTypeOK /\ Passes /\ OneProcess /\ Bindings /\ OneSubmitter
  BY DEF DagInv
<1>1. DagTypeOK'
  BY <1>a, TasksKept, TypeParts DEF DagTypeOK, GraphTypes
<1>2. Passes' /\ OneProcess' /\ OneSubmitter'
  BY <1>a DEF Passes, PassOf, OneProcess, OneSubmitter, HasBase
<1>3. \A n \in Nodes : \A c : From[n] # 0 /\ Fixed(n, c) => Fixed(n, c)'
  BY TasksKept
<1>4. Bindings'
  <2>1. ASSUME NEW n \in Nodes, From[n] # 0
        PROVE  /\ state'[n] \in {"claimed", "submitted"} => bound'[n] # 0
               /\ bound'[n] # 0 => pin'[n] = bound'[n] /\ Fixed(n, bound[n])'
    BY <1>a, <1>3, <2>1 DEF Bindings, Fixed
  <2>2. ASSUME NEW p \in Threads
        PROVE  /\ pc'[p] \in {"pin", "publish"} => Fixed(at[p], oid[p])'
               /\ pc'[p] = "publish" => pin'[at'[p]] = oid'[p]
    <3>1. pc[p] \in {"pin", "publish"} => at[p] \in Nodes /\ From[at[p]] # 0 /\ Fixed(at[p], oid[p])
      BY <1>a DEF Passes, PassOf, Bindings
    <3>2. QED
      BY <1>a, <1>3, <3>1 DEF Bindings, Fixed
  <2>3. QED
    BY <2>1, <2>2 DEF Bindings
<1>5. QED
  BY <1>1, <1>2, <1>4, TasksKept DEF DagInv

(* A step of one pass.  Bindings, pins and settled nodes stay; a claim is taken
   from nobody alive; what the pass binds is pinned and fixed; and it submits
   beside threads of its process only, one at a time. *)
Bound(n) == From[n] # 0 /\ bound'[n] # bound[n]
PassMove(p) ==
    /\ UNCHANGED live
    /\ \A q \in Threads \ {p} : /\ pc'[q] = pc[q] /\ at'[q] = at[q] /\ oid'[q] = oid[q]
                                /\ todo'[q] = todo[q]
    /\ \A n \in Nodes :
          /\ bound[n] # 0 => bound'[n] = bound[n]
          /\ pin[n] # 0 => pin'[n] = pin[n]
          /\ state[n] \in {"submitted", "blocked"} => state'[n] \in {"submitted", "blocked"}
          /\ claim'[n] # claim[n] => \/ state'[n] \in {"submitted", "blocked"}
                                     \/ /\ claim'[n] = Owner[p]
                                        /\ claim[n] = None \/ claim[n] \notin live
          /\ From[n] # 0 /\ (state'[n] \in {"claimed", "submitted"}) => bound'[n] # 0
          /\ Bound(n) => pin'[n] = bound'[n] /\ Fixed(n, bound'[n])
    /\ PassOf(p)'
    /\ pc'[p] \in {"pin", "publish"} => Fixed(at'[p], oid'[p])
    /\ pc'[p] = "publish" => pin'[at'[p]] = oid'[p]
    /\ \A q \in Threads \ {p} : pc'[p] \in Submitting /\ pc[q] \in Submitting /\ at'[p] = at[q]
                                => Owner[p] = Owner[q]
    /\ pc'[p] = "handover" => at'[p] = at[p] /\ (pc[p] # "handover" => Alone(p))

LEMMA PassStep ==
    ASSUME DagInv, TaskMove, NEW p \in Threads, DagTypeOK', PassMove(p)
    PROVE  DagInv'
<1> USE DEF PassMove, Bound
<1>a. DagTypeOK /\ Passes /\ OneProcess /\ Bindings /\ OneSubmitter
  BY DEF DagInv
<1>b. \A n \in Nodes : \A c : From[n] # 0 /\ Fixed(n, c) => Fixed(n, c)'
  BY TasksKept
<1>1. Passes'
  <2> SUFFICES ASSUME NEW q \in Threads, q # p PROVE PassOf(q)'
    BY DEF Passes
  <2>1. PassOf(q)
    BY <1>a DEF Passes
  <2>2. ASSUME NEW n \in Nodes, HasBase(n) PROVE HasBase(n)'
    BY <2>2 DEF HasBase
  <2>3. ASSUME NEW n \in Nodes, pc[q] \in Submitting, n = at[q]
        PROVE  claim'[n] = Owner[q] \/ state'[n] \in {"submitted", "blocked"}
    <3>1. claim[n] = Owner[q] \/ state[n] \in {"submitted", "blocked"}
      BY <2>1, <2>3 DEF PassOf
    <3>2. Owner[q] \in live /\ Owner[q] # None
      BY <2>1, <2>3, Numbers DEF PassOf, Submitting
    <3>3. QED
      BY <3>1, <3>2
  <2>4. QED
    BY <2>1, <2>2, <2>3 DEF PassOf
<1>2. OneProcess'
  BY <1>a DEF OneProcess
<1>3. Bindings'
  <2>1. ASSUME NEW n \in Nodes, From[n] # 0
        PROVE  /\ state'[n] \in {"claimed", "submitted"} => bound'[n] # 0
               /\ bound'[n] # 0 => pin'[n] = bound'[n] /\ Fixed(n, bound[n])'
    <3>1. bound'[n] # 0 => pin'[n] = bound'[n] /\ Fixed(n, bound'[n])
      BY <1>a, <2>1 DEF Bindings
    <3>2. bound'[n] # 0 => Fixed(n, bound[n])'
      BY <1>b, <2>1, <3>1 DEF Fixed
    <3>3. QED
      BY <2>1, <3>1, <3>2
  <2>2. ASSUME NEW q \in Threads
        PROVE  /\ pc'[q] \in {"pin", "publish"} => Fixed(at[q], oid[q])'
               /\ pc'[q] = "publish" => pin'[at'[q]] = oid'[q]
    <3>1. pc'[q] \in {"pin", "publish"} =>
             at'[q] \in Nodes /\ From[at'[q]] # 0 /\ oid'[q] # 0 /\ Fixed(at'[q], oid'[q])
      BY <1>1, <1>a DEF Passes, PassOf, Bindings
    <3>2. pc'[q] \in {"pin", "publish"} => Fixed(at[q], oid[q])'
      BY <1>b, <3>1 DEF Fixed
    <3>3. pc'[q] = "publish" => pin'[at'[q]] = oid'[q]
      BY <1>a, <3>1 DEF Bindings
    <3>4. QED
      BY <3>2, <3>3
  <2>3. QED
    BY <2>1, <2>2 DEF Bindings
<1>4. OneSubmitter'
  <2> SUFFICES ASSUME NEW q \in Threads, q # p, pc'[p] = "handover", pc[q] = "handover", at'[p] = at[q]
               PROVE  FALSE
    BY <1>a DEF OneSubmitter
  <2>1. Owner[p] = Owner[q]
    BY DEF Submitting
  <2>2. QED
    BY <1>a, <2>1 DEF Alone, OneSubmitter
<1>5. QED
  BY <1>1, <1>2, <1>3, <1>4, TasksKept DEF DagInv

(* A pass that stops, or goes on without touching the nodes. *)
LEMMA StopsClean ==
    ASSUME DagInv, NEW p \in Threads, Stop(p), UNCHANGED <<state, claim, bound, pin, live>>
    PROVE  PassMove(p) /\ PassTypes'
<1>a. PassTypes /\ Bindings
  BY TypeParts DEF DagInv
<1>1. /\ PassTypes'
      /\ pc'[p] = "idle" /\ at'[p] = 0 /\ oid'[p] = 0 /\ todo'[p] = {}
      /\ \A q \in Threads \ {p} : /\ pc'[q] = pc[q] /\ at'[q] = at[q] /\ oid'[q] = oid[q]
                                  /\ todo'[q] = todo[q]
  BY <1>a, StopMove
<1>2. QED
  BY <1>a, <1>1 DEF PassMove, Bound, PassOf, Submitting, Bindings

LEMMA StartAdvanceStep ==
    ASSUME DagInv, NEW p \in Threads, StartAdvance(p)
    PROVE  PassMove(p) /\ DagTypeOK'
<1>a. DagTypeOK /\ PassTypes /\ PassOf(p) /\ Bindings
  BY TypeParts DEF DagInv, Passes
<1>1. PassTypes'
  BY <1>a DEF StartAdvance, PassTypes, Goto
<1>2. DagTypeOK'
  BY <1>a, <1>1, TypeParts DEF StartAdvance, DagTypeOK, PassTypes, graph
<1>3. /\ pc'[p] \in {"idle", "bind"} /\ \A n \in todo'[p] : From[n] # 0
      /\ \A q \in Threads \ {p} : pc'[q] = pc[q] /\ at'[q] = at[q] /\ oid'[q] = oid[q] /\ todo'[q] = todo[q]
  BY <1>a DEF StartAdvance, PassTypes, Goto
<1>4. PassMove(p)
  BY <1>a, <1>3 DEF StartAdvance, PassMove, Bound, PassOf, Submitting, Bindings, graph
<1>5. QED
  BY <1>2, <1>4

LEMMA BindNextStep ==
    ASSUME DagInv, NEW p \in Threads, BindNext(p)
    PROVE  PassMove(p) /\ DagTypeOK'
<1>a. /\ DagTypeOK /\ PassTypes /\ PassOf(p) /\ Bindings
      /\ task \in [Nodes -> Task] /\ todo[p] \subseteq Nodes /\ todo[p] # {} /\ pc[p] = "bind"
  BY TypeParts DEF DagInv, Passes, PassTypes, DagTypeOK, BindNext
<1>b. PICK n \in Nodes : n = Least(todo[p]) /\ n \in todo[p] /\ From[n] # 0 /\ From[n] \in Nodes
  BY <1>a, LeastIn, Numbers DEF PassOf
<1>1. CASE Accepted(From[n])
  <2>1. /\ pc' = [pc EXCEPT ![p] = "pin"] /\ at' = [at EXCEPT ![p] = n]
        /\ oid' = [oid EXCEPT ![p] = task[From[n]].got] /\ todo' = todo
        /\ UNCHANGED <<graph, pin, task, live, says, faults>>
    BY <1>b, <1>1 DEF BindNext, Goto
  <2>2. task[From[n]].got \in Commits /\ task[From[n]].got # 0
    BY <1>a, <1>b, <1>1 DEF Task, Accepted
  <2>3. Fixed(n, task[From[n]].got)
    BY <1>1 DEF Accepted, OwnGate, Fixed
  <2>4. PassTypes'
    BY <1>a, <2>1, <2>2 DEF PassTypes
  <2>5. DagTypeOK'
    BY <1>a, <2>1, <2>4 DEF DagTypeOK, PassTypes, graph
  <2>6. /\ pc'[p] = "pin" /\ at'[p] = n /\ oid'[p] = task[From[n]].got /\ todo'[p] = todo[p]
        /\ \A q \in Threads \ {p} : pc'[q] = pc[q] /\ at'[q] = at[q] /\ oid'[q] = oid[q] /\ todo'[q] = todo[q]
    BY <1>a, <2>1 DEF PassTypes
  <2>7. PassMove(p)
    BY <1>a, <1>b, <2>1, <2>2, <2>3, <2>6 DEF PassMove, Bound, PassOf, Submitting, Bindings, graph
  <2>8. QED
    BY <2>5, <2>7
<1>2. CASE ~Accepted(From[n])
  <2>1. /\ todo' = [todo EXCEPT ![p] = @ \ {n}] /\ UNCHANGED <<pc, at, oid>>
        /\ UNCHANGED <<graph, pin, task, live, says, faults>>
    BY <1>b, <1>2 DEF BindNext
  <2>2. DagTypeOK'
    BY <1>a, <2>1 DEF DagTypeOK, graph
  <2>3. /\ todo'[p] \subseteq todo[p] /\ \A q \in Threads \ {p} : todo'[q] = todo[q]
    BY <1>a, <2>1 DEF PassTypes
  <2>4. PassMove(p)
    BY <1>a, <2>1, <2>3 DEF PassMove, Bound, PassOf, Submitting, Bindings, graph
  <2>5. QED
    BY <2>2, <2>4
<1>3. QED
  BY <1>1, <1>2

LEMMA PinObjectStep ==
    ASSUME DagInv, NEW p \in Threads, PinObject(p)
    PROVE  PassMove(p) /\ DagTypeOK'
<1>a. DagTypeOK /\ PassTypes /\ PassOf(p) /\ Bindings /\ pc[p] = "pin"
  BY TypeParts DEF DagInv, Passes, PinObject
<1>b. at[p] \in Nodes /\ From[at[p]] # 0 /\ oid[p] # 0 /\ oid[p] \in Commits /\ Fixed(at[p], oid[p])
  BY <1>a DEF PassOf, PassTypes, Bindings
<1>1. CASE pin[at[p]] \in {0, oid[p]}
  <2>1. /\ pin' = [pin EXCEPT ![at[p]] = oid[p]] /\ pc' = [pc EXCEPT ![p] = "publish"]
        /\ UNCHANGED <<at, oid, todo, graph, task, live, says, faults>>
    BY <1>1 DEF PinObject, Goto
  <2>2. DagTypeOK'
    BY <1>a, <1>b, <2>1 DEF DagTypeOK, graph
  <2>3. /\ pc'[p] = "publish" /\ \A q \in Threads \ {p} : pc'[q] = pc[q]
        /\ pin'[at[p]] = oid[p] /\ \A n \in Nodes : pin[n] # 0 => pin'[n] = pin[n]
    BY <1>a, <1>b, <1>1, <2>1 DEF DagTypeOK
  <2>4. PassMove(p)
    BY <1>a, <1>b, <2>1, <2>3 DEF PassMove, Bound, PassOf, Submitting, Bindings, graph
  <2>5. QED
    BY <2>2, <2>4
<1>2. CASE pin[at[p]] \notin {0, oid[p]}
  <2>1. Stop(p) /\ UNCHANGED <<pin, graph, task, live, says, faults>>
    BY <1>2 DEF PinObject
  <2>2. PassMove(p) /\ PassTypes'
    BY <2>1, StopsClean DEF graph
  <2>3. QED
    BY <1>a, <2>1, <2>2 DEF DagTypeOK, PassTypes, graph
<1>3. QED
  BY <1>1, <1>2

LEMMA PublishBindingStep ==
    ASSUME DagInv, NEW p \in Threads, PublishBinding(p)
    PROVE  PassMove(p) /\ DagTypeOK'
<1>a. DagTypeOK /\ PassTypes /\ PassOf(p) /\ Bindings /\ pc[p] = "publish"
  BY TypeParts DEF DagInv, Passes, PublishBinding
<1>b. /\ at[p] \in Nodes /\ From[at[p]] # 0 /\ oid[p] # 0 /\ oid[p] \in Commits
      /\ Fixed(at[p], oid[p]) /\ pin[at[p]] = oid[p]
  BY <1>a DEF PassOf, PassTypes, Bindings
<1>1. CASE bound[at[p]] \in {0, oid[p]}
  <2>1. /\ bound' = [bound EXCEPT ![at[p]] = oid[p]] /\ pending' = ~Quiescent(state)
        /\ todo' = [todo EXCEPT ![p] = @ \ {at[p]}] /\ pc' = [pc EXCEPT ![p] = "bind"]
        /\ at' = [at EXCEPT ![p] = 0] /\ oid' = [oid EXCEPT ![p] = 0]
        /\ UNCHANGED <<file, run, members, state, claim, pin, task, live, says, faults>>
    BY <1>1 DEF PublishBinding, Goto
  <2>2. PassTypes'
    BY <1>a, <2>1 DEF PassTypes, Commits
  <2>3. bound' \in [Nodes -> Commits] /\ pending' \in BOOLEAN
    BY <1>a, <1>b, <2>1 DEF DagTypeOK, Quiescent
  <2>4. DagTypeOK'
    BY <1>a, <2>1, <2>2, <2>3 DEF DagTypeOK, PassTypes
  <2>5. /\ pc'[p] = "bind" /\ todo'[p] \subseteq todo[p]
        /\ \A q \in Threads \ {p} : pc'[q] = pc[q] /\ at'[q] = at[q] /\ oid'[q] = oid[q] /\ todo'[q] = todo[q]
    BY <1>a, <2>1 DEF PassTypes
  <2>6. bound'[at[p]] = oid[p] /\ \A n \in Nodes \ {at[p]} : bound'[n] = bound[n]
    BY <1>a, <1>b, <2>1 DEF DagTypeOK
  <2>7. PassMove(p)
    BY <1>a, <1>b, <1>1, <2>1, <2>5, <2>6 DEF PassMove, Bound, PassOf, Submitting, Bindings
  <2>8. QED
    BY <2>4, <2>7
<1>2. CASE bound[at[p]] \notin {0, oid[p]}
  <2>1. Stop(p) /\ UNCHANGED <<pin, graph, task, live, says, faults>>
    BY <1>2 DEF PublishBinding, graph
  <2>2. PassMove(p) /\ PassTypes'
    BY <2>1, StopsClean DEF graph
  <2>3. QED
    BY <1>a, <2>1, <2>2 DEF DagTypeOK, PassTypes, graph
<1>3. QED
  BY <1>1, <1>2

(* What a pass visits: nodes that are doomed become blocked, nodes whose task
   is complete are marked, and the first eligible one is claimed. *)
LEMMA ClaimStep ==
    ASSUME DagInv, NEW p \in Threads, Claim(p)
    PROVE  PassMove(p) /\ DagTypeOK'
<1> DEFINE pick    == Eligible(p)
           first   == Least(pick)
           visited == {n \in Nodes : pick = {} \/ n < first}
           taken   == IF pick = {} THEN {} ELSE {first}
           after   == [n \in Nodes |-> CASE n \in visited \cap Blockable -> "blocked"
                                         [] n \in visited \cap Finished -> "submitted"
                                         [] n \in taken -> "claimed"
                                         [] OTHER -> state[n]]
           Moved   == state' = after /\ claim' = Claimants(p, after, taken)
           Kept    == state' = state /\ claim' = claim
<1>a. /\ DagTypeOK /\ PassTypes /\ GraphTypes /\ PassOf(p) /\ Bindings /\ pc[p] = "bind"
      /\ UNCHANGED <<file, bound, pin, task, live, says>>
      /\ run' = TRUE /\ members' = members \cup {n \in visited : state[n] = "submitted" \/ n \in Finished}
      /\ Owner[p] \in Procs /\ Owner[p] \in live
  BY TypeParts, Numbers DEF DagInv, Passes, PassOf, Claim
<1>b. \/ /\ Moved /\ pending' = ~Quiescent(after) /\ faults' = faults
         /\ IF taken = {} THEN Stop(p)
            ELSE Goto(p, "submit") /\ at' = [at EXCEPT ![p] = first] /\ UNCHANGED <<oid, todo>>
      \/ Moved /\ Fault /\ pending' = pending /\ Stop(p)
      \/ Kept /\ Fault /\ pending' = pending /\ Stop(p)
  BY DEF Claim
<1>c. members' \subseteq Nodes
  BY <1>a DEF DagTypeOK
<1>d. ASSUME pick # {}
      PROVE  /\ first \in Nodes /\ HasBase(first) /\ first \notin Blockable \cup Finished
             /\ first \notin visited
             /\ \/ state[first] = "waiting" /\ claim[first] = None
                \/ state[first] = "claimed" /\ (claim[first] = Owner[p] \/ claim[first] \notin live)
  <2>1. first \in pick
    BY <1>d, LeastIn DEF Eligible
  <2>2. first \in Nodes /\ first \in Nat /\ first \notin Blockable \cup Finished
    BY <2>1, Numbers DEF Eligible
  <2>3. (Retakable(p, first) /\ HasBase(first)) \/ (state[first] = "waiting" /\ Ready(first))
    BY <2>1 DEF Eligible
  <2> HIDE DEF pick, first
  <2>4. first \notin visited
    BY <1>d, <2>2
  <2>5. QED
    BY <1>a, <2>2, <2>3, <2>4 DEF Retakable, Ready, GraphTypes
<1>e. /\ Blockable \cap Finished = {} /\ Blockable \subseteq Nodes /\ Finished \subseteq Nodes
      /\ \A n \in Blockable : state[n] \in {"waiting", "claimed"}
      /\ \A n \in Finished : state[n] = "claimed"
  BY DEF Blockable, Finished
<1> HIDE DEF pick, first
<1>f. taken \subseteq Nodes /\ (taken # {} => taken = {first} /\ pick # {})
  BY <1>d
<1>g. ASSUME NEW n \in Nodes
      PROVE  \/ after[n] = "blocked" /\ n \notin taken /\ state[n] \in {"waiting", "claimed"}
             \/ after[n] = "submitted" /\ n \notin taken /\ state[n] = "claimed"
             \/ after[n] = "claimed" /\ n \in taken
             \/ after[n] = state[n] /\ n \notin taken
  <2>1. n \in taken => n = first /\ n \notin visited /\ pick # {}
    BY <1>d, <1>f
  <2> HIDE DEF visited, taken
  <2>2. CASE n \in visited \cap Blockable
    BY <1>e, <2>1, <2>2
  <2>3. CASE n \in visited \cap Finished
    <3>1. n \in visited /\ n \in Finished
      BY <2>3
    <3>2. n \notin Blockable
      BY <1>e, <3>1
    <3>3. n \notin taken
      BY <2>1, <3>1
    <3>4. state[n] = "claimed"
      BY <1>e, <3>1
    <3>5. n \notin visited \cap Blockable
      BY <3>2
    <3>6. after[n] = "submitted"
      BY <2>3, <3>3, <3>5
    <3>7. QED
      BY <3>3, <3>4, <3>6
  <2>4. CASE n \in taken
    BY <2>1, <2>4
  <2>5. CASE n \notin visited \cap Blockable /\ n \notin visited \cap Finished /\ n \notin taken
    BY <2>5
  <2>6. QED
    BY <2>2, <2>3, <2>4, <2>5
<1>h. after \in [Nodes -> {"waiting", "claimed", "submitted", "blocked"}]
  <2>1. \A n \in Nodes : after[n] \in {"waiting", "claimed", "submitted", "blocked"}
    BY <1>a, <1>g DEF GraphTypes
  <2>2. after = [n \in Nodes |-> after[n]]
    OBVIOUS
  <2> HIDE DEF after
  <2>3. QED
    BY <2>1, <2>2
<1> HIDE DEF after, taken, visited
<1>i. ASSUME Moved, NEW n \in Nodes
      PROVE  /\ state'[n] = after[n]
             /\ claim'[n] = IF n \in taken THEN Owner[p] ELSE IF after[n] = "claimed" THEN claim[n] ELSE None
  BY <1>i DEF Claimants
<1>j. GraphTypes'
  <2>1. CASE Kept
    BY <1>a, <1>b, <1>c, <2>1 DEF GraphTypes, Quiescent
  <2>2. CASE Moved
    <3>1. state' \in [Nodes -> {"waiting", "claimed", "submitted", "blocked"}]
      BY <1>h, <2>2
    <3>2. claim' \in [Nodes -> Procs \cup {None}]
      BY <1>a, <2>2 DEF Claimants, GraphTypes
    <3>3. \A n \in Nodes : state'[n] = "claimed" <=> claim'[n] # None
      BY <1>a, <1>g, <1>i, <2>2, Numbers DEF GraphTypes
    <3>4. pending' \in BOOLEAN
      BY <1>a, <1>b DEF GraphTypes, Quiescent
    <3>5. QED
      BY <1>a, <1>c, <3>1, <3>2, <3>3, <3>4 DEF GraphTypes
  <2>3. QED
    BY <1>b, <2>1, <2>2
<1>k. ASSUME NEW n \in Nodes
      PROVE  /\ state[n] \in {"submitted", "blocked"} => state'[n] \in {"submitted", "blocked"}
             /\ claim'[n] # claim[n] => \/ state'[n] \in {"submitted", "blocked"}
                                        \/ /\ claim'[n] = Owner[p]
                                           /\ claim[n] = None \/ claim[n] \notin live
             /\ From[n] # 0 /\ (state'[n] \in {"claimed", "submitted"}) => bound'[n] # 0
  <2>1. CASE Kept
    BY <1>a, <2>1 DEF Bindings
  <2>2. CASE Moved
    <3>1. CASE n \in taken
      <4>1. n = first /\ HasBase(n) /\ state'[n] = "claimed" /\ claim'[n] = Owner[p]
        BY <1>d, <1>f, <1>g, <1>i, <2>2, <3>1
      <4>2. \/ state[n] = "waiting" /\ claim[n] = None
            \/ state[n] = "claimed" /\ (claim[n] = Owner[p] \/ claim[n] \notin live)
        BY <1>d, <1>f, <3>1
      <4>3. QED
        BY <1>a, <4>1, <4>2 DEF HasBase
    <3>2. CASE n \notin taken
      BY <1>a, <1>g, <1>i, <2>2, <3>2 DEF GraphTypes, Bindings
    <3>3. QED
      BY <3>1, <3>2
  <2>3. QED
    BY <1>b, <2>1, <2>2
<1>1. CASE Stop(p) /\ (Fault \/ faults' = faults)
  <2>1. /\ PassTypes'
        /\ pc'[p] = "idle" /\ at'[p] = 0 /\ oid'[p] = 0 /\ todo'[p] = {}
        /\ \A q \in Threads \ {p} : pc'[q] = pc[q] /\ at'[q] = at[q] /\ oid'[q] = oid[q] /\ todo'[q] = todo[q]
    BY <1>a, <1>1, StopMove
  <2>2. faults' \in 0..MaxFaults
    BY <1>a, <1>1, FaultType DEF DagTypeOK
  <2>3. DagTypeOK'
    BY <1>a, <1>j, <2>1, <2>2 DEF DagTypeOK, GraphTypes, PassTypes
  <2>4. PassMove(p)
    BY <1>a, <1>k, <2>1 DEF PassMove, Bound, PassOf, Submitting
  <2>5. QED
    BY <2>3, <2>4
<1>2. CASE /\ Moved /\ faults' = faults /\ taken # {}
           /\ Goto(p, "submit") /\ at' = [at EXCEPT ![p] = first] /\ UNCHANGED <<oid, todo>>
  <2>1. first \in Nodes /\ first \in taken /\ HasBase(first) /\ pick # {}
    BY <1>2, <1>d, <1>f
  <2>2. PassTypes'
    BY <1>a, <1>2, <2>1 DEF PassTypes, Goto
  <2>3. DagTypeOK'
    BY <1>a, <1>2, <1>j, <2>2 DEF DagTypeOK, GraphTypes, PassTypes
  <2>4. /\ pc'[p] = "submit" /\ at'[p] = first /\ oid'[p] = oid[p] /\ todo'[p] = todo[p]
        /\ \A q \in Threads \ {p} : pc'[q] = pc[q] /\ at'[q] = at[q] /\ oid'[q] = oid[q] /\ todo'[q] = todo[q]
    BY <1>a, <1>2 DEF PassTypes, Goto
  <2>5. claim'[first] = Owner[p]
    BY <1>2, <1>i, <2>1
  <2>6. PassOf(p)'
    BY <1>a, <2>1, <2>4, <2>5 DEF PassOf, Submitting, HasBase
  <2>7. ASSUME NEW q \in Threads, q # p, pc[q] \in Submitting, at[q] = first PROVE Owner[p] = Owner[q]
    <3>1. /\ Owner[q] \in live /\ Owner[q] \in Procs
          /\ claim[first] = Owner[q] \/ state[first] \in {"submitted", "blocked"}
      BY <2>7, Numbers DEF DagInv, Passes, PassOf, Submitting
    <3>2. QED
      BY <1>d, <2>1, <3>1, Numbers
  <2>8. PassMove(p)
    BY <1>a, <1>k, <2>4, <2>6, <2>7 DEF PassMove, Bound
  <2>9. QED
    BY <2>3, <2>8
<1>3. QED
  BY <1>b, <1>1, <1>2

(* The submission. *)
LEMMA SubmitStep ==
    ASSUME DagInv, TaskMove, NEW p \in Threads, CreateTask(p) \/ HandOver(p)
    PROVE  PassMove(p) /\ DagTypeOK'
<1>a. /\ DagTypeOK /\ PassTypes /\ PassOf(p) /\ Bindings /\ OneProcess /\ task' \in [Nodes -> Task]
      /\ pc[p] \in Submitting
  BY TypeParts, TasksKept DEF DagInv, Passes, CreateTask, HandOver, Submitting
<1>b. /\ UNCHANGED <<graph, pin, live, at, oid, todo, says, faults>>
      /\ \/ pc' = [pc EXCEPT ![p] = "handover"] /\ Alone(p)
         \/ pc' = [pc EXCEPT ![p] = "mark"]
  BY DEF CreateTask, HandOver, Goto
<1>1. DagTypeOK'
  BY <1>a, <1>b DEF DagTypeOK, graph
<1>2. /\ pc'[p] \in {"handover", "mark"} /\ (pc'[p] = "handover" => Alone(p))
      /\ \A q \in Threads \ {p} : pc'[q] = pc[q]
  BY <1>a, <1>b DEF PassTypes
<1>3. PassOf(p)'
  BY <1>a, <1>b, <1>2 DEF PassOf, Submitting, HasBase, graph
<1>4. PassMove(p)
  BY <1>a, <1>b, <1>2, <1>3 DEF PassMove, Bound, Submitting, Bindings, OneProcess, graph
<1>5. QED
  BY <1>1, <1>4

LEMMA SubmitFailsStep ==
    ASSUME DagInv, NEW p \in Threads, SubmitFails(p)
    PROVE  PassMove(p) /\ DagTypeOK'
<1>1. Stop(p) /\ UNCHANGED <<graph, pin, task, live, says>> /\ DagTypeOK /\ Fault
  BY DEF SubmitFails, DagInv
<1>2. PassMove(p) /\ PassTypes'
  BY <1>1, StopsClean DEF graph
<1>3. faults' \in 0..MaxFaults
  BY <1>1, FaultType DEF DagTypeOK
<1>4. QED
  BY <1>1, <1>2, <1>3 DEF DagTypeOK, PassTypes, graph

LEMMA MarkSubmittedStep ==
    ASSUME DagInv, NEW p \in Threads, MarkSubmitted(p)
    PROVE  PassMove(p) /\ DagTypeOK'
<1> DEFINE Marked == /\ state' = [state EXCEPT ![at[p]] = "submitted"]
                     /\ claim' = [claim EXCEPT ![at[p]] = None]
           Kept == state' = state /\ claim' = claim
<1>a. /\ DagTypeOK /\ PassTypes /\ GraphTypes /\ PassOf(p) /\ Bindings /\ pc[p] = "mark"
      /\ at[p] \in Nodes /\ HasBase(at[p]) /\ Owner[p] \in live
      /\ UNCHANGED <<file, run, bound, pin, task, live, says>> /\ members' \subseteq Nodes
  BY TypeParts DEF DagInv, Passes, PassOf, MarkSubmitted, Submitting, DagTypeOK
<1>b. \/ /\ Marked /\ pending' = ~Quiescent(state') /\ faults' = faults
         /\ Goto(p, "bind") /\ at' = [at EXCEPT ![p] = 0] /\ UNCHANGED <<oid, todo>>
      \/ Marked /\ Fault /\ pending' = pending /\ Stop(p)
      \/ Kept /\ Fault /\ pending' = pending /\ Stop(p)
  BY DEF MarkSubmitted
<1>c. pending' \in BOOLEAN
  BY <1>a, <1>b DEF GraphTypes, Quiescent
<1>d. GraphTypes'
  <2>1. CASE Kept
    BY <1>a, <1>c, <2>1 DEF GraphTypes
  <2>2. CASE Marked
    BY <1>a, <1>c, <2>2 DEF GraphTypes
  <2>3. QED
    BY <1>b, <2>1, <2>2
<1>e. ASSUME NEW n \in Nodes
      PROVE  /\ state[n] \in {"submitted", "blocked"} => state'[n] \in {"submitted", "blocked"}
             /\ claim'[n] # claim[n] => state'[n] \in {"submitted", "blocked"}
             /\ From[n] # 0 /\ (state'[n] \in {"claimed", "submitted"}) => bound'[n] # 0
  <2>1. CASE Kept
    BY <1>a, <2>1 DEF Bindings
  <2>2. CASE Marked
    BY <1>a, <2>2 DEF Bindings, GraphTypes, HasBase
  <2>3. QED
    BY <1>b, <2>1, <2>2
<1>1. PassTypes' /\ faults' \in 0..MaxFaults
      /\ pc'[p] \in {"idle", "bind"} /\ todo'[p] \subseteq todo[p]
      /\ \A q \in Threads \ {p} : pc'[q] = pc[q] /\ at'[q] = at[q] /\ oid'[q] = oid[q] /\ todo'[q] = todo[q]
  <2>1. CASE Stop(p) /\ Fault
    BY <1>a, <2>1, StopMove, FaultType DEF DagTypeOK
  <2>2. CASE /\ faults' = faults /\ Goto(p, "bind") /\ at' = [at EXCEPT ![p] = 0]
             /\ UNCHANGED <<oid, todo>>
    BY <1>a, <2>2 DEF PassTypes, Goto, DagTypeOK
  <2>3. QED
    BY <1>b, <2>1, <2>2
<1>2. DagTypeOK'
  BY <1>a, <1>d, <1>1 DEF DagTypeOK, GraphTypes, PassTypes
<1>3. PassMove(p)
  BY <1>a, <1>e, <1>1 DEF PassMove, Bound, PassOf, Submitting
<1>4. QED
  BY <1>2, <1>3

(* A process that dies takes its passes with it. *)
LEMMA DieStep ==
    ASSUME DagInv, NEW o \in Procs, Die(o)
    PROVE  DagInv'
<1>a. DagTypeOK /\ PassTypes /\ Passes /\ OneProcess /\ Intents /\ Bindings /\ OneSubmitter
  BY TypeParts DEF DagInv
<1>b. UNCHANGED <<graph, pin, task, says>> /\ live' = live \ {o} /\ Fault
  BY DEF Die
<1>c. ASSUME NEW p \in Threads
      PROVE  \/ /\ Owner[p] = o /\ pc'[p] = "idle" /\ todo'[p] = {}
             \/ /\ Owner[p] # o /\ pc'[p] = pc[p] /\ at'[p] = at[p] /\ oid'[p] = oid[p]
                /\ todo'[p] = todo[p]
  BY DEF Die
<1>1. PassTypes'
  BY <1>a DEF PassTypes, Die, Commits
<1>2. DagTypeOK'
  BY <1>a, <1>b, <1>1, FaultType DEF DagTypeOK, PassTypes, graph
<1>3. Passes'
  BY <1>a, <1>b, <1>c DEF Passes, PassOf, Submitting, HasBase, graph
<1>4. OneProcess' /\ OneSubmitter'
  BY <1>a, <1>c DEF OneProcess, OneSubmitter, Submitting
<1>5. Bindings' /\ Intents'
  BY <1>a, <1>b, <1>c DEF Bindings, Fixed, Intents, graph
<1>6. QED
  BY <1>2, <1>3, <1>4, <1>5 DEF DagInv

-----------------------------------------------------------------------------
(* The theorems. *)

LEMMA DagInvInit == Init => DagInv
<1> SUFFICES ASSUME Init PROVE DagInv
  OBVIOUS
<1>1. DagTypeOK
  <2>1. says \in 0..MaxSays /\ faults \in 0..MaxFaults
    <3>1. PICK b \in Spent : says = b[1] /\ faults = b[2]
      BY DEF Init
    <3>2. b \in (0..MaxSays) \X (0..MaxFaults)
      BY DagAssumption DEF DagAssumption
    <3>3. QED
      BY <3>1, <3>2
  <2>2. 0 \in Commits
    BY DEF Commits
  <2>3. state \in [Nodes -> {"waiting", "claimed", "submitted", "blocked"}]
        /\ claim \in [Nodes -> Procs \cup {None}]
        /\ \A n \in Nodes : state[n] = "claimed" <=> claim[n] # None
    BY DEF Init
  <2>4. bound \in [Nodes -> Commits] /\ pin \in [Nodes -> Commits] /\ oid \in [Threads -> Commits]
    BY <2>2 DEF Init
  <2>5. task \in [Nodes -> Task] /\ live \subseteq Procs
    BY NoTaskType DEF Init
  <2>6. /\ pc \in [Threads -> {"idle", "bind", "pin", "publish", "submit", "handover", "mark"}]
        /\ at \in [Threads -> Nodes \cup {0}] /\ todo \in [Threads -> SUBSET Nodes]
    BY DEF Init
  <2>7. /\ file \in {"none", "legacy", "indexed"} /\ run \in BOOLEAN /\ pending \in BOOLEAN
        /\ members \subseteq Nodes
    BY DEF Init
  <2>8. QED
    BY <2>1, <2>3, <2>4, <2>5, <2>6, <2>7 DEF DagTypeOK
<1>2. Passes /\ OneProcess /\ OneSubmitter
  BY DEF Init, Passes, PassOf, OneProcess, OneSubmitter, Submitting
<1>3. Intents /\ Bindings
  BY NoTaskType DEF Init, Intents, Bindings
<1>4. QED
  BY <1>1, <1>2, <1>3 DEF DagInv

LEMMA DagInvStep == DagInv /\ [Next]_vars => DagInv'
<1> SUFFICES ASSUME DagInv, [Next]_vars PROVE DagInv'
  OBVIOUS
<1>a. TaskMove /\ DagTypeOK /\ GraphTypes
  BY TaskMoves, TypeParts DEF DagInv
<1>1. ASSUME NEW p \in Threads, CreateRun(p) \/ Bootstrap(p) PROVE DagInv'
  <2>1. GraphTypes' /\ faults' \in 0..MaxFaults /\ says' \in 0..MaxSays
    BY <1>1, <1>a, FaultType DEF CreateRun, Bootstrap, GraphTypes, DagTypeOK, Quiescent
  <2>2. QED
    BY <1>1, <1>a, <2>1, OutsideStep DEF CreateRun, Bootstrap, work
<1>2. ASSUME NEW p \in Threads, StartAdvance(p) \/ Pass(p) \/ SubmitFails(p) PROVE DagInv'
  <2>1. PassMove(p) /\ DagTypeOK'
    BY <1>2, <1>a, StartAdvanceStep, BindNextStep, PinObjectStep, PublishBindingStep, ClaimStep,
       SubmitStep, SubmitFailsStep, MarkSubmittedStep DEF Pass
  <2>2. QED
    BY <1>a, <2>1, PassStep
<1>3. ASSUME NEW o \in Procs, Die(o) PROVE DagInv'
  BY <1>3, DieStep
<1>4. ASSUME NEW n \in Nodes, \/ RunnerStep(n) \/ RollBack(n) \/ Withdraw(n) \/ Say(n) \/ Close(n)
                              \/ Integrate(n) \/ GiveUp(n)
      PROVE  DagInv'
  <2>1. UNCHANGED <<graph, pin, live, work, faults>>
    BY <1>4 DEF RunnerStep, Accept, TurnEnds, Import, ImportFails, Retire, RollBack, Withdraw, Say,
       Close, Integrate, GiveUp, Becomes
  <2>2. says' \in 0..MaxSays
    <3>1. CASE Say(n)
      <4>1. says < MaxSays /\ says' = says + 1 /\ says \in 0..MaxSays /\ MaxSays \in Nat
        BY <1>a, <3>1, Numbers DEF Say, DagTypeOK
      <4>2. QED
        BY <4>1
    <3>2. CASE RunnerStep(n) \/ RollBack(n) \/ Withdraw(n) \/ Close(n) \/ Integrate(n) \/ GiveUp(n)
      <4>1. says' = says
        BY <3>2 DEF RunnerStep, Accept, TurnEnds, Import, ImportFails, Retire, RollBack,
           Withdraw, Close, Integrate, GiveUp
      <4>2. QED
        BY <1>a, <4>1 DEF DagTypeOK
    <3>3. QED
      BY <1>4, <3>1, <3>2
  <2>3. GraphTypes' /\ faults' \in 0..MaxFaults
    BY <1>a, <2>1 DEF GraphTypes, DagTypeOK, graph
  <2>4. QED
    BY <1>a, <2>1, <2>2, <2>3, OutsideStep DEF graph, work
<1>5. CASE UNCHANGED vars
  <2>1. GraphTypes' /\ faults' \in 0..MaxFaults /\ says' \in 0..MaxSays
    BY <1>a, <1>5 DEF GraphTypes, DagTypeOK, vars, graph
  <2>2. QED
    BY <1>a, <1>5, <2>1, OutsideStep DEF vars, graph, work
<1>6. QED
  BY <1>1, <1>2, <1>3, <1>4, <1>5 DEF Next

LEMMA DagInvHolds == Spec => []DagInv
  BY DagInvInit, DagInvStep, PTL DEF Spec

(* The graph file, the index, the bindings and the passes are always of their
   kinds, and exactly the claimed nodes have a claimant. *)
THEOREM DagTypes == Spec => []DagTypeOK
<1>1. DagInv => DagTypeOK
  BY DEF DagInv
<1>2. QED
  BY <1>1, DagInvHolds, PTL

(* However many processes and threads reconcile, and whichever of them die, no
   two of them hand one node over at a time. *)
THEOREM OneSubmitterOnly == Spec => []OneSubmitter
<1>1. DagInv => OneSubmitter
  BY DEF DagInv
<1>2. QED
  BY <1>1, DagInvHolds, PTL

(* A `from:` child of any graph is claimed only with a base, the base is pinned,
   and it is the commit its parent was closed with, for good. *)
THEOREM ChildrenBoundToAccepted == Spec => []BoundToAccepted
<1>1. DagInv => BoundToAccepted
  BY DEF DagInv, Bindings, Fixed, BoundToAccepted
<1>2. QED
  BY <1>1, DagInvHolds, PTL
=============================================================================
