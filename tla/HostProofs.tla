----------------------------- MODULE HostProofs -----------------------------
(***************************************************************************)
(* Proofs about one worker Mac: the garbage collection of HostGc, for any  *)
(* set of tasks and any number of passes that die, and the jobs and        *)
(* supervisors of HostJob, for any jobs, requests, supervisors and slots.  *)
(***************************************************************************)
EXTENDS HostJob, HostGc, TLAPS, WellFoundedInduction


-----------------------------------------------------------------------------
(* Garbage collection: the types. *)

Candidates == {"branch", "session", "job", "open", "meta"}
CandidateKinds == Candidates \cup {"pins", "workspace"}   \* with the second steps of two of them
States == {"none", "active", "open", "closed"}
Inventories == [Turns -> [state : States, active : BOOLEAN, age : 0 .. 2]]
Passes ==
    [at : {"off", "tasks", "refs", "apply", "mirror"}, leased : SUBSET Turns,
     left : SUBSET Turns, seen : Inventories, todo : SUBSET (Candidates \X Turns),
     cur : (CandidateKinds \X Turns) \cup {NoCandidate}, pending : BOOLEAN]

(* The host, the mirror, the outbox and the pass have their types. *)
GcTypeOK ==
    /\ record \in [Turns -> States] /\ age \in [Turns -> 0 .. 2]
    /\ workspace \subseteq Turns /\ leased \subseteq Turns /\ held \subseteq Turns
    /\ jobs \in [Turns -> {"none", "live", "done"}]
    /\ refs \in [Turns -> SUBSET {"base", "session", "branch", "pin"}]
    /\ mirror \in BOOLEAN /\ lost \subseteq Turns
    /\ faded \subseteq Turns /\ overtaken \subseteq Turns /\ revived \subseteq Turns
    /\ promise \in [Turns -> {"none", "owed", "delivered", "failed"}] /\ landed \subseteq Turns
    /\ gc \in Passes /\ passFaults \in Nat

-----------------------------------------------------------------------------
(* The inductive invariant. *)

(* The pass holds the installation lock, so the leases it read are the leases
   of now until it ends. *)
LeasesFrozen ==
    IF GcOff THEN gc = NoPass ELSE gc.leased = leased

(* An active turn holds its lease, its job is live and it has a workspace; an
   open task has its workspace and, unless a pass overtook it, its branch; a
   closed one has no lease. *)
Working ==
    \A t \in Turns :
        /\ record[t] = "active" => t \in leased /\ jobs[t] = "live" /\ t \in workspace
        /\ record[t] = "open" => t \in workspace /\ (t \notin overtaken => "branch" \in refs[t])
        /\ record[t] = "closed" => t \notin leased

(* git gc prunes only what no ref and no unfinished task holds. *)
PrunedUnheld ==
    \A t \in lost : record[t] \in {"none", "closed"} /\ refs[t] \cap {"branch", "base", "pin"} = {}

Collected(t) == gc.at # "off" /\ (gc.at = "tasks" => t \notin gc.left)

(* What the inventory says stays true of the tasks it may act on: one without
   a record has none still unless it was overtaken, and a settled one has no
   lease, so it does not become active again. *)
InventoryHolds ==
    \A t \in Turns : Collected(t) =>
        /\ ~SeenRecorded(t) => t \in overtaken \/ record[t] = "none"
        /\ SeenSettled(t) => t \notin leased /\ record[t] \in {"none", "closed"}

Takeable(t) == SeenRecorded(t) => SeenSettled(t)

(* Candidates are tasks of the inventory; the refs of a recorded one go only
   when it was settled.  The rest of a project goes when nothing was recorded. *)
CandidatesSound ==
    /\ \A c \in gc.todo : Collected(c[2]) /\ (c[1] = "branch" => Takeable(c[2]))
    /\ gc.at = "mirror" => \A t \in Turns : ~SeenRecorded(t)
    /\ gc.cur # NoCandidate => gc.at = "apply"

Dues(t) == promise[t] = "owed" => t \in revived

(* The second look binds until the deletion: nobody takes the lease, and the
   publication becomes owed again only by an operator's retry. *)
LookBinds ==
    \A t \in Turns :
        /\ gc.cur \in {<<"branch", t>>, <<"pins", t>>} =>
              Takeable(t) /\ (SeenRecorded(t) => Dues(t))
        /\ gc.cur = <<"job", t>> => t \notin leased
        /\ gc.cur = <<"workspace", t>> => t \notin leased /\ record[t] = "closed"
        /\ gc.cur = <<"meta", t>> => t \notin leased /\ record[t] = "closed" /\ Dues(t)

(* A publication that is owed is never forgotten: a pass deletes the record of
   a task, with its intents, only when the outbox has nothing to deliver, or an
   operator has retried what the pass saw given up. *)
OwedNotForgotten ==
    [][\A t \in Turns \ revived : promise[t] = "owed" => promise'[t] # "none"]_gcVars

-----------------------------------------------------------------------------
(* Steps keep the types. *)

LEMMA NoPassType == NoPass \in Passes
BY DEF NoPass, Passes, Unseen, Inventories, States, NoCandidate

LEMMA InitTypes == GcInit => GcTypeOK
BY NoPassType DEF GcInit, DeliveryInit, GcTypeOK, States

USE DEF CandidateKinds, Candidates, States

LEMMA TurnTypes ==
    ASSUME GcTypeOK, NEW t \in Turns, Turn(t)
    PROVE  GcTypeOK'
<1> USE DEF GcTypeOK, host, store, book
<1>1. CASE AcquireScope(t)
  BY <1>1 DEF AcquireScope
<1>2. CASE PushBase(t)
  BY <1>2 DEF PushBase
<1>3. CASE PrepareRecord(t)
  BY <1>3 DEF PrepareRecord
<1>4. CASE GiveLeaseBack(t)
  BY <1>4 DEF GiveLeaseBack
<1>5. CASE Publish(t)
  BY <1>5 DEF Publish, Accept
<1>6. CASE FinishTurn(t)
  BY <1>6 DEF FinishTurn
<1>7. CASE Release(t)
  BY <1>7 DEF Release
<1>8. QED BY <1>1, <1>2, <1>3, <1>4, <1>5, <1>6, <1>7 DEF Turn

LEMMA OtherTypes ==
    ASSUME GcTypeOK, NEW t \in Turns, NEW discard \in BOOLEAN,
           SettleIntegration(t) \/ OutboxStep(t) \/ Ages(t) \/ CloseTask(t, discard)
    PROVE  GcTypeOK'
<1> USE DEF GcTypeOK, host, store, book
<1>1. CASE SettleIntegration(t)
  BY <1>1 DEF SettleIntegration
<1>2. CASE OutboxStep(t)
  BY <1>2 DEF OutboxStep, Deliver, GiveUp, Revive
<1>3. CASE Ages(t)
  BY <1>3 DEF Ages
<1>4. CASE CloseTask(t, discard)
  BY <1>4 DEF CloseTask
<1>5. QED BY <1>1, <1>2, <1>3, <1>4

LEMMA CandidateTypes ==
    ASSUME NEW t \in Turns
    PROVE  TaskCandidates(t) \subseteq Candidates \X Turns
BY DEF TaskCandidates, When

LEMMA ActiveBoolean ==
    ASSUME NEW t, NEW S PROVE HasActiveWork(t, S) \in BOOLEAN
BY DEF HasActiveWork

LEMMA PassTypes ==
    ASSUME GcTypeOK, StartPass \/ Pass \/ LookMirror \/ PassDies
    PROVE  GcTypeOK'
<1> USE NoPassType DEF GcTypeOK, host, store, book
<1>1. CASE StartPass
  BY <1>1 DEF StartPass, NoPass, Passes
<1>2. CASE LookMirror
  BY <1>2 DEF LookMirror, Passes
<1>3. CASE PassDies
  BY <1>3 DEF PassDies
<1>4. CASE TasksCollected
  BY <1>4 DEF TasksCollected, Passes
<1>5. CASE RefsCollected
  BY <1>5 DEF RefsCollected, Passes
<1>6. CASE DropMirror
  BY <1>6 DEF DropMirror
<1>7. CASE EndPass
  BY <1>7 DEF EndPass
<1>8. ASSUME NEW t \in Turns, CollectTask(t) PROVE GcTypeOK'
  <2>1. PICK a \in BOOLEAN, S \in SUBSET (Candidates \X Turns) :
          gc' = [gc EXCEPT !.left = @ \ {t},
                    !.seen[t] = [state |-> record[t], age |-> age[t], active |-> a],
                    !.todo = @ \cup S]
    BY <1>8, ActiveBoolean, CandidateTypes DEF CollectTask
  <2>2. gc' \in Passes
    BY <2>1 DEF Passes, Inventories
  <2>3. QED BY <1>8, <2>2 DEF CollectTask
<1>9. ASSUME NEW t \in Turns, CollectRefs(t) PROVE GcTypeOK'
  <2>1. PICK S \in SUBSET (Candidates \X Turns) :
          gc' = [gc EXCEPT !.left = @ \ {t}, !.todo = @ \cup S]
    <3>1. PICK job \in BOOLEAN, branch \in BOOLEAN, session \in BOOLEAN :
            gc' = [gc EXCEPT !.left = @ \ {t},
                     !.todo = @ \cup When(job, <<"job", t>>) \cup When(branch, <<"branch", t>>)
                                \cup When(session, <<"session", t>>)]
      BY <1>9 DEF CollectRefs
    <3>2. When(job, <<"job", t>>) \cup When(branch, <<"branch", t>>)
             \cup When(session, <<"session", t>>) \in SUBSET (Candidates \X Turns)
      BY DEF When
    <3>3. QED BY <3>1, <3>2
  <2>2. gc' \in Passes
    BY <2>1 DEF Passes
  <2>3. QED BY <1>9, <2>2 DEF CollectRefs
<1>10. ASSUME NEW c \in gc.todo, Look(c) PROVE GcTypeOK'
  <2>1. c \in Candidates \X Turns
    BY DEF Passes
  <2>2. gc' \in Passes
    BY <1>10, <2>1 DEF Look, Passes
  <2>3. QED BY <1>10, <2>2 DEF Look
<1>11. ASSUME NEW t \in Turns, DropCandidate(t) PROVE GcTypeOK'
  <2>1. CASE DropBranch(t)
    <3>1. gc' = [[gc EXCEPT !.cur = <<"pins", t>>] EXCEPT !.pending = TRUE]
      BY <2>1 DEF DropBranch, Passes
    <3>2. <<"pins", t>> \in CandidateKinds \X Turns
      OBVIOUS
    <3>3. gc' \in Passes
      BY <3>1, <3>2 DEF Passes
    <3>4. QED BY <2>1, <3>3 DEF DropBranch
  <2>2. CASE DropPins(t)
    BY <2>2 DEF DropPins, Passes, Applied
  <2>3. CASE DropSession(t)
    BY <2>3 DEF DropSession, Passes, Applied
  <2>4. CASE DropJob(t)
    BY <2>4 DEF DropJob, Passes, Applied
  <2>5. CASE RetentionClose(t)
    BY <2>5 DEF RetentionClose, Passes, Applied
  <2>6. CASE DropWorkspace(t)
    BY <2>6 DEF DropWorkspace, Passes, Applied
  <2>7. CASE DropRecord(t)
    BY <2>7 DEF DropRecord, Passes, Applied
  <2>8. QED BY <1>11, <2>1, <2>2, <2>3, <2>4, <2>5, <2>6, <2>7 DEF DropCandidate
<1>12. QED
  BY <1>1, <1>2, <1>3, <1>4, <1>5, <1>6, <1>7, <1>8, <1>9, <1>10, <1>11 DEF Pass

LEMMA TypeStep == GcTypeOK /\ [GcNext]_gcVars => GcTypeOK'
<1>1. ASSUME GcTypeOK, UNCHANGED gcVars PROVE GcTypeOK'
  BY <1>1 DEF gcVars, GcTypeOK
<1>2. ASSUME GcTypeOK, GcNext PROVE GcTypeOK'
  BY <1>2, TurnTypes, OtherTypes, PassTypes DEF GcNext
<1>3. QED BY <1>1, <1>2

-----------------------------------------------------------------------------
(* What the rest of the host does keeps the invariant.  None of it touches the
   pass, and only an idle host changes its leases. *)

Rest == LeasesFrozen /\ Working /\ PrunedUnheld /\ InventoryHolds /\ CandidatesSound
        /\ LookBinds /\ OwedKept

LEMMA CandidatesUntouched ==
    ASSUME CandidatesSound, gc' = gc PROVE CandidatesSound'
BY DEF CandidatesSound, Collected, Takeable, SeenRecorded, SeenSettled

(* Leases change only between two passes. *)
LEMMA LeaseSteps ==
    ASSUME GcTypeOK, Rest, NEW t \in Turns,
           AcquireScope(t) \/ GiveLeaseBack(t) \/ Release(t)
    PROVE  Rest'
<1>1. /\ GcOff /\ gc' = gc /\ gc = NoPass
      /\ leased \ {t} \subseteq leased' /\ (t \in leased /\ record[t] = "active" => t \in leased')
      /\ \A u \in leased' : u \in leased \/ record[u] # "closed"
      /\ UNCHANGED <<record, workspace, jobs, refs, lost, overtaken, revived, promise>>
  BY DEF AcquireScope, GiveLeaseBack, Release, Rest, LeasesFrozen, Working, store, book
<1>2. LeasesFrozen'
  BY <1>1 DEF LeasesFrozen, GcOff
<1>3. Working'
  BY <1>1 DEF Working, Rest
<1>4. PrunedUnheld' /\ OwedKept'
  BY <1>1 DEF PrunedUnheld, OwedKept, Kept, Rest
<1>5. InventoryHolds'
  BY <1>1 DEF InventoryHolds, Collected, GcOff
<1>6. CandidatesSound'
  BY <1>1, CandidatesUntouched DEF Rest
<1>7. LookBinds'
  BY <1>1 DEF LookBinds, NoPass, NoCandidate
<1>8. QED BY <1>2, <1>3, <1>4, <1>5, <1>6, <1>7 DEF Rest

LEMMA PushBaseStep ==
    ASSUME GcTypeOK, Rest, NEW t \in Turns, PushBase(t)
    PROVE  Rest'
<1>1. /\ UNCHANGED <<gc, leased, record, workspace, jobs, overtaken, revived, promise>>
      /\ record[t] = "none"
      /\ \A u \in Turns \ {t} : refs'[u] = refs[u]
      /\ lost' = lost \ {t}
  BY DEF PushBase, host, book, GcTypeOK
<1>2. LeasesFrozen' /\ Working' /\ PrunedUnheld' /\ InventoryHolds' /\ OwedKept'
  <2>1. LeasesFrozen' /\ InventoryHolds'
    BY <1>1 DEF Rest, LeasesFrozen, InventoryHolds, GcOff, Collected, SeenRecorded, SeenSettled
  <2>2. Working'
    BY <1>1 DEF Rest, Working, GcTypeOK
  <2>3. PrunedUnheld' /\ OwedKept'
    BY <1>1 DEF Rest, PrunedUnheld, OwedKept, Kept, GcTypeOK
  <2>4. QED BY <2>1, <2>2, <2>3
<1>3. LookBinds'
  BY <1>1 DEF Rest, LookBinds, Takeable, SeenRecorded, SeenSettled, Dues
<1>4. QED BY <1>1, <1>2, <1>3, CandidatesUntouched DEF Rest

LEMMA PrepareStep ==
    ASSUME GcTypeOK, Rest, NEW t \in Turns, PrepareRecord(t)
    PROVE  Rest'
<1>1. /\ UNCHANGED <<gc, leased, lost, revived, promise>>
      /\ t \in leased
      /\ record[t] = "open" \/ (record[t] = "none" /\ "base" \in refs[t])
      /\ record' = [record EXCEPT ![t] = "active"]
      /\ workspace' = workspace \cup {t}
      /\ jobs' = [jobs EXCEPT ![t] = "live"]
      /\ refs' = [refs EXCEPT ![t] = @ \ {"session"}]
      /\ overtaken \subseteq overtaken'
      /\ ~GcOff /\ record[t] = "none" => t \in overtaken'
  BY DEF PrepareRecord
<1>2. LeasesFrozen'
  BY <1>1 DEF Rest, LeasesFrozen, GcOff
<1>3. Working'
  BY <1>1 DEF Rest, Working, GcTypeOK
<1>4. PrunedUnheld'
  BY <1>1 DEF Rest, PrunedUnheld, GcTypeOK
<1>5. OwedKept'
  BY <1>1 DEF Rest, OwedKept, Kept, GcTypeOK
<1>6. InventoryHolds'
  <2> SUFFICES ASSUME NEW u \in Turns, Collected(u)
               PROVE  /\ ~SeenRecorded(u) => u \in overtaken' \/ record'[u] = "none"
                      /\ SeenSettled(u) => u \notin leased /\ record'[u] \in {"none", "closed"}
    BY <1>1 DEF InventoryHolds, Collected, SeenRecorded, SeenSettled
  <2>1. ~GcOff
    BY DEF Collected, GcOff
  <2>2. QED BY <1>1, <2>1 DEF Rest, InventoryHolds, GcTypeOK
<1>7. LookBinds'
  BY <1>1 DEF Rest, LookBinds, Takeable, SeenRecorded, SeenSettled, Dues, GcTypeOK
<1>8. QED BY <1>1, <1>2, <1>3, <1>4, <1>5, <1>6, <1>7, CandidatesUntouched DEF Rest

LEMMA PublicationStep ==
    ASSUME GcTypeOK, Rest, NEW t \in Turns, Publish(t)
    PROVE  Rest'
<1>1. /\ UNCHANGED <<gc, leased, record, workspace, jobs, lost, overtaken, revived>>
      /\ record[t] = "active"
      /\ \A u \in Turns \ {t} : refs'[u] = refs[u] /\ promise'[u] = promise[u]
      /\ refs[t] \subseteq refs'[t]
      /\ promise'[t] = promise[t] \/ "pin" \in refs'[t]
  BY DEF Publish, host, Accept, GcTypeOK
<1>2. LeasesFrozen' /\ InventoryHolds'
  BY <1>1 DEF Rest, LeasesFrozen, InventoryHolds, GcOff, Collected, SeenRecorded, SeenSettled
<1>3. Working'
  BY <1>1 DEF Rest, Working, GcTypeOK
<1>4. PrunedUnheld'
  BY <1>1 DEF Rest, PrunedUnheld, GcTypeOK
<1>5. OwedKept'
  BY <1>1 DEF Rest, OwedKept, PrunedUnheld, Kept, GcTypeOK
<1>6. LookBinds'
  <2>1. t \in leased /\ record[t] = "active"
    BY <1>1 DEF Rest, Working
  <2>2. SeenRecorded(t) /\ gc.cur \in {<<"branch", t>>, <<"pins", t>>} => FALSE
    <3>1. SUFFICES ASSUME SeenRecorded(t), gc.cur \in {<<"branch", t>>, <<"pins", t>>} PROVE FALSE
      OBVIOUS
    <3>2. SeenSettled(t) /\ gc.at = "apply"
      BY <3>1 DEF Rest, LookBinds, Takeable, CandidatesSound, NoCandidate
    <3>3. QED BY <2>1, <3>2 DEF Rest, InventoryHolds, Collected
  <2>3. QED
    BY <1>1, <2>1, <2>2 DEF Rest, LookBinds, Takeable, SeenRecorded, SeenSettled, Dues, GcTypeOK
<1>7. QED BY <1>1, <1>2, <1>3, <1>4, <1>5, <1>6, CandidatesUntouched DEF Rest

LEMMA FinishTurnStep ==
    ASSUME GcTypeOK, Rest, NEW t \in Turns, FinishTurn(t)
    PROVE  Rest'
<1>1. /\ UNCHANGED <<gc, leased, workspace, refs, lost, overtaken, revived, promise>>
      /\ record[t] = "active" /\ "branch" \in refs[t]
      /\ record' = [record EXCEPT ![t] = "open"]
      /\ jobs' = [jobs EXCEPT ![t] = "done"]
  BY DEF FinishTurn, store, book
<1>2. t \in leased /\ t \in workspace
  BY <1>1 DEF Rest, Working
<1>3. LeasesFrozen'
  BY <1>1 DEF Rest, LeasesFrozen, GcOff
<1>4. Working'
  BY <1>1, <1>2 DEF Rest, Working, GcTypeOK
<1>5. PrunedUnheld' /\ OwedKept'
  BY <1>1 DEF Rest, PrunedUnheld, OwedKept, Kept, GcTypeOK
<1>6. InventoryHolds'
  BY <1>1, <1>2 DEF Rest, InventoryHolds, Collected, SeenRecorded, SeenSettled, GcTypeOK
<1>7. LookBinds'
  BY <1>1, <1>2 DEF Rest, LookBinds, Takeable, SeenRecorded, SeenSettled, Dues, GcTypeOK
<1>8. QED BY <1>1, <1>3, <1>4, <1>5, <1>6, <1>7, CandidatesUntouched DEF Rest

LEMMA CloseStep ==
    ASSUME GcTypeOK, Rest, NEW t \in Turns, NEW discard \in BOOLEAN, CloseTask(t, discard)
    PROVE  Rest'
<1>1. /\ UNCHANGED <<gc, leased, jobs, lost, overtaken, revived, promise>>
      /\ GcOff /\ record[t] = "open" /\ t \notin leased
      /\ record' = [record EXCEPT ![t] = "closed"]
      /\ workspace' = workspace \ {t}
      /\ \A u \in Turns \ {t} : refs'[u] = refs[u]
      /\ refs'[t] = refs[t] \/ promise[t] # "owed"
      /\ refs'[t] \subseteq refs[t]
  BY DEF CloseTask, book, GcTypeOK
<1>2. gc = NoPass /\ gc' = NoPass
  BY <1>1 DEF Rest, LeasesFrozen
<1>3. LeasesFrozen'
  BY <1>2, <1>1 DEF LeasesFrozen, GcOff
<1>4. Working'
  BY <1>1 DEF Rest, Working, GcTypeOK
<1>5. PrunedUnheld'
  BY <1>1 DEF Rest, PrunedUnheld, GcTypeOK
<1>6. OwedKept'
  BY <1>1 DEF Rest, OwedKept, Kept, GcTypeOK
<1>7. InventoryHolds'
  BY <1>1 DEF InventoryHolds, Collected, GcOff
<1>8. LookBinds'
  BY <1>2 DEF LookBinds, NoPass, NoCandidate
<1>9. QED BY <1>1, <1>3, <1>4, <1>5, <1>6, <1>7, <1>8, CandidatesUntouched DEF Rest

(* Integrations, time and the outbox change neither records nor refs; what
   becomes owed here an operator has revived. *)
LEMMA SideSteps ==
    ASSUME GcTypeOK, Rest, NEW t \in Turns,
           SettleIntegration(t) \/ Ages(t) \/ OutboxStep(t)
    PROVE  Rest'
<1>1. /\ UNCHANGED <<gc, leased, record, workspace, jobs, refs, lost, overtaken>>
      /\ revived \subseteq revived'
      /\ \A u \in Turns : promise'[u] = "owed" => promise[u] = "owed" \/ u \in revived'
  <2>1. CASE SettleIntegration(t) \/ Ages(t)
    BY <2>1 DEF SettleIntegration, Ages, store, book
  <2>2. CASE OutboxStep(t)
    BY <2>2 DEF OutboxStep, Deliver, GiveUp, Revive, host, store, GcTypeOK
  <2>3. QED BY <2>1, <2>2
<1>2. LeasesFrozen' /\ InventoryHolds'
  BY <1>1 DEF Rest, LeasesFrozen, InventoryHolds, GcOff, Collected, SeenRecorded, SeenSettled
<1>3. Working' /\ PrunedUnheld' /\ OwedKept'
  BY <1>1 DEF Rest, Working, PrunedUnheld, OwedKept, Kept
<1>4. LookBinds'
  BY <1>1 DEF Rest, LookBinds, Takeable, SeenRecorded, SeenSettled, Dues
<1>5. QED BY <1>1, <1>2, <1>3, <1>4, CandidatesUntouched DEF Rest

-----------------------------------------------------------------------------
(* The pass keeps the invariant. *)

(* What a pass that ends leaves behind. *)
LEMMA PassOver ==
    ASSUME GcTypeOK, gc' = NoPass
    PROVE  LeasesFrozen' /\ InventoryHolds' /\ CandidatesSound' /\ LookBinds'
BY DEF LeasesFrozen, InventoryHolds, CandidatesSound, LookBinds, Collected, GcOff, NoPass, NoCandidate

(* Nothing but the pass changes. *)
LEMMA HostUntouched ==
    ASSUME Rest, UNCHANGED <<record, leased, jobs, workspace, overtaken, refs, lost, promise, revived>>
    PROVE  Working' /\ PrunedUnheld' /\ OwedKept'
BY DEF Rest, Working, PrunedUnheld, OwedKept, Kept

LEMMA StartPassStep ==
    ASSUME GcTypeOK, Rest, StartPass PROVE Rest'
<1>1. /\ gc' = [NoPass EXCEPT !.at = "tasks", !.leased = leased, !.left = Turns]
      /\ UNCHANGED <<record, leased, jobs, workspace, overtaken, refs, lost, promise, revived>>
  BY DEF StartPass, host, store, book
<1>2. /\ gc'.at = "tasks" /\ gc'.leased = leased /\ gc'.left = Turns /\ gc'.todo = {}
      /\ gc'.cur = NoCandidate
  BY <1>1 DEF NoPass
<1>3. LeasesFrozen' /\ InventoryHolds' /\ CandidatesSound' /\ LookBinds'
  BY <1>1, <1>2 DEF LeasesFrozen, InventoryHolds, CandidatesSound, LookBinds, Collected, GcOff, NoCandidate
<1>4. QED BY <1>1, <1>3, HostUntouched DEF Rest

LEMMA PassEndStep ==
    ASSUME GcTypeOK, Rest, EndPass \/ PassDies PROVE Rest'
<1>1. /\ gc' = NoPass
      /\ UNCHANGED <<record, leased, jobs, workspace, overtaken, refs, promise, revived>>
      /\ \A u \in lost' : u \in lost \/ (/\ refs[u] \cap {"branch", "base", "pin"} = {}
                                         /\ record[u] \in {"none", "closed"})
  <2>1. CASE EndPass
    BY <2>1 DEF EndPass, host, book
  <2>2. CASE PassDies
    BY <2>2 DEF PassDies, host, store, book
  <2>3. QED BY <2>1, <2>2
<1>2. Working' /\ PrunedUnheld' /\ OwedKept'
  BY <1>1 DEF Rest, Working, PrunedUnheld, OwedKept, Kept
<1>3. QED BY <1>1, <1>2, PassOver DEF Rest

LEMMA DropMirrorStep ==
    ASSUME GcTypeOK, Rest, DropMirror PROVE Rest'
<1>1. /\ gc' = NoPass /\ gc.at = "mirror" /\ refs' = [t \in Turns |-> {}]
      /\ UNCHANGED <<record, leased, jobs, workspace, overtaken, lost, promise, revived>>
  BY DEF DropMirror, host, book
<1>2. \A t \in Turns : t \in overtaken \/ record[t] = "none"
  BY <1>1 DEF Rest, CandidatesSound, InventoryHolds, Collected
<1>3. Working' /\ PrunedUnheld' /\ OwedKept'
  BY <1>1, <1>2 DEF Rest, Working, PrunedUnheld, OwedKept, Kept, GcTypeOK
<1>4. QED BY <1>1, <1>3, PassOver DEF Rest

(* The stages of the inventory. *)
LEMMA StageSteps ==
    ASSUME GcTypeOK, Rest, TasksCollected \/ RefsCollected \/ LookMirror PROVE Rest'
<1>1. /\ gc.at \in {"tasks", "refs", "apply"} /\ (gc.at = "tasks" => gc.left = {})
      /\ gc'.at \in {"refs", "apply", "mirror"}
      /\ gc'.at = "mirror" => \A t \in Turns : ~SeenRecorded(t)
      /\ gc'.at # "apply" => gc.cur = NoCandidate
      /\ gc'.leased = gc.leased /\ gc'.seen = gc.seen /\ gc'.todo = gc.todo /\ gc'.cur = gc.cur
      /\ gc.at = "apply" \/ gc.cur = NoCandidate
      /\ UNCHANGED <<record, leased, jobs, workspace, overtaken, refs, lost, promise, revived>>
  <2>1. gc.at = "apply" \/ gc.cur = NoCandidate
    BY DEF Rest, CandidatesSound
  <2>2. CASE TasksCollected
    BY <2>1, <2>2 DEF TasksCollected, host, store, book, GcTypeOK, Passes
  <2>3. CASE RefsCollected
    BY <2>1, <2>3 DEF RefsCollected, host, store, book, GcTypeOK, Passes
  <2>4. CASE LookMirror
    BY <2>1, <2>4 DEF LookMirror, host, store, book, GcTypeOK, Passes
  <2>5. QED BY <2>2, <2>3, <2>4
<1>2. LeasesFrozen'
  BY <1>1 DEF Rest, LeasesFrozen, GcOff
<1>3. \A t \in Turns : Collected(t) /\ Collected(t)'
  BY <1>1 DEF Collected
<1>4. InventoryHolds'
  BY <1>1, <1>3 DEF Rest, InventoryHolds, SeenRecorded, SeenSettled
<1>5. CandidatesSound'
  BY <1>1, <1>3 DEF Rest, CandidatesSound, Takeable, SeenRecorded, SeenSettled, GcTypeOK, Passes
<1>6. LookBinds'
  BY <1>1 DEF Rest, LookBinds, Takeable, SeenRecorded, SeenSettled, Dues
<1>7. QED BY <1>1, <1>2, <1>4, <1>5, <1>6, HostUntouched DEF Rest

LEMMA CollectTaskStep ==
    ASSUME GcTypeOK, Rest, NEW t \in Turns, CollectTask(t) PROVE Rest'
<1> DEFINE a == HasActiveWork(t, gc.leased)
           S == IF a THEN {} ELSE TaskCandidates(t)
<1>1. /\ gc.at = "tasks" /\ t \in gc.left
      /\ gc' = [gc EXCEPT !.left = @ \ {t},
                   !.seen[t] = [state |-> record[t], age |-> age[t], active |-> a],
                   !.todo = @ \cup S]
      /\ UNCHANGED <<record, leased, jobs, workspace, overtaken, refs, lost, promise, revived>>
  BY DEF CollectTask, host, store, book
<1>2. gc.cur = NoCandidate /\ gc.leased = leased
  BY <1>1 DEF Rest, CandidatesSound, LeasesFrozen, GcOff
<1>3. a \in BOOLEAN
  BY ActiveBoolean
<1>4. \A c \in S : c[2] = t /\ ~a /\ (c[1] = "branch" => record[t] = "closed")
  BY DEF TaskCandidates, When
<1>5. ~a => t \notin leased
  BY <1>2 DEF HasActiveWork
<1> HIDE DEF a, S
<1>6. /\ gc'.at = "tasks" /\ gc'.left = gc.left \ {t} /\ gc'.todo = gc.todo \cup S
      /\ gc'.cur = NoCandidate /\ gc'.leased = leased
      /\ \A u \in Turns \ {t} : gc'.seen[u] = gc.seen[u]
      /\ gc'.seen[t] = [state |-> record[t], age |-> age[t], active |-> a]
  BY <1>1, <1>2 DEF GcTypeOK, Passes, Inventories
<1>7. gc'.seen[t].state = record[t] /\ gc'.seen[t].active = a
  BY <1>6
<1>8. LeasesFrozen'
  BY <1>1, <1>6 DEF LeasesFrozen, GcOff
<1>9. InventoryHolds'
  BY <1>1, <1>3, <1>5, <1>6, <1>7 DEF Rest, InventoryHolds, Collected, SeenRecorded, SeenSettled
<1>10. CandidatesSound'
  <2>1. ASSUME NEW c \in gc.todo
        PROVE  Collected(c[2])' /\ (c[1] = "branch" => Takeable(c[2])')
    <3>1. c[2] \in Turns /\ Collected(c[2]) /\ c[2] # t
      BY <1>1, <2>1 DEF Rest, CandidatesSound, Collected, GcTypeOK, Passes
    <3>2. QED
      BY <1>1, <1>6, <3>1 DEF Rest, CandidatesSound, Takeable, Collected, SeenRecorded, SeenSettled
  <2>2. ASSUME NEW c \in S
        PROVE  Collected(c[2])' /\ (c[1] = "branch" => Takeable(c[2])')
    BY <1>3, <1>4, <1>6, <1>7 DEF Collected, Takeable, SeenRecorded, SeenSettled
  <2>3. QED BY <1>6, <2>1, <2>2 DEF CandidatesSound
<1>11. LookBinds'
  BY <1>6 DEF LookBinds, NoCandidate
<1>12. QED BY <1>1, <1>8, <1>9, <1>10, <1>11, HostUntouched DEF Rest

LEMMA CollectRefsStep ==
    ASSUME GcTypeOK, Rest, NEW t \in Turns, CollectRefs(t) PROVE Rest'
<1>1. PICK S \in SUBSET (Candidates \X Turns) :
        /\ \A c \in S : c[2] = t /\ (c[1] = "branch" => Takeable(t))
        /\ gc' = [gc EXCEPT !.left = @ \ {t}, !.todo = @ \cup S]
  <2>1. PICK job \in BOOLEAN, branch \in BOOLEAN, session \in BOOLEAN :
          /\ branch => Takeable(t)
          /\ gc' = [gc EXCEPT !.left = @ \ {t},
                     !.todo = @ \cup When(job, <<"job", t>>) \cup When(branch, <<"branch", t>>)
                                \cup When(session, <<"session", t>>)]
    BY DEF CollectRefs, Takeable
  <2> DEFINE S == When(job, <<"job", t>>) \cup When(branch, <<"branch", t>>)
                    \cup When(session, <<"session", t>>)
  <2>2. S \in SUBSET (Candidates \X Turns)
    BY DEF When
  <2>3. \A c \in S : c[2] = t /\ (c[1] = "branch" => Takeable(t))
    BY <2>1 DEF When
  <2>4. gc' = [gc EXCEPT !.left = @ \ {t}, !.todo = @ \cup S]
    BY <2>1
  <2>5. QED BY <2>2, <2>3, <2>4
<1>2. /\ gc.at = "refs"
      /\ UNCHANGED <<record, leased, jobs, workspace, overtaken, refs, lost, promise, revived>>
  BY DEF CollectRefs, host, store, book
<1>3. /\ gc'.at = "refs" /\ gc'.todo = gc.todo \cup S
      /\ gc'.cur = gc.cur /\ gc'.leased = gc.leased /\ gc'.seen = gc.seen
  BY <1>1, <1>2 DEF GcTypeOK, Passes
<1>4. LeasesFrozen' /\ InventoryHolds'
  BY <1>2, <1>3 DEF Rest, LeasesFrozen, GcOff, InventoryHolds, Collected, SeenRecorded, SeenSettled
<1>5. CandidatesSound'
  BY <1>1, <1>2, <1>3 DEF Rest, CandidatesSound, Takeable, Collected, SeenRecorded, SeenSettled
<1>6. LookBinds'
  BY <1>2, <1>3 DEF Rest, LookBinds, Takeable, SeenRecorded, SeenSettled, Dues
<1>7. QED BY <1>2, <1>4, <1>5, <1>6, HostUntouched DEF Rest

LEMMA LookStep ==
    ASSUME GcTypeOK, Rest, NEW c \in gc.todo, Look(c) PROVE Rest'
<1>1. PICK k \in Candidates, t \in Turns : c = <<k, t>>
  BY DEF GcTypeOK, Passes
<1>2. /\ gc.at = "apply" /\ gc.cur = NoCandidate
      /\ gc' = [gc EXCEPT !.todo = @ \ {c}, !.cur = IF Confirm(c) THEN c ELSE NoCandidate]
      /\ UNCHANGED <<record, leased, jobs, workspace, overtaken, refs, lost, promise, revived>>
  BY DEF Look, host, store, book
<1>3. /\ gc'.at = "apply" /\ gc'.todo = gc.todo \ {c}
      /\ gc'.leased = gc.leased /\ gc'.seen = gc.seen
      /\ gc'.cur = IF Confirm(c) THEN c ELSE NoCandidate
  BY <1>2 DEF GcTypeOK, Passes
<1>4. LeasesFrozen' /\ InventoryHolds'
  BY <1>2, <1>3 DEF Rest, LeasesFrozen, GcOff, InventoryHolds, Collected, SeenRecorded, SeenSettled
<1>5. CandidatesSound'
  BY <1>2, <1>3 DEF Rest, CandidatesSound, Takeable, Collected, SeenRecorded, SeenSettled
<1>6. LookBinds'
  <2>1. CASE ~Confirm(c)
    BY <1>3, <2>1 DEF LookBinds, NoCandidate
  <2>2. CASE Confirm(c)
    <3>1. gc'.cur = <<k, t>>
      BY <1>1, <1>3, <2>2
    <3>2. ~HasActiveWork(t, leased) => t \notin leased /\ promise[t] # "owed"
      BY DEF HasActiveWork, OutboxRetains
    <3>3. CASE k = "branch"
      <4>1. Takeable(t)
        BY <1>1, <3>3 DEF Rest, CandidatesSound
      <4>2. SeenRecorded(t) => ~HasActiveWork(t, leased)
        BY <1>1, <2>2, <3>3 DEF Confirm
      <4>3. QED
        BY <1>2, <1>3, <3>1, <3>2, <3>3, <4>1, <4>2 DEF LookBinds, Takeable, SeenRecorded, SeenSettled, Dues
    <3>4. CASE k = "job"
      BY <1>1, <1>2, <2>2, <3>1, <3>4 DEF Confirm, LookBinds
    <3>5. CASE k = "meta"
      BY <1>1, <1>2, <2>2, <3>1, <3>2, <3>5 DEF Confirm, LookBinds, Dues
    <3>6. CASE k \in {"session", "open"}
      BY <3>1, <3>6 DEF LookBinds
    <3>7. QED BY <3>3, <3>4, <3>5, <3>6
  <2>3. QED BY <2>1, <2>2
<1>7. QED BY <1>2, <1>4, <1>5, <1>6, HostUntouched DEF Rest

(* The deletions.  Each has a candidate in hand, and leaves it or goes on to
   its second step. *)
LEMMA InHand ==
    ASSUME GcTypeOK, Rest, NEW t \in Turns, NEW k \in CandidateKinds, Applying(k, t),
           NEW l \in {"pins", "workspace"}, NEW b \in BOOLEAN,
           \/ gc' = Applied
           \/ gc' = [Applied EXCEPT !.pending = b]
           \/ gc' = [gc EXCEPT !.cur = <<l, t>>]
           \/ gc' = [gc EXCEPT !.cur = <<l, t>>, !.pending = b],
           leased' = leased
    PROVE  /\ gc.at = "apply" /\ gc'.at = "apply" /\ gc'.todo = gc.todo /\ gc'.seen = gc.seen
           /\ gc'.leased = gc.leased
           /\ gc'.cur = NoCandidate \/ gc'.cur = <<l, t>>
           /\ gc.leased = leased /\ LeasesFrozen' /\ CandidatesSound'
<1>1. /\ gc.at = "apply" /\ gc'.at = "apply" /\ gc'.todo = gc.todo /\ gc'.seen = gc.seen
      /\ gc'.leased = gc.leased
      /\ gc'.cur = NoCandidate \/ gc'.cur = <<l, t>>
  BY DEF Applying, Applied, GcTypeOK, Passes
<1>2. gc.leased = leased /\ LeasesFrozen'
  BY <1>1 DEF Rest, LeasesFrozen, GcOff
<1>3. CandidatesSound'
  BY <1>1 DEF Rest, CandidatesSound, Collected, Takeable, SeenRecorded, SeenSettled
<1>4. QED BY <1>1, <1>2, <1>3

LEMMA DropBranchStep ==
    ASSUME GcTypeOK, Rest, NEW t \in Turns, DropBranch(t) PROVE Rest'
<1>1. /\ Applying("branch", t)
      /\ refs' = [refs EXCEPT ![t] = @ \ {"branch", "base"}]
      /\ gc' = [gc EXCEPT !.cur = <<"pins", t>>, !.pending = TRUE]
      /\ UNCHANGED <<record, leased, jobs, workspace, overtaken, lost, promise, revived>>
  BY DEF DropBranch, host, book
<1>2. /\ gc.at = "apply" /\ gc'.at = "apply" /\ gc'.seen = gc.seen
      /\ LeasesFrozen' /\ CandidatesSound'
  BY <1>1, InHand
<1>3. gc'.cur = <<"pins", t>>
  BY <1>1 DEF GcTypeOK, Passes
<1>4. Takeable(t) /\ (SeenRecorded(t) => Dues(t))
  BY <1>1 DEF Rest, LookBinds, Applying
<1>5. t \in overtaken \/ record[t] \in {"none", "closed"}
  BY <1>2, <1>4 DEF Rest, InventoryHolds, Collected, Takeable
<1>6. Working' /\ PrunedUnheld' /\ OwedKept'
  BY <1>1, <1>5 DEF Rest, Working, PrunedUnheld, OwedKept, Kept, GcTypeOK
<1>7. InventoryHolds'
  BY <1>1, <1>2 DEF Rest, InventoryHolds, Collected, SeenRecorded, SeenSettled
<1>8. LookBinds'
  BY <1>1, <1>2, <1>3, <1>4 DEF LookBinds, Takeable, SeenRecorded, SeenSettled, Dues
<1>9. QED BY <1>2, <1>6, <1>7, <1>8 DEF Rest

LEMMA DropPinsStep ==
    ASSUME GcTypeOK, Rest, NEW t \in Turns, DropPins(t) PROVE Rest'
<1>1. /\ Applying("pins", t) /\ gc' = Applied
      /\ UNCHANGED <<record, leased, jobs, workspace, overtaken, lost, promise, revived>>
      /\ \A u \in Turns \ {t} : refs'[u] = refs[u]
      /\ refs'[t] \subseteq refs[t] /\ ("branch" \in refs[t] => "branch" \in refs'[t])
  BY DEF DropPins, host, book, GcTypeOK, When
<1>2. /\ gc.at = "apply" /\ gc'.at = "apply" /\ gc'.seen = gc.seen
      /\ LeasesFrozen' /\ CandidatesSound'
  BY <1>1, InHand
<1>3. gc'.cur = NoCandidate
  BY <1>1 DEF GcTypeOK, Passes, Applied
<1>4. Takeable(t) /\ (SeenRecorded(t) => Dues(t))
  BY <1>1 DEF Rest, LookBinds, Applying
<1>5. t \in overtaken \/ Dues(t)
  <2>1. CASE SeenRecorded(t)
    BY <1>4, <2>1
  <2>2. CASE ~SeenRecorded(t)
    BY <1>2, <2>2 DEF Rest, InventoryHolds, Collected, OwedKept, Kept, Dues
  <2>3. QED BY <2>1, <2>2
<1>6. Working' /\ PrunedUnheld'
  BY <1>1 DEF Rest, Working, PrunedUnheld, GcTypeOK
<1>7. OwedKept'
  BY <1>1, <1>5 DEF Rest, OwedKept, Kept, Dues, GcTypeOK
<1>8. InventoryHolds'
  BY <1>1, <1>2 DEF Rest, InventoryHolds, Collected, SeenRecorded, SeenSettled
<1>9. LookBinds'
  BY <1>3 DEF LookBinds, NoCandidate
<1>10. QED BY <1>2, <1>6, <1>7, <1>8, <1>9 DEF Rest

LEMMA DropSessionStep ==
    ASSUME GcTypeOK, Rest, NEW t \in Turns, DropSession(t) PROVE Rest'
<1>1. /\ Applying("session", t) /\ gc' = [Applied EXCEPT !.pending = TRUE]
      /\ UNCHANGED <<record, leased, jobs, workspace, overtaken, lost, promise, revived>>
      /\ refs' = [refs EXCEPT ![t] = @ \ {"session"}]
  BY DEF DropSession, host, book
<1>2. /\ gc.at = "apply" /\ gc'.at = "apply" /\ gc'.seen = gc.seen
      /\ LeasesFrozen' /\ CandidatesSound'
  BY <1>1, InHand
<1>3. gc'.cur = NoCandidate
  BY <1>1 DEF GcTypeOK, Passes, Applied
<1>4. Working' /\ PrunedUnheld' /\ OwedKept'
  BY <1>1 DEF Rest, Working, PrunedUnheld, OwedKept, Kept, GcTypeOK
<1>5. InventoryHolds'
  BY <1>1, <1>2 DEF Rest, InventoryHolds, Collected, SeenRecorded, SeenSettled
<1>6. LookBinds'
  BY <1>3 DEF LookBinds, NoCandidate
<1>7. QED BY <1>2, <1>4, <1>5, <1>6 DEF Rest

LEMMA DropJobStep ==
    ASSUME GcTypeOK, Rest, NEW t \in Turns, DropJob(t) PROVE Rest'
<1>1. /\ Applying("job", t) /\ gc' = Applied
      /\ UNCHANGED <<record, leased, refs, workspace, overtaken, lost, promise, revived>>
      /\ jobs' = [jobs EXCEPT ![t] = "none"]
  BY DEF DropJob, store, book
<1>2. /\ gc.at = "apply" /\ gc'.at = "apply" /\ gc'.seen = gc.seen
      /\ LeasesFrozen' /\ CandidatesSound'
  BY <1>1, InHand
<1>3. gc'.cur = NoCandidate
  BY <1>1 DEF GcTypeOK, Passes, Applied
<1>4. t \notin leased
  BY <1>1 DEF Rest, LookBinds, Applying
<1>5. Working' /\ PrunedUnheld' /\ OwedKept'
  BY <1>1, <1>4 DEF Rest, Working, PrunedUnheld, OwedKept, Kept, GcTypeOK
<1>6. InventoryHolds'
  BY <1>1, <1>2 DEF Rest, InventoryHolds, Collected, SeenRecorded, SeenSettled
<1>7. LookBinds'
  BY <1>3 DEF LookBinds, NoCandidate
<1>8. QED BY <1>2, <1>5, <1>6, <1>7 DEF Rest

LEMMA RetentionCloseStep ==
    ASSUME GcTypeOK, Rest, NEW t \in Turns, RetentionClose(t) PROVE Rest'
<1>1. Applying("open", t) /\ UNCHANGED <<leased, jobs, refs, workspace, overtaken, lost, promise, revived>>
  BY DEF RetentionClose, store, book
<1>2. CASE ~(record[t] = "open" /\ t \notin leased)
  <2>1. gc' = Applied /\ record' = record
    BY <1>2 DEF RetentionClose
  <2>2. /\ gc.at = "apply" /\ gc'.at = "apply" /\ gc'.seen = gc.seen
        /\ LeasesFrozen' /\ CandidatesSound'
    BY <1>1, <2>1, InHand
  <2>3. gc'.cur = NoCandidate
    BY <2>1 DEF GcTypeOK, Passes, Applied
  <2>4. InventoryHolds'
    BY <1>1, <2>1, <2>2 DEF Rest, InventoryHolds, Collected, SeenRecorded, SeenSettled
  <2>5. LookBinds'
    BY <2>3 DEF LookBinds, NoCandidate
  <2>6. QED BY <1>1, <2>1, <2>2, <2>4, <2>5, HostUntouched DEF Rest
<1>3. CASE record[t] = "open" /\ t \notin leased
  <2>1. gc' = [gc EXCEPT !.cur = <<"workspace", t>>] /\ record' = [record EXCEPT ![t] = "closed"]
    BY <1>3 DEF RetentionClose
  <2>2. /\ gc.at = "apply" /\ gc'.at = "apply" /\ gc'.seen = gc.seen
        /\ LeasesFrozen' /\ CandidatesSound'
    BY <1>1, <2>1, InHand
  <2>3. gc'.cur = <<"workspace", t>>
    BY <2>1 DEF GcTypeOK, Passes
  <2>4. Working' /\ PrunedUnheld' /\ OwedKept'
    BY <1>1, <1>3, <2>1 DEF Rest, Working, PrunedUnheld, OwedKept, Kept, GcTypeOK
  <2>5. InventoryHolds'
    BY <1>1, <1>3, <2>1, <2>2 DEF Rest, InventoryHolds, Collected, SeenRecorded, SeenSettled, GcTypeOK
  <2>6. LookBinds'
    BY <1>1, <1>3, <2>1, <2>3 DEF LookBinds, GcTypeOK
  <2>7. QED BY <2>2, <2>4, <2>5, <2>6 DEF Rest
<1>4. QED BY <1>2, <1>3

LEMMA DropWorkspaceStep ==
    ASSUME GcTypeOK, Rest, NEW t \in Turns, DropWorkspace(t) PROVE Rest'
<1>1. /\ Applying("workspace", t) /\ gc' = Applied
      /\ UNCHANGED <<record, leased, jobs, refs, overtaken, lost, promise, revived>>
      /\ workspace' = workspace \ {t}
  BY DEF DropWorkspace, store, book
<1>2. /\ gc.at = "apply" /\ gc'.at = "apply" /\ gc'.seen = gc.seen
      /\ LeasesFrozen' /\ CandidatesSound'
  BY <1>1, InHand
<1>3. gc'.cur = NoCandidate
  BY <1>1 DEF GcTypeOK, Passes, Applied
<1>4. record[t] = "closed"
  BY <1>1 DEF Rest, LookBinds, Applying
<1>5. Working' /\ PrunedUnheld' /\ OwedKept'
  BY <1>1, <1>4 DEF Rest, Working, PrunedUnheld, OwedKept, Kept
<1>6. InventoryHolds'
  BY <1>1, <1>2 DEF Rest, InventoryHolds, Collected, SeenRecorded, SeenSettled
<1>7. LookBinds'
  BY <1>3 DEF LookBinds, NoCandidate
<1>8. QED BY <1>2, <1>5, <1>6, <1>7 DEF Rest

LEMMA DropRecordStep ==
    ASSUME GcTypeOK, Rest, NEW t \in Turns, DropRecord(t) PROVE Rest'
<1>1. /\ Applying("meta", t) /\ gc' = Applied
      /\ UNCHANGED <<leased, jobs, refs, overtaken, lost, revived>>
      /\ record' = [record EXCEPT ![t] = "none"]
      /\ workspace' = workspace \ {t}
      /\ promise' = [promise EXCEPT ![t] = "none"]
  BY DEF DropRecord, store
<1>2. /\ gc.at = "apply" /\ gc'.at = "apply" /\ gc'.seen = gc.seen
      /\ LeasesFrozen' /\ CandidatesSound'
  BY <1>1, InHand
<1>3. gc'.cur = NoCandidate
  BY <1>1 DEF GcTypeOK, Passes, Applied
<1>4. Working' /\ PrunedUnheld' /\ OwedKept'
  BY <1>1 DEF Rest, Working, PrunedUnheld, OwedKept, Kept, GcTypeOK
<1>5. InventoryHolds'
  BY <1>1, <1>2 DEF Rest, InventoryHolds, Collected, SeenRecorded, SeenSettled, GcTypeOK
<1>6. LookBinds'
  BY <1>3 DEF LookBinds, NoCandidate
<1>7. QED BY <1>2, <1>4, <1>5, <1>6 DEF Rest

-----------------------------------------------------------------------------
(* The invariant, and what follows from it. *)

LEMMA InitRest == GcInit => Rest
BY DEF GcInit, DeliveryInit, Rest, LeasesFrozen, Working, PrunedUnheld, InventoryHolds, Collected,
       CandidatesSound, LookBinds, OwedKept, GcOff, NoPass, NoCandidate

LEMMA RestStep == GcTypeOK /\ Rest /\ [GcNext]_gcVars => Rest'
<1>1. ASSUME GcTypeOK, Rest, UNCHANGED gcVars PROVE Rest'
  BY <1>1 DEF gcVars, Rest, LeasesFrozen, Working, PrunedUnheld, InventoryHolds, Collected,
       CandidatesSound, Takeable, LookBinds, OwedKept, Kept, GcOff, SeenRecorded, SeenSettled, Dues
<1>2. ASSUME GcTypeOK, Rest, NEW t \in Turns, Turn(t) PROVE Rest'
  BY <1>2, LeaseSteps, PushBaseStep, PrepareStep, PublicationStep, FinishTurnStep DEF Turn
<1>3. ASSUME GcTypeOK, Rest, NEW t \in Turns, DropCandidate(t) PROVE Rest'
  BY <1>3, DropBranchStep, DropPinsStep, DropSessionStep, DropJobStep, RetentionCloseStep,
     DropWorkspaceStep, DropRecordStep DEF DropCandidate
<1>4. ASSUME GcTypeOK, Rest, StartPass \/ Pass \/ LookMirror \/ PassDies PROVE Rest'
  BY <1>3, <1>4, StartPassStep, PassEndStep, DropMirrorStep, StageSteps, CollectTaskStep,
     CollectRefsStep, LookStep DEF Pass
<1>5. ASSUME GcTypeOK, Rest, GcNext PROVE Rest'
  BY <1>2, <1>4, <1>5, SideSteps, CloseStep DEF GcNext
<1>6. QED BY <1>1, <1>5

LEMMA Invariance == GcSpec => [](GcTypeOK /\ Rest)
<1>1. GcInit => GcTypeOK /\ Rest
  BY InitTypes, InitRest
<1>2. GcTypeOK /\ Rest /\ [GcNext]_gcVars => (GcTypeOK /\ Rest)'
  BY TypeStep, RestStep
<1>3. QED BY <1>1, <1>2, PTL DEF GcSpec

(* The state of the collector, of the tasks it looks at and of the outbox has
   its type: gc.rs GcInventory, task_store.rs, outbox.rs. *)
THEOREM GcTypes == GcSpec => []GcTypeOK
BY Invariance, PTL

(* No pass takes the record, the pin or the commit of a publication the outbox
   owes: gc.rs task_has_active_work with OriginOutbox::retains. *)
THEOREM OwedIsKept == GcSpec => []OwedKept
<1>1. Rest => OwedKept
  BY DEF Rest
<1>2. QED BY <1>1, Invariance, PTL

(* A task that is open or active is whole, whatever passes run: gc.rs
   apply_candidate and task_store.rs close_for_retention. *)
THEOREM OpenTaskIsWhole == GcSpec => []OpenTaskWhole
<1>1. Rest => OpenTaskWhole
  BY DEF Rest, Working, OpenTaskWhole
<1>2. QED BY <1>1, Invariance, PTL

(* While a turn holds its lease no pass removes or closes what it works in:
   lease.rs acquire under the installation lock the pass holds. *)
THEOREM LeasedIsUntouched == GcSpec => LeasedUntouched
<1> DEFINE Safe(t) == gc # NoPass => /\ t \in workspace => t \in workspace'
                                     /\ record[t] # "none" => record'[t] \notin {"none", "closed"}
                                     /\ jobs[t] # "none" => jobs'[t] # "none"
<1>1. ASSUME GcTypeOK, Rest, GcNext, NEW t \in leased, ~GcOff PROVE Safe(t)
  <2>0. t \in Turns /\ record[t] # "closed"
    BY <1>1 DEF GcTypeOK, Rest, Working
  <2>1. ASSUME NEW u \in Turns, Turn(u) PROVE Safe(t)
    BY <1>1, <2>0, <2>1 DEF Turn, AcquireScope, PushBase, PrepareRecord, GiveLeaseBack, Publish, FinishTurn,
       Release, host, GcTypeOK
  <2>2. ASSUME NEW u \in Turns, NEW discard \in BOOLEAN,
               SettleIntegration(u) \/ OutboxStep(u) \/ Ages(u) \/ CloseTask(u, discard)
        PROVE  Safe(t)
    BY <1>1, <2>0, <2>2 DEF SettleIntegration, OutboxStep, Ages, CloseTask, host
  <2>3. ASSUME NEW u \in Turns, DropCandidate(u) PROVE Safe(t)
    <3>1. CASE DropBranch(u) \/ DropPins(u) \/ DropSession(u)
      BY <2>0, <3>1 DEF DropBranch, DropPins, DropSession, host
    <3>2. CASE DropJob(u)
      <4>1. u # t
        BY <1>1, <3>2 DEF DropJob, Applying, Rest, LookBinds
      <4>2. QED BY <2>0, <3>2, <4>1 DEF DropJob, GcTypeOK
    <3>3. CASE RetentionClose(u)
      BY <1>1, <2>0, <3>3 DEF RetentionClose, GcTypeOK
    <3>4. CASE DropWorkspace(u)
      <4>1. u # t
        BY <1>1, <3>4 DEF DropWorkspace, Applying, Rest, LookBinds
      <4>2. QED BY <2>0, <3>4, <4>1 DEF DropWorkspace
    <3>5. CASE DropRecord(u)
      <4>1. u # t
        BY <1>1, <3>5 DEF DropRecord, Applying, Rest, LookBinds
      <4>2. QED BY <1>1, <2>0, <3>5, <4>1 DEF DropRecord, GcTypeOK
    <3>6. QED BY <2>3, <3>1, <3>2, <3>3, <3>4, <3>5 DEF DropCandidate
  <2>4. CASE \/ StartPass \/ LookMirror \/ PassDies \/ TasksCollected \/ RefsCollected
             \/ DropMirror \/ EndPass
             \/ \E u \in Turns : CollectTask(u) \/ CollectRefs(u)
             \/ \E c \in gc.todo : Look(c)
    <3>1. UNCHANGED <<record, workspace, jobs>>
      BY <2>4 DEF StartPass, LookMirror, PassDies, TasksCollected, RefsCollected, DropMirror,
         EndPass, CollectTask, CollectRefs, Look, host
    <3>2. QED BY <2>0, <3>1
  <2>5. QED BY <1>1, <2>1, <2>2, <2>3, <2>4 DEF GcNext, Pass
<1>2. ASSUME GcTypeOK, Rest, [GcNext]_gcVars PROVE [\A t \in leased : Safe(t)]_gcVars
  <2>1. GcOff => gc = NoPass
    BY <1>2 DEF Rest, LeasesFrozen
  <2>2. QED BY <1>1, <1>2, <2>1
<1>3. QED BY <1>2, Invariance, PTL DEF LeasedUntouched, GcSpec

(* A publication that is owed is never forgotten with the record of its task:
   gc.rs apply_candidate looks at the outbox again before it deletes. *)
THEOREM OwedIsNotForgotten == GcSpec => OwedNotForgotten
<1>1. ASSUME GcTypeOK, Rest, [GcNext]_gcVars, NEW t \in Turns \ revived, promise[t] = "owed"
      PROVE  promise'[t] # "none"
  <2>1. CASE UNCHANGED promise
    BY <1>1, <2>1
  <2>2. ASSUME NEW u \in Turns, DropRecord(u) PROVE promise'[t] # "none"
    <3>1. u # t
      BY <1>1, <2>2 DEF DropRecord, Applying, Rest, LookBinds, Dues
    <3>2. QED BY <1>1, <2>2, <3>1 DEF DropRecord, GcTypeOK
  <2>3. ASSUME NEW u \in Turns, Publish(u) \/ OutboxStep(u) PROVE promise'[t] # "none"
    BY <1>1, <2>3 DEF Publish, OutboxStep, Accept, Deliver, GiveUp, Revive, GcTypeOK
  <2>4. \/ UNCHANGED promise
        \/ \E u \in Turns : DropRecord(u) \/ Publish(u) \/ OutboxStep(u)
    <3>1. CASE UNCHANGED gcVars
      BY <3>1 DEF gcVars
    <3>2. CASE StartPass \/ LookMirror \/ PassDies \/ TasksCollected \/ RefsCollected
               \/ DropMirror \/ EndPass
      BY <3>2 DEF StartPass, LookMirror, PassDies, TasksCollected, RefsCollected, DropMirror,
         EndPass, book
    <3>3. CASE (\E u \in Turns : CollectTask(u) \/ CollectRefs(u)) \/ (\E c \in gc.todo : Look(c))
      BY <3>3 DEF CollectTask, CollectRefs, Look, book
    <3>4. ASSUME NEW u \in Turns, DropCandidate(u), ~DropRecord(u) PROVE UNCHANGED promise
      BY <3>4 DEF DropCandidate, DropBranch, DropPins, DropSession, DropJob, RetentionClose, DropWorkspace,
         book
    <3>5. ASSUME NEW u \in Turns, Turn(u), ~Publish(u) PROVE UNCHANGED promise
      BY <3>5 DEF Turn, AcquireScope, PushBase, PrepareRecord, GiveLeaseBack, FinishTurn, Release, book
    <3>6. ASSUME NEW u \in Turns, NEW discard \in BOOLEAN,
                 SettleIntegration(u) \/ Ages(u) \/ CloseTask(u, discard)
          PROVE  UNCHANGED promise
      BY <3>6 DEF SettleIntegration, Ages, CloseTask, book
    <3>7. QED BY <1>1, <3>1, <3>2, <3>3, <3>4, <3>5, <3>6 DEF GcNext, Pass
  <2>5. QED BY <2>1, <2>2, <2>3, <2>4
<1>2. ASSUME GcTypeOK, Rest, [GcNext]_gcVars
      PROVE  [\A t \in Turns \ revived : promise[t] = "owed" => promise'[t] # "none"]_gcVars
  BY <1>1, <1>2
<1>3. QED BY <1>2, Invariance, PTL DEF OwedNotForgotten, GcSpec

-----------------------------------------------------------------------------
(* Jobs and supervisors: the inductive invariant. *)

(* Where a process may be.  The first three sets hold the installation lock,
   may still hold it, and hold the supervisor lock of their job. *)
UnderLock == {"submit", "publish", "index", "query", "cancel", "resolve", "sweep", "relock"}
MayHold   == UnderLock \cup {"recover", "end", "tell", "close", "retire"}
UnderSup  == {"launch", "recover", "kill", "strip", "end", "tell", "close", "retire",
              "start", "armed", "ready", "exec", "await", "lose", "finish"}
AtRequest == {"idle", "submit", "publish", "index", "again", "query", "cancel", "resolve", "sweep",
              "launch", "recover", "kill", "strip", "end", "tell", "close", "retire", "clean", "free"}
AtSupervisor == {"idle", "start", "armed", "ready", "exec", "wait", "await", "relock", "finish",
                 "lose", "tell", "close", "retire", "clean", "free", "dead"}

Doings == [pc : AtRequest \cup AtSupervisor, kind : Kinds \cup {"none", "supervise"},
           job : Jobs \cup {None}, turn : BOOLEAN]

(* The state has its types; HostTypeOK also says who holds the locks. *)
DurableOK ==
    /\ disp \in [Jobs -> {"none", "accepted", "abandoned"}]
    /\ st \in [Jobs -> {"none", "accepted", "running"} \cup Terminal]
    /\ idn \in [Jobs -> Supervisors \cup {None}] /\ child \in [Jobs -> BOOLEAN]
    /\ payload \in [Jobs -> BOOLEAN] /\ marker \in [Jobs -> BOOLEAN]
    /\ lease \in [Jobs -> Slots \cup {NoSlot}] /\ slots \in Slots
    /\ task \in [Tasks -> [state : {"none", "active", "open", "closed"}, turn : Jobs \cup {None}]]
    /\ lock \in Procs \cup {None} /\ sup \in [Jobs -> Procs \cup {None}]
    /\ agents \subseteq Supervisors /\ faults \in Faults
    /\ proc \in [Procs -> Doings]

(* The two locks. *)
LocksHeld ==
    /\ \A p \in Procs : proc[p].pc \in UnderLock => lock = p
    /\ lock # None => proc[lock].pc \in MayHold
    /\ \A p \in Procs : proc[p].pc \in UnderSup => sup[proc[p].job] = p
    /\ \A j \in Jobs : sup[j] # None => proc[sup[j]].pc \in UnderSup /\ proc[sup[j]].job = j

(* Two turns of a task do not both hold a lease. *)
OneLease == \A j, k \in Jobs : SameTask(j, k) /\ lease[j] # NoSlot /\ lease[k] # NoSlot => j = k

(* What holds of the job of process p when p is at l.  A job is accepted under
   the lock that saw no disposition, and only an accepted one is started or
   ends.  A supervisor that has not handed over knows the status and the lease
   of its job; who reconciles an orphan has seen its supervisor dead. *)
Stage(p, l) ==
    LET j == proc[p].job IN
    /\ j \in Jobs
    /\ l \in IF p \in Requests THEN AtRequest ELSE AtSupervisor
    /\ l \in {"publish", "index"} => disp[j] = "none"
    /\ l = "index" => st[j] # "none"
    /\ l = "sweep" => disp[j] = "abandoned"
    /\ l \in UnderSup \/ p \in Supervisors => disp[j] = "accepted"
    /\ l \in {"recover", "tell", "close", "retire"} => st[j] \in Terminal
    /\ l \in {"clean", "free"} => st[j] \in Terminal \/ disp[j] = "abandoned"
    /\ p \in Supervisors /\ l \notin {"start", "dead"} => idn[j] = p
    /\ l \in {"armed", "ready", "exec", "await", "lose"} => st[j] = "accepted" /\ lease[j] # NoSlot
    /\ l \in {"ready", "exec", "await"} => child[j]
    /\ l = "cancel" => proc[p].kind = "cancel"
    /\ l \in {"submit", "publish", "index", "again", "query", "resolve"} => proc[p].kind # "cancel"
    /\ l \in {"kill", "strip", "end"} /\ proc[p].kind # "cancel" =>
          idn[j] # None /\ proc[idn[j]].pc = "dead"

Stages == \A p \in Procs : proc[p].pc # "idle" => Stage(p, proc[p].pc)

(* A job goes one way, and its recorded supervisor was started for it. *)
OneWay ==
    \A j \in Jobs :
        /\ st[j] = "running" \/ st[j] \in Terminal => disp[j] = "accepted"
        /\ disp[j] = "accepted" => st[j] # "none"
        /\ idn[j] # None => proc[idn[j]].pc # "idle" /\ proc[idn[j]].job = j

(* An agent is the recorded child of the recorded supervisor of a job that is
   accepted, has its lease and has not ended; who is about to end a job has
   seen that it has no agent. *)
Recorded(s) ==
    LET j == proc[s].job IN
    /\ proc[s].pc \in {"exec", "wait", "await", "dead"}
    /\ idn[j] = s /\ child[j] /\ lease[j] # NoSlot
    /\ disp[j] = "accepted" /\ st[j] \notin Terminal

AgentsRecorded ==
    /\ \A s \in agents : Recorded(s)
    /\ \A r \in Requests : proc[r].pc \in {"strip", "end"} => \A s \in agents : proc[s].job # proc[r].job

(* The faults AgentCovered is proved for: the launch and the wait of a turn do
   not both fail. *)
NotBoth(f) == f.left <= 1 \/ "launch" \notin f.kinds \/ "wait" \notin f.kinds
NoWaitFault(f) == f.left = 0 \/ "wait" \notin f.kinds

AwaitSafe ==
    /\ NotBoth(faults)
    /\ \A s \in Supervisors : proc[s].pc = "await" => NoWaitFault(faults)

Base == DurableOK /\ LocksHeld /\ OneLease /\ Stages /\ OneWay

(* A job that is accepted and has not ended holds its lease, and one whose
   directory is there before its index entry has its payload. *)
AcceptedLeased == \A j \in Jobs : disp[j] = "accepted" /\ st[j] \notin Terminal => lease[j] # NoSlot

LeaseInv ==
    /\ AcceptedLeased
    /\ \A p \in Procs : proc[p].pc \in {"publish", "index"} => lease[proc[p].job] # NoSlot
    /\ \A j \in Jobs : disp[j] = "none" /\ st[j] # "none" => payload[j]

(* The faults PublishedBeforeRelease is proved for: no publication fails, no
   preparation comes late, and either one fault happens or any number of
   supervisors die and waits fail. *)
FewFaults(f) ==
    /\ f.kinds \cap {"late", "publish"} = {}
    /\ f.left <= 1 \/ f.kinds \subseteq {"supervisor", "wait"}
(* What is left of them once a supervisor died or a wait failed. *)
AfterFault(f) == f.left = 0 \/ f.kinds \subseteq {"supervisor", "wait"}

(* A request that reconciles an orphan. *)
Orphaned(r) == proc[r].pc \in {"kill", "strip", "end", "tell"} /\ proc[r].kind # "cancel"

(* Who knows of the turn when the payload is gone: it will not die before it
   has published it. *)
Keeper(p) ==
    \/ p \in Supervisors /\ proc[p].pc \in {"lose", "tell"} /\ faults.left = 0
    \/ p \in Requests /\ proc[p].pc \in {"end", "tell"} /\ proc[p].kind # "cancel" /\ proc[p].turn

(* A pending turn of a job can be found. *)
TurnKept ==
    \A j \in Jobs : disp[j] # "abandoned" /\ st[j] # "none" /\ Pending(j) =>
        payload[j] \/ (sup[j] # None /\ Keeper(sup[j]))

(* Process p has found the turn it is to publish, has published it once it is
   past that, and an orphan cost a fault. *)
Placed(p) ==
    LET j == proc[p].job IN
    /\ proc[p].pc \in {"close", "retire", "clean", "free"} /\ disp[j] = "accepted" => ~Pending(j)
    /\ p \in Requests =>
         /\ /\ proc[p].pc \in {"recover", "tell"} \/ (proc[p].pc = "end" /\ proc[p].kind # "cancel")
            /\ Pending(j)
            => proc[p].turn
         /\ proc[p].pc = "strip" => proc[p].kind # "cancel"
         /\ Orphaned(p) => AfterFault(faults)
    /\ p \in Supervisors /\ proc[p].pc = "dead" /\ st[j] \notin Terminal => AfterFault(faults)

PublishInv ==
    /\ FewFaults(faults) /\ TurnKept
    /\ \A p \in Procs : Placed(p)
    /\ PublishedBeforeRelease

-----------------------------------------------------------------------------
(* How a step moves its process. *)

LEMMA Distinct ==
    /\ Requests \cap Supervisors = {} /\ None \notin Procs /\ None \notin Jobs /\ None \notin Supervisors
    /\ Requests \subseteq Procs /\ Supervisors \subseteq Procs /\ Procs = Requests \cup Supervisors
BY HostAssumption DEF Procs

Pcs == AtRequest \cup AtSupervisor

Others(p) == \A q \in Procs \ {p} : proc'[q] = proc[q]

(* p goes on to l and keeps its job and kind. *)
Moved(p, l) ==
    /\ proc' \in [Procs -> Doings] /\ Others(p)
    /\ proc'[p].pc = l /\ proc'[p].job = proc[p].job /\ proc'[p].kind = proc[p].kind

LEMMA GotoMoves ==
    ASSUME DurableOK, NEW p \in Procs, NEW l \in Pcs, Goto(p, l)
    PROVE  Moved(p, l) /\ proc'[p].turn = proc[p].turn
BY Distinct DEF DurableOK, Goto, Moved, Others, Doings, Pcs

LEMMA TurnMoves ==
    ASSUME DurableOK, NEW p \in Procs, NEW l \in Pcs, NEW b \in BOOLEAN,
           proc' = [proc EXCEPT ![p].pc = l, ![p].turn = b]
    PROVE  Moved(p, l) /\ proc'[p].turn = b
BY DEF DurableOK, Moved, Others, Doings, Pcs

(* A request that ends is idle, a supervisor that ends is dead. *)
Gone(p) ==
    /\ proc' \in [Procs -> Doings] /\ Others(p)
    /\ p \in Requests => proc'[p] = Idle
    /\ p \in Supervisors => proc'[p].pc = "dead" /\ proc'[p].job = proc[p].job

LEMMA EndGoes ==
    ASSUME DurableOK, NEW p \in Procs, End(p)
    PROVE  Gone(p)
<1>1. CASE p \in Requests
  <2>1. proc' = [proc EXCEPT ![p] = Idle] /\ p \notin Supervisors
    BY <1>1, HostAssumption DEF End
  <2>2. Idle \in Doings
    BY DEF Doings, Idle, AtRequest
  <2>3. QED BY <1>1, <2>1, <2>2 DEF DurableOK, Gone, Others
<1>2. CASE p \notin Requests
  <2>1. proc' = [proc EXCEPT ![p] = [proc[p] EXCEPT !.pc = "dead"]]
    BY <1>2 DEF End
  <2>2. [proc[p] EXCEPT !.pc = "dead"] \in Doings
    <3>1. proc[p] \in Doings
      BY DEF DurableOK
    <3>2. QED BY <3>1 DEF Doings, AtSupervisor
  <2>3. QED BY <1>2, <2>1, <2>2 DEF DurableOK, Gone, Others, Doings
<1>3. QED BY <1>1, <1>2

LEMMA FaultTypes ==
    ASSUME faults \in Faults, NEW k, Fault(k)
    PROVE  faults' \in Faults /\ faults'.kinds = faults.kinds /\ faults'.left = faults.left - 1
           /\ faults.left \in Nat \ {0} /\ faults'.left \in Nat /\ k \in faults.kinds
BY HostAssumption DEF Faults, Fault

LEMMA TaskTypes ==
    ASSUME DurableOK, NEW t \in Tasks, NEW a \in {"none", "active", "open", "closed"}, NEW j \in Jobs
    PROVE  /\ [task EXCEPT ![t].state = a] \in
                 [Tasks -> [state : {"none", "active", "open", "closed"}, turn : Jobs \cup {None}]]
           /\ [task EXCEPT ![t] = [state |-> a, turn |-> j]] \in
                 [Tasks -> [state : {"none", "active", "open", "closed"}, turn : Jobs \cup {None}]]
BY DEF DurableOK

USE DEF UnderLock, MayHold, UnderSup, AtRequest, AtSupervisor, Pcs

-----------------------------------------------------------------------------
(* Steps that leave the index entries, the statuses, the identities and the
   leases alone keep the invariant when the mover may be where it goes. *)

LockTo(p, l) ==
    /\ lock' \in {lock, p, None} /\ (lock' # lock => lock \in {p, None})
    /\ l \in UnderLock => lock' = p
    /\ lock' = p => l \in MayHold

SupTo(p, l) ==
    LET j == proc[p].job IN
    /\ \A k \in Jobs \ {j} : sup'[k] = sup[k]
    /\ sup'[j] \in {sup[j], p, None} /\ (sup'[j] # sup[j] => sup[j] \in {p, None})
    /\ l \in UnderSup <=> sup'[j] = p

Settled == UNCHANGED <<disp, st, idn, child, lease>>

LEMMA LocksMove ==
    ASSUME Base, NEW p \in Procs, NEW l \in Pcs \ {"idle", "dead"},
           proc[p].pc \notin {"idle", "dead"}, Moved(p, l), DurableOK',
           LockTo(p, l), SupTo(p, l)
    PROVE  LocksHeld'
<1> USE Distinct
<1> USE DEF Base, DurableOK, LocksHeld, Moved, Others
<1>1. proc[p].job \in Jobs
  BY DEF Stages, Stage
<1>2. ASSUME NEW q \in Procs, proc'[q].pc \in UnderLock PROVE lock' = q
  BY <1>2 DEF LockTo
<1>3. lock' # None => proc'[lock'].pc \in MayHold
  BY DEF LockTo
<1>4. ASSUME NEW q \in Procs, proc'[q].pc \in UnderSup PROVE sup'[proc'[q].job] = q
  <2>1. CASE q = p
    BY <1>4, <2>1 DEF SupTo
  <2>2. CASE q # p
    <3>1. proc[q].pc \in UnderSup /\ proc'[q] = proc[q] /\ sup[proc[q].job] = q
      BY <1>4, <2>2
    <3>2. proc[q].job \in Jobs
      BY <3>1 DEF Stages, Stage
    <3>3. QED BY <2>2, <3>1, <3>2 DEF SupTo
  <2>3. QED BY <2>1, <2>2
<1>5. ASSUME NEW j \in Jobs, sup'[j] # None
      PROVE  proc'[sup'[j]].pc \in UnderSup /\ proc'[sup'[j]].job = j
  <2>1. CASE j = proc[p].job
    BY <1>5, <2>1 DEF SupTo
  <2>2. CASE j # proc[p].job
    <3>1. sup'[j] = sup[j] /\ sup[j] \in Procs \ {p}
      BY <1>5, <2>2 DEF SupTo
    <3>2. QED BY <1>5, <3>1
  <2>3. QED BY <2>1, <2>2
<1>6. QED BY <1>2, <1>3, <1>4, <1>5

LEMMA QuietMove ==
    ASSUME Base, NEW p \in Procs, NEW l \in Pcs \ {"idle", "dead"},
           proc[p].pc \notin {"idle", "dead"}, Moved(p, l), Settled, DurableOK',
           Stage(p, l), LockTo(p, l), SupTo(p, l)
    PROVE  Base'
<1> USE Distinct
<1>1. LocksHeld'
  BY LocksMove
<1>2. OneLease'
  BY DEF Base, OneLease, SameTask, Settled
<1>3. Stages'
  <2> SUFFICES ASSUME NEW q \in Procs, proc'[q].pc # "idle" PROVE Stage(q, proc[q].pc)'
    BY DEF Stages
  <2>1. \A s \in Procs : proc[s].pc = "dead" => proc'[s].pc = "dead"
    BY DEF Moved, Others
  <2>2. CASE q = p
    BY <2>1, <2>2 DEF Stage, Moved, Settled, Base, DurableOK
  <2>3. CASE q # p
    <3>1. proc'[q] = proc[q] /\ Stage(q, proc[q].pc)
      BY <2>3 DEF Moved, Others, Base, Stages
    <3>2. QED BY <2>1, <3>1 DEF Stage, Settled, Base, DurableOK
  <2>4. QED BY <2>2, <2>3
<1>4. OneWay'
  <2>1. \A s \in Procs : proc[s].pc # "idle" => proc'[s].pc # "idle" /\ proc'[s].job = proc[s].job
    BY DEF Moved, Others
  <2>2. QED BY <2>1 DEF Base, OneWay, Settled, DurableOK
<1>5. QED BY <1>1, <1>2, <1>3, <1>4 DEF Base

(* A process that ends gives up what it holds. *)
LEMMA Leaving ==
    ASSUME Base, NEW p \in Procs, Gone(p), UNCHANGED <<disp, st, idn, child>>, DurableOK',
           proc[p].pc # "idle", lock' # p, lock' = lock \/ (lock = p /\ lock' = None),
           \A j \in Jobs : sup'[j] # p /\ (sup'[j] = sup[j] \/ (sup[j] = p /\ sup'[j] = None)),
           OneLease',
           \A j \in Jobs : lease'[j] # lease[j] => st[j] \in Terminal \/ disp[j] = "abandoned"
    PROVE  Base'
<1> USE Distinct
<1>1. LocksHeld'
  <2> USE DEF Base, DurableOK, LocksHeld, Gone, Others
  <2>1. proc'[p].pc \in {"idle", "dead"}
    BY DEF Idle
  <2>2. ASSUME NEW q \in Procs, proc'[q].pc \in UnderLock PROVE lock' = q
    BY <2>1, <2>2
  <2>3. lock' # None => proc'[lock'].pc \in MayHold
    BY <2>1
  <2>4. ASSUME NEW q \in Procs, proc'[q].pc \in UnderSup PROVE sup'[proc'[q].job] = q
    <3>1. q # p /\ proc'[q] = proc[q]
      BY <2>1, <2>4
    <3>2. proc[q].job \in Jobs
      BY <2>4, <3>1 DEF Stages, Stage
    <3>3. QED BY <2>4, <3>1, <3>2
  <2>5. ASSUME NEW j \in Jobs, sup'[j] # None
        PROVE  proc'[sup'[j]].pc \in UnderSup /\ proc'[sup'[j]].job = j
    BY <2>1, <2>5
  <2>6. QED BY <2>2, <2>3, <2>4, <2>5
<1>2. \A s \in Procs : proc[s].pc = "dead" => s \in Supervisors
  BY DEF Base, DurableOK, Stages, Stage
<1>3. \A s \in Supervisors : proc[s].pc # "idle" =>
         proc'[s].pc \in {proc[s].pc, "dead"} /\ proc'[s].job = proc[s].job
  BY DEF Gone, Others
<1>4. Stages'
  <2> SUFFICES ASSUME NEW q \in Procs, proc'[q].pc # "idle" PROVE Stage(q, proc[q].pc)'
    BY DEF Stages
  <2>1. CASE q = p
    BY <2>1, <1>3 DEF Stage, Stages, Gone, Base, DurableOK, Idle
  <2>2. CASE q # p
    <3>1. proc'[q] = proc[q] /\ Stage(q, proc[q].pc)
      BY <2>2 DEF Gone, Others, Base, Stages
    <3>2. proc[q].pc \in {"armed", "ready", "exec", "await", "lose"} =>
             lease'[proc[q].job] = lease[proc[q].job]
      BY <3>1 DEF Stage, Terminal
    <3>3. idn[proc[q].job] # None /\ proc[idn[proc[q].job]].pc = "dead" =>
             proc'[idn[proc[q].job]].pc = "dead"
      BY <1>3, <3>1 DEF Stage, Base, DurableOK
    <3>4. QED BY <3>1, <3>2, <3>3 DEF Stage, Base, DurableOK
  <2>3. QED BY <2>1, <2>2
<1>5. OneWay'
  BY <1>3 DEF Base, OneWay, DurableOK
<1>6. QED BY <1>1, <1>4, <1>5 DEF Base

-----------------------------------------------------------------------------
(* The steps of requests and supervisors that move one process. *)

LEMMA AgainStep ==
    ASSUME Base, NEW r \in Requests, Again(r) PROVE Base'
<1> USE Distinct DEF Again, At
<1>0. proc[r].pc \notin {"idle", "dead"} /\ Stage(r, proc[r].pc)
  BY DEF Base, Stages
<1>1. Moved(r, "query") /\ Settled
  BY <1>0, GotoMoves DEF Base, DurableOK, Stage, Settled, durable
<1>2. DurableOK'
  BY <1>0, <1>1 DEF Base, DurableOK, Moved, Drop, DropSup, durable, Stage
<1>3. Stage(r, "query")
  BY <1>0, <1>1 DEF Base, Stage, OneWay, Alive, DurableOK
<1>4. LockTo(r, "query") /\ SupTo(r, "query")
  BY <1>0, <1>1 DEF Base, LockTo, SupTo, LocksHeld, Drop, DropSup, DurableOK, Stage
<1>5. QED BY <1>0, <1>1, <1>2, <1>3, <1>4, QuietMove

LEMMA UnindexedStep ==
    ASSUME Base, NEW r \in Requests, Unindexed(r) PROVE Base'
<1> USE Distinct DEF Unindexed, At
<1>0. proc[r].pc \notin {"idle", "dead"} /\ Stage(r, proc[r].pc)
  BY DEF Base, Stages
<1>1. Moved(r, "index") /\ Settled
  BY <1>0, GotoMoves DEF Base, DurableOK, Stage, Settled, durable
<1>2. DurableOK'
  BY <1>0, <1>1 DEF Base, DurableOK, Moved, Drop, DropSup, durable, Stage
<1>3. Stage(r, "index")
  BY <1>0, <1>1 DEF Base, Stage, OneWay, Alive, DurableOK
<1>4. LockTo(r, "index") /\ SupTo(r, "index")
  BY <1>0, <1>1 DEF Base, LockTo, SupTo, LocksHeld, Drop, DropSup, DurableOK, Stage
<1>5. QED BY <1>0, <1>1, <1>2, <1>3, <1>4, QuietMove

LEMMA AcceptedStep ==
    ASSUME Base, NEW r \in Requests, Accepted(r) PROVE Base'
<1> USE Distinct DEF Accepted, At
<1>0. proc[r].pc \notin {"idle", "dead"} /\ Stage(r, proc[r].pc)
  BY DEF Base, Stages
<1>1. Moved(r, "query") /\ Settled
  BY <1>0, GotoMoves DEF Base, DurableOK, Stage, Settled, durable
<1>2. DurableOK'
  BY <1>0, <1>1 DEF Base, DurableOK, Moved, Drop, DropSup, durable, Stage
<1>3. Stage(r, "query")
  BY <1>0, <1>1 DEF Base, Stage, OneWay, Alive, DurableOK
<1>4. LockTo(r, "query") /\ SupTo(r, "query")
  BY <1>0, <1>1 DEF Base, LockTo, SupTo, LocksHeld, Drop, DropSup, DurableOK, Stage
<1>5. QED BY <1>0, <1>1, <1>2, <1>3, <1>4, QuietMove

LEMMA TakeLaunchStep ==
    ASSUME Base, NEW r \in Requests, TakeLaunch(r) PROVE Base'
<1> USE Distinct DEF TakeLaunch, At
<1>0. proc[r].pc \notin {"idle", "dead"} /\ Stage(r, proc[r].pc)
  BY DEF Base, Stages
<1>1. Moved(r, "launch") /\ Settled
  BY <1>0, GotoMoves DEF Base, DurableOK, Stage, Settled, durable
<1>2. DurableOK'
  BY <1>0, <1>1 DEF Base, DurableOK, Moved, Drop, DropSup, durable, Stage
<1>3. Stage(r, "launch")
  BY <1>0, <1>1 DEF Base, Stage, OneWay, Alive, DurableOK
<1>4. LockTo(r, "launch") /\ SupTo(r, "launch")
  BY <1>0, <1>1 DEF Base, LockTo, SupTo, LocksHeld, Drop, DropSup, DurableOK, Stage
<1>5. QED BY <1>0, <1>1, <1>2, <1>3, <1>4, QuietMove

LEMMA TakeOrphanStep ==
    ASSUME Base, NEW r \in Requests, TakeOrphan(r) PROVE Base'
<1> USE Distinct DEF TakeOrphan, At
<1>0. proc[r].pc \notin {"idle", "dead"} /\ Stage(r, proc[r].pc)
  BY DEF Base, Stages
<1>1. Moved(r, "kill") /\ Settled
  BY <1>0, GotoMoves DEF Base, DurableOK, Stage, Settled, durable
<1>2. DurableOK'
  BY <1>0, <1>1 DEF Base, DurableOK, Moved, Drop, DropSup, durable, Stage
<1>3. Stage(r, "kill")
  BY <1>0, <1>1 DEF Base, Stage, OneWay, Alive, DurableOK
<1>4. LockTo(r, "kill") /\ SupTo(r, "kill")
  BY <1>0, <1>1 DEF Base, LockTo, SupTo, LocksHeld, Drop, DropSup, DurableOK, Stage
<1>5. QED BY <1>0, <1>1, <1>2, <1>3, <1>4, QuietMove

LEMMA SubmitStep ==
    ASSUME Base, NEW r \in Requests, Submit(r) PROVE Base'
<1> USE Distinct DEF Submit, At
<1>0. proc[r].pc \notin {"idle", "dead"} /\ Stage(r, proc[r].pc)
  BY DEF Base, Stages
<1>1. Moved(r, "publish") /\ Settled
  BY <1>0, GotoMoves DEF Base, DurableOK, Stage, Settled, durable
<1>2. DurableOK'
  <2>1. proc[r].job \in Jobs /\ TaskOf[proc[r].job] \in Tasks
    BY <1>0, HostAssumption DEF Stage
  <2>2. task' \in [Tasks -> [state : {"none", "active", "open", "closed"}, turn : Jobs \cup {None}]]
    <3>1. \/ task' = task
          \/ task' = [task EXCEPT ![TaskOf[proc[r].job]] = [state |-> "active", turn |-> proc[r].job]]
      OBVIOUS
    <3>2. [task EXCEPT ![TaskOf[proc[r].job]] = [state |-> "active", turn |-> proc[r].job]]
             \in [Tasks -> [state : {"none", "active", "open", "closed"}, turn : Jobs \cup {None}]]
      BY <2>1, TaskTypes DEF Base
    <3>3. QED BY <3>1, <3>2 DEF Base, DurableOK
  <2>3. QED BY <1>1, <2>2 DEF Base, DurableOK, Moved
<1>3. Stage(r, "publish")
  BY <1>0, <1>1 DEF Base, Stage, OneWay, Alive, DurableOK
<1>4. LockTo(r, "publish") /\ SupTo(r, "publish")
  BY <1>0, <1>1 DEF Base, LockTo, SupTo, LocksHeld, Drop, DropSup, DurableOK, Stage
<1>5. QED BY <1>0, <1>1, <1>2, <1>3, <1>4, QuietMove

LEMMA StripOrphanStep ==
    ASSUME Base, NEW r \in Requests, StripOrphan(r) PROVE Base'
<1> USE Distinct DEF StripOrphan, At
<1>0. proc[r].pc \notin {"idle", "dead"} /\ Stage(r, proc[r].pc)
  BY DEF Base, Stages
<1>1. Moved(r, "end") /\ Settled
  BY <1>0, TurnMoves DEF Base, DurableOK, Stage, Settled, durable
<1>2. DurableOK'
  BY <1>0, <1>1 DEF Base, DurableOK, Moved, Drop, DropSup, durable, Stage
<1>3. Stage(r, "end")
  BY <1>0, <1>1 DEF Base, Stage, OneWay, Alive, DurableOK
<1>4. LockTo(r, "end") /\ SupTo(r, "end")
  BY <1>0, <1>1 DEF Base, LockTo, SupTo, LocksHeld, Drop, DropSup, DurableOK, Stage
<1>5. QED BY <1>0, <1>1, <1>2, <1>3, <1>4, QuietMove

LEMMA SweepStep ==
    ASSUME Base, NEW r \in Requests, Sweep(r) PROVE Base'
<1> USE Distinct DEF Sweep, At
<1>0. proc[r].pc \notin {"idle", "dead"} /\ Stage(r, proc[r].pc)
  BY DEF Base, Stages
<1>1. Moved(r, "free") /\ Settled
  BY <1>0, GotoMoves DEF Base, DurableOK, Stage, Settled, durable
<1>2. DurableOK'
  BY <1>0, <1>1 DEF Base, DurableOK, Moved, Drop, DropSup, durable, Stage
<1>3. Stage(r, "free")
  BY <1>0, <1>1 DEF Base, Stage, OneWay, Alive, DurableOK
<1>4. LockTo(r, "free") /\ SupTo(r, "free")
  BY <1>0, <1>1 DEF Base, LockTo, SupTo, LocksHeld, Drop, DropSup, DurableOK, Stage
<1>5. QED BY <1>0, <1>1, <1>2, <1>3, <1>4, QuietMove

LEMMA TakeRecoverStep ==
    ASSUME Base, NEW r \in Requests, TakeRecover(r) PROVE Base'
<1> USE Distinct DEF TakeRecover, At
<1>0. proc[r].pc \notin {"idle", "dead"} /\ Stage(r, proc[r].pc)
  BY DEF Base, Stages
<1>1. Moved(r, "recover") /\ Settled
  <2>1. payload[proc[r].job] \in BOOLEAN
    BY <1>0 DEF Base, DurableOK, Stage
  <2>2. Moved(r, "recover")
    BY <2>1, TurnMoves DEF Base
  <2>3. QED BY <2>2 DEF Settled, durable
<1>2. DurableOK'
  BY <1>0, <1>1 DEF Base, DurableOK, Moved, Drop, DropSup, durable, Stage
<1>3. Stage(r, "recover")
  BY <1>0, <1>1 DEF Base, Stage, OneWay, Alive, DurableOK
<1>4. LockTo(r, "recover") /\ SupTo(r, "recover")
  BY <1>0, <1>1 DEF Base, LockTo, SupTo, LocksHeld, Drop, DropSup, DurableOK, Stage
<1>5. QED BY <1>0, <1>1, <1>2, <1>3, <1>4, QuietMove

LEMMA ExecStep ==
    ASSUME Base, NEW s \in Supervisors, Exec(s) PROVE Base'
<1> USE Distinct DEF Exec, At
<1>0. proc[s].pc \notin {"idle", "dead"} /\ Stage(s, proc[s].pc)
  BY DEF Base, Stages
<1>1. Moved(s, "exec") /\ Settled
  BY <1>0, GotoMoves DEF Base, DurableOK, Stage, Settled, durable
<1>2. DurableOK'
  BY <1>0, <1>1 DEF Base, DurableOK, Moved, Drop, DropSup, durable, Stage
<1>3. Stage(s, "exec")
  BY <1>0, <1>1 DEF Base, Stage, OneWay, Alive, DurableOK
<1>4. LockTo(s, "exec") /\ SupTo(s, "exec")
  BY <1>0, <1>1 DEF Base, LockTo, SupTo, LocksHeld, Drop, DropSup, DurableOK, Stage
<1>5. QED BY <1>0, <1>1, <1>2, <1>3, <1>4, QuietMove

LEMMA AmbiguousStep ==
    ASSUME Base, NEW s \in Supervisors, Ambiguous(s) PROVE Base'
<1> USE Distinct DEF Ambiguous, At
<1>0. proc[s].pc \notin {"idle", "dead"} /\ Stage(s, proc[s].pc)
  BY DEF Base, Stages
<1>1. Moved(s, "await") /\ Settled
  BY <1>0, GotoMoves DEF Base, DurableOK, Stage, Settled, durable
<1>2. DurableOK'
  BY <1>0, <1>1, FaultTypes DEF Base, DurableOK, Moved, Drop, DropSup, durable, Stage
<1>3. Stage(s, "await")
  BY <1>0, <1>1 DEF Base, Stage, OneWay, Alive, DurableOK
<1>4. LockTo(s, "await") /\ SupTo(s, "await")
  BY <1>0, <1>1 DEF Base, LockTo, SupTo, LocksHeld, Drop, DropSup, DurableOK, Stage
<1>5. QED BY <1>0, <1>1, <1>2, <1>3, <1>4, QuietMove

LEMMA WaitedStep ==
    ASSUME Base, NEW s \in Supervisors, Waited(s) PROVE Base'
<1> USE Distinct DEF Waited, At
<1>0. proc[s].pc \notin {"idle", "dead"} /\ Stage(s, proc[s].pc)
  BY DEF Base, Stages
<1>1. Moved(s, "relock") /\ Settled
  BY <1>0, GotoMoves DEF Base, DurableOK, Stage, Settled, durable
<1>2. DurableOK'
  BY <1>0, <1>1 DEF Base, DurableOK, Moved, Drop, DropSup, durable, Stage
<1>3. Stage(s, "relock")
  BY <1>0, <1>1 DEF Base, Stage, OneWay, Alive, DurableOK
<1>4. LockTo(s, "relock") /\ SupTo(s, "relock")
  BY <1>0, <1>1 DEF Base, LockTo, SupTo, LocksHeld, Drop, DropSup, DurableOK, Stage
<1>5. QED BY <1>0, <1>1, <1>2, <1>3, <1>4, QuietMove

LEMMA AmbiguousEndedStep ==
    ASSUME Base, NEW s \in Supervisors, AmbiguousEnded(s) PROVE Base'
<1> USE Distinct DEF AmbiguousEnded, At
<1>0. proc[s].pc \notin {"idle", "dead"} /\ Stage(s, proc[s].pc)
  BY DEF Base, Stages
<1>1. Moved(s, "lose") /\ Settled
  BY <1>0, GotoMoves DEF Base, DurableOK, Stage, Settled, durable
<1>2. DurableOK'
  BY <1>0, <1>1 DEF Base, DurableOK, Moved, Drop, DropSup, durable, Stage
<1>3. Stage(s, "lose")
  BY <1>0, <1>1 DEF Base, Stage, OneWay, Alive, DurableOK
<1>4. LockTo(s, "lose") /\ SupTo(s, "lose")
  BY <1>0, <1>1 DEF Base, LockTo, SupTo, LocksHeld, Drop, DropSup, DurableOK, Stage
<1>5. QED BY <1>0, <1>1, <1>2, <1>3, <1>4, QuietMove

LEMMA CloseOwnStep ==
    ASSUME Base, NEW p \in Procs, CloseOwn(p) PROVE Base'
<1> USE Distinct DEF CloseOwn, At
<1>0. proc[p].pc \notin {"idle", "dead"} /\ Stage(p, proc[p].pc)
  BY DEF Base, Stages
<1>1. Moved(p, "retire") /\ Settled
  BY <1>0, GotoMoves DEF Base, DurableOK, Stage, Settled, durable
<1>2. DurableOK'
  BY <1>0, <1>1, TaskTypes, HostAssumption DEF Base, DurableOK, Moved, Drop, DropSup, durable, Stage
<1>3. Stage(p, "retire")
  BY <1>0, <1>1 DEF Base, Stage, OneWay, Alive, DurableOK
<1>4. LockTo(p, "retire") /\ SupTo(p, "retire")
  BY <1>0, <1>1 DEF Base, LockTo, SupTo, LocksHeld, Drop, DropSup, DurableOK, Stage
<1>5. QED BY <1>0, <1>1, <1>2, <1>3, <1>4, QuietMove

LEMMA RetireStep ==
    ASSUME Base, NEW p \in Procs, Retire(p) PROVE Base'
<1> USE Distinct DEF Retire, At
<1>0. proc[p].pc \notin {"idle", "dead"} /\ Stage(p, proc[p].pc)
  BY DEF Base, Stages
<1>1. Moved(p, "clean") /\ Settled
  BY <1>0, GotoMoves DEF Base, DurableOK, Stage, Settled, durable
<1>2. DurableOK'
  BY <1>0, <1>1 DEF Base, DurableOK, Moved, Drop, DropSup, durable, Stage
<1>3. Stage(p, "clean")
  BY <1>0, <1>1 DEF Base, Stage, OneWay, Alive, DurableOK
<1>4. LockTo(p, "clean") /\ SupTo(p, "clean")
  BY <1>0, <1>1 DEF Base, LockTo, SupTo, LocksHeld, Drop, DropSup, DurableOK, Stage
<1>5. QED BY <1>0, <1>1, <1>2, <1>3, <1>4, QuietMove

LEMMA CleanStep ==
    ASSUME Base, NEW p \in Procs, Clean(p) PROVE Base'
<1> USE Distinct DEF Clean, At
<1>0. proc[p].pc \notin {"idle", "dead"} /\ Stage(p, proc[p].pc)
  BY DEF Base, Stages
<1>1. Moved(p, "free") /\ Settled
  BY <1>0, GotoMoves DEF Base, DurableOK, Stage, Settled, durable
<1>2. DurableOK'
  BY <1>0, <1>1 DEF Base, DurableOK, Moved, Drop, DropSup, durable, Stage
<1>3. Stage(p, "free")
  BY <1>0, <1>1 DEF Base, Stage, OneWay, Alive, DurableOK
<1>4. LockTo(p, "free") /\ SupTo(p, "free")
  BY <1>0, <1>1 DEF Base, LockTo, SupTo, LocksHeld, Drop, DropSup, DurableOK, Stage
<1>5. QED BY <1>0, <1>1, <1>2, <1>3, <1>4, QuietMove

(* A killed agent changes nothing the invariant is about; what follows depends
   on whether the job is cancelled or reconciled. *)
LEMMA KillStep ==
    ASSUME Base, NEW r \in Requests, Kill(r) PROVE Base'
<1> USE Distinct DEF Kill, At
<1>0. proc[r].pc = "kill" /\ Stage(r, "kill")
  BY DEF Base, Stages
<1>1. PICK l \in {"end", "strip"} : Goto(r, l)
  OBVIOUS
<1>2. Moved(r, l) /\ Settled
  BY <1>1, GotoMoves DEF Base, Settled, durable
<1>3. DurableOK'
  BY <1>0, <1>2 DEF Base, DurableOK, Moved, durable, Stage
<1>4. Stage(r, l)
  BY <1>0, <1>2 DEF Stage
<1>5. LockTo(r, l) /\ SupTo(r, l)
  BY <1>0, <1>2 DEF Base, LockTo, SupTo, LocksHeld, DurableOK, Stage
<1>6. QED BY <1>0, <1>2, <1>3, <1>4, <1>5, QuietMove

LEMMA TakeCancelStep ==
    ASSUME Base, NEW r \in Requests, TakeCancel(r) PROVE Base'
<1> USE Distinct DEF TakeCancel, At
<1>0. proc[r].pc = "cancel" /\ Stage(r, "cancel")
  BY DEF Base, Stages
<1>1. PICK l \in {"end", "kill"} : Goto(r, l) /\ (l = "kill" => Drop(r)) /\ (l = "end" => lock' = lock)
  OBVIOUS
<1>2. Moved(r, l) /\ Settled
  BY <1>1, GotoMoves DEF Base, Settled, durable
<1>3. DurableOK'
  BY <1>0, <1>1, <1>2 DEF Base, DurableOK, Moved, durable, Drop, Stage
<1>4. Stage(r, l)
  BY <1>0, <1>2 DEF Stage
<1>5. LockTo(r, l) /\ SupTo(r, l)
  BY <1>0, <1>1, <1>2 DEF Base, LockTo, SupTo, LocksHeld, Drop, DurableOK, Stage
<1>6. QED BY <1>0, <1>2, <1>3, <1>4, <1>5, QuietMove

LEMMA TellStep ==
    ASSUME Base, NEW p \in Procs, Tell(p) PROVE Base'
<1> USE Distinct DEF Tell, At
<1>0. proc[p].pc \in {"tell", "recover"} /\ Stage(p, proc[p].pc)
  BY DEF Base, Stages
<1>1. PICK l \in {"retire", "close"} : Goto(p, l)
  OBVIOUS
<1>2. Moved(p, l) /\ Settled
  BY <1>1, GotoMoves DEF Base, Settled
<1>3. DurableOK'
  <2>1. proc[p].job \in Jobs /\ TaskOf[proc[p].job] \in Tasks
    BY <1>0, HostAssumption DEF Stage
  <2>2. task' = task \/ task' = [task EXCEPT ![TaskOf[proc[p].job]].state = "open"]
    OBVIOUS
  <2>3. task' \in [Tasks -> [state : {"none", "active", "open", "closed"}, turn : Jobs \cup {None}]]
    BY <2>1, <2>2, TaskTypes DEF Base, DurableOK
  <2>4. QED BY <1>2, <2>3 DEF Base, DurableOK, Moved
<1>4. Stage(p, l)
  BY <1>0, <1>2 DEF Stage
<1>5. LockTo(p, l) /\ SupTo(p, l)
  BY <1>0, <1>2 DEF Base, LockTo, SupTo, LocksHeld, DurableOK, Stage
<1>6. QED BY <1>0, <1>2, <1>3, <1>4, <1>5, QuietMove

LEMMA PrelaunchFailsStep ==
    ASSUME Base, NEW s \in Supervisors, PrelaunchFails(s) PROVE Base'
<1> USE Distinct DEF PrelaunchFails, At
<1>0. proc[s].pc \in {"armed", "ready"} /\ Stage(s, proc[s].pc)
  BY DEF Base, Stages
<1>1. Moved(s, "lose") /\ Settled
  BY GotoMoves, TurnMoves DEF Base, Settled
<1>2. DurableOK'
  BY <1>0, <1>1, FaultTypes DEF Base, DurableOK, Moved, Stage
<1>3. Stage(s, "lose")
  BY <1>0, <1>1 DEF Stage
<1>4. LockTo(s, "lose") /\ SupTo(s, "lose")
  BY <1>0, <1>1 DEF Base, LockTo, SupTo, LocksHeld, DurableOK, Stage
<1>5. QED BY <1>0, <1>1, <1>2, <1>3, <1>4, QuietMove

-----------------------------------------------------------------------------
(* The processes that end. *)

LEMMA RefusedStep ==
    ASSUME Base, NEW r \in Requests, Refused(r) \/ Supervised(r) PROVE Base'
<1> USE Distinct
<1>1. /\ proc[r].pc \in {"submit", "query", "cancel"} /\ Gone(r) /\ Drop(r)
      /\ UNCHANGED <<disp, st, idn, child, payload, marker, lease, slots, task, sup, agents, faults>>
  BY EndGoes DEF Refused, Supervised, Base, At, durable
<1>2. \A j \in Jobs : sup[j] # r
  BY <1>1 DEF Base, LocksHeld
<1>3. DurableOK'
  BY <1>1 DEF Base, DurableOK, Drop, Gone
<1>4. OneLease'
  BY <1>1 DEF Base, OneLease, SameTask
<1>5. QED BY <1>1, <1>2, <1>3, <1>4, Leaving DEF Drop

LEMMA LaunchFailsStep ==
    ASSUME Base, NEW r \in Requests, LaunchFails(r) PROVE Base'
<1> USE Distinct
<1>1. /\ proc[r].pc = "launch" /\ Gone(r) /\ DropSup(r)
      /\ UNCHANGED <<disp, st, idn, child, payload, marker, lease, slots, task, lock, agents>>
  BY EndGoes DEF LaunchFails, Base, At, durable
<1>2. lock # r
  BY <1>1 DEF Base, LocksHeld
<1>3. DurableOK'
  BY <1>1, FaultTypes DEF LaunchFails, Base, DurableOK, DropSup, Gone
<1>4. OneLease'
  BY <1>1 DEF Base, OneLease, SameTask
<1>5. QED BY <1>1, <1>2, <1>3, <1>4, Leaving DEF DropSup

(* A failed publication either ends the process or leaves it where it was. *)
LEMMA TellFailsStep ==
    ASSUME Base, NEW p \in Procs, TellFails(p) PROVE Base'
<1> USE Distinct
<1>0. proc[p].pc \in {"tell", "recover"} /\ Stage(p, proc[p].pc)
  BY DEF TellFails, At, Base, Stages
<1>1. CASE Goto(p, "retire") /\ UNCHANGED <<lock, sup>>
  <2>1. Moved(p, "retire") /\ Settled /\ UNCHANGED <<durable, agents>>
    BY <1>1, GotoMoves DEF TellFails, Base, Settled, durable
  <2>2. DurableOK'
    BY <1>1, <2>1, FaultTypes DEF TellFails, Base, DurableOK, Moved, durable
  <2>3. Stage(p, "retire")
    BY <1>0 DEF Stage
  <2>4. LockTo(p, "retire") /\ SupTo(p, "retire")
    BY <1>0, <1>1 DEF Base, LockTo, SupTo, LocksHeld, DurableOK, Stage
  <2>5. QED BY <1>0, <2>1, <2>2, <2>3, <2>4, QuietMove
<1>2. CASE End(p) /\ Drop(p) /\ DropSup(p)
  <2>1. Gone(p) /\ UNCHANGED <<disp, st, idn, child, payload, marker, lease, slots, task, agents>>
    BY <1>2, EndGoes DEF TellFails, Base, durable
  <2>2. DurableOK'
    BY <1>2, <2>1, FaultTypes DEF TellFails, Base, DurableOK, Drop, DropSup, Gone
  <2>3. OneLease'
    BY <2>1 DEF Base, OneLease, SameTask
  <2>4. QED BY <1>0, <1>2, <2>1, <2>2, <2>3, Leaving DEF Drop, DropSup
<1>3. QED BY <1>1, <1>2 DEF TellFails

LEMMA DieStep ==
    ASSUME Base, NEW p \in Procs, Die(p) PROVE Base'
<1> USE Distinct
<1>1. /\ proc[p].pc # "idle" /\ Gone(p) /\ Drop(p) /\ DropSup(p)
      /\ UNCHANGED <<disp, st, idn, child, payload, marker, lease, slots, task, agents>>
  BY EndGoes DEF Die, Base, At, Alive, durable
<1>2. DurableOK'
  BY <1>1, FaultTypes DEF Die, Base, DurableOK, Drop, DropSup, Gone
<1>3. OneLease'
  BY <1>1 DEF Base, OneLease, SameTask
<1>4. QED BY <1>1, <1>2, <1>3, Leaving DEF Drop, DropSup

LEMMA FreeStep ==
    ASSUME Base, NEW p \in Procs, Free(p) PROVE Base'
<1> USE Distinct
<1>1. /\ proc[p].pc = "free" /\ Gone(p) /\ Stage(p, "free")
      /\ lease' = [lease EXCEPT ![proc[p].job] = NoSlot]
      /\ UNCHANGED <<disp, st, idn, child, payload, marker, slots, task, lock, sup, agents, faults>>
  BY EndGoes DEF Free, Base, At, Stages
<1>2. lock # p /\ \A j \in Jobs : sup[j] # p
  BY <1>1 DEF Base, LocksHeld
<1>3. DurableOK'
  BY <1>1 DEF Base, DurableOK, Gone, Stage
<1>4. OneLease'
  BY <1>1 DEF Base, DurableOK, OneLease, SameTask, Stage
<1>5. \A j \in Jobs : lease'[j] # lease[j] => st[j] \in Terminal \/ disp[j] = "abandoned"
  BY <1>1 DEF Base, DurableOK, Stage
<1>6. QED BY <1>1, <1>2, <1>3, <1>4, <1>5, Leaving

LEMMA RelockStep ==
    ASSUME Base, NEW s \in Supervisors, Relock(s) PROVE Base'
<1> USE Distinct
<1>0. /\ proc[s].pc = "relock" /\ Stage(s, "relock") /\ Drop(s)
      /\ UNCHANGED <<disp, st, idn, child, payload, marker, lease, slots, task, agents, faults>>
  BY DEF Relock, At, Base, Stages, durable
<1>1. CASE End(s) /\ sup' = sup
  <2>1. Gone(s)
    BY <1>1, EndGoes DEF Base
  <2>2. DurableOK' /\ OneLease'
    BY <1>0, <1>1, <2>1 DEF Base, DurableOK, OneLease, SameTask, Drop, Gone
  <2>3. \A j \in Jobs : sup[j] # s
    BY <1>0 DEF Base, LocksHeld
  <2>4. QED BY <1>0, <1>1, <2>1, <2>2, <2>3, Leaving DEF Drop
<1>2. CASE Goto(s, "finish") /\ sup' = [sup EXCEPT ![proc[s].job] = s]
  <2>1. Moved(s, "finish") /\ Settled
    BY <1>0, <1>2, GotoMoves DEF Base, Settled
  <2>2. DurableOK'
    BY <1>0, <1>2, <2>1 DEF Base, DurableOK, Moved, Drop, Stage
  <2>3. Stage(s, "finish")
    BY <1>0 DEF Stage
  <2>4. LockTo(s, "finish") /\ SupTo(s, "finish")
    BY <1>0, <1>2 DEF Relock, Base, LockTo, SupTo, Drop, LocksHeld, DurableOK, Stage
  <2>5. QED BY <1>0, <2>1, <2>2, <2>3, <2>4, QuietMove
<1>3. QED BY <1>1, <1>2 DEF Relock

LEMMA WaitFailsStep ==
    ASSUME Base, NEW s \in Supervisors, WaitFails(s) PROVE Base'
<1> USE Distinct
<1>0. /\ proc[s].pc \in {"wait", "await"} /\ Stage(s, proc[s].pc)
      /\ UNCHANGED <<disp, st, idn, child, payload, marker, lease, slots, task, lock, sup, agents>>
  BY DEF WaitFails, At, Base, Stages, durable
<1>1. CASE proc[s].pc = "wait"
  <2>1. Gone(s)
    BY <1>1, EndGoes DEF WaitFails, At, Base
  <2>2. DurableOK' /\ OneLease'
    BY <1>0, <2>1, FaultTypes DEF WaitFails, Base, DurableOK, OneLease, SameTask, Gone
  <2>3. lock # s /\ \A j \in Jobs : sup[j] # s
    BY <1>1 DEF Base, LocksHeld
  <2>4. QED BY <1>0, <1>1, <2>1, <2>2, <2>3, Leaving
<1>2. CASE proc[s].pc = "await"
  <2>1. Moved(s, "lose") /\ Settled
    BY <1>0, <1>2, GotoMoves DEF WaitFails, At, Base, Settled
  <2>2. DurableOK'
    BY <1>0, <2>1, FaultTypes DEF WaitFails, Base, DurableOK, Moved
  <2>3. Stage(s, "lose")
    BY <1>0, <1>2 DEF Stage
  <2>4. LockTo(s, "lose") /\ SupTo(s, "lose")
    BY <1>0, <1>2 DEF Base, LockTo, SupTo, LocksHeld, DurableOK, Stage
  <2>5. QED BY <1>0, <2>1, <2>2, <2>3, <2>4, QuietMove
<1>3. QED BY <1>0, <1>1, <1>2

-----------------------------------------------------------------------------
(* The steps that change an index entry, a status or an identity.  Nobody else
   relies on what they change: the lock under which they write excludes it. *)

(* The other processes of the job keep their stage. *)
OthersStage(p) == \A q \in Procs \ {p} : proc[q].pc # "idle" => Stage(q, proc[q].pc)'

LEMMA JobMove ==
    ASSUME Base, NEW p \in Procs, NEW l \in Pcs \ {"idle", "dead"},
           proc[p].pc \notin {"idle", "dead"}, Moved(p, l), DurableOK', lease' = lease,
           Stage(p, l)', OthersStage(p), LockTo(p, l), SupTo(p, l),
           \A j \in Jobs : /\ st'[j] = "running" \/ st'[j] \in Terminal => disp'[j] = "accepted"
                           /\ disp'[j] = "accepted" => st'[j] # "none"
                           /\ idn'[j] # idn[j] => idn'[j] = p /\ proc[p].job = j
    PROVE  Base'
<1> USE Distinct
<1>1. LocksHeld'
  BY LocksMove
<1>2. OneLease'
  BY DEF Base, OneLease, SameTask
<1>3. Stages'
  BY DEF Stages, OthersStage, Moved, Others
<1>4. OneWay'
  <2>1. \A s \in Procs : proc[s].pc # "idle" => proc'[s].pc # "idle" /\ proc'[s].job = proc[s].job
    BY DEF Moved, Others
  <2>2. QED BY <2>1 DEF Base, OneWay, DurableOK
<1>5. QED BY <1>1, <1>2, <1>3, <1>4 DEF Base

LEMMA PublishFinalStep ==
    ASSUME Base, NEW r \in Requests, PublishFinal(r) PROVE Base'
<1> USE Distinct
<1> DEFINE j == proc[r].job
<1>0. /\ proc[r].pc = "publish" /\ Stage(r, "publish") /\ j \in Jobs
      /\ UNCHANGED <<disp, idn, child, lease, lock, sup>>
  BY DEF PublishFinal, At, Base, Stages, Stage
<1>1. Moved(r, "index")
  BY GotoMoves DEF PublishFinal, Base
<1>2. st' = st \/ (st[j] = "none" /\ st' = [st EXCEPT ![j] = "accepted"])
  BY DEF PublishFinal
<1>3. DurableOK'
  BY <1>0, <1>1 DEF PublishFinal, Base, DurableOK, Moved
<1>4. st'[j] # "none" /\ \A k \in Jobs \ {j} : st'[k] = st[k]
  BY <1>0 DEF PublishFinal, Base, DurableOK
<1>5. Stage(r, "index")'
  BY <1>0, <1>1, <1>4 DEF Stage, Moved
<1>6. OthersStage(r)
  <2> SUFFICES ASSUME NEW q \in Procs \ {r}, proc[q].pc # "idle" PROVE Stage(q, proc[q].pc)'
    BY DEF OthersStage
  <2>1. Stage(q, proc[q].pc) /\ proc'[q] = proc[q]
    BY <1>1 DEF Base, Stages, Moved, Others
  <2>2. \A s \in Procs : proc[s].pc = "dead" => proc'[s].pc = "dead"
    BY <1>0, <1>1 DEF Moved, Others
  <2>3. QED BY <1>0, <1>2, <1>4, <2>1, <2>2 DEF Stage, Base, DurableOK, Terminal
<1>7. LockTo(r, "index") /\ SupTo(r, "index")
  BY <1>0 DEF Base, LockTo, SupTo, LocksHeld, DurableOK
<1>8. \A k \in Jobs : /\ st'[k] = "running" \/ st'[k] \in Terminal => disp'[k] = "accepted"
                      /\ disp'[k] = "accepted" => st'[k] # "none"
                      /\ idn'[k] = idn[k]
  BY <1>0, <1>2, <1>4 DEF Base, OneWay, DurableOK, Terminal
<1>9. QED BY <1>0, <1>1, <1>3, <1>5, <1>6, <1>7, <1>8, JobMove

LEMMA RecordAcceptedStep ==
    ASSUME Base, NEW r \in Requests, RecordAccepted(r) PROVE Base'
<1> USE Distinct
<1> DEFINE j == proc[r].job
<1>0. /\ proc[r].pc = "index" /\ Stage(r, "index") /\ j \in Jobs
      /\ disp' = [disp EXCEPT ![j] = "accepted"]
      /\ UNCHANGED <<st, idn, child, payload, marker, lease, slots, task, sup, agents, faults>>
  BY DEF RecordAccepted, At, Base, Stages, Stage
<1>1. PICK l \in {"query", "again"} :
        Goto(r, l) /\ (l = "query" => lock' = lock) /\ (l = "again" => Drop(r))
  BY DEF RecordAccepted
<1>2. Moved(r, l)
  BY <1>1, GotoMoves DEF Base
<1>3. lock = r
  BY <1>0 DEF Base, LocksHeld
<1>4. DurableOK'
  BY <1>0, <1>1, <1>2 DEF Base, DurableOK, Moved, Drop
<1>5. Stage(r, l)'
  BY <1>0, <1>2 DEF Stage, Moved
<1>6. OthersStage(r)
  <2> SUFFICES ASSUME NEW q \in Procs \ {r}, proc[q].pc # "idle" PROVE Stage(q, proc[q].pc)'
    BY DEF OthersStage
  <2>1. Stage(q, proc[q].pc) /\ proc'[q] = proc[q] /\ proc[q].pc \notin UnderLock
    BY <1>2, <1>3 DEF Base, Stages, LocksHeld, Moved, Others
  <2>2. \A s \in Procs : proc[s].pc = "dead" => proc'[s].pc = "dead"
    BY <1>0, <1>2 DEF Moved, Others
  <2>3. disp[j] = "none"
    BY <1>0 DEF Stage
  <2>4. QED BY <1>0, <2>1, <2>2, <2>3 DEF Stage, Base, DurableOK
<1>7. LockTo(r, l) /\ SupTo(r, l)
  BY <1>0, <1>1, <1>3 DEF Base, LockTo, SupTo, LocksHeld, DurableOK, Drop
<1>8. \A k \in Jobs : /\ st'[k] = "running" \/ st'[k] \in Terminal => disp'[k] = "accepted"
                      /\ disp'[k] = "accepted" => st'[k] # "none"
                      /\ idn'[k] = idn[k]
  BY <1>0 DEF Base, OneWay, DurableOK, Stage
<1>9. QED BY <1>0, <1>2, <1>4, <1>5, <1>6, <1>7, <1>8, JobMove

LEMMA AbandonStep ==
    ASSUME Base, NEW r \in Requests, Abandon(r) PROVE Base'
<1> USE Distinct
<1> DEFINE j == proc[r].job
<1>0. /\ proc[r].pc = "resolve" /\ Stage(r, "resolve") /\ j \in Jobs
      /\ disp' = [disp EXCEPT ![j] = "abandoned"] /\ disp[j] # "accepted"
      /\ UNCHANGED <<st, idn, child, payload, marker, lease, slots, task, lock, sup, agents, faults>>
  BY DEF Abandon, At, Base, Stages, Stage
<1>1. Moved(r, "sweep")
  BY GotoMoves DEF Abandon, Base
<1>2. lock = r
  BY <1>0 DEF Base, LocksHeld
<1>3. DurableOK'
  BY <1>0, <1>1 DEF Base, DurableOK, Moved
<1>4. Stage(r, "sweep")'
  BY <1>0, <1>1 DEF Stage, Moved, Base, DurableOK
<1>5. OthersStage(r)
  <2> SUFFICES ASSUME NEW q \in Procs \ {r}, proc[q].pc # "idle" PROVE Stage(q, proc[q].pc)'
    BY DEF OthersStage
  <2>1. Stage(q, proc[q].pc) /\ proc'[q] = proc[q] /\ proc[q].pc \notin UnderLock
    BY <1>1, <1>2 DEF Base, Stages, LocksHeld, Moved, Others
  <2>2. \A s \in Procs : proc[s].pc = "dead" => proc'[s].pc = "dead"
    BY <1>0, <1>1 DEF Moved, Others
  <2>3. QED BY <1>0, <2>1, <2>2 DEF Stage, Base, DurableOK
<1>6. LockTo(r, "sweep") /\ SupTo(r, "sweep")
  BY <1>0, <1>2 DEF Base, LockTo, SupTo, LocksHeld, DurableOK
<1>7. \A k \in Jobs : /\ st'[k] = "running" \/ st'[k] \in Terminal => disp'[k] = "accepted"
                      /\ disp'[k] = "accepted" => st'[k] # "none"
                      /\ idn'[k] = idn[k]
  BY <1>0 DEF Base, OneWay, DurableOK
<1>8. QED BY <1>0, <1>1, <1>3, <1>4, <1>5, <1>6, <1>7, JobMove

(* The holder of a job's supervisor lock changes its status; a job that has
   ended stays ended. *)
LEMMA StatusMove ==
    ASSUME Base, NEW p \in Procs, NEW l \in Pcs \ {"idle", "dead"}, NEW v \in Terminal \cup {"running"},
           proc[p].pc \in UnderSup, Moved(p, l), DurableOK',
           st' = [st EXCEPT ![proc[p].job] = v],
           v = "running" => st[proc[p].job] = "accepted",
           UNCHANGED <<disp, idn, child, lease>>,
           Stage(p, l)', LockTo(p, l), SupTo(p, l)
    PROVE  Base'
<1> USE Distinct
<1> DEFINE j == proc[p].job
<1>1. j \in Jobs /\ sup[j] = p /\ disp[j] = "accepted"
  BY DEF Base, LocksHeld, Stages, Stage
<1>2. OthersStage(p)
  <2> SUFFICES ASSUME NEW q \in Procs \ {p}, proc[q].pc # "idle" PROVE Stage(q, proc[q].pc)'
    BY DEF OthersStage
  <2>1. Stage(q, proc[q].pc) /\ proc'[q] = proc[q]
    BY DEF Base, Stages, Moved, Others
  <2>2. proc[q].pc \in UnderSup => proc[q].job # j
    BY <1>1 DEF Base, LocksHeld
  <2>3. \A s \in Procs : proc[s].pc = "dead" => proc'[s].pc = "dead"
    BY DEF Moved, Others
  <2>4. st'[j] = v /\ \A k \in Jobs \ {j} : st'[k] = st[k]
    BY <1>1 DEF Base, DurableOK
  <2>5. QED BY <1>1, <2>1, <2>2, <2>3, <2>4 DEF Stage, Base, DurableOK, Terminal
<1>3. \A k \in Jobs : /\ st'[k] = "running" \/ st'[k] \in Terminal => disp'[k] = "accepted"
                      /\ disp'[k] = "accepted" => st'[k] # "none"
                      /\ idn'[k] = idn[k]
  BY <1>1 DEF Base, OneWay, DurableOK, Terminal
<1>4. QED BY <1>2, <1>3, JobMove

LEMMA EndJobStep ==
    ASSUME Base, NEW r \in Requests, EndJob(r) PROVE Base'
<1> USE Distinct
<1> DEFINE j == proc[r].job
           v == IF proc[r].kind = "cancel" THEN "cancelled" ELSE "lost"
<1>0. /\ proc[r].pc = "end" /\ Stage(r, "end") /\ j \in Jobs
      /\ st' = [st EXCEPT ![j] = v] /\ v \in Terminal
      /\ UNCHANGED <<disp, idn, child, payload, marker, lease, slots, task, lock, sup, agents, faults>>
  BY DEF EndJob, At, Base, Stages, Stage, Terminal
<1>1. Moved(r, "tell")
  <2>1. payload[j] \in BOOLEAN /\ proc[r].turn \in BOOLEAN
    BY <1>0 DEF Base, DurableOK, Doings
  <2>2. QED BY <2>1, TurnMoves DEF EndJob, Base
<1>2. DurableOK'
  BY <1>0, <1>1 DEF Base, DurableOK, Moved, Terminal
<1>3. Stage(r, "tell")'
  BY <1>0, <1>1 DEF Stage, Moved, Base, DurableOK
<1>4. LockTo(r, "tell") /\ SupTo(r, "tell")
  BY <1>0 DEF Base, LockTo, SupTo, LocksHeld, DurableOK
<1>5. QED BY <1>0, <1>1, <1>2, <1>3, <1>4, StatusMove

LEMMA FinishStep ==
    ASSUME Base, NEW s \in Supervisors, NEW e \in Terminal, Finish(s, e) PROVE Base'
<1> USE Distinct
<1> DEFINE j == proc[s].job
<1>0. /\ proc[s].pc \in {"finish", "lose"} /\ Stage(s, proc[s].pc) /\ j \in Jobs
      /\ st' = [st EXCEPT ![j] = e]
      /\ UNCHANGED <<disp, idn, child, payload, marker, lease, slots, task, lock, sup, agents, faults>>
  BY DEF Finish, At, Base, Stages, Stage
<1>1. Moved(s, "tell")
  BY GotoMoves DEF Finish, Base
<1>2. DurableOK'
  BY <1>0, <1>1 DEF Base, DurableOK, Moved
<1>3. Stage(s, "tell")'
  BY <1>0, <1>1 DEF Stage, Moved, Base, DurableOK
<1>4. LockTo(s, "tell") /\ SupTo(s, "tell")
  BY <1>0 DEF Base, LockTo, SupTo, LocksHeld, DurableOK
<1>5. e # "running"
  BY DEF Terminal
<1>6. QED BY <1>0, <1>1, <1>2, <1>3, <1>4, <1>5, StatusMove

LEMMA RunStep ==
    ASSUME Base, NEW s \in Supervisors, Run(s) PROVE Base'
<1> USE Distinct
<1> DEFINE j == proc[s].job
<1>0. /\ proc[s].pc = "exec" /\ Stage(s, "exec") /\ j \in Jobs
      /\ st' = [st EXCEPT ![j] = "running"] /\ DropSup(s)
      /\ UNCHANGED <<disp, idn, child, payload, marker, lease, slots, task, lock, agents, faults>>
  BY DEF Run, At, Base, Stages, Stage
<1>1. Moved(s, "wait")
  BY GotoMoves DEF Run, Base
<1>2. DurableOK'
  BY <1>0, <1>1 DEF Base, DurableOK, Moved, DropSup
<1>3. Stage(s, "wait")'
  BY <1>0, <1>1 DEF Stage, Moved, Base, DurableOK
<1>4. LockTo(s, "wait") /\ SupTo(s, "wait")
  BY <1>0 DEF Base, LockTo, SupTo, LocksHeld, DurableOK, DropSup
<1>5. QED BY <1>0, <1>1, <1>2, <1>3, <1>4, StatusMove DEF Stage

LEMMA StartStep ==
    ASSUME Base, NEW s \in Supervisors, Start(s) PROVE Base'
<1> USE Distinct
<1> DEFINE j == proc[s].job
<1>0. /\ proc[s].pc = "start" /\ Stage(s, "start") /\ j \in Jobs
      /\ idn' = [idn EXCEPT ![j] = s] /\ idn[j] = None
      /\ lease[j] # NoSlot /\ disp[j] = "accepted" /\ st[j] = "accepted"
      /\ UNCHANGED <<disp, st, child, payload, marker, lease, slots, task, lock, sup, agents, faults>>
  BY DEF Start, At, Base, Stages, Stage, Identityless
<1>1. Moved(s, "armed")
  BY GotoMoves DEF Start, Base
<1>2. DurableOK'
  BY <1>0, <1>1 DEF Base, DurableOK, Moved
<1>3. Stage(s, "armed")'
  BY <1>0, <1>1 DEF Stage, Moved, Base, DurableOK
<1>4. OthersStage(s)
  <2> SUFFICES ASSUME NEW q \in Procs \ {s}, proc[q].pc # "idle" PROVE Stage(q, proc[q].pc)'
    BY DEF OthersStage
  <2>1. Stage(q, proc[q].pc) /\ proc'[q] = proc[q]
    BY <1>1 DEF Base, Stages, Moved, Others
  <2>2. \A u \in Procs : proc[u].pc = "dead" => proc'[u].pc = "dead"
    BY <1>0, <1>1 DEF Moved, Others
  <2>3. idn[proc[q].job] = q => proc[q].job # j
    BY <1>0
  <2>4. QED BY <1>0, <2>1, <2>2, <2>3 DEF Stage, Base, DurableOK
<1>5. LockTo(s, "armed") /\ SupTo(s, "armed")
  BY <1>0 DEF Base, LockTo, SupTo, LocksHeld, DurableOK
<1>6. \A k \in Jobs : /\ st'[k] = "running" \/ st'[k] \in Terminal => disp'[k] = "accepted"
                      /\ disp'[k] = "accepted" => st'[k] # "none"
                      /\ idn'[k] # idn[k] => idn'[k] = s /\ proc[s].job = k
  BY <1>0 DEF Base, OneWay, DurableOK
<1>7. QED BY <1>0, <1>1, <1>2, <1>3, <1>4, <1>5, <1>6, JobMove

LEMMA SpawnStep ==
    ASSUME Base, NEW s \in Supervisors, Spawn(s) PROVE Base'
<1> USE Distinct
<1> DEFINE j == proc[s].job
<1>0. /\ proc[s].pc = "armed" /\ Stage(s, "armed") /\ j \in Jobs
      /\ child' = [child EXCEPT ![j] = TRUE]
      /\ UNCHANGED <<disp, st, idn, payload, marker, lease, slots, task, lock, sup, agents, faults>>
  BY DEF Spawn, At, Base, Stages, Stage
<1>1. Moved(s, "ready")
  BY GotoMoves DEF Spawn, Base
<1>2. DurableOK'
  BY <1>0, <1>1 DEF Base, DurableOK, Moved
<1>3. Stage(s, "ready")'
  BY <1>0, <1>1 DEF Stage, Moved, Base, DurableOK
<1>4. OthersStage(s)
  <2> SUFFICES ASSUME NEW q \in Procs \ {s}, proc[q].pc # "idle" PROVE Stage(q, proc[q].pc)'
    BY DEF OthersStage
  <2>1. Stage(q, proc[q].pc) /\ proc'[q] = proc[q]
    BY <1>1 DEF Base, Stages, Moved, Others
  <2>2. \A u \in Procs : proc[u].pc = "dead" => proc'[u].pc = "dead"
    BY <1>0, <1>1 DEF Moved, Others
  <2>3. QED BY <1>0, <2>1, <2>2 DEF Stage, Base, DurableOK
<1>5. LockTo(s, "ready") /\ SupTo(s, "ready")
  BY <1>0 DEF Base, LockTo, SupTo, LocksHeld, DurableOK
<1>6. \A k \in Jobs : /\ st'[k] = "running" \/ st'[k] \in Terminal => disp'[k] = "accepted"
                      /\ disp'[k] = "accepted" => st'[k] # "none"
                      /\ idn'[k] = idn[k]
  BY <1>0 DEF Base, OneWay
<1>7. QED BY <1>0, <1>1, <1>2, <1>3, <1>4, <1>5, <1>6, JobMove

-----------------------------------------------------------------------------
(* Processes begin, and all end together. *)

LEMMA ArriveStep ==
    ASSUME Base, NEW r \in Requests, NEW k \in Kinds, NEW j \in Jobs, Arrive(r, k, j) PROVE Base'
<1> USE Distinct
<1> DEFINE new == [pc |-> k, kind |-> k, job |-> j, turn |-> FALSE]
<1>0. k \in {"submit", "query", "cancel", "resolve"}
  BY HostAssumption
<1>1. /\ proc[r].pc = "idle" /\ lock = None /\ lock' = r /\ proc' = [proc EXCEPT ![r] = new]
      /\ UNCHANGED <<disp, st, idn, child, payload, marker, lease, slots, task, sup, agents, faults>>
  BY DEF Arrive, At, durable
<1>2. new \in Doings
  BY <1>0 DEF Doings
<1>3. proc'[r] = new /\ (\A q \in Procs \ {r} : proc'[q] = proc[q]) /\ proc' \in [Procs -> Doings]
  BY <1>1, <1>2 DEF Base, DurableOK
<1>4. DurableOK'
  BY <1>1, <1>3 DEF Base, DurableOK
<1>5. LocksHeld'
  BY <1>0, <1>1, <1>3 DEF Base, DurableOK, LocksHeld
<1>6. OneLease'
  BY <1>1 DEF Base, OneLease, SameTask
<1>7. Stages'
  <2> SUFFICES ASSUME NEW q \in Procs, proc'[q].pc # "idle" PROVE Stage(q, proc[q].pc)'
    BY DEF Stages
  <2>1. CASE q = r
    BY <1>0, <1>3, <2>1 DEF Stage
  <2>2. CASE q # r
    <3>1. proc'[q] = proc[q] /\ Stage(q, proc[q].pc)
      BY <1>3, <2>2 DEF Base, Stages
    <3>2. \A s \in Procs : proc[s].pc = "dead" => proc'[s].pc = "dead"
      BY <1>1, <1>3
    <3>3. QED BY <1>1, <3>1, <3>2 DEF Stage, Base, DurableOK
  <2>3. QED BY <2>1, <2>2
<1>8. OneWay'
  BY <1>1, <1>3 DEF Base, OneWay, DurableOK
<1>9. QED BY <1>4, <1>5, <1>6, <1>7, <1>8 DEF Base

LEMMA LaunchStep ==
    ASSUME Base, NEW r \in Requests, NEW s \in Supervisors, Launch(r, s) PROVE Base'
<1> USE Distinct
<1> DEFINE j == proc[r].job
           new == [pc |-> "start", kind |-> "supervise", job |-> j, turn |-> TRUE]
<1>1. /\ proc[r].pc = "launch" /\ Stage(r, "launch") /\ j \in Jobs /\ proc[s].pc = "idle"
      /\ sup' = [sup EXCEPT ![j] = s] /\ proc' = [proc EXCEPT ![r] = Idle, ![s] = new]
      /\ UNCHANGED <<disp, st, idn, child, payload, marker, lease, slots, task, lock, agents, faults>>
  BY DEF Launch, At, durable, Base, Stages, Stage
<1>2. new \in Doings /\ Idle \in Doings
  BY <1>1 DEF Doings, Idle
<1>3. /\ r # s /\ proc'[r] = Idle /\ proc'[s] = new /\ \A q \in Procs \ {r, s} : proc'[q] = proc[q]
      /\ proc' \in [Procs -> Doings]
  BY <1>1, <1>2 DEF Base, DurableOK
<1>4. DurableOK'
  BY <1>1, <1>3 DEF Base, DurableOK
<1>5. LocksHeld'
  <2>1. lock # r /\ lock # s /\ sup[j] = r /\ \A k \in Jobs \ {j} : sup[k] \notin {r, s}
    BY <1>1 DEF Base, LocksHeld
  <2>2. proc'[r].pc = "idle" /\ proc'[s].pc = "start" /\ proc'[s].job = j
    BY <1>3 DEF Idle
  <2>3. /\ \A p \in Procs : proc'[p].pc \in UnderLock => lock' = p
        /\ lock' # None => proc'[lock'].pc \in MayHold
    BY <1>1, <1>3, <2>1, <2>2 DEF Base, DurableOK, LocksHeld
  <2>4. ASSUME NEW p \in Procs, proc'[p].pc \in UnderSup PROVE sup'[proc'[p].job] = p
    <3>1. CASE p = s
      BY <1>1, <2>2, <3>1 DEF Base, DurableOK
    <3>2. CASE p # s
      <4>1. p # r /\ proc'[p] = proc[p]
        BY <1>3, <2>2, <2>4, <3>2
      <4>2. proc[p].job \in Jobs /\ sup[proc[p].job] = p
        BY <2>4, <4>1 DEF Base, LocksHeld, Stages, Stage
      <4>3. QED BY <1>1, <2>1, <4>1, <4>2 DEF Base, DurableOK
    <3>3. QED BY <3>1, <3>2
  <2>5. ASSUME NEW k \in Jobs, sup'[k] # None
        PROVE  proc'[sup'[k]].pc \in UnderSup /\ proc'[sup'[k]].job = k
    <3>1. CASE k = j
      BY <1>1, <2>2, <3>1 DEF Base, DurableOK
    <3>2. CASE k # j
      BY <1>1, <1>3, <2>1, <2>5, <3>2 DEF Base, DurableOK, LocksHeld
    <3>3. QED BY <3>1, <3>2
  <2>6. QED BY <2>3, <2>4, <2>5 DEF LocksHeld
<1>6. OneLease'
  BY <1>1 DEF Base, OneLease, SameTask
<1>7. Stages'
  <2> SUFFICES ASSUME NEW q \in Procs, proc'[q].pc # "idle" PROVE Stage(q, proc[q].pc)'
    BY DEF Stages
  <2>1. CASE q = s
    BY <1>1, <1>3, <2>1 DEF Stage
  <2>2. CASE q # s
    <3>1. proc'[q] = proc[q] /\ Stage(q, proc[q].pc)
      BY <1>3, <2>2 DEF Base, Stages, Idle
    <3>2. \A u \in Procs : proc[u].pc = "dead" => proc'[u].pc = "dead"
      BY <1>1, <1>3
    <3>3. QED BY <1>1, <3>1, <3>2 DEF Stage, Base, DurableOK
  <2>3. QED BY <2>1, <2>2
<1>8. OneWay'
  BY <1>1, <1>3 DEF Base, OneWay, DurableOK
<1>9. QED BY <1>4, <1>5, <1>6, <1>7, <1>8 DEF Base

LEMMA RebootStep ==
    ASSUME Base, Reboot PROVE Base'
<1> USE Distinct
<1>1. /\ lock' = None /\ sup' = [j \in Jobs |-> None] /\ agents' = {}
      /\ UNCHANGED <<disp, st, idn, child, payload, marker, lease, slots, task>>
  BY DEF Reboot, durable
<1>2. Idle \in Doings /\ \A p \in Procs : proc[p] \in Doings /\ [proc[p] EXCEPT !.pc = "dead"] \in Doings
  BY DEF Doings, Idle, Base, DurableOK
<1>3. \A r \in Requests : proc'[r] = Idle
  BY DEF Reboot
<1>4. \A s \in Supervisors : proc'[s] = IF Alive(s) THEN [proc[s] EXCEPT !.pc = "dead"] ELSE proc[s]
  BY DEF Reboot
<1>5. proc' \in [Procs -> Doings]
  <2>1. \A p \in Procs : proc'[p] \in Doings
    BY <1>2, <1>3, <1>4
  <2>2. QED BY <2>1 DEF Reboot
<1>6. \A s \in Supervisors :
         /\ proc[s].pc = "idle" => proc'[s].pc = "idle"
         /\ proc[s].pc # "idle" => proc'[s].pc = "dead" /\ proc'[s].job = proc[s].job
  <2> SUFFICES ASSUME NEW s \in Supervisors
               PROVE  /\ proc[s].pc = "idle" => proc'[s].pc = "idle"
                      /\ proc[s].pc # "idle" => proc'[s].pc = "dead" /\ proc'[s].job = proc[s].job
    OBVIOUS
  <2>1. proc[s] \in Doings
    BY <1>2
  <2>2. QED BY <1>4, <2>1 DEF Alive, Doings
<1>7. \A r \in Requests : proc'[r].pc = "idle"
  BY <1>3 DEF Idle
<1>8. DurableOK'
  BY <1>1, <1>5, FaultTypes DEF Reboot, Base, DurableOK
<1>9. LocksHeld'
  BY <1>1, <1>6, <1>7 DEF LocksHeld
<1>10. OneLease'
  BY <1>1 DEF Base, OneLease, SameTask
<1>11. Stages'
  BY <1>1, <1>6, <1>7 DEF Base, Stages, Stage
<1>12. OneWay'
  BY <1>1, <1>6 DEF Base, OneWay, DurableOK
<1>13. QED BY <1>8, <1>9, <1>10, <1>11, <1>12 DEF Base

-----------------------------------------------------------------------------
(* Leases, slots and tasks. *)

LEMMA Untouched ==
    ASSUME Base, UNCHANGED <<disp, st, idn, child, proc, lock, sup>>, DurableOK', OneLease',
           \A j \in Jobs : lease[j] # NoSlot => lease'[j] # NoSlot
    PROVE  Base'
<1>1. LocksHeld' /\ OneWay'
  BY DEF Base, LocksHeld, OneWay
<1>2. Stages'
  BY DEF Base, Stages, Stage
<1>3. QED BY <1>1, <1>2 DEF Base

(* A non-empty set of natural numbers has a least element. *)
LEMMA LeastNumber ==
    ASSUME NEW S \in SUBSET Nat, S # {}
    PROVE  \E n \in S : \A m \in S : n <= m
<1> DEFINE R == OpToRel(<, Nat)
<1>1. IsWellFoundedOn(R, Nat)
  BY NatLessThanWellFounded
<1>2. ASSUME NEW x \in Nat, NEW y \in Nat PROVE <<y, x>> \in R <=> y < x
  BY DEF OpToRel
<1> HIDE DEF R
<1>3. PICK n \in S : \A y \in S : ~ (<<y, n>> \in R)
  BY <1>1, WFMin
<1>4. ASSUME NEW m \in S PROVE n <= m
  <2>1. m \in Nat /\ n \in Nat
    OBVIOUS
  <2>2. ~ (m < n)
    BY <1>2, <1>3, <2>1, Zenon
  <2>3. QED BY <2>1, <2>2
<1>5. QED BY <1>4

LEMMA AcquireStep ==
    ASSUME Base, NEW j \in Jobs, Acquire(j) PROVE Base'
<1>1. /\ lease' = [lease EXCEPT ![j] = LowestFree] /\ \A k \in Jobs : SameTask(j, k) => lease[k] = NoSlot
      /\ FreeSlots # {} /\ lease[j] = NoSlot
      /\ UNCHANGED <<disp, st, idn, child, payload, marker, slots, task, proc, lock, sup, agents, faults>>
  BY DEF Acquire
<1>2. LowestFree \in Slots
  <2>1. slots \in 1 .. MaxSlots /\ MaxSlots \in Nat /\ FreeSlots \in SUBSET Nat
    BY HostAssumption DEF Base, DurableOK, Slots, FreeSlots
  <2>2. \E n \in FreeSlots : \A m \in FreeSlots : n <= m
    BY <1>1, <2>1, LeastNumber
  <2>3. LowestFree \in FreeSlots
    BY <2>2 DEF LowestFree
  <2>4. QED BY <2>1, <2>3 DEF FreeSlots, Slots
<1>3. DurableOK'
  BY <1>1, <1>2 DEF Base, DurableOK
<1>4. OneLease'
  BY <1>1 DEF Base, DurableOK, OneLease, SameTask
<1>5. \A k \in Jobs : lease[k] # NoSlot => lease'[k] # NoSlot
  BY <1>1 DEF Base, DurableOK
<1>6. QED BY <1>1, <1>3, <1>4, <1>5, Untouched

LEMMA HostStep ==
    ASSUME Base,
           \/ \E j \in Jobs : Prepare(j) \/ LatePrepare(j)
           \/ \E n \in Slots : SetSlotCount(n)
           \/ \E t \in Tasks : Close(t)
           \/ \E s \in Supervisors : AgentEnds(s)
    PROVE  Base'
<1>1. CASE \E n \in Slots : SetSlotCount(n)
  BY <1>1, Untouched DEF SetSlotCount, Base, DurableOK, OneLease, SameTask
<1>2. CASE \E t \in Tasks : Close(t)
  <2>1. PICK t \in Tasks : Close(t)
    BY <1>2
  <2>2. DurableOK'
    <3>1. task' \in [Tasks -> [state : {"none", "active", "open", "closed"}, turn : Jobs \cup {None}]]
      BY <2>1 DEF Close, Base, DurableOK
    <3>2. QED BY <2>1, <3>1 DEF Close, Base, DurableOK
  <2>3. QED BY <2>1, <2>2, Untouched DEF Close, Base, OneLease, SameTask
<1>3. CASE \E s \in Supervisors : AgentEnds(s)
  BY <1>3, Untouched DEF AgentEnds, durable, Base, DurableOK, OneLease, SameTask
<1>4. ASSUME NEW j \in Jobs, Prepare(j) \/ LatePrepare(j) PROVE Base'
  <2>1. /\ task' = [task EXCEPT ![TaskOf[j]] = [state |-> "active", turn |-> j]] /\ TaskOf[j] \in Tasks
        /\ UNCHANGED <<disp, st, idn, child, payload, marker, lease, slots, proc, lock, sup, agents>>
        /\ faults' \in Faults
    BY <1>4, FaultTypes, HostAssumption DEF Prepare, LatePrepare, PrepareTask, Base, DurableOK
  <2>2. task' \in [Tasks -> [state : {"none", "active", "open", "closed"}, turn : Jobs \cup {None}]]
    BY <2>1, TaskTypes DEF Base
  <2>3. DurableOK'
    BY <2>1, <2>2 DEF Base, DurableOK
  <2>4. QED BY <2>1, <2>3, Untouched DEF Base, OneLease, SameTask
<1>5. QED BY <1>1, <1>2, <1>3, <1>4

-----------------------------------------------------------------------------
(* The invariant holds initially, and every step keeps it. *)

LEMMA InitBase == Init => Base
<1> SUFFICES ASSUME Init PROVE Base
  OBVIOUS
<1> USE Distinct
<1>1. PICK load \in Loads :
         /\ disp = [j \in Jobs |-> IF j \in load.jobs THEN "none" ELSE "abandoned"]
         /\ faults = load.faults
  BY DEF Init
<1>2. faults \in Faults
  BY <1>1, LoadsAssumption DEF Load
<1>3. \A p \in Procs : proc[p] = Idle /\ proc[p].pc = "idle"
  BY DEF Init, Idle
<1>4. Idle \in Doings
  BY DEF Idle, Doings
<1>5. DurableOK
  <2>1. proc \in [Procs -> Doings]
    BY <1>4 DEF Init
  <2>2. slots \in Slots
    BY HostAssumption DEF Init, Slots
  <2>3. task \in [Tasks -> [state : {"none", "active", "open", "closed"}, turn : Jobs \cup {None}]]
    BY DEF Init
  <2>4. QED BY <1>1, <1>2, <2>1, <2>2, <2>3 DEF Init, DurableOK
<1>6. LocksHeld
  BY <1>3 DEF Init, LocksHeld
<1>7. OneLease /\ Stages
  BY <1>3 DEF Init, OneLease, Stages
<1>8. OneWay
  BY <1>1 DEF Init, OneWay, Terminal
<1>9. QED BY <1>5, <1>6, <1>7, <1>8 DEF Base

LEMMA BaseStep == Base /\ [Next]_vars => Base'
<1> SUFFICES ASSUME Base, [Next]_vars PROVE Base'
  OBVIOUS
<1> USE Distinct
<1>1. CASE UNCHANGED vars
  BY <1>1, Untouched DEF vars, durable, Base, DurableOK, OneLease, SameTask
<1>2. ASSUME NEW r \in Requests, Step(r) \/ LaunchFails(r) PROVE Base'
  BY <1>2, SubmitStep, PublishFinalStep, RecordAcceptedStep, AgainStep, UnindexedStep, AcceptedStep,
     RefusedStep, TakeLaunchStep, LaunchStep, TakeRecoverStep, TakeOrphanStep, TakeCancelStep,
     KillStep, StripOrphanStep, EndJobStep, AbandonStep, SweepStep, LaunchFailsStep DEF Step
<1>3. ASSUME NEW s \in Supervisors,
             Supervise(s) \/ AgentEnds(s) \/ PrelaunchFails(s) \/ Ambiguous(s) \/ WaitFails(s)
      PROVE  Base'
  BY <1>3, StartStep, SpawnStep, ExecStep, RunStep, WaitedStep, RelockStep, AmbiguousEndedStep,
     FinishStep, HostStep, PrelaunchFailsStep, AmbiguousStep, WaitFailsStep DEF Supervise
<1>4. ASSUME NEW p \in Procs, EndTurn(p) \/ TellFails(p) \/ Die(p) PROVE Base'
  BY <1>4, TellStep, CloseOwnStep, RetireStep, CleanStep, FreeStep, TellFailsStep, DieStep DEF EndTurn
<1>5. ASSUME \/ \E j \in Jobs : Acquire(j) \/ Prepare(j) \/ LatePrepare(j)
             \/ \E n \in Slots : SetSlotCount(n)
             \/ \E t \in Tasks : Close(t)
             \/ \E r \in Requests, k \in Kinds, j \in Jobs : Arrive(r, k, j)
             \/ Reboot
      PROVE  Base'
  BY <1>5, AcquireStep, HostStep, ArriveStep, RebootStep
<1>6. QED BY <1>1, <1>2, <1>3, <1>4, <1>5 DEF Next

LEMMA BaseHolds == Spec => []Base
BY InitBase, BaseStep, PTL DEF Spec

(* The state of a worker Mac has its types, and the admission lock and the lock
   of a job are held by processes that run, of that job (lease.rs,
   job_service.rs, supervisor.rs): no death, reboot or early return leaves a
   lock behind. *)
THEOREM HostTypes == Spec => []HostTypeOK
<1>1. Base => HostTypeOK
  BY Distinct DEF Base, DurableOK, LocksHeld, HostTypeOK
<1>2. QED BY <1>1, BaseHolds, PTL

(* Only reconciliation of an orphan and a supervisor that could not launch write
   Lost.  The first has seen the supervisor dead under the job's lock, and it
   stays dead; the second knows that its job is not Running. *)
LEMMA LiveStep ==
    Base /\ [Next]_vars => \A j \in Jobs : st[j] = "running" /\ Alive(idn[j]) => st'[j] # "lost"
<1> SUFFICES ASSUME Base, [Next]_vars, NEW j \in Jobs, st[j] = "running", Alive(idn[j]), st'[j] = "lost"
             PROVE  FALSE
  OBVIOUS
<1> USE Distinct
<1>1. st' # st
  OBVIOUS
<1>2. ASSUME NEW r \in Requests, PublishFinal(r) PROVE FALSE
  BY <1>2 DEF PublishFinal, Base, DurableOK
<1>3. ASSUME NEW s \in Supervisors, Run(s) PROVE FALSE
  BY <1>3 DEF Run, Base, DurableOK
<1>4. ASSUME NEW r \in Requests, EndJob(r) PROVE FALSE
  <2>1. Stage(r, "end") /\ proc[r].pc = "end" /\ st' = [st EXCEPT ![proc[r].job] = IF proc[r].kind = "cancel" THEN "cancelled" ELSE "lost"]
    BY <1>4 DEF EndJob, At, Base, Stages
  <2>2. proc[r].job = j /\ proc[r].kind # "cancel"
    BY <2>1 DEF Base, DurableOK
  <2>3. QED BY <2>1, <2>2 DEF Stage, Alive
<1>5. ASSUME NEW s \in Supervisors, NEW e \in Terminal, Finish(s, e) PROVE FALSE
  <2>1. proc[s].pc = "lose" /\ proc[s].job = j
    BY <1>5 DEF Finish, At, Base, DurableOK
  <2>2. QED BY <2>1 DEF Base, Stages, Stage
<1>6. st' = st \/ (\E r \in Requests : PublishFinal(r) \/ EndJob(r))
              \/ (\E s \in Supervisors : Run(s) \/ \E e \in Terminal : Finish(s, e))
  <2>1. ASSUME NEW r \in Requests, Step(r) \/ LaunchFails(r), ~PublishFinal(r), ~EndJob(r) PROVE st' = st
    BY <2>1 DEF Step, Submit, RecordAccepted, Again, Unindexed, Accepted, Refused, TakeLaunch, Launch,
         TakeRecover, TakeOrphan, Supervised, TakeCancel, Kill, StripOrphan, Abandon, Sweep, LaunchFails,
         durable
  <2>2. ASSUME NEW s \in Supervisors,
               Supervise(s) \/ AgentEnds(s) \/ PrelaunchFails(s) \/ Ambiguous(s) \/ WaitFails(s),
               ~Run(s), ~\E e \in Terminal : Finish(s, e)
        PROVE  st' = st
    BY <2>2 DEF Supervise, Start, Spawn, Exec, Waited, Relock, AmbiguousEnded, AgentEnds, PrelaunchFails,
         Ambiguous, WaitFails, durable
  <2>3. ASSUME NEW p \in Procs, EndTurn(p) \/ TellFails(p) \/ Die(p) PROVE st' = st
    BY <2>3 DEF EndTurn, Tell, CloseOwn, Retire, Clean, Free, TellFails, Die, durable
  <2>4. ASSUME \/ \E k \in Jobs : Acquire(k) \/ Prepare(k) \/ LatePrepare(k)
               \/ \E n \in Slots : SetSlotCount(n)
               \/ \E t \in Tasks : Close(t)
               \/ \E r \in Requests, k \in Kinds, i \in Jobs : Arrive(r, k, i)
               \/ Reboot \/ UNCHANGED vars
        PROVE  st' = st
    BY <2>4 DEF Acquire, Prepare, LatePrepare, SetSlotCount, Close, Arrive, Reboot, vars, durable
  <2>5. QED BY <2>1, <2>2, <2>3, <2>4 DEF Next
<1>7. QED BY <1>1, <1>2, <1>3, <1>4, <1>5, <1>6

(* No query takes a running job for an orphan while its supervisor lives
   (status_from_accepted_after looks at the recorded process under the job's
   lock), for any numbers of jobs, requests and supervisors and any faults. *)
THEOREM LiveTurnsAreKept == Spec => LiveTurnKept
<1>1. Base /\ [Next]_vars =>
         [\A j \in Jobs : st[j] = "running" /\ Alive(idn[j]) => st'[j] # "lost"]_vars
  BY LiveStep
<1>2. QED BY <1>1, BaseHolds, PTL DEF Spec, LiveTurnKept

-----------------------------------------------------------------------------
(* The agents.  On top of Base: every agent is recorded, and a supervisor that
   waits for an agent it may have let run will learn of its end. *)

CoverInv == AgentsRecorded /\ AwaitSafe

Fewer == faults'.kinds = faults.kinds /\ faults'.left \in Nat /\ faults'.left <= faults.left

LEMMA FaultsGoDown ==
    ASSUME Base, UNCHANGED faults \/ \E k \in FaultKinds : Fault(k) PROVE Fewer
<1>1. faults \in Faults
  BY DEF Base, DurableOK
<1>2. faults.left \in Nat
  BY <1>1, HostAssumption DEF Faults
<1>3. CASE UNCHANGED faults
  BY <1>2, <1>3 DEF Fewer
<1>4. ASSUME NEW k \in FaultKinds, Fault(k) PROVE Fewer
  BY <1>1, <1>2, <1>4, FaultTypes DEF Fewer
<1>5. QED BY <1>3, <1>4

(* A step of p alone that ends no job and takes no lease away. *)
Calm(p) ==
    /\ Others(p) /\ UNCHANGED <<agents, idn, child, lease>>
    /\ \A j \in Jobs : /\ disp[j] = "accepted" => disp'[j] = "accepted"
                       /\ st'[j] \in Terminal => st[j] \in Terminal

LEMMA CalmCovers ==
    ASSUME Base, CoverInv, NEW p \in Procs, Calm(p), Fewer,
           p \in agents => /\ proc'[p].pc \in {"exec", "wait", "await", "dead"}
                           /\ proc'[p].job = proc[p].job,
           p \in Requests => \/ proc'[p].pc \notin {"strip", "end"}
                             \/ \A s \in agents : proc[s].job # proc'[p].job,
           p \in Supervisors => proc'[p].pc # "await"
    PROVE  CoverInv'
<1> USE Distinct
<1>0. agents' = agents /\ agents \subseteq Supervisors /\ faults.left \in Nat
  BY HostAssumption DEF Calm, Base, DurableOK, Faults
<1>1. ASSUME NEW s \in agents PROVE Recorded(s)' /\ proc'[s].job = proc[s].job
  <2>1. s \in Procs /\ proc[s].job \in Jobs /\ Recorded(s)
    BY <1>0, <1>1 DEF CoverInv, AgentsRecorded, Recorded, Base, Stages, Stage
  <2>2. proc'[s].pc \in {"exec", "wait", "await", "dead"} /\ proc'[s].job = proc[s].job
    BY <1>0, <1>1, <2>1 DEF Recorded, Calm, Others
  <2>3. QED BY <2>1, <2>2 DEF Recorded, Calm
<1>2. ASSUME NEW r \in Requests, proc'[r].pc \in {"strip", "end"}, NEW s \in agents
      PROVE  proc'[s].job # proc'[r].job
  BY <1>0, <1>1, <1>2 DEF CoverInv, AgentsRecorded, Calm, Others
<1>3. AwaitSafe'
  BY <1>0 DEF CoverInv, AwaitSafe, NotBoth, NoWaitFault, Calm, Others, Fewer
<1>4. QED BY <1>0, <1>1, <1>2, <1>3 DEF CoverInv, AgentsRecorded

(* What the agents of a job say of it. *)
LEMMA AgentFacts ==
    ASSUME Base, CoverInv, NEW s \in agents
    PROVE  s \in Supervisors /\ proc[s].job \in Jobs /\ Recorded(s)
BY Distinct DEF Base, DurableOK, Stages, Stage, CoverInv, AgentsRecorded, Recorded

(* Requests that write no status. *)
LEMMA RequestsCalm ==
    ASSUME Base, CoverInv, NEW r \in Requests,
           \/ Submit(r) \/ PublishFinal(r) \/ RecordAccepted(r) \/ Again(r) \/ Unindexed(r)
           \/ Accepted(r) \/ Refused(r) \/ TakeLaunch(r) \/ TakeRecover(r) \/ TakeOrphan(r)
           \/ Supervised(r) \/ Abandon(r) \/ Sweep(r) \/ LaunchFails(r)
    PROVE  CoverInv'
<1> USE Distinct
<1>0. r \in Procs /\ r \notin agents /\ proc \in [Procs -> Doings]
  BY DEF Base, DurableOK
<1>1. /\ UNCHANGED <<agents, idn, child, lease>>
      /\ (UNCHANGED faults \/ Fault("launch"))
  BY DEF Submit, PublishFinal, RecordAccepted, Again, Unindexed, Accepted, Refused, TakeLaunch,
         TakeRecover, TakeOrphan, Supervised, Abandon, Sweep, LaunchFails, durable
<1>2. Others(r) /\ proc'[r].pc \notin {"strip", "end"}
  <2>1. CASE Refused(r) \/ Supervised(r) \/ LaunchFails(r)
    BY <2>1, EndGoes DEF Refused, Supervised, LaunchFails, Gone, Base, Idle
  <2>2. CASE \/ Submit(r) \/ PublishFinal(r) \/ RecordAccepted(r) \/ Again(r) \/ Unindexed(r)
             \/ Accepted(r) \/ TakeLaunch(r) \/ TakeOrphan(r) \/ Abandon(r) \/ Sweep(r)
    <3>1. PICK l \in {"query", "publish", "index", "again", "launch", "kill", "sweep", "free"} : Goto(r, l)
      BY <2>2 DEF Submit, PublishFinal, RecordAccepted, Again, Unindexed, Accepted, TakeLaunch,
         TakeOrphan, Abandon, Sweep
    <3>2. QED BY <3>1, GotoMoves DEF Moved, Base
  <2>3. CASE TakeRecover(r)
    BY <1>0, <2>3 DEF TakeRecover, Others, Doings
  <2>4. QED BY <2>1, <2>2, <2>3
<1>3. \A j \in Jobs : /\ disp[j] = "accepted" => disp'[j] = "accepted"
                      /\ st'[j] \in Terminal => st[j] \in Terminal
  <2>1. CASE PublishFinal(r) \/ RecordAccepted(r) \/ Abandon(r)
    BY <2>1 DEF PublishFinal, RecordAccepted, Abandon, Base, DurableOK, Terminal
  <2>2. CASE ~(PublishFinal(r) \/ RecordAccepted(r) \/ Abandon(r))
    <3>1. UNCHANGED <<disp, st>>
      BY <2>2 DEF Submit, Again, Unindexed, Accepted, Refused, TakeLaunch,
         TakeRecover, TakeOrphan, Supervised, Sweep, LaunchFails, durable
    <3>2. QED BY <3>1
  <2>3. QED BY <2>1, <2>2
<1>4. Fewer
  BY <1>1, FaultsGoDown DEF FaultKinds
<1>5. Calm(r)
  BY <1>1, <1>2, <1>3 DEF Calm
<1>6. QED BY <1>0, <1>2, <1>4, <1>5, CalmCovers

(* A cancellation of a job without a child finds no agent; with one it kills
   first, as a reconciliation does. *)
LEMMA EndingRequests ==
    ASSUME Base, CoverInv, NEW r \in Requests, TakeCancel(r) \/ Kill(r) \/ StripOrphan(r) \/ EndJob(r)
    PROVE  CoverInv'
<1> USE Distinct
<1> DEFINE j == proc[r].job
<1>0. /\ r \in Procs /\ r \notin agents /\ j \in Jobs /\ proc \in [Procs -> Doings]
      /\ st \in [Jobs -> {"none", "accepted", "running"} \cup Terminal]
  BY DEF Base, DurableOK, Stages, Stage, TakeCancel, Kill, StripOrphan, EndJob, At
<1>1. UNCHANGED <<idn, child, lease, disp, faults>>
  BY DEF TakeCancel, Kill, StripOrphan, EndJob, durable
<1>2. Fewer
  BY <1>1, FaultsGoDown
<1>3. Others(r) /\ proc'[r].job = j
  <2>1. CASE TakeCancel(r) \/ Kill(r)
    BY <2>1, GotoMoves DEF TakeCancel, Kill, Base, Moved
  <2>2. CASE StripOrphan(r) \/ EndJob(r)
    BY <1>0, <2>2 DEF StripOrphan, EndJob, Others, Doings
  <2>3. QED BY <2>1, <2>2
<1>4. CASE TakeCancel(r)
  <2>1. Calm(r)
    BY <1>1, <1>3, <1>4 DEF Calm, TakeCancel, durable
  <2>2. child[j] \/ \A s \in agents : proc[s].job # j
    BY AgentFacts DEF Recorded
  <2>3. proc'[r].pc \notin {"strip", "end"} \/ \A s \in agents : proc[s].job # j
    BY <1>4, <2>2, GotoMoves DEF TakeCancel, Base, Moved
  <2>4. QED BY <1>0, <1>2, <1>3, <2>1, <2>3, CalmCovers
<1>5. CASE StripOrphan(r)
  <2>1. Calm(r)
    BY <1>1, <1>3, <1>5 DEF Calm, StripOrphan
  <2>2. \A s \in agents : proc[s].job # j
    BY <1>5 DEF StripOrphan, At, CoverInv, AgentsRecorded
  <2>3. QED BY <1>0, <1>2, <1>3, <2>1, <2>2, CalmCovers
<1>6. CASE Kill(r)
  <2>1. agents' \subseteq agents /\ st' = st /\ proc[r].pc = "kill"
    BY <1>6 DEF Kill, durable, At
  <2>2. \A s \in agents' : proc[s].job # j
    BY <1>6, AgentFacts DEF Kill, Recorded
  <2>3. \A s \in agents' : proc'[s] = proc[s] /\ Recorded(s) /\ s \in Procs
    BY <1>0, <1>3, <2>1, AgentFacts DEF Others
  <2>4. AgentsRecorded'
    BY <1>1, <1>3, <2>1, <2>2, <2>3 DEF AgentsRecorded, CoverInv, Recorded, Others
  <2>5. AwaitSafe'
    BY <1>1, <1>3 DEF CoverInv, AwaitSafe, NotBoth, NoWaitFault, Others
  <2>6. QED BY <2>4, <2>5 DEF CoverInv
<1>7. CASE EndJob(r)
  <2>1. agents' = agents /\ \A k \in Jobs \ {j} : st'[k] = st[k]
    BY <1>0, <1>7 DEF EndJob
  <2>2. \A s \in agents : proc[s].job # j
    BY <1>7 DEF EndJob, At, CoverInv, AgentsRecorded
  <2>3. \A s \in agents' : proc'[s] = proc[s] /\ Recorded(s) /\ s \in Procs /\ proc[s].job \in Jobs \ {j}
    BY <1>0, <1>3, <2>1, <2>2, AgentFacts DEF Others
  <2>4. AgentsRecorded'
    BY <1>1, <1>3, <2>1, <2>2, <2>3 DEF AgentsRecorded, CoverInv, Recorded, Others
  <2>5. AwaitSafe'
    BY <1>1, <1>3 DEF CoverInv, AwaitSafe, NotBoth, NoWaitFault, Others
  <2>6. QED BY <2>4, <2>5 DEF CoverInv
<1>8. QED BY <1>4, <1>5, <1>6, <1>7

(* The supervisor: it lets its agent run when it has recorded it, and goes on
   only once the agent has ended. *)
LEMMA SupervisorsCalm ==
    ASSUME Base, CoverInv, NEW s \in Supervisors,
           Run(s) \/ Waited(s) \/ Relock(s) \/ AmbiguousEnded(s) \/ PrelaunchFails(s) \/ WaitFails(s)
    PROVE  CoverInv'
<1> USE Distinct
<1>0. s \in Procs /\ proc \in [Procs -> Doings] /\ st \in [Jobs -> {"none", "accepted", "running"} \cup Terminal]
  BY DEF Base, DurableOK
<1>1. UNCHANGED <<agents, idn, child, lease, disp>> /\ (UNCHANGED faults \/ \E k \in FaultKinds : Fault(k))
  BY DEF Run, Waited, Relock, AmbiguousEnded, PrelaunchFails, WaitFails, durable, FaultKinds
<1>2. Fewer
  BY <1>1, FaultsGoDown
<1>3. /\ Others(s) /\ proc'[s].job = proc[s].job /\ proc'[s].pc # "await"
      /\ (Run(s) => proc'[s].pc = "wait")
      /\ (WaitFails(s) /\ proc[s].pc = "wait" => proc'[s].pc = "dead")
  <2>1. CASE Run(s) \/ Waited(s) \/ AmbiguousEnded(s)
    BY <2>1, GotoMoves DEF Run, Waited, AmbiguousEnded, WaitFails, Moved, Base, At
  <2>2. CASE PrelaunchFails(s)
    <3>1. Moved(s, "lose") /\ proc[s].pc \in {"armed", "ready"}
      BY <2>2, GotoMoves, TurnMoves DEF PrelaunchFails, Base, At
    <3>2. QED BY <3>1 DEF WaitFails, Run, Moved, At
  <2>3. CASE Relock(s) \/ WaitFails(s)
    BY <2>3, GotoMoves, EndGoes DEF Relock, WaitFails, Run, Moved, Gone, Base, At
  <2>4. QED BY <2>1, <2>2, <2>3
<1>4. Calm(s)
  BY <1>0, <1>1, <1>3 DEF Calm, Run, Waited, Relock, AmbiguousEnded, PrelaunchFails, WaitFails, durable, Terminal
<1>5. s \in agents => proc'[s].pc \in {"exec", "wait", "await", "dead"}
  <2>1. SUFFICES ASSUME s \in agents PROVE proc'[s].pc \in {"wait", "dead"}
    OBVIOUS
  <2>2. proc[s].pc \in {"exec", "wait", "await", "dead"}
    BY <2>1, AgentFacts DEF Recorded
  <2>3. ~(WaitFails(s) /\ proc[s].pc = "await")
    <3>1. faults \in Faults
      BY DEF Base, DurableOK
    <3>2. QED BY <3>1, FaultTypes DEF WaitFails, CoverInv, AwaitSafe, NoWaitFault
  <2>4. QED BY <1>3, <2>1, <2>2, <2>3 DEF Run, Waited, Relock, AmbiguousEnded, PrelaunchFails, WaitFails, At
<1>6. QED BY <1>0, <1>2, <1>3, <1>4, <1>5, CalmCovers

LEMMA RecordingSupervisors ==
    ASSUME Base, CoverInv, NEW s \in Supervisors, Start(s) \/ Spawn(s)
    PROVE  CoverInv'
<1> USE Distinct
<1> DEFINE j == proc[s].job
<1>0. s \in Procs /\ j \in Jobs /\ proc \in [Procs -> Doings] /\ proc[s].pc \in {"start", "armed"}
  BY DEF Base, DurableOK, Stages, Stage, Start, Spawn, At
<1>1. /\ UNCHANGED <<agents, lease, disp, st, faults>>
      /\ Others(s) /\ proc'[s].pc \in {"armed", "ready"}
      /\ \A k \in Jobs \ {j} : idn'[k] = idn[k] /\ child'[k] = child[k]
  <2>1. Others(s) /\ proc'[s].pc \in {"armed", "ready"}
    BY GotoMoves DEF Start, Spawn, Moved, Base
  <2>2. QED BY <2>1 DEF Start, Spawn, Base, DurableOK
<1>2. ASSUME NEW u \in agents
      PROVE  u \in Procs \ {s} /\ proc[u].job \in Jobs \ {j} /\ Recorded(u)
  <2>1. Recorded(u) /\ u \in Supervisors /\ proc[u].job \in Jobs
    BY <1>2, AgentFacts
  <2>2. u # s
    BY <1>0, <2>1 DEF Recorded
  <2>3. idn[j] \in {s, None}
    BY DEF Start, Spawn, At, Identityless, Base, Stages, Stage
  <2>4. QED BY <2>1, <2>2, <2>3 DEF Recorded
<1>3. AgentsRecorded'
  BY <1>1, <1>2 DEF AgentsRecorded, CoverInv, Recorded, Others
<1>4. AwaitSafe'
  BY <1>1 DEF CoverInv, AwaitSafe, NotBoth, NoWaitFault, Others
<1>5. QED BY <1>3, <1>4 DEF CoverInv

LEMMA OpeningSupervisors ==
    ASSUME Base, CoverInv, NEW s \in Supervisors, Exec(s) \/ Ambiguous(s)
    PROVE  CoverInv'
<1> USE Distinct
<1> DEFINE j == proc[s].job
<1>0. /\ s \in Procs /\ proc[s].pc \in {"ready", "exec"} /\ Stage(s, proc[s].pc) /\ j \in Jobs
      /\ sup[j] = s /\ agents' = agents \cup {s}
      /\ UNCHANGED <<disp, st, idn, child, lease>>
  BY DEF Exec, Ambiguous, At, Base, LocksHeld, Stages, Stage, durable
<1>1. /\ Others(s) /\ proc'[s].pc \in {"exec", "await"} /\ proc'[s].job = j
      /\ (Exec(s) => proc'[s].pc = "exec")
  BY GotoMoves DEF Exec, Ambiguous, Moved, Base
<1>2. Recorded(s)'
  BY <1>0, <1>1 DEF Recorded, Stage, Terminal
<1>3. ASSUME NEW u \in agents, u # s PROVE Recorded(u)' /\ proc'[u].job = proc[u].job
  BY <1>0, <1>1, <1>3, AgentFacts DEF Recorded, Others
<1>4. ASSUME NEW r \in Requests, proc'[r].pc \in {"strip", "end"}, NEW u \in agents' 
      PROVE  proc'[u].job # proc'[r].job
  <2>1. proc'[r] = proc[r] /\ r \in Procs /\ proc[r].pc \in UnderSup
    BY <1>1, <1>4 DEF Others
  <2>2. sup[proc[r].job] = r
    BY <2>1 DEF Base, LocksHeld
  <2>3. CASE u = s
    BY <1>0, <1>1, <2>1, <2>2, <2>3
  <2>4. CASE u # s
    BY <1>0, <1>3, <1>4, <2>1, <2>4 DEF CoverInv, AgentsRecorded
  <2>5. QED BY <2>3, <2>4
<1>5. AwaitSafe'
  <2>1. CASE Exec(s)
    BY <1>1, <2>1 DEF Exec, CoverInv, AwaitSafe, NotBoth, NoWaitFault, Others
  <2>2. CASE Ambiguous(s)
    <3>1. faults \in Faults /\ Fault("launch")
      BY <2>2 DEF Ambiguous, Base, DurableOK
    <3>2. /\ faults'.kinds = faults.kinds /\ faults'.left = faults.left - 1
          /\ faults.left \in Nat \ {0} /\ "launch" \in faults.kinds
      BY <3>1, FaultTypes
    <3>3. NotBoth(faults)
      BY DEF CoverInv, AwaitSafe
    <3>4. NotBoth(faults') /\ NoWaitFault(faults')
      BY <3>2, <3>3 DEF NotBoth, NoWaitFault
    <3>5. QED BY <3>4 DEF AwaitSafe, NotBoth, NoWaitFault
  <2>3. QED BY <2>1, <2>2
<1>6. QED BY <1>0, <1>2, <1>3, <1>4, <1>5 DEF CoverInv, AgentsRecorded

(* A supervisor that has waited, and one that lost, has no agent when it ends
   its job. *)
LEMMA FinishCovers ==
    ASSUME Base, CoverInv, NEW s \in Supervisors, NEW e \in Terminal, Finish(s, e)
    PROVE  CoverInv'
<1> USE Distinct
<1> DEFINE j == proc[s].job
<1>0. /\ s \in Procs /\ proc[s].pc \in {"finish", "lose"} /\ Stage(s, proc[s].pc) /\ j \in Jobs
      /\ st \in [Jobs -> {"none", "accepted", "running"} \cup Terminal]
      /\ UNCHANGED <<disp, idn, child, lease, agents, faults>> /\ idn[j] = s
  BY DEF Finish, At, Base, DurableOK, Stages, Stage
<1>1. Others(s) /\ proc'[s].pc = "tell" /\ \A k \in Jobs \ {j} : st'[k] = st[k]
  BY <1>0, GotoMoves DEF Finish, Moved, Base
<1>2. ASSUME NEW u \in agents
      PROVE  u \in Procs \ {s} /\ proc[u].job \in Jobs \ {j} /\ Recorded(u)
  BY <1>0, <1>2, AgentFacts DEF Recorded
<1>3. AgentsRecorded'
  BY <1>0, <1>1, <1>2 DEF AgentsRecorded, CoverInv, Recorded, Others
<1>4. AwaitSafe'
  BY <1>0, <1>1 DEF CoverInv, AwaitSafe, NotBoth, NoWaitFault, Others
<1>5. QED BY <1>3, <1>4 DEF CoverInv

(* The end of a turn: whoever is there has no agent, and only the lease of a
   job that ended or was abandoned is released. *)
LEMMA TurnEndsCovered ==
    ASSUME Base, CoverInv, NEW p \in Procs, EndTurn(p) \/ TellFails(p) \/ Die(p)
    PROVE  CoverInv'
<1> USE Distinct
<1>0. /\ UNCHANGED <<agents, idn, child, disp, st>> /\ proc[p].pc # "idle" /\ Stage(p, proc[p].pc)
      /\ (UNCHANGED faults \/ \E k \in FaultKinds : Fault(k))
  BY DEF EndTurn, Tell, CloseOwn, Retire, Clean, Free, TellFails, Die, Alive, At, durable, Base, Stages,
         FaultKinds
<1>1. Fewer
  BY <1>0, FaultsGoDown
<1>2. CASE \E l \in {"retire", "close", "clean", "free"} : Goto(p, l)
  <2>1. Others(p) /\ proc'[p].pc \in {"retire", "close", "clean", "free"}
    BY <1>2, GotoMoves DEF Moved, Base
  <2>2. p \notin agents /\ lease' = lease
    <3>1. proc[p].pc \notin {"exec", "wait", "await", "dead"} /\ lease' = lease
      <4>1. CASE Die(p) \/ Free(p)
        <5>1. Gone(p)
          BY <4>1, EndGoes DEF Die, Free, Base
        <5>2. QED BY <2>1, <5>1 DEF Gone, Idle
      <4>2. CASE ~(Die(p) \/ Free(p))
        BY <4>2 DEF EndTurn, Tell, CloseOwn, Retire, Clean, TellFails, At, durable
      <4>3. QED BY <4>1, <4>2
    <3>2. QED BY <3>1, AgentFacts DEF Recorded
  <2>3. Calm(p)
    BY <1>0, <2>1, <2>2 DEF Calm
  <2>4. QED BY <1>1, <2>1, <2>2, <2>3, CalmCovers
<1>3. CASE End(p) /\ lease' = lease
  <2>1. Gone(p)
    BY <1>3, EndGoes DEF Base
  <2>2. Calm(p)
    BY <1>0, <1>3, <2>1 DEF Calm, Gone
  <2>3. p \in agents => p \in Supervisors
    BY DEF Base, DurableOK
  <2>4. QED BY <1>1, <2>1, <2>2, <2>3, CalmCovers DEF Gone, Idle
<1>4. CASE Free(p)
  <2>1. /\ Gone(p) /\ proc[p].pc = "free" /\ faults' = faults
        /\ proc[p].job \in Jobs /\ lease' = [lease EXCEPT ![proc[p].job] = NoSlot]
    BY <1>0, <1>4, EndGoes DEF Free, Base, At, Stage
  <2>2. ASSUME NEW u \in agents
        PROVE  u \in Procs \ {p} /\ proc[u].job \in Jobs \ {proc[p].job} /\ Recorded(u)
    BY <1>0, <2>1, <2>2, AgentFacts DEF Recorded, Stage
  <2>3. \A u \in agents : proc'[u] = proc[u] /\ lease'[proc[u].job] = lease[proc[u].job]
    BY <2>1, <2>2 DEF Gone, Others, Base, DurableOK
  <2>4. proc'[p].pc \in {"idle", "dead"}
    BY <2>1 DEF Gone, Idle
  <2>5. AgentsRecorded'
    BY <1>0, <2>1, <2>2, <2>3, <2>4 DEF AgentsRecorded, CoverInv, Recorded, Gone, Others
  <2>6. AwaitSafe'
    BY <2>1, <2>4 DEF CoverInv, AwaitSafe, NotBoth, NoWaitFault, Gone, Others
  <2>7. QED BY <2>5, <2>6 DEF CoverInv
<1>5. QED
  <2>1. CASE EndTurn(p)
    BY <1>2, <1>4, <2>1 DEF EndTurn, Tell, CloseOwn, Retire, Clean
  <2>2. CASE TellFails(p)
    BY <1>2, <1>3, <2>2 DEF TellFails, durable
  <2>3. CASE Die(p)
    BY <1>3, <2>3 DEF Die, durable
  <2>4. QED BY <2>1, <2>2, <2>3

LEMMA CoverStep == Base /\ CoverInv /\ [Next]_vars => CoverInv'
<1> SUFFICES ASSUME Base, CoverInv, [Next]_vars PROVE CoverInv'
  OBVIOUS
<1> USE Distinct
<1>1. CASE UNCHANGED vars
  BY <1>1 DEF vars, durable, CoverInv, AgentsRecorded, AwaitSafe, Recorded, NotBoth, NoWaitFault
<1>2. ASSUME NEW r \in Requests, NEW s \in Supervisors, Launch(r, s) PROVE CoverInv'
  <2>1. /\ proc[r].pc = "launch" /\ proc[s].pc = "idle" /\ proc'[r] = Idle /\ proc'[s].pc = "start"
        /\ \A q \in Procs \ {r, s} : proc'[q] = proc[q]
        /\ UNCHANGED <<disp, st, idn, child, lease, agents, faults>>
    BY <1>2 DEF Launch, At, durable, Base, DurableOK
  <2>2. \A u \in agents : u \in Procs \ {r, s} /\ Recorded(u)
    BY <2>1, AgentFacts DEF Recorded
  <2>3. AgentsRecorded'
    BY <2>1, <2>2 DEF AgentsRecorded, CoverInv, Recorded, Idle
  <2>4. AwaitSafe'
    BY <2>1 DEF CoverInv, AwaitSafe, NotBoth, NoWaitFault
  <2>5. QED BY <2>3, <2>4 DEF CoverInv
<1>3. ASSUME NEW r \in Requests, Step(r) \/ LaunchFails(r) PROVE CoverInv'
  BY <1>2, <1>3, RequestsCalm, EndingRequests DEF Step
<1>4. ASSUME NEW s \in Supervisors,
             Supervise(s) \/ AgentEnds(s) \/ PrelaunchFails(s) \/ Ambiguous(s) \/ WaitFails(s)
      PROVE  CoverInv'
  <2>1. CASE AgentEnds(s)
    BY <2>1 DEF AgentEnds, durable, CoverInv, AgentsRecorded, AwaitSafe, Recorded, NotBoth, NoWaitFault
  <2>2. QED BY <1>4, <2>1, SupervisorsCalm, RecordingSupervisors, OpeningSupervisors, FinishCovers
            DEF Supervise
<1>5. ASSUME NEW r \in Requests, NEW k \in Kinds, NEW j \in Jobs, Arrive(r, k, j) PROVE CoverInv'
  <2>1. k \in {"submit", "query", "cancel", "resolve"}
    BY HostAssumption
  <2>2. Calm(r) /\ proc'[r].pc = k /\ faults' = faults /\ r \notin agents
    BY <1>5 DEF Arrive, Calm, Others, durable, Base, DurableOK
  <2>3. Fewer
    BY <2>2, FaultsGoDown
  <2>4. QED BY <2>1, <2>2, <2>3, CalmCovers
<1>6. ASSUME Reboot PROVE CoverInv'
  <2>1. agents' = {} /\ Fewer
    BY <1>6, FaultsGoDown DEF Reboot, FaultKinds
  <2>2. \A s \in Supervisors : proc'[s].pc # "await"
    <3> SUFFICES ASSUME NEW s \in Supervisors PROVE proc'[s].pc # "await"
      OBVIOUS
    <3>1. proc[s] \in Doings /\ proc'[s] = IF Alive(s) THEN [proc[s] EXCEPT !.pc = "dead"] ELSE proc[s]
      BY <1>6 DEF Reboot, Base, DurableOK
    <3>2. QED BY <3>1 DEF Alive, Doings
  <2>3. faults.left \in Nat
    BY HostAssumption DEF Base, DurableOK, Faults
  <2>4. QED BY <2>1, <2>2, <2>3 DEF CoverInv, AgentsRecorded, AwaitSafe, NotBoth, Fewer
<1>7. ASSUME \/ \E j \in Jobs : Acquire(j) \/ Prepare(j) \/ LatePrepare(j)
             \/ \E n \in Slots : SetSlotCount(n)
             \/ \E t \in Tasks : Close(t)
      PROVE  CoverInv'
  <2>1. UNCHANGED <<proc, agents, idn, child, disp, st>> /\ (UNCHANGED faults \/ \E k \in FaultKinds : Fault(k))
    BY <1>7 DEF Acquire, Prepare, LatePrepare, SetSlotCount, Close, FaultKinds
  <2>2. \A j \in Jobs : lease[j] # NoSlot => lease'[j] = lease[j]
    BY <1>7 DEF Acquire, Prepare, LatePrepare, SetSlotCount, Close, Base, DurableOK
  <2>3. Fewer /\ faults.left \in Nat
    BY <2>1, FaultsGoDown, HostAssumption DEF Base, DurableOK, Faults
  <2>4. AgentsRecorded'
    BY <2>1, <2>2, AgentFacts DEF AgentsRecorded, CoverInv, Recorded
  <2>5. AwaitSafe'
    BY <2>1, <2>3 DEF CoverInv, AwaitSafe, NotBoth, NoWaitFault, Fewer
  <2>6. QED BY <2>4, <2>5 DEF CoverInv
<1>8. QED BY <1>1, <1>3, <1>4, <1>5, <1>6, <1>7, TurnEndsCovered DEF Next

(* No agent works without a slot, or beside another agent of its task: whoever
   dies, reboots, cancels or reconciles, a running agent is the recorded child
   of the recorded supervisor of the one leased turn of its task.  It is proved
   for every mix of faults in which the launch and the wait of a turn do not
   both fail: supervise_job goes on to end the job when it cannot wait for an
   agent of which it does not know whether it runs. *)
THEOREM AgentsAreCovered ==
    ASSUME \A load \in Loads : NotBoth(load.faults)
    PROVE  Spec => []AgentCovered
<1>1. Init => CoverInv
  BY Distinct DEF Init, CoverInv, AgentsRecorded, AwaitSafe, NotBoth, Idle
<1>2. Base /\ CoverInv => AgentCovered
  <2> SUFFICES ASSUME Base, CoverInv, NEW s \in agents
               PROVE  /\ lease[proc[s].job] # NoSlot
                      /\ \A u \in agents : SameTask(proc[s].job, proc[u].job) => s = u
    BY DEF AgentCovered
  <2>1. lease[proc[s].job] # NoSlot
    BY AgentFacts DEF Recorded
  <2>2. ASSUME NEW u \in agents, SameTask(proc[s].job, proc[u].job) PROVE s = u
    <3>1. /\ proc[s].job \in Jobs /\ proc[u].job \in Jobs /\ lease[proc[u].job] # NoSlot
          /\ idn[proc[s].job] = s /\ idn[proc[u].job] = u
      BY AgentFacts DEF Recorded
    <3>2. proc[s].job = proc[u].job
      BY <2>1, <2>2, <3>1 DEF Base, OneLease
    <3>3. QED BY <3>1, <3>2
  <2>3. QED BY <2>1, <2>2
<1>3. Spec => []CoverInv
  BY <1>1, CoverStep, BaseHolds, PTL DEF Spec
<1>4. QED BY <1>2, <1>3, BaseHolds, PTL

-----------------------------------------------------------------------------
(* Where each step takes its process. *)

LEMMA RequestGoes ==
    ASSUME Base, NEW r \in Requests
    PROVE  /\ Submit(r) => Moved(r, "publish")
           /\ PublishFinal(r) => Moved(r, "index")
           /\ RecordAccepted(r) => Moved(r, "query") \/ Moved(r, "again")
           /\ Again(r) \/ Accepted(r) => Moved(r, "query")
           /\ Unindexed(r) => Moved(r, "index")
           /\ Refused(r) \/ Supervised(r) \/ LaunchFails(r) => Gone(r)
           /\ TakeLaunch(r) => Moved(r, "launch")
           /\ TakeRecover(r) => Moved(r, "recover") /\ proc'[r].turn = payload[proc[r].job]
           /\ TakeOrphan(r) => Moved(r, "kill")
           /\ TakeCancel(r) => Moved(r, "kill") \/ Moved(r, "end")
           /\ Kill(r) => Moved(r, IF proc[r].kind = "cancel" THEN "end" ELSE "strip")
           /\ StripOrphan(r) => Moved(r, "end") /\ proc'[r].turn = payload[proc[r].job]
           /\ EndJob(r) => /\ Moved(r, "tell")
                           /\ proc'[r].turn = IF proc[r].kind = "cancel" THEN payload[proc[r].job]
                                                                         ELSE proc[r].turn
           /\ Abandon(r) => Moved(r, "sweep")
           /\ Sweep(r) => Moved(r, "free")
<1> USE Distinct
<1>0. DurableOK /\ r \in Procs
  BY DEF Base
<1>1. \A l \in Pcs : Goto(r, l) => Moved(r, l)
  BY <1>0, GotoMoves
<1>2. End(r) => Gone(r)
  BY <1>0, EndGoes
<1>3. /\ Submit(r) => Moved(r, "publish")
      /\ PublishFinal(r) => Moved(r, "index")
      /\ RecordAccepted(r) => Moved(r, "query") \/ Moved(r, "again")
      /\ Again(r) \/ Accepted(r) => Moved(r, "query")
      /\ Unindexed(r) => Moved(r, "index")
  BY <1>1 DEF Submit, PublishFinal, RecordAccepted, Again, Accepted, Unindexed
<1>4. /\ Refused(r) \/ Supervised(r) \/ LaunchFails(r) => Gone(r)
      /\ TakeLaunch(r) => Moved(r, "launch")
      /\ TakeOrphan(r) => Moved(r, "kill")
      /\ TakeCancel(r) => Moved(r, "kill") \/ Moved(r, "end")
      /\ Abandon(r) => Moved(r, "sweep")
      /\ Sweep(r) => Moved(r, "free")
  BY <1>1, <1>2 DEF Refused, Supervised, LaunchFails, TakeLaunch, TakeOrphan, TakeCancel, Abandon, Sweep
<1>5. Kill(r) => Moved(r, IF proc[r].kind = "cancel" THEN "end" ELSE "strip")
  BY <1>1 DEF Kill
<1>6. ASSUME TakeRecover(r) \/ StripOrphan(r) \/ EndJob(r)
      PROVE  payload[proc[r].job] \in BOOLEAN /\ proc[r].turn \in BOOLEAN
  <2>1. proc[r].job \in Jobs
    BY <1>6 DEF TakeRecover, StripOrphan, EndJob, At, Base, Stages, Stage
  <2>2. QED BY <1>0, <2>1 DEF DurableOK, Doings
<1>7. TakeRecover(r) => Moved(r, "recover") /\ proc'[r].turn = payload[proc[r].job]
  BY <1>0, <1>6, TurnMoves DEF TakeRecover
<1>8. StripOrphan(r) => Moved(r, "end") /\ proc'[r].turn = payload[proc[r].job]
  BY <1>0, <1>6, TurnMoves DEF StripOrphan
<1>9. EndJob(r) => /\ Moved(r, "tell")
                   /\ proc'[r].turn = IF proc[r].kind = "cancel" THEN payload[proc[r].job]
                                                                 ELSE proc[r].turn
  BY <1>0, <1>6, TurnMoves DEF EndJob
<1>10. QED BY <1>3, <1>4, <1>5, <1>7, <1>8, <1>9

LEMMA SupervisorGoes ==
    ASSUME Base, NEW s \in Supervisors
    PROVE  /\ Start(s) => Moved(s, "armed")
           /\ Spawn(s) => Moved(s, "ready")
           /\ PrelaunchFails(s) \/ AmbiguousEnded(s) => Moved(s, "lose")
           /\ Exec(s) => Moved(s, "exec")
           /\ Ambiguous(s) => Moved(s, "await")
           /\ Run(s) => Moved(s, "wait")
           /\ Waited(s) => Moved(s, "relock")
           /\ Relock(s) => Gone(s) \/ Moved(s, "finish")
           /\ WaitFails(s) => Gone(s) \/ Moved(s, "lose")
           /\ \A e \in Terminal : Finish(s, e) => Moved(s, "tell")
<1> USE Distinct
<1>0. DurableOK /\ s \in Procs
  BY DEF Base
<1>1. \A l \in Pcs : Goto(s, l) => Moved(s, l)
  BY <1>0, GotoMoves
<1>2. End(s) => Gone(s)
  BY <1>0, EndGoes
<1>3. PrelaunchFails(s) => Moved(s, "lose")
  BY <1>0, <1>1, TurnMoves DEF PrelaunchFails
<1>4. QED
  BY <1>1, <1>2, <1>3 DEF Start, Spawn, AmbiguousEnded, Exec, Ambiguous, Run, Waited, Relock, WaitFails, Finish

LEMMA TurnGoes ==
    ASSUME Base, NEW p \in Procs
    PROVE  /\ Tell(p) => Moved(p, "retire") \/ Moved(p, "close")
           /\ TellFails(p) => Moved(p, "retire") \/ Gone(p)
           /\ CloseOwn(p) => Moved(p, "retire")
           /\ Retire(p) => Moved(p, "clean")
           /\ Clean(p) => Moved(p, "free")
           /\ Free(p) \/ Die(p) => Gone(p)
<1> USE Distinct
<1>1. \A l \in Pcs : Goto(p, l) => Moved(p, l)
  BY GotoMoves DEF Base
<1>2. End(p) => Gone(p)
  BY EndGoes DEF Base
<1>3. QED BY <1>1, <1>2 DEF Tell, TellFails, CloseOwn, Retire, Clean, Free, Die

-----------------------------------------------------------------------------
(* What every step does to the jobs: an index entry is written once, a terminal
   status is final and only an accepted job gets one, and a lease goes only
   through release_after_cleanup. *)

JobsOnward ==
    \A k \in Jobs :
        /\ disp[k] # "none" => disp'[k] = disp[k]
        /\ disp[k] = "none" /\ disp'[k] = "accepted" => \E p \in Procs : proc[p].pc = "index" /\ proc[p].job = k
        /\ st[k] \in Terminal => st'[k] \in Terminal
        /\ st'[k] \in Terminal => st[k] \in Terminal \/ disp[k] = "accepted"
        /\ lease[k] # NoSlot /\ lease'[k] = NoSlot =>
              lock' = None /\ \E p \in Procs : proc[p].pc = "free" /\ proc[p].job = k
        /\ disp[k] = "none" /\ disp'[k] # "abandoned" /\ st'[k] # "none" =>
              payload'[k] \/ (st[k] # "none" /\ ~payload[k])

LEMMA JobsGoOn ==
    ASSUME Base, [Next]_vars PROVE JobsOnward
<1> USE Distinct
<1>0. /\ disp \in [Jobs -> {"none", "accepted", "abandoned"}]
      /\ st \in [Jobs -> {"none", "accepted", "running"} \cup Terminal]
      /\ payload \in [Jobs -> BOOLEAN] /\ lease \in [Jobs -> Slots \cup {NoSlot}]
  BY DEF Base, DurableOK
<1>1. CASE UNCHANGED <<disp, st, lease, payload>>
  BY <1>1 DEF JobsOnward
<1>2. ASSUME NEW r \in Requests, PublishFinal(r) \/ RecordAccepted(r) \/ Abandon(r) PROVE JobsOnward
  <2>1. /\ proc[r].job \in Jobs /\ Stage(r, proc[r].pc) /\ lease' = lease
        /\ \A k \in Jobs \ {proc[r].job} : st'[k] = st[k] /\ disp'[k] = disp[k] /\ payload'[k] = payload[k]
    BY <1>0, <1>2 DEF PublishFinal, RecordAccepted, Abandon, At, Base, Stages, Stage
  <2>2. CASE PublishFinal(r)
    BY <1>0, <2>1, <2>2 DEF PublishFinal, JobsOnward, Terminal
  <2>3. CASE RecordAccepted(r)
    BY <1>0, <2>1, <2>3 DEF RecordAccepted, JobsOnward, At, Stage
  <2>4. CASE Abandon(r)
    BY <1>0, <2>1, <2>4 DEF Abandon, JobsOnward, At
  <2>5. QED BY <1>2, <2>2, <2>3, <2>4
<1>3. ASSUME NEW p \in Procs, UNCHANGED <<disp, lease>>, proc[p].job \in Jobs, disp[proc[p].job] # "none",
             \A k \in Jobs \ {proc[p].job} : st'[k] = st[k] /\ payload'[k] = payload[k],
             \/ st' = st
             \/ disp[proc[p].job] = "accepted" /\ st'[proc[p].job] \in Terminal
             \/ st[proc[p].job] = "accepted" /\ st'[proc[p].job] = "running"
      PROVE  JobsOnward
  BY <1>0, <1>3 DEF JobsOnward, Terminal
<1>4. ASSUME NEW r \in Requests, StripOrphan(r) \/ EndJob(r) \/ Sweep(r) PROVE JobsOnward
  <2>1. Stage(r, proc[r].pc) /\ proc[r].pc \in {"strip", "end", "sweep"} /\ UNCHANGED <<disp, lease>>
    BY <1>4 DEF StripOrphan, EndJob, Sweep, At, Base, Stages
  <2>2. proc[r].job \in Jobs /\ disp[proc[r].job] # "none" /\ (proc[r].pc = "end" => disp[proc[r].job] = "accepted")
    BY <2>1 DEF Stage
  <2>3. \A k \in Jobs \ {proc[r].job} : st'[k] = st[k] /\ payload'[k] = payload[k]
    BY <1>0, <1>4 DEF StripOrphan, EndJob, Sweep
  <2>4. st' = st \/ (disp[proc[r].job] = "accepted" /\ st'[proc[r].job] \in Terminal)
    BY <1>0, <1>4, <2>2 DEF StripOrphan, EndJob, Sweep, At, Terminal
  <2>5. QED BY <1>3, <2>1, <2>2, <2>3, <2>4
<1>5. ASSUME NEW s \in Supervisors, PrelaunchFails(s) \/ Run(s) \/ \E e \in Terminal : Finish(s, e)
      PROVE  JobsOnward
  <2>1. /\ Stage(s, proc[s].pc) /\ proc[s].pc \in {"armed", "ready", "exec", "lose", "finish"}
        /\ UNCHANGED <<disp, lease>>
    BY <1>5 DEF PrelaunchFails, Run, Finish, At, Base, Stages
  <2>2. /\ proc[s].job \in Jobs /\ disp[proc[s].job] = "accepted"
        /\ (proc[s].pc = "exec" => st[proc[s].job] = "accepted")
    BY <2>1 DEF Stage
  <2>3. \A k \in Jobs \ {proc[s].job} : st'[k] = st[k] /\ payload'[k] = payload[k]
    BY <1>0, <1>5 DEF PrelaunchFails, Run, Finish
  <2>4. \/ st' = st \/ st'[proc[s].job] \in Terminal
        \/ st[proc[s].job] = "accepted" /\ st'[proc[s].job] = "running"
    BY <1>0, <1>5, <2>2 DEF PrelaunchFails, Run, Finish, At
  <2>5. QED BY <1>3, <2>1, <2>2, <2>3, <2>4
<1>6. ASSUME NEW p \in Procs, Retire(p) \/ Clean(p) PROVE JobsOnward
  <2>1. Stage(p, proc[p].pc) /\ proc[p].pc \in {"retire", "clean"} /\ UNCHANGED <<disp, lease, st>>
    BY <1>6 DEF Retire, Clean, At, Base, Stages
  <2>2. proc[p].job \in Jobs /\ disp[proc[p].job] # "none"
    BY <2>1 DEF Stage, Base, OneWay
  <2>3. \A k \in Jobs \ {proc[p].job} : payload'[k] = payload[k]
    BY <1>0, <1>6 DEF Retire, Clean
  <2>4. QED BY <1>3, <2>1, <2>2, <2>3
<1>7. ASSUME NEW p \in Procs, Free(p) PROVE JobsOnward
  BY <1>0, <1>7 DEF Free, At, JobsOnward
<1>8. ASSUME NEW j \in Jobs, Acquire(j) PROVE JobsOnward
  BY <1>0, <1>8 DEF Acquire, JobsOnward
<1>9. ASSUME NEW r \in Requests, Step(r) \/ LaunchFails(r) PROVE JobsOnward
  <2>1. CASE PublishFinal(r) \/ RecordAccepted(r) \/ Abandon(r) \/ StripOrphan(r) \/ EndJob(r) \/ Sweep(r)
    BY <1>2, <1>4, <2>1
  <2>2. CASE ~(PublishFinal(r) \/ RecordAccepted(r) \/ Abandon(r) \/ StripOrphan(r) \/ EndJob(r) \/ Sweep(r))
    BY <1>1, <1>9, <2>2 DEF Step, Submit, Again, Unindexed, Accepted, Refused, TakeLaunch, Launch,
         TakeRecover, TakeOrphan, Supervised, TakeCancel, Kill, LaunchFails, durable
  <2>3. QED BY <2>1, <2>2
<1>10. ASSUME NEW s \in Supervisors,
              Supervise(s) \/ AgentEnds(s) \/ PrelaunchFails(s) \/ Ambiguous(s) \/ WaitFails(s)
       PROVE  JobsOnward
  <2>1. CASE PrelaunchFails(s) \/ Run(s) \/ \E e \in Terminal : Finish(s, e)
    BY <1>5, <2>1
  <2>2. CASE ~(PrelaunchFails(s) \/ Run(s) \/ \E e \in Terminal : Finish(s, e))
    BY <1>1, <1>10, <2>2 DEF Supervise, Start, Spawn, Exec, Waited, Relock, AmbiguousEnded, AgentEnds,
         Ambiguous, WaitFails, durable
  <2>3. QED BY <2>1, <2>2
<1>11. ASSUME NEW p \in Procs, EndTurn(p) \/ TellFails(p) \/ Die(p) PROVE JobsOnward
  <2>1. CASE Retire(p) \/ Clean(p) \/ Free(p)
    BY <1>6, <1>7, <2>1
  <2>2. CASE Tell(p) \/ CloseOwn(p) \/ TellFails(p) \/ Die(p)
    BY <1>1, <2>2 DEF Tell, CloseOwn, TellFails, Die, durable
  <2>3. QED BY <1>11, <2>1, <2>2 DEF EndTurn
<1>12. ASSUME \/ \E j \in Jobs : Prepare(j) \/ LatePrepare(j)
              \/ \E n \in Slots : SetSlotCount(n)
              \/ \E t \in Tasks : Close(t)
              \/ \E r \in Requests, k \in Kinds, i \in Jobs : Arrive(r, k, i)
              \/ Reboot \/ UNCHANGED vars
       PROVE  JobsOnward
  BY <1>1, <1>12 DEF Prepare, LatePrepare, SetSlotCount, Close, Arrive, Reboot, vars, durable
<1>13. QED BY <1>8, <1>9, <1>10, <1>11, <1>12 DEF Next

LEMMA FaultsGoOn ==
    ASSUME Base, [Next]_vars PROVE Fewer
<1> DEFINE Less == UNCHANGED faults \/ \E k \in FaultKinds : Fault(k)
<1> USE DEF FaultKinds
<1>1. ASSUME NEW r \in Requests, Step(r) \/ LaunchFails(r) PROVE Less
  BY <1>1 DEF Step, Submit, PublishFinal, RecordAccepted, Again, Unindexed, Accepted, Refused, TakeLaunch,
       Launch, TakeRecover, TakeOrphan, Supervised, TakeCancel, Kill, StripOrphan, EndJob, Abandon, Sweep,
       LaunchFails
<1>2. ASSUME NEW s \in Supervisors,
             Supervise(s) \/ AgentEnds(s) \/ PrelaunchFails(s) \/ Ambiguous(s) \/ WaitFails(s)
      PROVE  Less
  BY <1>2 DEF Supervise, Start, Spawn, Exec, Run, Waited, Relock, AmbiguousEnded, Finish, AgentEnds,
       PrelaunchFails, Ambiguous, WaitFails
<1>3. ASSUME NEW p \in Procs, EndTurn(p) \/ TellFails(p) \/ Die(p) PROVE Less
  BY <1>3 DEF EndTurn, Tell, CloseOwn, Retire, Clean, Free, TellFails, Die
<1>4. ASSUME \/ \E j \in Jobs : Acquire(j) \/ Prepare(j) \/ LatePrepare(j)
             \/ \E n \in Slots : SetSlotCount(n)
             \/ \E t \in Tasks : Close(t)
             \/ \E r \in Requests, k \in Kinds, i \in Jobs : Arrive(r, k, i)
             \/ Reboot \/ UNCHANGED vars
      PROVE  Less
  BY <1>4 DEF Acquire, Prepare, LatePrepare, SetSlotCount, Close, Arrive, Reboot, vars
<1>5. Less
  BY <1>1, <1>2, <1>3, <1>4 DEF Next
<1>6. QED BY <1>5, FaultsGoDown

(* A request publishes or indexes a job it has seen leased. *)
LEMMA PublishersGoOn ==
    ASSUME Base, [Next]_vars, NEW q \in Procs, proc'[q].pc \in {"publish", "index"}
    PROVE  /\ proc'[q].job = proc[q].job
           /\ proc[q].pc \in {"publish", "index"} \/ lease[proc[q].job] # NoSlot
<1> USE Distinct
<1>0. CASE proc'[q] = proc[q]
  BY <1>0
<1>1. ASSUME NEW r \in Requests, Step(r) \/ LaunchFails(r), proc'[q] # proc[q],
             ~\E s \in Supervisors : Launch(r, s)
      PROVE  /\ proc'[q].job = proc[q].job
             /\ proc[q].pc \in {"publish", "index"} \/ lease[proc[q].job] # NoSlot
  <2>1. PICK l \in Pcs : Moved(r, l) \/ Gone(r)
    BY <1>1, RequestGoes DEF Step
  <2>2. q = r /\ Moved(r, l)
    BY <1>1, <2>1 DEF Moved, Gone, Others, Idle
  <2>3. Submit(r) \/ PublishFinal(r) \/ Unindexed(r)
    BY <1>1, <2>2, RequestGoes DEF Step, Moved, Gone, Idle
  <2>4. QED BY <2>2, <2>3 DEF Submit, PublishFinal, Unindexed, At, Moved
<1>2. ASSUME NEW r \in Requests, NEW s \in Supervisors, Launch(r, s) PROVE proc'[q] = proc[q]
  BY <1>2 DEF Launch, Idle, Base, DurableOK
<1>3. ASSUME NEW s \in Supervisors,
             Supervise(s) \/ AgentEnds(s) \/ PrelaunchFails(s) \/ Ambiguous(s) \/ WaitFails(s)
      PROVE  proc'[q] = proc[q]
  <2>1. CASE AgentEnds(s)
    BY <2>1 DEF AgentEnds
  <2>2. CASE ~AgentEnds(s)
    <3>1. Gone(s) \/ \E l \in Pcs \ {"publish", "index"} : Moved(s, l)
      BY <1>3, <2>2, SupervisorGoes DEF Supervise
    <3>2. QED BY <3>1 DEF Moved, Gone, Others
  <2>3. QED BY <2>1, <2>2
<1>4. ASSUME NEW p \in Procs, EndTurn(p) \/ TellFails(p) \/ Die(p) PROVE proc'[q] = proc[q]
  <2>1. Gone(p) \/ \E l \in Pcs \ {"publish", "index"} : Moved(p, l)
    BY <1>4, TurnGoes DEF EndTurn
  <2>2. QED BY <2>1 DEF Moved, Gone, Others, Idle
<1>5. ASSUME \/ \E j \in Jobs : Acquire(j) \/ Prepare(j) \/ LatePrepare(j)
             \/ \E n \in Slots : SetSlotCount(n)
             \/ \E t \in Tasks : Close(t)
             \/ UNCHANGED vars
      PROVE  proc'[q] = proc[q]
  BY <1>5 DEF Acquire, Prepare, LatePrepare, SetSlotCount, Close, vars
<1>6. ASSUME NEW r \in Requests, NEW k \in Kinds, NEW i \in Jobs, Arrive(r, k, i) PROVE proc'[q] = proc[q]
  <2>1. k \notin {"publish", "index"}
    BY HostAssumption
  <2>2. QED BY <1>6, <2>1 DEF Arrive, Base, DurableOK
<1>7. ASSUME Reboot PROVE proc'[q] = proc[q]
  <2>1. proc[q] \in Doings
    BY DEF Base, DurableOK
  <2>2. proc'[q] = IF q \in Requests THEN Idle
                   ELSE IF Alive(q) THEN [proc[q] EXCEPT !.pc = "dead"] ELSE proc[q]
    BY <1>7 DEF Reboot
  <2>3. QED BY <2>1, <2>2 DEF Idle, Doings
<1>8. QED BY <1>0, <1>1, <1>2, <1>3, <1>4, <1>5, <1>6, <1>7 DEF Next

LEMMA LeaseStep == Base /\ Base' /\ LeaseInv /\ [Next]_vars => LeaseInv'
<1> SUFFICES ASSUME Base, Base', LeaseInv, [Next]_vars PROVE LeaseInv'
  OBVIOUS
<1> USE Distinct
<1>0. JobsOnward
  BY JobsGoOn
<1>1. \A k \in Jobs : lease[k] # NoSlot /\ lease'[k] = NoSlot =>
         lock' = None /\ (st[k] \in Terminal \/ disp[k] = "abandoned")
  BY <1>0 DEF JobsOnward, Base, Stages, Stage
<1>2. ASSUME NEW k \in Jobs, disp'[k] = "accepted", st'[k] \notin Terminal PROVE lease'[k] # NoSlot
  <2>1. st[k] \notin Terminal /\ disp[k] \in {"none", "accepted"}
    BY <1>0, <1>2 DEF JobsOnward, Base, DurableOK
  <2>2. lease[k] # NoSlot
    <3>1. CASE disp[k] = "accepted"
      BY <2>1, <3>1 DEF LeaseInv, AcceptedLeased
    <3>2. CASE disp[k] = "none"
      BY <1>0, <1>2, <3>2 DEF JobsOnward, LeaseInv
    <3>3. QED BY <2>1, <3>1, <3>2
  <2>3. QED BY <1>1, <2>1, <2>2
<1>3. ASSUME NEW p \in Procs, proc'[p].pc \in {"publish", "index"} PROVE lease'[proc'[p].job] # NoSlot
  <2>1. proc'[p].job = proc[p].job /\ lease[proc[p].job] # NoSlot
    BY <1>3, PublishersGoOn DEF LeaseInv
  <2>2. proc'[p].job \in Jobs /\ lock' = p
    BY <1>3 DEF Base, Stages, Stage, LocksHeld
  <2>3. QED BY <1>1, <2>1, <2>2
<1>4. ASSUME NEW k \in Jobs, disp'[k] = "none", st'[k] # "none" PROVE payload'[k]
  BY <1>0, <1>4 DEF JobsOnward, LeaseInv
<1>5. QED BY <1>2, <1>3, <1>4 DEF LeaseInv, AcceptedLeased

LEMMA LeaseHolds == Spec => []LeaseInv
<1>1. Init => LeaseInv
  <2> SUFFICES ASSUME Init PROVE LeaseInv
    OBVIOUS
  <2>1. \A p \in Procs : proc[p].pc = "idle"
    BY DEF Init, Idle
  <2>2. \A j \in Jobs : disp[j] # "accepted" /\ st[j] = "none"
    BY DEF Init
  <2>3. QED BY <2>1, <2>2 DEF LeaseInv, AcceptedLeased
<1>2. QED BY <1>1, BaseHolds, LeaseStep, PTL DEF Spec

(* A job whose acceptance is durable and that has not ended holds its slot:
   neither an abandoned submission, a late cleanup nor a reconciliation
   releases it (lease.rs release_after_cleanup). *)
THEOREM AcceptedJobsAreLeased == Spec => []AcceptedLeased
<1>1. LeaseInv => AcceptedLeased
  BY DEF LeaseInv
<1>2. QED BY <1>1, LeaseHolds, PTL

-----------------------------------------------------------------------------
(* The turn.  It becomes pending before its job has an index entry. *)

Forward ==
    /\ JobsOnward /\ Fewer
    /\ \A k \in Jobs : Pending(k)' => Pending(k) \/ disp[k] = "none"

LEMMA GoesForward ==
    ASSUME Base, FewFaults(faults), [Next]_vars PROVE Forward
<1> USE Distinct
<1>1. CASE UNCHANGED task
  BY <1>1, JobsGoOn, FaultsGoOn DEF Forward, Pending
<1>2. ASSUME NEW j \in Jobs, disp[j] = "none", task' = [task EXCEPT ![TaskOf[j]] = [state |-> "active", turn |-> j]]
      PROVE  Forward
  <2>1. task \in [Tasks -> [state : {"none", "active", "open", "closed"}, turn : Jobs \cup {None}]]
    BY DEF Base, DurableOK
  <2>2. ASSUME NEW k \in Jobs, Pending(k)' PROVE Pending(k) \/ disp[k] = "none"
    <3>1. TaskOf[k] \in Tasks /\ task'[TaskOf[k]] = [state |-> "active", turn |-> k]
      BY <2>2, HostAssumption DEF Pending
    <3>2. CASE TaskOf[k] = TaskOf[j]
      <4>1. [state |-> "active", turn |-> k] = [state |-> "active", turn |-> j]
        BY <1>2, <2>1, <3>1, <3>2
      <4>2. [state |-> "active", turn |-> k].turn = [state |-> "active", turn |-> j].turn
        BY <4>1
      <4>3. QED BY <1>2, <4>2
    <3>3. CASE TaskOf[k] # TaskOf[j]
      BY <1>2, <2>1, <3>1, <3>3 DEF Pending
    <3>4. QED BY <3>2, <3>3
  <2>3. QED BY <2>2, JobsGoOn, FaultsGoOn DEF Forward
<1>3. ASSUME NEW t \in Tasks, NEW a \in {"open", "closed"}, task' = [task EXCEPT ![t].state = a]
      PROVE  Forward
  <2>1. task \in [Tasks -> [state : {"none", "active", "open", "closed"}, turn : Jobs \cup {None}]]
    BY DEF Base, DurableOK
  <2>2. ASSUME NEW k \in Jobs, Pending(k)' PROVE Pending(k)
    <3>1. TaskOf[k] \in Tasks /\ task'[TaskOf[k]] = [state |-> "active", turn |-> k]
      BY <2>2, HostAssumption DEF Pending
    <3>2. task'[TaskOf[k]].state = "active"
      BY <3>1
    <3>3. TaskOf[k] # t
      BY <1>3, <2>1, <3>1, <3>2
    <3>4. QED BY <1>3, <2>1, <3>1, <3>3 DEF Pending
  <2>3. QED BY <2>2, JobsGoOn, FaultsGoOn DEF Forward
<1>4. ASSUME NEW r \in Requests, Step(r) \/ LaunchFails(r) PROVE Forward
  <2>1. CASE Submit(r)
    <3>1. proc[r].job \in Jobs /\ disp[proc[r].job] = "none"
      BY <2>1 DEF Submit, At, Base, Stages, Stage
    <3>2. \/ UNCHANGED task
          \/ task' = [task EXCEPT ![TaskOf[proc[r].job]] = [state |-> "active", turn |-> proc[r].job]]
      BY <2>1 DEF Submit
    <3>3. QED BY <1>1, <1>2, <3>1, <3>2
  <2>2. CASE ~Submit(r)
    BY <1>1, <1>4, <2>2 DEF Step, PublishFinal, RecordAccepted, Again, Unindexed, Accepted, Refused,
         TakeLaunch, Launch, TakeRecover, TakeOrphan, Supervised, TakeCancel, Kill, StripOrphan, EndJob,
         Abandon, Sweep, LaunchFails, durable
  <2>3. QED BY <2>1, <2>2
<1>5. ASSUME NEW s \in Supervisors,
             Supervise(s) \/ AgentEnds(s) \/ PrelaunchFails(s) \/ Ambiguous(s) \/ WaitFails(s)
      PROVE  Forward
  BY <1>1, <1>5 DEF Supervise, Start, Spawn, Exec, Run, Waited, Relock, AmbiguousEnded, Finish, AgentEnds,
       PrelaunchFails, Ambiguous, WaitFails, durable
<1>6. ASSUME NEW p \in Procs, EndTurn(p) \/ TellFails(p) \/ Die(p) PROVE Forward
  <2>1. CASE Tell(p) \/ CloseOwn(p)
    <3>1. TaskOf[proc[p].job] \in Tasks
      BY <2>1, HostAssumption DEF Tell, CloseOwn, At, Base, Stages, Stage
    <3>2. \/ UNCHANGED task \/ task' = [task EXCEPT ![TaskOf[proc[p].job]].state = "open"]
          \/ task' = [task EXCEPT ![TaskOf[proc[p].job]].state = "closed"]
      BY <2>1 DEF Tell, CloseOwn
    <3>3. QED BY <1>1, <1>3, <3>1, <3>2
  <2>2. CASE ~(Tell(p) \/ CloseOwn(p))
    BY <1>1, <1>6, <2>2 DEF EndTurn, Retire, Clean, Free, TellFails, Die, durable
  <2>3. QED BY <2>1, <2>2
<1>7. ASSUME \/ \E j \in Jobs : Acquire(j)
             \/ \E n \in Slots : SetSlotCount(n)
             \/ \E r \in Requests, k \in Kinds, i \in Jobs : Arrive(r, k, i)
             \/ Reboot \/ UNCHANGED vars
      PROVE  Forward
  BY <1>1, <1>7 DEF Acquire, SetSlotCount, Arrive, Reboot, vars, durable
<1>8. ASSUME NEW j \in Jobs, Prepare(j) PROVE Forward
  BY <1>2, <1>8 DEF Prepare, PrepareTask
<1>9. ASSUME NEW j \in Jobs, LatePrepare(j) PROVE FALSE
  BY <1>9 DEF LatePrepare, Fault, FewFaults
<1>10. ASSUME NEW t \in Tasks, Close(t) PROVE Forward
  BY <1>3, <1>10 DEF Close
<1>11. QED BY <1>4, <1>5, <1>6, <1>7, <1>8, <1>9, <1>10 DEF Next

(* With that, a lease that goes was that of a published turn... *)
LEMMA ReleaseStep ==
    ASSUME Base, LeaseInv, PublishInv, Forward PROVE PublishedBeforeRelease' /\ FewFaults(faults')
<1> USE Distinct
<1>1. FewFaults(faults')
  <2>1. faults.left \in Nat
    BY HostAssumption DEF Base, DurableOK, Faults
  <2>2. QED BY <2>1 DEF PublishInv, FewFaults, Forward, Fewer
<1>2. ASSUME NEW k \in Jobs, disp'[k] = "accepted", st'[k] \in Terminal, lease'[k] = NoSlot, Pending(k)'
      PROVE  FALSE
  <2>1. disp[k] = "accepted"
    BY <1>2 DEF Forward, JobsOnward, Base, OneWay
  <2>2. Pending(k)
    BY <1>2, <2>1 DEF Forward
  <2>3. lease[k] = NoSlot \/ \E p \in Procs : proc[p].pc = "free" /\ proc[p].job = k
    BY <1>2 DEF Forward, JobsOnward
  <2>4. CASE lease[k] = NoSlot
    BY <2>1, <2>2, <2>4 DEF LeaseInv, AcceptedLeased, PublishInv, PublishedBeforeRelease
  <2>5. ASSUME NEW p \in Procs, proc[p].pc = "free", proc[p].job = k PROVE FALSE
    BY <2>1, <2>2, <2>5 DEF PublishInv, Placed
  <2>6. QED BY <2>3, <2>4, <2>5
<1>3. QED BY <1>1, <1>2 DEF PublishedBeforeRelease, Pending

LEMMA AfterFaultLasts ==
    ASSUME Base, Fewer, AfterFault(faults) PROVE AfterFault(faults')
<1>1. faults.left \in Nat
  BY HostAssumption DEF Base, DurableOK, Faults
<1>2. QED BY <1>1 DEF Fewer, AfterFault

(* ...and a process that does not move stays placed. *)
LEMMA StaysPlaced ==
    ASSUME Base, LeaseInv, PublishInv, Forward, NEW q \in Procs, proc'[q] = proc[q]
    PROVE  Placed(q)'
<1> USE Distinct
<1> DEFINE j == proc[q].job
<1>0. Placed(q)
  BY DEF PublishInv
<1>1. CASE proc[q].pc = "idle"
  BY <1>1 DEF Placed, Orphaned
<1>2. CASE proc[q].pc # "idle"
  <2>0. Stage(q, proc[q].pc) /\ j \in Jobs
    BY <1>2 DEF Base, Stages, Stage
  <2>1. ASSUME proc[q].pc \in {"close", "retire", "clean", "free"}, disp'[j] = "accepted" PROVE ~Pending(j)'
    <3>1. disp[j] # "none"
      BY <2>0, <2>1 DEF Stage, Base, OneWay
    <3>2. disp[j] = "accepted"
      BY <2>0, <2>1, <3>1 DEF Forward, JobsOnward
    <3>3. QED BY <1>0, <2>0, <2>1, <3>1, <3>2 DEF Placed, Forward
  <2>2. ASSUME q \in Requests, proc[q].pc \in {"recover", "tell", "end"}, Pending(j)' PROVE Pending(j)
    BY <2>0, <2>2 DEF Stage, Forward
  <2>3. ASSUME AfterFault(faults) PROVE AfterFault(faults')
    BY <2>3, AfterFaultLasts DEF Forward
  <2>4. st'[j] \notin Terminal => st[j] \notin Terminal
    BY <2>0 DEF Forward, JobsOnward
  <2>5. QED BY <1>0, <2>1, <2>2, <2>3, <2>4 DEF Placed, Pending, Orphaned, AfterFault
<1>3. QED BY <1>1, <1>2

(* A step of p keeps the pending turns when p, if it removes a payload or knew
   of a turn without one, knows of it afterwards. *)
LEMMA StaysKept ==
    ASSUME Base, LeaseInv, PublishInv, Forward, NEW p, Others(p),
           \A k \in Jobs : sup'[k] = sup[k] \/ sup[k] \in {p, None},
           \A k \in Jobs : disp[k] = "accepted" /\ Pending(k)' /\ payload[k] =>
               payload'[k] \/ (sup'[k] = p /\ Keeper(p)'),
           \A k \in Jobs : Keeper(p) /\ sup[k] = p /\ Pending(k)' => payload'[k] \/ (sup'[k] = p /\ Keeper(p)')
    PROVE  TurnKept'
<1> USE Distinct
<1> SUFFICES ASSUME NEW k \in Jobs, disp'[k] # "abandoned", st'[k] # "none", Pending(k)', ~payload'[k]
             PROVE  sup'[k] # None /\ Keeper(sup[k])'
  BY DEF TurnKept, Pending
<1>1. disp[k] = "accepted" /\ Pending(k) /\ st[k] # "none"
  <2>1. disp[k] # "none"
    BY DEF Forward, JobsOnward, LeaseInv
  <2>2. QED BY <2>1 DEF Forward, JobsOnward, Base, DurableOK, OneWay
<1>2. CASE payload[k]
  BY <1>1, <1>2 DEF Keeper
<1>3. CASE sup[k] # None /\ Keeper(sup[k])
  <2>1. CASE sup[k] = p
    BY <1>3, <2>1
  <2>2. CASE sup[k] # p
    <3>1. sup'[k] = sup[k] /\ sup[k] \in Procs /\ proc'[sup[k]] = proc[sup[k]]
      BY <1>3, <2>2 DEF Others, Base, DurableOK
    <3>2. faults.left = 0 => faults'.left = 0
      BY DEF Forward, Fewer
    <3>3. QED BY <1>3, <3>1, <3>2 DEF Keeper
  <2>3. QED BY <2>1, <2>2
<1>4. QED BY <1>1, <1>2, <1>3 DEF PublishInv, TurnKept

LEMMA HeavyMove ==
    ASSUME Base, LeaseInv, PublishInv, Forward, NEW p, Others(p),
           \A k \in Jobs : sup'[k] = sup[k] \/ sup[k] \in {p, None},
           \A k \in Jobs : disp[k] = "accepted" /\ Pending(k)' /\ payload[k] =>
               payload'[k] \/ (sup'[k] = p /\ Keeper(p)'),
           \A k \in Jobs : Keeper(p) /\ sup[k] = p /\ Pending(k)' => payload'[k] \/ (sup'[k] = p /\ Keeper(p)'),
           p \in Procs => Placed(p)'
    PROVE  PublishInv'
<1>1. TurnKept'
  BY StaysKept
<1>2. \A q \in Procs : Placed(q)'
  BY StaysPlaced DEF Others
<1>3. QED BY <1>1, <1>2, ReleaseStep DEF PublishInv

(* A step of a process that knows of no turn, and removes no payload. *)
LEMMA LightMove ==
    ASSUME Base, LeaseInv, PublishInv, Forward, NEW p \in Procs, Others(p), UNCHANGED payload,
           proc[p].pc \notin {"end", "tell", "lose"},
           \A k \in Jobs : sup'[k] = sup[k] \/ sup[k] \in {p, None},
           Placed(p)'
    PROVE  PublishInv'
<1>1. ~Keeper(p)
  BY DEF Keeper
<1>2. QED BY <1>1, HeavyMove

LEMMA FaultCosts ==
    ASSUME Base, FewFaults(faults), NEW k, Fault(k) PROVE AfterFault(faults')
<1>1. faults \in Faults
  BY DEF Base, DurableOK
<1>2. QED BY <1>1, FaultTypes DEF FewFaults, AfterFault

LEMMA LightRequests ==
    ASSUME Base, LeaseInv, PublishInv, Forward, NEW r \in Requests,
           \/ Submit(r) \/ RecordAccepted(r) \/ Again(r) \/ Unindexed(r) \/ Accepted(r) \/ Refused(r)
           \/ Supervised(r) \/ TakeLaunch(r) \/ LaunchFails(r) \/ TakeRecover(r) \/ TakeOrphan(r)
           \/ TakeCancel(r) \/ Kill(r) \/ Abandon(r)
    PROVE  PublishInv'
<1> USE Distinct
<1> DEFINE j == proc[r].job
<1>0. /\ Stage(r, proc[r].pc) /\ j \in Jobs /\ UNCHANGED payload
      /\ proc[r].pc \notin {"idle", "end", "tell", "lose"}
  BY DEF Submit, RecordAccepted, Again, Unindexed, Accepted, Refused, Supervised, TakeLaunch, LaunchFails,
         TakeRecover, TakeOrphan, TakeCancel, Kill, Abandon, At, durable, Base, Stages, Stage
<1>1. \A k \in Jobs : sup'[k] = sup[k] \/ sup[k] \in {r, None}
  BY <1>0 DEF Submit, RecordAccepted, Again, Unindexed, Accepted, Refused, Supervised, TakeLaunch,
         LaunchFails, TakeRecover, TakeOrphan, TakeCancel, Kill, Abandon, DropSup, Base, DurableOK
<1>2. Placed(r) /\ TurnKept
  BY DEF PublishInv
<1>3. CASE TakeRecover(r)
  <2>1. /\ Moved(r, "recover") /\ proc'[r].turn = payload[j] /\ UNCHANGED <<disp, task>>
        /\ disp[j] = "accepted" /\ sup[j] = None
    BY <1>3, RequestGoes DEF TakeRecover, durable
  <2>2. Pending(j)' => payload[j]
    <3>1. st[j] # "none" /\ (Pending(j)' => Pending(j))
      BY <1>0, <2>1 DEF Pending, Base, OneWay, Moved
    <3>2. QED BY <1>0, <1>2, <2>1, <3>1 DEF TurnKept
  <2>3. Placed(r)'
    BY <2>1, <2>2 DEF Placed, Moved, Pending, Orphaned
  <2>4. QED BY <1>0, <1>1, <2>1, <2>3, LightMove DEF Moved
<1>4. CASE TakeOrphan(r)
  <2>1. /\ Moved(r, "kill") /\ faults' = faults
        /\ idn[j] # None /\ ~Alive(idn[j]) /\ st[j] \notin Terminal
    BY <1>4, RequestGoes DEF TakeOrphan
  <2>2. idn[j] \in Supervisors /\ proc[idn[j]].job = j /\ proc[idn[j]].pc = "dead"
    BY <1>0, <2>1 DEF Base, DurableOK, OneWay, Alive
  <2>3. AfterFault(faults)
    BY <2>1, <2>2 DEF PublishInv, Placed
  <2>4. Placed(r)'
    BY <2>1, <2>3 DEF Placed, Moved, Orphaned, AfterFault
  <2>5. QED BY <1>0, <1>1, <2>1, <2>4, LightMove DEF Moved
<1>5. CASE TakeCancel(r)
  <2>1. (Moved(r, "kill") \/ Moved(r, "end")) /\ proc[r].kind = "cancel"
    BY <1>0, <1>5, RequestGoes DEF TakeCancel, At, Stage
  <2>2. Placed(r)'
    BY <2>1 DEF Placed, Moved, Orphaned
  <2>3. QED BY <1>0, <1>1, <2>1, <2>2, LightMove DEF Moved
<1>6. CASE Kill(r)
  <2>1. /\ Moved(r, IF proc[r].kind = "cancel" THEN "end" ELSE "strip") /\ faults' = faults
        /\ proc[r].pc = "kill"
    BY <1>6, RequestGoes DEF Kill, At
  <2>2. Placed(r)'
    BY <1>2, <2>1 DEF Placed, Moved, Orphaned, AfterFault
  <2>3. QED BY <1>0, <1>1, <2>1, <2>2, LightMove DEF Moved
<1>7. CASE \/ Submit(r) \/ RecordAccepted(r) \/ Again(r) \/ Unindexed(r) \/ Accepted(r) \/ Refused(r)
           \/ Supervised(r) \/ TakeLaunch(r) \/ LaunchFails(r) \/ Abandon(r)
  <2>1. Gone(r) \/ \E l \in {"publish", "query", "again", "index", "launch", "sweep"} : Moved(r, l)
    BY <1>7, RequestGoes
  <2>2. /\ Others(r)
        /\ proc'[r].pc \notin {"close", "retire", "clean", "free", "recover", "tell", "end", "strip", "kill"}
    BY <2>1 DEF Moved, Gone, Idle
  <2>3. Placed(r)'
    BY <2>2 DEF Placed, Orphaned
  <2>4. QED BY <1>0, <1>1, <2>2, <2>3, LightMove
<1>8. QED BY <1>3, <1>4, <1>5, <1>6, <1>7

LEMMA HeavyRequests ==
    ASSUME Base, LeaseInv, PublishInv, Forward, NEW r \in Requests,
           PublishFinal(r) \/ StripOrphan(r) \/ EndJob(r) \/ Sweep(r)
    PROVE  PublishInv'
<1> USE Distinct
<1> DEFINE j == proc[r].job
<1>0. /\ Stage(r, proc[r].pc) /\ j \in Jobs /\ UNCHANGED <<sup, task, faults>>
      /\ proc[r].pc \in {"publish", "strip", "end", "sweep"}
      /\ payload \in [Jobs -> BOOLEAN]
  BY DEF PublishFinal, StripOrphan, EndJob, Sweep, At, Base, DurableOK, Stages, Stage
<1>1. Placed(r) /\ TurnKept
  BY DEF PublishInv
<1>2. proc[r].pc \in {"strip", "end"} => sup[j] = r /\ disp[j] = "accepted" /\ st[j] # "none"
  BY <1>0 DEF Base, LocksHeld, Stage, OneWay
<1>3. \A k \in Jobs : sup[k] = r => k = j
  BY DEF Base, LocksHeld
<1>4. CASE PublishFinal(r)
  <2>1. Moved(r, "index") /\ ~Keeper(r) /\ \A k \in Jobs : payload[k] => payload'[k]
    BY <1>0, <1>4, RequestGoes DEF PublishFinal, At, Keeper
  <2>2. Placed(r)'
    BY <2>1 DEF Moved, Placed, Orphaned
  <2>3. QED BY <1>0, <2>1, <2>2, HeavyMove DEF Moved
<1>5. CASE Sweep(r)
  <2>1. Moved(r, "free") /\ ~Keeper(r) /\ disp[j] = "abandoned" /\ disp' = disp
    BY <1>0, <1>5, RequestGoes DEF Sweep, At, Keeper, Stage
  <2>2. \A k \in Jobs : disp[k] = "accepted" /\ payload[k] => payload'[k]
    BY <1>0, <1>5, <2>1 DEF Sweep
  <2>3. Placed(r)'
    BY <2>1 DEF Moved, Placed, Orphaned
  <2>4. QED BY <1>0, <2>1, <2>2, <2>3, HeavyMove DEF Moved
<1>6. CASE StripOrphan(r)
  <2>1. /\ Moved(r, "end") /\ proc'[r].turn = payload[j] /\ proc[r].pc = "strip"
        /\ ~Keeper(r) /\ disp' = disp /\ \A k \in Jobs \ {j} : payload'[k] = payload[k]
    BY <1>0, <1>6, RequestGoes DEF StripOrphan, At, Keeper
  <2>2. proc[r].kind # "cancel" /\ AfterFault(faults)
    BY <1>1, <2>1 DEF Placed, Orphaned
  <2>3. Pending(j) => payload[j]
    BY <1>0, <1>1, <1>2, <2>1 DEF TurnKept
  <2>4. payload[j] => Keeper(r)'
    BY <2>1, <2>2 DEF Keeper, Moved
  <2>5. Placed(r)'
    BY <1>0, <2>1, <2>2, <2>3 DEF Placed, Moved, Orphaned, Pending, AfterFault
  <2>6. \A k \in Jobs : disp[k] = "accepted" /\ Pending(k)' /\ payload[k] =>
            payload'[k] \/ (sup'[k] = r /\ Keeper(r)')
    BY <1>0, <1>2, <2>1, <2>4
  <2>7. QED BY <1>0, <2>1, <2>5, <2>6, HeavyMove DEF Moved
<1>7. CASE EndJob(r)
  <2>1. /\ Moved(r, "tell") /\ proc[r].pc = "end" /\ payload' = payload
        /\ proc'[r].turn = IF proc[r].kind = "cancel" THEN payload[j] ELSE proc[r].turn
    BY <1>7, RequestGoes DEF EndJob, At
  <2>2. proc[r].kind = "cancel" /\ Pending(j) => payload[j]
    BY <1>0, <1>1, <1>2, <2>1 DEF TurnKept, Keeper
  <2>3. Keeper(r) => Keeper(r)'
    BY <2>1 DEF Keeper, Moved
  <2>4. Placed(r)'
    BY <1>0, <1>1, <2>1, <2>2 DEF Placed, Moved, Orphaned, Pending, AfterFault
  <2>5. QED BY <1>0, <2>1, <2>3, <2>4, HeavyMove DEF Moved
<1>8. QED BY <1>4, <1>5, <1>6, <1>7

LEMMA SupervisorsPublish ==
    ASSUME Base, LeaseInv, PublishInv, Forward, NEW s \in Supervisors,
           \/ Supervise(s) \/ PrelaunchFails(s) \/ Ambiguous(s) \/ WaitFails(s)
    PROVE  PublishInv'
<1> USE Distinct
<1> DEFINE j == proc[s].job
<1>0. /\ Stage(s, proc[s].pc) /\ j \in Jobs /\ payload \in [Jobs -> BOOLEAN] /\ disp[j] = "accepted"
      /\ proc[s].pc # "idle"
  BY DEF Supervise, Start, Spawn, Exec, Run, Waited, Relock, AmbiguousEnded, Finish, PrelaunchFails,
         Ambiguous, WaitFails, At, Base, DurableOK, Stages, Stage
<1>1. \A k \in Jobs : sup'[k] = sup[k] \/ sup[k] \in {s, None}
  BY DEF Supervise, Start, Spawn, Exec, Run, Waited, Relock, AmbiguousEnded, Finish, PrelaunchFails,
         Ambiguous, WaitFails, DropSup, Base, DurableOK
<1>2. ASSUME Others(s), UNCHANGED payload, proc[s].pc \notin {"end", "tell", "lose"},
             proc'[s].pc \notin {"close", "retire", "clean", "free"},
             proc'[s].pc = "dead" => AfterFault(faults') \/ st'[proc'[s].job] \in Terminal
      PROVE  PublishInv'
  <2>1. Placed(s)'
    BY <1>2 DEF Placed, AfterFault
  <2>2. QED BY <1>1, <1>2, <2>1, LightMove
<1>3. CASE Start(s) \/ Spawn(s) \/ Exec(s) \/ Run(s) \/ Waited(s) \/ AmbiguousEnded(s) \/ Ambiguous(s)
  <2>1. \E l \in {"armed", "ready", "exec", "wait", "relock", "lose", "await"} : Moved(s, l)
    BY <1>3, SupervisorGoes
  <2>2. UNCHANGED payload /\ proc[s].pc \notin {"end", "tell", "lose"}
    BY <1>3 DEF Start, Spawn, Exec, Run, Waited, AmbiguousEnded, Ambiguous, At, durable
  <2>3. QED BY <1>2, <2>1, <2>2 DEF Moved
<1>4. CASE Relock(s)
  <2>1. /\ Gone(s) \/ Moved(s, "finish")
        /\ UNCHANGED <<payload, st>> /\ proc[s].pc = "relock"
    BY <1>4, SupervisorGoes DEF Relock, At, durable
  <2>2. Gone(s) => st[j] \in Terminal
    <3>1. SUFFICES ASSUME st[j] \notin Terminal PROVE Moved(s, "finish")
      BY DEF Gone, Moved
    <3>2. lease[j] # NoSlot
      BY <1>0, <3>1 DEF LeaseInv, AcceptedLeased
    <3>3. Goto(s, "finish")
      BY <1>4, <3>1, <3>2 DEF Relock
    <3>4. QED BY <3>3, GotoMoves DEF Base
  <2>3. QED BY <1>2, <2>1, <2>2 DEF Gone, Moved
<1>5. CASE WaitFails(s)
  <2>1. /\ Gone(s) \/ Moved(s, "lose")
        /\ UNCHANGED payload /\ proc[s].pc \in {"wait", "await"} /\ Fault("wait")
    BY <1>5, SupervisorGoes DEF WaitFails, At, durable
  <2>2. AfterFault(faults')
    BY <2>1, FaultCosts DEF PublishInv
  <2>3. QED BY <1>2, <2>1, <2>2 DEF Gone, Moved
<1>6. CASE PrelaunchFails(s)
  <2>1. /\ Moved(s, "lose") /\ proc[s].pc \in {"armed", "ready"} /\ Fault("launch") /\ sup' = sup
        /\ \A k \in Jobs \ {j} : payload'[k] = payload[k]
    BY <1>0, <1>6, SupervisorGoes DEF PrelaunchFails, At
  <2>2. faults'.left = 0
    <3>1. faults \in Faults
      BY DEF Base, DurableOK
    <3>2. QED BY <2>1, <3>1, FaultTypes DEF PublishInv, FewFaults
  <2>3. sup[j] = s /\ ~Keeper(s) /\ Keeper(s)'
    BY <1>0, <2>1, <2>2 DEF Keeper, Moved, Base, LocksHeld
  <2>4. Placed(s)'
    BY <2>1 DEF Placed, Moved
  <2>5. QED BY <1>0, <2>1, <2>3, <2>4, HeavyMove DEF Moved
<1>7. ASSUME NEW e \in Terminal, Finish(s, e) PROVE PublishInv'
  <2>1. Moved(s, "tell") /\ UNCHANGED <<payload, sup, faults>>
    BY <1>7, SupervisorGoes DEF Finish
  <2>2. Keeper(s) => Keeper(s)'
    BY <2>1 DEF Keeper, Moved
  <2>3. Placed(s)'
    BY <2>1 DEF Placed, Moved
  <2>4. QED BY <2>1, <2>2, <2>3, HeavyMove DEF Moved
<1>8. QED BY <1>3, <1>4, <1>5, <1>6, <1>7 DEF Supervise

LEMMA TurnEndsPublished ==
    ASSUME Base, LeaseInv, PublishInv, Forward, NEW p \in Procs, EndTurn(p) \/ TellFails(p) \/ Die(p)
    PROVE  PublishInv'
<1> USE Distinct
<1> DEFINE j == proc[p].job
           t == TaskOf[j]
<1>0. /\ Stage(p, proc[p].pc) /\ j \in Jobs /\ t \in Tasks /\ payload \in [Jobs -> BOOLEAN]
      /\ proc[p].pc # "idle" /\ UNCHANGED <<disp, st>>
      /\ task \in [Tasks -> [state : {"none", "active", "open", "closed"}, turn : Jobs \cup {None}]]
  BY HostAssumption DEF EndTurn, Tell, CloseOwn, Retire, Clean, Free, TellFails, Die, Alive, At, durable, Base,
       DurableOK, Stages, Stage
<1>1. Placed(p) /\ FewFaults(faults)
  BY DEF PublishInv
<1>2. \A k \in Jobs : sup[k] = p => k = j
  BY DEF Base, LocksHeld
<1>3. \A k \in Jobs : sup'[k] = sup[k] \/ sup[k] \in {p, None}
  BY DEF EndTurn, Tell, CloseOwn, Retire, Clean, Free, TellFails, Die, DropSup, Base, DurableOK
<1>4. CASE Tell(p)
  <2>1. (Moved(p, "retire") \/ Moved(p, "close")) /\ UNCHANGED payload /\ proc[p].pc \in {"tell", "recover"}
    BY <1>4, TurnGoes DEF Tell, At
  <2>2. ~Pending(j)'
    <3>1. CASE Pending(j)
      <4>1. p \in Supervisors \/ proc[p].turn
        BY <1>1, <2>1, <3>1 DEF Placed
      <4>2. task' = [task EXCEPT ![t].state = "open"]
        BY <1>4, <3>1, <4>1 DEF Tell
      <4>3. task'[t].state = "open"
        BY <1>0, <4>2
      <4>4. QED BY <2>1, <4>3 DEF Pending, Moved
    <3>2. CASE ~Pending(j)
      <4>1. task' = task
        BY <1>4, <3>2 DEF Tell
      <4>2. QED BY <2>1, <3>2, <4>1 DEF Pending, Moved
    <3>3. QED BY <3>1, <3>2
  <2>3. Placed(p)'
    BY <2>1, <2>2 DEF Placed, Moved, Pending, Orphaned
  <2>4. QED BY <1>2, <1>3, <2>1, <2>2, <2>3, HeavyMove DEF Moved
<1>5. CASE CloseOwn(p)
  <2>1. /\ Moved(p, "retire") /\ UNCHANGED payload /\ proc[p].pc = "close"
        /\ task' = [task EXCEPT ![t].state = "closed"]
    BY <1>5, TurnGoes DEF CloseOwn, At
  <2>2. task'[t].state = "closed"
    BY <1>0, <2>1
  <2>3. ~Pending(j)'
    BY <2>1, <2>2 DEF Pending, Moved
  <2>4. Placed(p)'
    BY <2>1, <2>3 DEF Placed, Moved, Pending, Orphaned
  <2>5. QED BY <1>3, <2>1, <2>4, LightMove DEF Moved
<1>6. CASE Retire(p) \/ Clean(p)
  <2>1. /\ Moved(p, "clean") \/ Moved(p, "free")
        /\ proc[p].pc \in {"retire", "clean"} /\ task' = task
        /\ \A k \in Jobs \ {j} : payload'[k] = payload[k]
    BY <1>0, <1>6, TurnGoes DEF Retire, Clean, At
  <2>2. disp[j] = "accepted" => ~Pending(j) /\ ~Pending(j)'
    BY <1>1, <2>1 DEF Placed, Pending, Moved
  <2>3. Placed(p)'
    BY <1>0, <2>1, <2>2 DEF Placed, Moved, Pending, Orphaned
  <2>4. ~Keeper(p)
    BY <2>1 DEF Keeper
  <2>5. \A k \in Jobs : disp[k] = "accepted" /\ Pending(k)' /\ payload[k] => payload'[k]
    BY <2>1, <2>2 DEF Moved
  <2>6. QED BY <1>3, <2>1, <2>3, <2>4, <2>5, HeavyMove DEF Moved
<1>7. CASE Free(p)
  <2>1. Gone(p) /\ UNCHANGED payload /\ proc[p].pc = "free"
    BY <1>7, TurnGoes DEF Free, At
  <2>2. p \in Supervisors => st[j] \in Terminal
    BY <1>0, <2>1 DEF Stage
  <2>3. Placed(p)'
    BY <1>0, <2>1, <2>2 DEF Placed, Gone, Idle, Orphaned
  <2>4. QED BY <1>3, <2>1, <2>3, LightMove DEF Gone
<1>8. CASE TellFails(p)
  BY <1>1, <1>8 DEF TellFails, Fault, FewFaults
<1>9. CASE Die(p)
  <2>1. PICK k \in {"request", "supervisor"} : Fault(k)
    BY <1>9 DEF Die
  <2>2. /\ Gone(p) /\ UNCHANGED payload /\ (p \in Requests => k = "request" \/ Fault("request"))
    BY <1>9, <2>1, TurnGoes DEF Die, durable
  <2>3. ~Keeper(p)
    <3>1. faults \in Faults /\ faults.left \in Nat \ {0}
      BY <2>1, FaultTypes DEF Base, DurableOK
    <3>2. p \in Requests /\ Keeper(p) => AfterFault(faults) /\ "request" \in faults.kinds
      BY <1>1, <2>1, <2>2 DEF Keeper, Placed, Orphaned, Fault
    <3>3. QED BY <3>1, <3>2 DEF Keeper, AfterFault
  <2>4. AfterFault(faults')
    BY <1>1, <2>1, FaultCosts
  <2>5. Placed(p)'
    BY <2>2, <2>4 DEF Placed, Gone, Idle, Orphaned, AfterFault
  <2>6. QED BY <1>3, <2>2, <2>3, <2>5, HeavyMove DEF Gone
<1>10. QED BY <1>4, <1>5, <1>6, <1>7, <1>8, <1>9 DEF EndTurn

LEMMA PublishStep == Base /\ LeaseInv /\ PublishInv /\ [Next]_vars => PublishInv'
<1> SUFFICES ASSUME Base, LeaseInv, PublishInv, [Next]_vars PROVE PublishInv'
  OBVIOUS
<1> USE Distinct
<1>0. Forward
  BY GoesForward DEF PublishInv
<1>1. ASSUME UNCHANGED <<proc, payload, sup>> PROVE PublishInv'
  <2>1. Others(None) /\ ~Keeper(None)
    BY <1>1 DEF Others, Keeper
  <2>2. QED BY <1>0, <1>1, <2>1, HeavyMove
<1>2. ASSUME NEW r \in Requests, NEW s \in Supervisors, Launch(r, s) PROVE PublishInv'
  <2>1. /\ proc[r].pc = "launch" /\ proc[s].pc = "idle" /\ proc'[r].pc = "idle" /\ proc'[s].pc = "start"
        /\ \A q \in Procs \ {r, s} : proc'[q] = proc[q]
        /\ UNCHANGED <<payload, faults>>
    BY <1>2 DEF Launch, At, durable, Idle, Base, DurableOK
  <2>2. \A k \in Jobs : sup'[k] = sup[k] \/ sup[k] \in {r, None}
    <3>1. proc[r].job \in Jobs /\ sup[proc[r].job] = r
      BY <2>1 DEF Base, Stages, Stage, LocksHeld
    <3>2. QED BY <1>2, <3>1 DEF Launch, Base, DurableOK
  <2>3. ~Keeper(r) /\ ~Keeper(s)
    BY <2>1 DEF Keeper
  <2>4. TurnKept'
    <3> SUFFICES ASSUME NEW k \in Jobs, disp'[k] # "abandoned", st'[k] # "none", Pending(k)', ~payload'[k]
                 PROVE  sup'[k] # None /\ Keeper(sup[k])'
      BY DEF TurnKept, Pending
    <3>1. UNCHANGED <<disp, st, task>> /\ Pending(k)
      BY <1>2 DEF Launch, durable, Pending
    <3>2. sup[k] # None /\ Keeper(sup[k])
      BY <2>1, <3>1 DEF PublishInv, TurnKept
    <3>3. sup[k] \in Procs \ {r, s} /\ sup'[k] = sup[k]
      BY <2>2, <2>3, <3>2 DEF Base, DurableOK
    <3>4. QED BY <2>1, <3>2, <3>3 DEF Keeper
  <2>5. \A q \in Procs : Placed(q)'
    <3>1. Placed(r)' /\ Placed(s)'
      BY <2>1 DEF Placed, Orphaned
    <3>2. QED BY <1>0, <2>1, <3>1, StaysPlaced
  <2>6. QED BY <1>0, <2>4, <2>5, ReleaseStep DEF PublishInv
<1>3. ASSUME NEW r \in Requests, Step(r) \/ LaunchFails(r) PROVE PublishInv'
  BY <1>0, <1>2, <1>3, LightRequests, HeavyRequests DEF Step
<1>4. ASSUME NEW s \in Supervisors,
             Supervise(s) \/ AgentEnds(s) \/ PrelaunchFails(s) \/ Ambiguous(s) \/ WaitFails(s)
      PROVE  PublishInv'
  <2>1. CASE AgentEnds(s)
    BY <1>1, <2>1 DEF AgentEnds, durable
  <2>2. QED BY <1>0, <1>4, <2>1, SupervisorsPublish
<1>5. ASSUME NEW p \in Procs, EndTurn(p) \/ TellFails(p) \/ Die(p) PROVE PublishInv'
  BY <1>0, <1>5, TurnEndsPublished
<1>6. ASSUME \/ \E j \in Jobs : Acquire(j) \/ Prepare(j) \/ LatePrepare(j)
             \/ \E n \in Slots : SetSlotCount(n)
             \/ \E t \in Tasks : Close(t)
             \/ UNCHANGED vars
      PROVE  PublishInv'
  BY <1>1, <1>6 DEF Acquire, Prepare, LatePrepare, SetSlotCount, Close, vars, durable
<1>7. ASSUME NEW r \in Requests, NEW k \in Kinds, NEW i \in Jobs, Arrive(r, k, i) PROVE PublishInv'
  <2>1. k \in {"submit", "query", "cancel", "resolve"}
    BY HostAssumption
  <2>2. proc[r].pc = "idle" /\ Others(r) /\ proc'[r].pc = k /\ UNCHANGED <<payload, sup>>
    BY <1>7 DEF Arrive, At, Others, durable, Base, DurableOK
  <2>3. Placed(r)'
    BY <2>1, <2>2 DEF Placed, Orphaned
  <2>4. QED BY <1>0, <2>2, <2>3, LightMove
<1>8. ASSUME Reboot PROVE PublishInv'
  <2>1. AfterFault(faults') /\ Fault("reboot") /\ UNCHANGED <<disp, st, payload, task>>
    BY <1>8, FaultCosts DEF Reboot, durable, PublishInv
  <2>2. \A p \in Procs : ~Keeper(p)
    <3> SUFFICES ASSUME NEW p \in Procs, Keeper(p) PROVE FALSE
      OBVIOUS
    <3>1. faults \in Faults /\ faults.left \in Nat \ {0} /\ "reboot" \in faults.kinds
      BY <2>1, FaultTypes DEF Base, DurableOK
    <3>2. p \in Requests => AfterFault(faults)
      BY DEF Keeper, PublishInv, Placed, Orphaned
    <3>3. QED BY <3>1, <3>2 DEF Keeper, AfterFault
  <2>3. TurnKept'
    <3> SUFFICES ASSUME NEW k \in Jobs, disp'[k] # "abandoned", st'[k] # "none", Pending(k)' PROVE payload'[k]
      BY DEF TurnKept, Pending
    <3>1. Pending(k)
      BY <2>1 DEF Pending
    <3>2. sup[k] # None => ~Keeper(sup[k])
      BY <2>2 DEF Base, DurableOK
    <3>3. QED BY <2>1, <3>1, <3>2 DEF PublishInv, TurnKept
  <2>4. \A p \in Procs : proc'[p].pc \in {"idle", "dead"}
    <3> SUFFICES ASSUME NEW p \in Procs PROVE proc'[p].pc \in {"idle", "dead"}
      OBVIOUS
    <3>1. proc[p] \in Doings
      BY DEF Base, DurableOK
    <3>2. proc'[p] = IF p \in Requests THEN Idle
                     ELSE IF Alive(p) THEN [proc[p] EXCEPT !.pc = "dead"] ELSE proc[p]
      BY <1>8 DEF Reboot
    <3>3. QED BY <3>1, <3>2 DEF Idle, Doings, Alive
  <2>5. \A p \in Procs : Placed(p)'
    BY <2>1, <2>4 DEF Placed, Orphaned, AfterFault
  <2>6. QED BY <1>0, <2>3, <2>5, ReleaseStep DEF PublishInv
<1>9. QED BY <1>3, <1>4, <1>5, <1>6, <1>7, <1>8 DEF Next

(* Every terminal path publishes the turn before the lease is released
   (TurnTerminalHook before release_after_cleanup): whoever ends a job finds the
   turn in the payload or in the task's status, and removes the payload only
   once it knows of it.  It is proved for any number of supervisors that die and
   waits that fail, or any one other fault; a second fault can meet a
   reconciliation that has removed the payload. *)
THEOREM TurnsArePublished ==
    ASSUME \A load \in Loads : FewFaults(load.faults)
    PROVE  Spec => []PublishedBeforeRelease
<1>1. Init => PublishInv
  <2> SUFFICES ASSUME Init PROVE PublishInv
    OBVIOUS
  <2>1. FewFaults(faults) /\ \A j \in Jobs : st[j] = "none"
    BY DEF Init, FewFaults
  <2>2. \A p \in Procs : proc[p].pc = "idle"
    BY DEF Init, Idle
  <2>3. \A p \in Procs : Placed(p)
    BY <2>2 DEF Placed, Orphaned
  <2>4. QED BY <2>1, <2>3 DEF PublishInv, TurnKept, PublishedBeforeRelease, Terminal
<1>2. PublishInv => PublishedBeforeRelease
  BY DEF PublishInv
<1>3. QED BY <1>1, <1>2, PublishStep, BaseHolds, LeaseHolds, PTL DEF Spec
=============================================================================
