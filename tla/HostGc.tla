------------------------------- MODULE HostGc -------------------------------
(***************************************************************************)
(* The host's garbage collection (gc.rs): one pass, under the installation *)
(* lock, takes an inventory of task records, jobs and mirror refs and then *)
(* applies its candidates, while turns that already hold a lease, the      *)
(* outbox and its operators go on without that lock.  One turn per task,   *)
(* one project; a task's publication follows Delivery.                     *)
(***************************************************************************)
EXTENDS Naturals, FiniteSets, Delivery

CONSTANT MaxPassFaults   \* bound on passes that die or meet an error

VARIABLES
    record,     \* task -> "none", "active", "open" or "closed" (terminal)
    age,        \* task -> 0, 1 (7 days) or 2 (30 days) since its status changed
    workspace,  \* tasks with a workspace
    leased,     \* tasks with a live lease of their scope
    jobs,       \* task -> the job of its turn: "none", "live" or "done"
    refs,       \* task -> its refs in the mirror
    mirror,     \* whether the project's mirror exists
    lost,       \* tasks whose result commit git gc has pruned
    held,       \* tasks retained for an integration that is not settled
    faded,      \* tasks whose failed intent is past the branch retention
    overtaken,  \* ghost: tasks recorded while a pass ran that had not seen them
    revived,    \* ghost: tasks whose publication an operator retried
    gc,         \* the pass: its stage, inventory and candidates
    passFaults  \* passes that died or met an error

host == <<record, age, workspace, leased, jobs, held>>
store == <<refs, mirror, lost>>
book == <<promise, landed, faded, overtaken, revived>>
gcVars == <<record, age, workspace, leased, jobs, refs, mirror, lost, held, faded,
            overtaken, revived, gc, passFaults, promise, landed>>

NoCandidate == <<>>   \* the pass has no candidate in hand
Unseen == [state |-> "none", active |-> FALSE, age |-> 0]
NoPass == [at |-> "off", leased |-> {}, left |-> {}, seen |-> [t \in Turns |-> Unseen],
           todo |-> {}, cur |-> NoCandidate, pending |-> FALSE]

GcInit ==
    /\ DeliveryInit
    /\ record = [t \in Turns |-> "none"]
    /\ age = [t \in Turns |-> 0]
    /\ workspace = {} /\ leased = {} /\ held = {} /\ faded = {} /\ overtaken = {} /\ revived = {}
    /\ jobs = [t \in Turns |-> "none"]
    /\ refs = [t \in Turns |-> {}]
    /\ mirror = TRUE
    /\ lost = {}
    /\ gc = NoPass
    /\ passFaults = 0

-----------------------------------------------------------------------------
(* What the rest of the host does.  The installation lock, which the pass
   holds, keeps out new leases, their release and the close command. *)

GcOff == gc.at = "off"

AcquireAnytime(t) ==
    /\ t \notin leased /\ record[t] \in {"none", "open"}
    /\ record[t] = "none" => jobs[t] = "none" /\ refs[t] = {}
    /\ leased' = leased \cup {t}
    /\ UNCHANGED <<record, age, workspace, jobs, held, store, book, gc, passFaults>>

AcquireScope(t) ==
    /\ GcOff
    /\ t \notin leased /\ record[t] \in {"none", "open"}
    /\ record[t] = "none" => jobs[t] = "none" /\ refs[t] = {}
    /\ leased' = leased \cup {t}
    /\ UNCHANGED <<record, age, workspace, jobs, held, store, book, gc, passFaults>>

(* host receive-pack, under the lease: the base and a session package. *)
PushBase(t) ==
    /\ t \in leased /\ record[t] = "none"
    /\ \E s \in {{"base"}, {"base", "session"}} : refs' = [refs EXCEPT ![t] = s]
    /\ mirror' = TRUE
    /\ lost' = lost \ {t}
    /\ UNCHANGED <<host, book, gc, passFaults>>

(* task_prepare, integration arm and submit: the record, its workspace and
   the job. *)
PrepareRecord(t) ==
    /\ t \in leased
    /\ \/ record[t] = "none" /\ mirror /\ "base" \in refs[t]
       \/ record[t] = "open"
    /\ record' = [record EXCEPT ![t] = "active"]
    /\ age' = [age EXCEPT ![t] = 0]
    /\ workspace' = workspace \cup {t}
    /\ jobs' = [jobs EXCEPT ![t] = "live"]
    /\ refs' = [refs EXCEPT ![t] = @ \ {"session"}]
    /\ held' \in IF record[t] = "none" THEN {held, held \cup {t}} ELSE {held}
    /\ overtaken' = IF GcOff \/ record[t] # "none" THEN overtaken ELSE overtaken \cup {t}
    /\ UNCHANGED <<leased, mirror, lost, promise, landed, faded, revived, gc, passFaults>>

(* The preparation fails and the lease is given back. *)
GiveLeaseBack(t) ==
    /\ GcOff
    /\ t \in leased /\ record[t] # "active"
    /\ leased' = leased \ {t}
    /\ UNCHANGED <<record, age, workspace, jobs, held, store, book, gc, passFaults>>

(* The turn's result: the branch, and for a publication the intent with its
   pin; both before the turn is finished. *)
Publish(t) ==
    /\ record[t] = "active" /\ "branch" \notin refs[t]
    /\ \/ refs' = [refs EXCEPT ![t] = @ \cup {"branch"}] /\ UNCHANGED <<promise, landed>>
       \/ refs' = [refs EXCEPT ![t] = @ \cup {"branch", "pin"}] /\ Accept(t)
    /\ UNCHANGED <<host, mirror, lost, faded, overtaken, revived, gc, passFaults>>

FinishTurn(t) ==
    /\ record[t] = "active" /\ "branch" \in refs[t]
    /\ record' = [record EXCEPT ![t] = "open"]
    /\ age' = [age EXCEPT ![t] = 0]
    /\ jobs' = [jobs EXCEPT ![t] = "done"]
    /\ UNCHANGED <<workspace, leased, held, store, book, gc, passFaults>>

Release(t) ==
    /\ GcOff
    /\ t \in leased /\ jobs[t] = "done"
    /\ leased' = leased \ {t}
    /\ UNCHANGED <<record, age, workspace, jobs, held, store, book, gc, passFaults>>

(* close, with or without discard. *)
CloseTask(t, discard) ==
    /\ GcOff
    /\ record[t] = "open" /\ t \notin leased /\ t \notin held
    /\ discard => promise[t] # "owed"
    /\ record' = [record EXCEPT ![t] = "closed"]
    /\ age' = [age EXCEPT ![t] = 0]
    /\ workspace' = workspace \ {t}
    /\ refs' = [refs EXCEPT ![t] = IF discard THEN @ \ {"branch", "base"} ELSE @]
    /\ UNCHANGED <<leased, jobs, held, mirror, lost, book, gc, passFaults>>

(* An integration ends: imported, or revoked and acknowledged. *)
SettleIntegration(t) ==
    /\ t \in held
    /\ held' = held \ {t}
    /\ UNCHANGED <<record, age, workspace, leased, jobs, store, book, gc, passFaults>>

(* The outbox: a push needs the commit. *)
OutboxStep(t) ==
    /\ \/ Deliver(t) /\ UNCHANGED <<faded, revived>>
       \/ /\ promise[t] = "owed" /\ t \notin lost /\ t \notin landed
          /\ landed' = landed \cup {t}
          /\ UNCHANGED <<promise, faded, revived>>
       \/ GiveUp(t) /\ faded' = faded \ {t} /\ UNCHANGED revived
       \/ Revive(t) /\ faded' = faded \ {t}
          /\ revived' = revived \cup {t}
    /\ UNCHANGED <<host, store, overtaken, gc, passFaults>>

(* Time passes between two passes: a pass compares with its start. *)
Ages(t) ==
    /\ GcOff
    /\ \/ /\ record[t] # "none" /\ age[t] < 2
          /\ age' = [age EXCEPT ![t] = @ + 1]
          /\ UNCHANGED faded
       \/ /\ promise[t] = "failed" /\ t \notin faded
          /\ faded' = faded \cup {t}
          /\ UNCHANGED age
    /\ UNCHANGED <<record, workspace, leased, jobs, held, store, promise, landed, overtaken, revived, gc, passFaults>>

-----------------------------------------------------------------------------
(* The inventory. *)

OutboxForgets(t) == promise[t] = "failed" /\ t \notin faded

(* OriginOutbox::retains: an owed intent, or a failed one still fresh. *)
OutboxRetains(t) ==
    \/ promise[t] = "owed"
    \/ promise[t] = "failed" /\ t \notin faded
    \/ "pin" \in refs[t] /\ promise[t] = "none"

(* task_has_active_work, with the leases the caller has read. *)
HasActiveWork(t, leases) ==
    \/ t \in leases
    \/ t \in held
    \/ record[t] = "active"
    \/ jobs[t] = "live"
    \/ OutboxRetains(t)

StartPass ==
    /\ GcOff
    /\ gc' = [NoPass EXCEPT !.at = "tasks", !.leased = leased, !.left = Turns]
    /\ UNCHANGED <<host, store, book, passFaults>>

When(condition, c) == IF condition THEN {c} ELSE {}

TaskCandidatesByAge(t) ==
    When(record[t] = "open" /\ age[t] >= 1, <<"open", t>>)
    \cup When(record[t] = "closed" /\ age[t] >= 1, <<"meta", t>>)
    \cup When(age[t] >= 2 /\ refs[t] \cap {"branch", "base"} # {}, <<"branch", t>>)

(* collect_task_record: an open task idle for a week closes; a terminal one
   loses its refs after a month and its record after a week. *)
TaskCandidates(t) ==
    When(record[t] = "open" /\ age[t] >= 1, <<"open", t>>)
    \cup When(record[t] = "closed" /\ age[t] >= 1, <<"meta", t>>)
    \cup When(/\ record[t] = "closed" /\ age[t] >= 2
              /\ refs[t] \cap {"branch", "base"} # {}, <<"branch", t>>)

CollectTask(t) ==
    /\ gc.at = "tasks" /\ t \in gc.left
    /\ LET active == HasActiveWork(t, gc.leased) IN
       gc' = [gc EXCEPT
                 !.left = @ \ {t},
                 !.seen[t] = [state |-> record[t], age |-> age[t], active |-> active],
                 !.todo = @ \cup IF active THEN {} ELSE TaskCandidates(t)]
    /\ UNCHANGED <<host, store, book, passFaults>>

TasksCollected ==
    /\ gc.at = "tasks" /\ gc.left = {}
    /\ gc' = [gc EXCEPT !.at = "refs", !.left = Turns]
    /\ UNCHANGED <<host, store, book, passFaults>>

SeenRecorded(t) == gc.seen[t].state # "none"
SeenSettled(t) == gc.seen[t].state = "closed" /\ ~gc.seen[t].active

(* collect_job_record and collect_mirror_record: a finished job; refs that no
   record of the inventory protects.  The age of a task's branch or base is
   its commit's date, so it may be old at once. *)
CollectRefs(t) ==
    /\ gc.at = "refs" /\ t \in gc.left
    /\ \E job, branch, session \in BOOLEAN :
        /\ job => jobs[t] = "done" /\ t \notin gc.leased
        /\ branch => /\ SeenRecorded(t) => SeenSettled(t) /\ gc.seen[t].age = 2
                     /\ refs[t] \cap {"branch", "base"} # {}
        /\ session => /\ SeenRecorded(t) => SeenSettled(t)
                      /\ "session" \in refs[t] /\ t \notin gc.leased
        /\ gc' = [gc EXCEPT !.left = @ \ {t},
                     !.todo = @ \cup When(job, <<"job", t>>) \cup When(branch, <<"branch", t>>)
                                \cup When(session, <<"session", t>>)]
    /\ UNCHANGED <<host, store, book, passFaults>>

RefsCollected ==
    /\ gc.at = "refs" /\ gc.left = {}
    /\ gc' = [gc EXCEPT !.at = "apply"]
    /\ UNCHANGED <<host, store, book, passFaults>>

-----------------------------------------------------------------------------
(* apply_candidate, in the order of candidate_rank.  Every kind looks again
   before it deletes; the look and the deletion are two steps. *)

Rank(c) == CASE c[1] \in {"branch", "session"} -> 0
             [] c[1] = "job" -> 1
             [] OTHER -> 2

(* The second look, with the leases of now. *)
Confirm(c) ==
    LET t == c[2] IN
    CASE c[1] = "branch" -> SeenRecorded(t) => ~HasActiveWork(t, leased)
      [] c[1] = "session" ->
            /\ t \notin leased /\ t \notin gc.leased
            /\ record[t] # "none" => record[t] = "closed" /\ ~HasActiveWork(t, leased)
      [] c[1] = "job" -> t \notin leased /\ jobs[t] = "done"
      [] c[1] = "open" -> ~HasActiveWork(t, leased)
      [] c[1] = "meta" -> /\ gc.seen[t].state = "closed" /\ ~HasActiveWork(t, leased)
                          /\ record[t] = "closed" /\ age[t] >= 1

Look(c) ==
    /\ gc.at = "apply" /\ gc.cur = NoCandidate
    /\ c \in gc.todo /\ \A d \in gc.todo : Rank(c) <= Rank(d)
    /\ gc' = [gc EXCEPT !.todo = @ \ {c}, !.cur = IF Confirm(c) THEN c ELSE NoCandidate]
    /\ UNCHANGED <<host, store, book, passFaults>>

Applying(kind, t) == gc.at = "apply" /\ gc.cur = <<kind, t>>
Applied == [gc EXCEPT !.cur = NoCandidate]

(* apply_branch: the branch and the base first, ... *)
DropBranch(t) ==
    /\ Applying("branch", t)
    /\ refs' = [refs EXCEPT ![t] = @ \ {"branch", "base"}]
    /\ gc' = [gc EXCEPT !.cur = <<"pins", t>>, !.pending = TRUE]
    /\ UNCHANGED <<host, mirror, lost, book, passFaults>>

(* ... then a session ref that passes its own look, and the delivery pins. *)
DropPins(t) ==
    /\ Applying("pins", t)
    /\ refs' = [refs EXCEPT ![t] = @ \ ({"pin"} \cup
           When("session" \in refs[t] /\ Confirm(<<"session", t>>), "session"))]
    /\ gc' = Applied
    /\ UNCHANGED <<host, mirror, lost, book, passFaults>>

DropSession(t) ==
    /\ Applying("session", t)
    /\ refs' = [refs EXCEPT ![t] = @ \ {"session"}]
    /\ gc' = [Applied EXCEPT !.pending = TRUE]
    /\ UNCHANGED <<host, mirror, lost, book, passFaults>>

DropJob(t) ==
    /\ Applying("job", t)
    /\ jobs' = [jobs EXCEPT ![t] = "none"]
    /\ gc' = Applied
    /\ UNCHANGED <<record, age, workspace, leased, held, store, book, passFaults>>

(* close_for_retention: the status and the lease once more, the status first
   and the workspace after it. *)
RetentionClose(t) ==
    /\ Applying("open", t)
    /\ IF record[t] = "open" /\ t \notin leased
          THEN /\ record' = [record EXCEPT ![t] = "closed"]
               /\ age' = [age EXCEPT ![t] = 0]
               /\ gc' = [gc EXCEPT !.cur = <<"workspace", t>>]
          ELSE UNCHANGED <<record, age>> /\ gc' = Applied
    /\ UNCHANGED <<workspace, leased, jobs, held, store, book, passFaults>>

DropWorkspace(t) ==
    /\ Applying("workspace", t)
    /\ workspace' = workspace \ {t}
    /\ gc' = Applied
    /\ UNCHANGED <<record, age, leased, jobs, held, store, book, passFaults>>

(* The task's directory, its delivery intents included. *)
DropRecord(t) ==
    /\ Applying("meta", t)
    /\ record' = [record EXCEPT ![t] = "none"]
    /\ age' = [age EXCEPT ![t] = 0]
    /\ workspace' = workspace \ {t}
    /\ promise' = [promise EXCEPT ![t] = "none"]
    /\ faded' = faded \ {t}
    /\ gc' = Applied
    /\ UNCHANGED <<leased, jobs, held, store, landed, overtaken, revived, passFaults>>

(* collect_mirror_record and apply_mirror: an old mirror without refs, in a
   project the inventory found no task of. *)
LookMirror ==
    /\ gc.at = "apply" /\ gc.cur = NoCandidate /\ gc.todo = {}
    /\ mirror /\ \A t \in Turns : ~SeenRecorded(t) /\ refs[t] = {}
    /\ gc' = [gc EXCEPT !.at = "mirror"]
    /\ UNCHANGED <<host, store, book, passFaults>>

DropMirror ==
    /\ gc.at = "mirror"
    /\ mirror' = FALSE
    /\ refs' = [t \in Turns |-> {}]
    /\ gc' = NoPass
    /\ UNCHANGED <<host, lost, book, passFaults>>

(* maintain_mirrors: git gc prunes commits no ref holds, when they are old. *)
EndPass ==
    /\ gc.at = "apply" /\ gc.cur = NoCandidate /\ gc.todo = {}
    /\ \E S \in SUBSET {t \in Turns : /\ refs[t] \cap {"branch", "base", "pin"} = {}
                                      /\ record[t] \in {"none", "closed"}} :
          lost' = IF gc.pending THEN lost \cup S ELSE lost
    /\ gc' = NoPass
    /\ UNCHANGED <<host, refs, mirror, book, passFaults>>

(* The pass dies, or an error ends it. *)
PassDies ==
    /\ ~GcOff
    /\ passFaults < MaxPassFaults
    /\ passFaults' = passFaults + 1
    /\ gc' = NoPass
    /\ UNCHANGED <<host, store, book>>

DropCandidate(t) ==
    \/ DropBranch(t) \/ DropPins(t) \/ DropSession(t) \/ DropJob(t)
    \/ RetentionClose(t) \/ DropWorkspace(t) \/ DropRecord(t)

Pass ==
    \/ TasksCollected \/ RefsCollected \/ DropMirror \/ EndPass
    \/ \E t \in Turns : CollectTask(t) \/ CollectRefs(t) \/ DropCandidate(t)
    \/ \E c \in gc.todo : Look(c)

Turn(t) ==
    \/ AcquireScope(t) \/ PushBase(t) \/ PrepareRecord(t) \/ GiveLeaseBack(t)
    \/ Publish(t) \/ FinishTurn(t) \/ Release(t)

GcNext ==
    \/ StartPass \/ Pass \/ LookMirror \/ PassDies
    \/ \E t \in Turns :
          \/ Turn(t) \/ SettleIntegration(t) \/ OutboxStep(t) \/ Ages(t)
          \/ \E discard \in BOOLEAN : CloseTask(t, discard)

GcSpec == GcInit /\ [][GcNext]_gcVars

-----------------------------------------------------------------------------
(* Properties. *)

Kept(t) == record[t] # "none" /\ "pin" \in refs[t] /\ t \notin lost

(* A publication that is owed keeps its task record, its pin and its commit
   until it is delivered or given up, whatever passes run meanwhile.  Two
   cases are excepted: what an operator retried, since a pass may have seen
   it given up, and a task recorded while a pass ran, whose refs that pass
   takes for those of a task that is gone. *)
OwedKept ==
    \A t \in Turns \ (revived \cup overtaken) : promise[t] = "owed" => Kept(t)

(* A task that is open keeps its result branch and its workspace: a retention
   pass closes a task before it takes anything away, and never closes one
   that a new turn has made active since the inventory. *)
OpenTaskWhole ==
    \A t \in Turns \ overtaken :
        /\ record[t] = "open" => "branch" \in refs[t] /\ t \in workspace
        /\ record[t] = "active" => t \in workspace /\ jobs[t] = "live"

(* While a turn holds the lease of its task no pass removes or closes what
   it works in. *)
LeasedUntouched ==
    [][\A t \in leased :
          gc # NoPass => /\ t \in workspace => t \in workspace'
                         /\ record[t] # "none" => record'[t] \notin {"none", "closed"}
                         /\ jobs[t] # "none" => jobs'[t] # "none"]_gcVars
=============================================================================
