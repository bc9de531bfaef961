----------------------------- MODULE Submission -----------------------------
(***************************************************************************)
(* The submission transaction (task_client.rs submit_with_ids) and its     *)
(* recovery.  A submission creates a task record that carries an intent,   *)
(* the turn's directory with its prompt, and a queue row; clearing the     *)
(* intent hands the turn over.  A failed or interrupted submission is      *)
(* rolled back, by the submitter or by any process that reconciles.        *)
(*                                                                         *)
(* Frozen tasks are nodes of a batch DAG: their identifiers are stored     *)
(* before the submission, which is continued or retaken instead of undone. *)
(*                                                                         *)
(* Each update of the record, the queue and the turn's directory is atomic *)
(* under the state lock; nothing is held between two of them.  The lock of *)
(* the transfer repository is shared and excludes nobody here.  The launch *)
(* of a runner is RunnerSlots' subject: here Runner owns a row it serves.  *)
(***************************************************************************)
EXTENDS Naturals, FiniteSets

CONSTANTS
    Tasks, Procs, None, Runner,
    Frozen,       \* the tasks that are nodes of a DAG
    MaxFaults,    \* bound: process deaths and failed steps
    MaxWorking,   \* bound: processes inside a submission or a reconciliation
    Loads         \* bound: what a behaviour starts with, see Load

ASSUME SubmissionAssumption ==
    /\ Frozen \subseteq Tasks
    /\ None \notin Procs \cup Tasks /\ Runner \notin Procs \cup {None}
    /\ MaxFaults \in Nat /\ MaxWorking \in Nat \ {0}

\* A behaviour has some of the tasks yet to submit (the others have run before it
\* began), some of the processes running and some of the faults spent.
Load == [tasks : SUBSET Tasks, running : SUBSET Procs, spent : 0..MaxFaults]

ASSUME LoadsAssumption == Loads \subseteq Load

VARIABLES
    rec,     \* the local task record
    turn,    \* the turn's directory: none, with its prompt, or retired
    entry,   \* the queue row
    held,    \* the refs and the publish branch reserved for the task
    hosted,  \* the turn on its host
    node,    \* how far the submission has come, for a DAG its node
    claim,   \* the process that has claimed the submission
    live, pc, at,
    back,    \* the row a rollback has removed
    faults

vars == <<rec, turn, entry, held, hosted, node, claim, live, pc, at, back, faults>>

NoRec == [st |-> "none", intent |-> FALSE, mark |-> FALSE, runner |-> FALSE]
Rec   == [st : {"none", "queued", "active", "done", "abandoned"},
          intent : BOOLEAN, mark : BOOLEAN, runner : BOOLEAN]
NoEntry == [st |-> "none", owner |-> None, by |-> None]
Entry == [st : {"none", "waiting", "dispatching"}, owner : Procs \cup {Runner, None},
          by : Procs \cup {None}]
Pcs   == {"idle", "pin", "load", "branch", "create", "prompt", "enqueue", "report", "clear",
          "start", "submitted", "undo", "safe", "release", "unrow", "unturn", "unrecord",
          "requeue", "relaunch"}

Exists(t)  == rec[t].st # "none"
Pending(r) == r.intent \/ r.mark          \* submission_recovery_pending
Complete(t) == Exists(t) /\ ~Pending(rec[t]) /\ turn[t] # "none"

Ran == [NoRec EXCEPT !.st = "done"]

Init ==
    /\ entry = [t \in Tasks |-> NoEntry] /\ claim = [t \in Tasks |-> None]
    /\ \E load \in Loads :
         /\ rec  = [t \in Tasks |-> IF t \in load.tasks THEN NoRec ELSE Ran]
         /\ turn = [t \in Tasks |-> IF t \in load.tasks THEN "none" ELSE "retired"]
         /\ held = [t \in Tasks |-> IF t \in load.tasks THEN {} ELSE {"refs", "branch"}]
         /\ hosted = [t \in Tasks |-> IF t \in load.tasks THEN "none" ELSE "done"]
         /\ node = [t \in Tasks |-> IF t \in load.tasks THEN "waiting" ELSE "submitted"]
         /\ live = load.running /\ faults = load.spent
    /\ pc = [p \in Procs |-> "idle"] /\ at = [p \in Procs |-> None]
    /\ back = [p \in Procs |-> NoEntry]

Store == <<rec, turn, entry, held>>
Outside == <<hosted, node, claim, live, faults>>
Goto(p, l) == pc' = [pc EXCEPT ![p] = l]
Enter(p, t, l) ==
    /\ pc[p] = "idle" /\ p \in live
    /\ Cardinality({q \in live : pc[q] # "idle"}) < MaxWorking
    /\ Goto(p, l) /\ at' = [at EXCEPT ![p] = t]
Leave(p) == Goto(p, "idle") /\ at' = [at EXCEPT ![p] = None]

-----------------------------------------------------------------------------
(* Submitting *)

\* claimed_node_action: a node may be taken when it is waiting, when its
\* claimant is gone, or when this process has claimed it before.  An ordinary
\* submission has fresh identifiers and happens once.
Takeable_OwnOnly(p, t) ==
    node[t] = "waiting" \/ (t \in Frozen /\ node[t] = "claimed" /\ claim[t] = p)
Takeable(p, t) ==
    \/ node[t] = "waiting"
    \/ /\ t \in Frozen /\ node[t] = "claimed"
       /\ claim[t] = p \/ claim[t] \notin live

Begin(p, t) ==
    /\ Takeable(p, t) /\ ~Complete(t)
    /\ Enter(p, t, "pin")
    /\ node' = [node EXCEPT ![t] = "claimed"] /\ claim' = [claim EXCEPT ![t] = p]
    /\ UNCHANGED <<Store, hosted, live, back, faults>>

\* A claimed node whose submission is complete only has to be marked.
MarkComplete(p, t) ==
    /\ t \in Frozen /\ node[t] = "claimed" /\ Complete(t) /\ p \in live
    /\ node' = [node EXCEPT ![t] = "submitted"] /\ claim' = [claim EXCEPT ![t] = None]
    /\ UNCHANGED <<Store, hosted, live, pc, at, back, faults>>

PinBase(p) ==
    /\ pc[p] = "pin"
    /\ held' = [held EXCEPT ![at[p]] = @ \cup {"refs"}]
    /\ Goto(p, "load")
    /\ UNCHANGED <<rec, turn, entry, Outside, at, back>>

\* recover_existing_submit_record: a node's record whose rollback has been
\* marked and not finished goes back to Queued.
Recovered(r) == [r EXCEPT !.st = IF r.st = "abandoned" THEN "queued" ELSE r.st, !.mark = FALSE]

LoadExisting(p) ==
    LET t == at[p] IN
    /\ pc[p] = "load"
    /\ IF Exists(t)
       THEN /\ rec' = [rec EXCEPT ![t] = Recovered(@)]
            /\ IF ~rec[t].intent /\ turn[t] = "prompt" /\ entry[t].st # "none"
               THEN Goto(p, "submitted") ELSE Goto(p, "prompt")
       ELSE rec' = rec /\ Goto(p, "branch")
    /\ UNCHANGED <<turn, entry, held, Outside, at, back>>

ReserveBranch(p) ==
    /\ pc[p] = "branch"
    /\ held' = [held EXCEPT ![at[p]] = @ \cup {"branch"}]
    /\ Goto(p, "create")
    /\ UNCHANGED <<rec, turn, entry, Outside, at, back>>

\* The record is created with its intent, in one write.
CreateTask(p) ==
    LET t == at[p] IN
    /\ pc[p] = "create"
    /\ rec' = [rec EXCEPT ![t] = IF Exists(t) THEN Recovered(@)
                                 ELSE [NoRec EXCEPT !.st = "queued", !.intent = TRUE]]
    /\ Goto(p, "prompt")
    /\ UNCHANGED <<turn, entry, held, Outside, at, back>>

WritePrompt(p) ==
    /\ pc[p] = "prompt"
    /\ turn' = [turn EXCEPT ![at[p]] = "prompt"]
    /\ Goto(p, "enqueue")
    /\ UNCHANGED <<rec, entry, held, Outside, at, back>>

Enqueue(p) ==
    LET t == at[p] IN
    /\ pc[p] = "enqueue"
    /\ entry' = IF entry[t].st # "none" THEN entry
              ELSE [entry EXCEPT ![t] = [st |-> "waiting", owner |-> p, by |-> p]]
    /\ Goto(p, "report")
    /\ UNCHANGED <<rec, turn, held, Outside, at, back>>

\* Everything a frozen or resumed submission has stored is kept.
Undo(p) == IF at[p] \in Frozen THEN Leave(p) ELSE Goto(p, "undo") /\ UNCHANGED at

Report(p) ==
    /\ pc[p] = "report"
    /\ IF Exists(at[p]) THEN Goto(p, "clear") /\ UNCHANGED at ELSE Undo(p)
    /\ UNCHANGED <<Store, Outside, back>>

\* The project, the run or the prompt cannot be read or written.
SubmitFails(p) ==
    /\ pc[p] \in {"prompt", "enqueue", "report"} /\ faults < MaxFaults
    /\ faults' = faults + 1
    /\ Undo(p)
    /\ UNCHANGED <<Store, hosted, node, claim, live, back>>

\* The handoff boundary: an error from here on leaves everything in place.
ClearIntent(p) ==
    LET t == at[p] IN
    /\ pc[p] = "clear"
    /\ IF Exists(t)
       THEN rec' = [rec EXCEPT ![t].intent = FALSE] /\ Goto(p, "start") /\ UNCHANGED at
       ELSE rec' = rec /\ Leave(p)
    /\ UNCHANGED <<turn, entry, held, Outside, back>>

\* A row that another live process owns is left to that one.
Startable(p, t) ==
    /\ Exists(t) /\ entry[t].st = "waiting"
    /\ entry[t].owner \in {p, None} \cup (Procs \ live)

\* start_runner: the runner is launched, or no slot is free and the row is parked.
Launch(p, t) ==
    \/ /\ Startable(p, t)
       /\ entry' = [entry EXCEPT ![t].owner = Runner]
       /\ rec' = [rec EXCEPT ![t].runner = TRUE]
    \/ Startable(p, t) /\ entry' = [entry EXCEPT ![t].owner = None] /\ rec' = rec
    \/ ~Startable(p, t) /\ UNCHANGED <<entry, rec>>

Start_Compensates(p) ==
    /\ pc[p] = "start"
    /\ Launch(p, at[p])
    /\ Goto(p, "submitted") \/ Goto(p, "undo")
    /\ UNCHANGED <<turn, held, Outside, at, back>>
Start(p) ==
    /\ pc[p] = "start"
    /\ Launch(p, at[p])
    /\ Goto(p, "submitted")
    /\ UNCHANGED <<turn, held, Outside, at, back>>

MarkSubmitted(p) ==
    /\ pc[p] = "submitted"
    /\ node' = [node EXCEPT ![at[p]] = "submitted"] /\ claim' = [claim EXCEPT ![at[p]] = None]
    /\ Leave(p)
    /\ UNCHANGED <<Store, hosted, live, back, faults>>

-----------------------------------------------------------------------------
(* Rolling back *)

\* The submitter's own rollback is durable before it starts.
MarkRollback(p) ==
    LET t == at[p] IN
    /\ pc[p] = "undo"
    /\ IF Exists(t)
       THEN /\ rec' = [rec EXCEPT ![t].st = "abandoned", ![t].mark = TRUE]
            /\ Goto(p, "release") /\ UNCHANGED at
       ELSE rec' = rec /\ Leave(p)
    /\ UNCHANGED <<turn, entry, held, Outside, back>>

\* Reconciliation: the record is read again after the transfer repository is
\* open, then the row.
RecoverSubmission(p, t) ==
    /\ Exists(t) /\ Pending(rec[t])
    /\ ~rec[t].runner /\ rec[t].st # "active"
    /\ Enter(p, t, "safe")
    /\ UNCHANGED <<Store, Outside, back>>

\* submission_rollback_is_safe: only a row that waits for the process that has
\* enqueued it, whether that one is alive or not.
RollbackSafe_NoRow(t) == entry[t].st = "none"
RollbackSafe(t) == entry[t].st = "none" \/ (entry[t].st = "waiting" /\ entry[t].owner = entry[t].by)

CheckRow(p) ==
    /\ pc[p] = "safe"
    /\ IF RollbackSafe(at[p]) THEN Goto(p, "release") /\ UNCHANGED at ELSE Leave(p)
    /\ UNCHANGED <<Store, Outside, back>>

ReleaseRefs(p) ==
    /\ pc[p] = "release"
    /\ held' = [held EXCEPT ![at[p]] = {}]
    /\ Goto(p, "unrow")
    /\ UNCHANGED <<rec, turn, entry, Outside, at, back>>

RemoveRow_Kept(p) ==
    /\ pc[p] = "unrow"
    /\ Goto(p, "unturn")
    /\ UNCHANGED <<Store, Outside, at, back>>
RemoveRow(p) ==
    /\ pc[p] = "unrow"
    /\ back' = [back EXCEPT ![p] = entry[at[p]]]
    /\ entry' = [entry EXCEPT ![at[p]] = NoEntry]
    /\ Goto(p, "unturn")
    /\ UNCHANGED <<rec, turn, held, Outside, at>>

RemoveTurns(p) ==
    /\ pc[p] = "unturn"
    /\ turn' = [turn EXCEPT ![at[p]] = "none"]
    /\ back' = [back EXCEPT ![p] = NoEntry]
    /\ Goto(p, "unrecord")
    /\ UNCHANGED <<rec, entry, held, Outside, at>>

\* The row is put back when the turn's directory cannot be removed.
RemoveTurnsFails(p) ==
    LET t == at[p] IN
    /\ pc[p] = "unturn" /\ faults < MaxFaults
    /\ faults' = faults + 1
    /\ entry' = IF entry[t].st = "none" THEN [entry EXCEPT ![t] = back[p]] ELSE entry
    /\ back' = [back EXCEPT ![p] = NoEntry]
    /\ Leave(p)
    /\ UNCHANGED <<rec, turn, held, hosted, node, claim, live>>

RemoveRecord(p) ==
    /\ pc[p] = "unrecord"
    /\ rec' = [rec EXCEPT ![at[p]] = NoRec]
    /\ Leave(p)
    /\ UNCHANGED <<turn, entry, held, Outside, back>>

-----------------------------------------------------------------------------
(* Going on with a complete submission *)

\* enqueue_missing_turn acts on a record that was read before the queue.
LookForRow(p, t) ==
    /\ Exists(t) /\ ~Pending(rec[t]) /\ rec[t].st \in {"queued", "active"} /\ turn[t] # "none"
    /\ Enter(p, t, "requeue")
    /\ UNCHANGED <<Store, Outside, back>>

EnqueueMissing(p) ==
    LET t == at[p] IN
    /\ pc[p] = "requeue"
    /\ entry' = IF entry[t].st # "none" THEN entry
              ELSE [entry EXCEPT ![t] = [st |-> "waiting", owner |-> p, by |-> p]]
    /\ Goto(p, "relaunch")
    /\ UNCHANGED <<rec, turn, held, Outside, at, back>>

\* A parked row, or one whose owner is gone, gets a runner whatever its record says.
RestartRow(p, t) ==
    /\ Startable(p, t) /\ ~Pending(rec[t])
    /\ Enter(p, t, "relaunch")
    /\ UNCHANGED <<Store, Outside, back>>

Relaunch(p) ==
    /\ pc[p] = "relaunch"
    /\ Launch(p, at[p])
    /\ Leave(p)
    /\ UNCHANGED <<turn, held, Outside, back>>

RunnerClaims(t) ==
    /\ entry[t].st = "waiting" /\ entry[t].owner = Runner /\ Exists(t)
    /\ entry' = [entry EXCEPT ![t].st = "dispatching"]
    /\ UNCHANGED <<rec, turn, held, Outside, pc, at, back>>

HostAccepts(t) ==
    /\ entry[t].st = "dispatching" /\ Exists(t) /\ hosted[t] = "none"
    /\ hosted' = [hosted EXCEPT ![t] = "running"]
    /\ rec' = [rec EXCEPT ![t].st = "active"]
    /\ UNCHANGED <<turn, entry, held, node, claim, live, pc, at, back, faults>>

HostEnds(t) ==
    /\ hosted[t] = "running"
    /\ hosted' = [hosted EXCEPT ![t] = "done"]
    /\ UNCHANGED <<Store, node, claim, live, pc, at, back, faults>>

\* The runner stores the final status, then retires the row and the prompt.  A
\* turn that was already finished is only retired.
RunnerFinishes(t) ==
    /\ entry[t].st = "dispatching" /\ Exists(t) /\ hosted[t] = "done"
    /\ rec[t].st # "done" \/ rec[t].runner
    /\ rec' = [rec EXCEPT ![t].st = "done", ![t].runner = FALSE]
    /\ UNCHANGED <<turn, entry, held, Outside, pc, at, back>>

RunnerRetires(t) ==
    /\ entry[t].st = "dispatching" /\ rec[t].st = "done" /\ ~rec[t].runner
    /\ entry' = [entry EXCEPT ![t] = NoEntry]
    /\ turn' = [turn EXCEPT ![t] = "retired"]
    /\ UNCHANGED <<rec, held, Outside, pc, at, back>>

Die(p) ==
    /\ p \in live /\ faults < MaxFaults
    /\ faults' = faults + 1
    /\ live' = live \ {p}
    /\ Leave(p)
    /\ back' = [back EXCEPT ![p] = NoEntry]
    /\ UNCHANGED <<Store, hosted, node, claim>>

Working(p) ==
    \/ PinBase(p) \/ LoadExisting(p) \/ ReserveBranch(p) \/ CreateTask(p) \/ WritePrompt(p)
    \/ Enqueue(p) \/ Report(p) \/ ClearIntent(p) \/ Start(p) \/ MarkSubmitted(p)
    \/ MarkRollback(p) \/ CheckRow(p) \/ ReleaseRefs(p) \/ RemoveRow(p) \/ RemoveTurns(p)
    \/ RemoveRecord(p) \/ EnqueueMissing(p) \/ Relaunch(p)

TurnStep(t) ==
    RunnerClaims(t) \/ HostAccepts(t) \/ HostEnds(t) \/ RunnerFinishes(t) \/ RunnerRetires(t)

Next ==
    \/ \E p \in Procs, t \in Tasks : \/ Begin(p, t) \/ MarkComplete(p, t)
                                     \/ RecoverSubmission(p, t) \/ LookForRow(p, t)
                                     \/ RestartRow(p, t)
    \/ \E p \in Procs : Working(p) \/ SubmitFails(p) \/ RemoveTurnsFails(p) \/ Die(p)
    \/ \E t \in Tasks : TurnStep(t)

Spec == Init /\ [][Next]_vars

\* A process at work goes on unless it dies, runners and hosts finish their turns, and
\* reconciliation comes round again.
Fairness ==
    /\ \A p \in Procs : WF_vars(Working(p))
    /\ \A t \in Tasks :
         /\ WF_vars(TurnStep(t))
         /\ SF_vars(\E p \in Procs : RecoverSubmission(p, t) \/ (t \in Frozen /\ Begin(p, t)))
         /\ SF_vars(\E p \in Procs : LookForRow(p, t) \/ RestartRow(p, t))
         /\ SF_vars(\E p \in Procs : at[p] = t /\ (Start(p) \/ Relaunch(p)) /\ entry'[t].owner = Runner)

Fair == Spec /\ Fairness

-----------------------------------------------------------------------------
(* Properties *)

\* The records, prompts, rows, reservations and claims of submissions have
\* their types.
SubmissionTypeOK ==
    /\ rec \in [Tasks -> Rec] /\ turn \in [Tasks -> {"none", "prompt", "retired"}]
    /\ entry \in [Tasks -> Entry] /\ held \in [Tasks -> SUBSET {"refs", "branch"}]
    /\ hosted \in [Tasks -> {"none", "running", "done"}]
    /\ node \in [Tasks -> {"waiting", "claimed", "submitted"}]
    /\ claim \in [Tasks -> Procs \cup {None}]
    /\ live \subseteq Procs /\ pc \in [Procs -> Pcs] /\ at \in [Procs -> Tasks \cup {None}]
    /\ back \in [Procs -> Entry] /\ faults \in 0..MaxFaults
    /\ \A t \in Tasks : node[t] = "claimed" <=> claim[t] # None
    /\ \A p \in Procs : pc[p] # "idle" <=> at[p] # None

\* Nothing is orphaned at any point of a submission or a rollback, interrupted or
\* not: a queue row has its prompt and a prompt its record.
NothingOrphaned ==
    \A t \in Tasks : /\ entry[t].st # "none" => turn[t] # "none"
                     /\ turn[t] # "none" => Exists(t)

\* A rollback never takes away what a runner has adopted: the record and the refs
\* stay as long as a runner owns the row or the turn is on its host.
AdoptedWorkKept ==
    \A t \in Tasks :
        entry[t].owner = Runner \/ hosted[t] = "running" => Exists(t) /\ "refs" \in held[t]

\* A recovery marker does not stay: the submission is handed over or undone.
MarkersResolved == \A t \in Tasks : Pending(rec[t]) ~> ~Pending(rec[t])

HandedOver(t) == Complete(t) \/ (t \in Frozen /\ node[t] # "waiting")
\* What was submitted runs: from the handoff on, the turn ends on its host and is
\* retired; and a claimed node is submitted at last.
SubmittedRuns ==
    \A t \in Tasks : HandedOver(t) ~> (hosted[t] = "done" /\ rec[t].st = "done" /\ entry[t].st = "none")
=============================================================================
